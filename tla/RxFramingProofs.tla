-------------------------- MODULE RxFramingProofs --------------------------
(***************************************************************************)
(* The receiver's framing for every frame size, bit loading and window,    *)
(* however the blocks are called and however many frames are received.     *)
(*                                                                         *)
(* Symbols, bits and rates are numbered from the first one received.  What *)
(* a stream holds and what the blocks remember is then determined by how   *)
(* many items are still in the streams, and the streams that meet in a     *)
(* block continue at the same number.                                      *)
(***************************************************************************)
EXTENDS RxFraming, BasicLemmas

(* The bits of each of the frames with these loads, all of them, and how   *)
(* many those of the first f frames are.                                   *)
RefBit == [kind : {"data"}, frame : Nat, pos : Nat]

FrameBits(l) == [f \in 1..Len(l) |-> DataBits(f, l[f] * (frame_size - 1))]

AllBits(l) == Joined(FrameBits(l), Len(l))

At(l, f) == End(FrameBits(l), f)

(* The bits of the first c symbols.                                        *)
BitsBefore(l, c) ==
  At(l, c \div frame_size)
    + (IF c % frame_size \in {0, 1} THEN 0
       ELSE ((c % frame_size) - 1) * l[(c \div frame_size) + 1])

(* Whether bit n was inverted.  The zeros before the first bit were not.   *)
Inverted(l, n) == n >= 1 /\ <<AllBits(l)[n].frame, AllBits(l)[n].pos>> \in Wrong

(* The rate of the window that ends with bit n.                            *)
InWindow(l, n) ==
  {k \in 1..n : k > n - sliding_window_length /\ Inverted(l, k)}

Window(l, n) ==
  [bits |-> sliding_window_length, errs |-> Cardinality(InWindow(l, n))]

(* What the streams carry: the n-th frame, symbol, bit, rate and trigger.  *)
FrameOf(n) == ((n - 1) \div frame_size) + 1

SampleAt ==
  [n \in Nat \ {0} |-> [frame |-> FrameOf(n), pos |-> (n - 1) % frame_size]]

SymbolAt ==
  [n \in Nat \ {0} |-> [frame |-> FrameOf(n), pos |-> (n - 1) % frame_size,
                        power |-> FrameOf(n)]]

DataAt(l) ==
  [n \in Nat |-> [frame |-> AllBits(l)[n].frame, pos |-> AllBits(l)[n].pos,
                  map |-> AllBits(l)[n].frame, power |-> AllBits(l)[n].frame]]

RateAt(l) == [n \in Nat |-> Window(l, n)]

TriggerAt(l) == [n \in Nat |-> \E f \in 1..Len(l) : n = At(l, f)]

-----------------------------------------------------------------------------
(* The inductive invariant.                                                *)

(* Frames whose item one of the streams of settings has handed on.         *)
Taken(s) == decoded - Len(buf[s])

(* Symbols taken by multiply_frame_fc and by the demapper.                 *)
Scaled == Len(load) * frame_size - Len(buf["samples"])
Demapped == Scaled - Len(buf["symbols"])

(* Bits measured, and bits whose rate and trigger the sampler has taken.   *)
Measured == At(load, Taken("ref")) - Len(buf["refdata"])
Sampled == Measured - Len(buf["rates"])

DataTypes == buf["data"] \in Seq(Bit) /\ buf["refdata"] \in Seq(RefBit)

FrameStreams ==
  \A s \in Settings :
    Taken(s) \in Nat /\ Segment(buf[s], FrameAt, Taken(s))

SampleStream == Scaled \in Nat /\ Segment(buf["samples"], SampleAt, Scaled)

PowerHeld ==
  /\ power.hold = Taken("pow")
  /\ Scaled = Taken("pow") * frame_size - power.counter

SymbolStream == Demapped \in Nat /\ Segment(buf["symbols"], SymbolAt, Demapped)

(* The demapper after c symbols and m bit loadings.                        *)
AfterSymbols(c, m, counter, bitmap) ==
  /\ counter = c % frame_size
  /\ IF counter \in {0, 1} THEN m = c \div frame_size
     ELSE m = (c \div frame_size) + 1 /\ bitmap = m

BitmapHeld == AfterSymbols(Demapped, Taken("map"), demapper.counter, demapper.bitmap)

DataStream ==
  /\ Measured + Len(buf["data"]) = BitsBefore(load, Demapped)
  /\ Segment(buf["data"], DataAt(load), Measured)

RefStream == Measured \in Nat /\ Segment(buf["refdata"], AllBits(load), Measured)

WindowHeld ==
  /\ ber.rate = Window(load, Measured)
  /\ \A b \in 1..sliding_window_length :
       ber.history[b] =
         IF Inverted(load, Measured - sliding_window_length + b) THEN 1 ELSE 0

RateStream == Sampled \in Nat /\ Segment(buf["rates"], RateAt(load), Sampled)

TriggerStream ==
  /\ Sampled + Len(buf["trigger"]) = At(load, Taken("count")) + d_produced
  /\ Segment(buf["trigger"], TriggerAt(load), Sampled)

(* As many frames are published as end with a bit up to n.                 *)
EndedBy(l, e, n) ==
  /\ e \in 0..Len(l)
  /\ At(l, e) <= n
  /\ e < Len(l) => n < At(l, e + 1)

Published ==
  /\ EndedBy(load, Len(out), Sampled)
  /\ \A f \in 1..Len(out) : out[f] = Window(load, At(load, f))

IndInv ==
  /\ TypeOK
  /\ DataTypes
  /\ FrameStreams
  /\ SampleStream
  /\ PowerHeld
  /\ SymbolStream
  /\ BitmapHeld
  /\ DataStream
  /\ RefStream
  /\ WindowHeld
  /\ RateStream
  /\ TriggerStream
  /\ Published

-----------------------------------------------------------------------------
(* The four names are expanded in every proof.                             *)
USE DEF Settings

(* The frames' bits.                                                       *)

LEMMA Sizes ==
  /\ frame_size \in Nat /\ frame_size >= 2 /\ frame_size - 1 \in Nat \ {0}
  /\ sliding_window_length \in Nat \ {0}
  /\ Loads \subseteq Nat \ {0}
BY FrameAssumption, RxAssumption

LEMMA FrameBitsType ==
  ASSUME NEW l \in Seq(Loads)
  PROVE  /\ Len(l) \in Nat
         /\ FrameBits(l) \in [1..Len(l) -> Seq(RefBit)]
         /\ \A f \in 1..Len(l) :
              /\ l[f] \in Nat \ {0}
              /\ l[f] * (frame_size - 1) \in Nat \ {0}
              /\ FrameBits(l)[f] = DataBits(f, l[f] * (frame_size - 1))
              /\ Len(FrameBits(l)[f]) = l[f] * (frame_size - 1)
<1>1. Len(l) \in Nat
  BY LenProperties
<1>2. ASSUME NEW f \in 1..Len(l)
      PROVE  /\ l[f] \in Nat \ {0}
             /\ l[f] * (frame_size - 1) \in Nat \ {0}
             /\ DataBits(f, l[f] * (frame_size - 1)) \in Seq(RefBit)
             /\ Len(DataBits(f, l[f] * (frame_size - 1))) = l[f] * (frame_size - 1)
  <2>1. l[f] \in Loads
    BY ElementOfSeq
  <2>2. l[f] \in Nat \ {0}
    BY <2>1, Sizes
  <2> DEFINE b == l[f]
             n == b * (frame_size - 1)
  <2>3. n \in Nat \ {0}
    <3>1. b \in Nat /\ 1 <= b /\ frame_size - 1 \in Nat /\ 1 <= frame_size - 1
      BY <2>2, Sizes
    <3> HIDE DEF b
    <3> DEFINE d == frame_size - 1
    <3>2. d \in Nat /\ 1 <= d
      BY <3>1
    <3> HIDE DEF d
    <3>3. b * 1 <= b * d /\ b * d \in Nat /\ b * 1 = b
      BY <3>1, <3>2, TimesMonotonic
    <3>4. b * d >= 1
      BY <3>1, <3>3
    <3> QED
      BY <3>3, <3>4 DEF d
  <2> HIDE DEF n
  <2>4. DataBits(f, n) \in Seq(RefBit) /\ Len(DataBits(f, n)) = n
    BY <1>1, <2>3 DEF DataBits, RefBit
  <2> QED
    BY <2>2, <2>3, <2>4 DEF n
<1> QED
  BY <1>1, <1>2 DEF FrameBits

LEMMA AtSucc ==
  ASSUME NEW l \in Seq(Loads), NEW f \in 0..(Len(l) - 1)
  PROVE  /\ At(l, f) \in Nat /\ At(l, f + 1) \in Nat
         /\ At(l, f + 1) = At(l, f) + l[f + 1] * (frame_size - 1)
         /\ At(l, f) < At(l, f + 1)
<1>1. /\ Len(l) \in Nat /\ FrameBits(l) \in [1..Len(l) -> Seq(RefBit)]
      /\ f + 1 \in 1..Len(l)
  BY FrameBitsType
<1>2. /\ l[f + 1] * (frame_size - 1) \in Nat \ {0}
      /\ Len(FrameBits(l)[f + 1]) = l[f + 1] * (frame_size - 1)
  BY <1>1, FrameBitsType
<1> DEFINE s == FrameBits(l)
           n == Len(l)
<1>3. n \in Nat /\ s \in [1..n -> Seq(RefBit)] /\ f \in 0..(n - 1)
  BY <1>1
<1> HIDE DEF s, n
<1>4. End(s, f) \in Nat /\ End(s, f + 1) = End(s, f) + Len(s[f + 1])
  BY SMTT(30), <1>3, JoinedSucc
<1> QED
  BY <1>2, <1>4 DEF s, n, At

LEMMA AtNone == \A l : At(l, 0) = 0
BY JoinedNone DEF At

LEMMA AtMonotonic ==
  ASSUME NEW l \in Seq(Loads), NEW f \in 0..Len(l), NEW g \in f..Len(l)
  PROVE  /\ At(l, f) \in Nat /\ At(l, g) \in Nat
         /\ At(l, f) <= At(l, g)
         /\ f < g => At(l, f) < At(l, g)
<1> DEFINE s == FrameBits(l)
           n == Len(l)
<1>1. n \in Nat /\ s \in [1..n -> Seq(RefBit)] /\ f \in 0..n /\ g \in f..n
  BY FrameBitsType
<1> HIDE DEF s, n
<1>2. g \in 0..n
  BY <1>1
<1>3. End(s, f) \in Nat /\ End(s, g) \in Nat
  BY <1>1, <1>2, JoinedType
<1>4. End(s, f) <= End(s, g)
  BY <1>1, JoinedPrefix
<1>5. ASSUME f < g PROVE End(s, f) < End(s, g)
  <2>1. f \in 0..(n - 1) /\ f + 1 \in 0..n /\ g \in (f + 1)..n
    BY <1>1, <1>5
  <2>2. At(l, f) < At(l, f + 1) /\ At(l, f + 1) \in Nat
    BY <2>1, AtSucc DEF n
  <2>3. End(s, f + 1) <= End(s, g)
    BY <1>1, <2>1, JoinedPrefix
  <2> QED
    BY <1>3, <2>2, <2>3 DEF At, s
<1> QED
  BY <1>3, <1>4, <1>5 DEF At, s

LEMMA BitAt ==
  ASSUME NEW l \in Seq(Loads), NEW f \in 0..(Len(l) - 1),
         NEW b \in 1..(l[f + 1] * (frame_size - 1))
  PROVE  /\ AllBits(l)[At(l, f) + b] = [kind |-> "data", frame |-> f + 1, pos |-> b]
         /\ At(l, f) + b \in 1..At(l, Len(l))
<1> DEFINE s == FrameBits(l)
           n == Len(l)
<1>1. n \in Nat /\ s \in [1..n -> Seq(RefBit)] /\ f \in 0..(n - 1)
      /\ f + 1 \in 1..n /\ n \in (f + 1)..n
  BY FrameBitsType
<1>2. s[f + 1] = DataBits(f + 1, l[f + 1] * (frame_size - 1))
      /\ Len(s[f + 1]) = l[f + 1] * (frame_size - 1)
  BY <1>1, FrameBitsType
<1>3. b \in 1..Len(s[f + 1])
  BY <1>2
<1>4. s[f + 1][b] = [kind |-> "data", frame |-> f + 1, pos |-> b]
  BY <1>2 DEF DataBits
<1> HIDE DEF s, n
<1>5. Joined(s, n)[End(s, f) + b] = s[f + 1][b] /\ End(s, f) + b \in 1..End(s, n)
  BY <1>1, <1>3, JoinedAt
<1> QED
  BY <1>4, <1>5 DEF AllBits, At, s, n

(* A further frame leaves the bits of the others where they are.           *)
LEMMA Grow ==
  ASSUME NEW l \in Seq(Loads), NEW x \in Loads
  PROVE  /\ Append(l, x) \in Seq(Loads)
         /\ Len(Append(l, x)) = Len(l) + 1
         /\ \A f \in 1..Len(l) : Append(l, x)[f] = l[f]
         /\ \A f \in 0..Len(l) : At(Append(l, x), f) = At(l, f)
         /\ \A n \in 1..At(l, Len(l)) : AllBits(Append(l, x))[n] = AllBits(l)[n]
<1> DEFINE m == Append(l, x)
           n == Len(l)
<1>1. /\ m \in Seq(Loads) /\ Len(m) = n + 1 /\ n \in Nat
      /\ \A f \in 1..n : m[f] = l[f]
  BY AppendProperties, LenProperties
<1> HIDE DEF m
<1>2. \A f \in 1..n : FrameBits(m)[f] = FrameBits(l)[f]
  BY <1>1 DEF FrameBits
<1>3. ASSUME NEW f \in 0..n
      PROVE  Joined(FrameBits(m), f) = Joined(FrameBits(l), f)
             /\ End(FrameBits(m), f) = End(FrameBits(l), f)
  <2>1. \A g \in 1..f : FrameBits(m)[g] = FrameBits(l)[g]
    BY <1>1, <1>2
  <2> QED
    BY <2>1, JoinedSame
<1>4. \A k \in 1..End(FrameBits(l), n) : Joined(FrameBits(m), n + 1)[k] = Joined(FrameBits(l), n)[k]
  <2> DEFINE s == FrameBits(m)
             e == n + 1
  <2>1. e \in Nat /\ s \in [1..e -> Seq(RefBit)] /\ n \in 0..e /\ e \in n..e
    BY <1>1, FrameBitsType
  <2> HIDE DEF s, e
  <2>2. \A k \in 1..End(s, n) : Joined(s, e)[k] = Joined(s, n)[k]
    BY ZenonT(60), <2>1, JoinedPrefix
  <2>3. n \in 0..n
    BY <1>1
  <2> QED
    BY <1>3, <2>2, <2>3 DEF s, e
<1> QED
  BY <1>1, <1>3, <1>4 DEF At, AllBits, m

(* Symbol c, from 0, is symbol r of frame q + 1.                           *)
LEMMA SymbolBits ==
  ASSUME NEW l \in Seq(Loads), NEW c \in Nat, c < Len(l) * frame_size,
         NEW q, NEW r, q = c \div frame_size, r = c % frame_size
  PROVE  /\ q \in 0..(Len(l) - 1) /\ q + 1 \in 1..Len(l)
         /\ r \in 0..(frame_size - 1)
         /\ l[q + 1] \in Nat \ {0}
         /\ BitsBefore(l, c) \in Nat
         /\ BitsBefore(l, c)
              = At(l, q) + (IF r = 0 THEN 0 ELSE (r - 1) * l[q + 1])
         /\ BitsBefore(l, c + 1)
              = BitsBefore(l, c) + (IF r = 0 THEN 0 ELSE l[q + 1])
         /\ BitsBefore(l, c) <= At(l, Len(l))
         /\ r # 0 => \A b \in 1..l[q + 1] :
              (r - 1) * l[q + 1] + b \in 1..(l[q + 1] * (frame_size - 1))
<1> DEFINE F == frame_size
           n == Len(l)
           x == l[q + 1]
           y == (r - 1) * x
           z == x * (F - 1)
<1>1. F \in Nat /\ F >= 2 /\ F \in Nat \ {0} /\ n \in Nat /\ F - 1 \in Nat
  BY Sizes, FrameBitsType
<1>2. c = F * q + r /\ q \in Nat /\ r \in 0..(F - 1)
  BY <1>1, DivMod
<1>3. q < n
  <2>1. n * F = F * n
    BY <1>1
  <2>2. F * q \in Nat
    BY <1>1, <1>2
  <2> DEFINE v == F * q
             w == F * n
  <2>3. c = v + r /\ v \in Nat /\ c < w /\ w \in Nat
    BY <1>1, <1>2, <2>1, <2>2
  <2> HIDE DEF v, w
  <2>4. v < w
    BY <1>2, <2>3
  <2> QED
    BY <1>1, <1>2, <2>4, TimesCancel DEF v, w
<1>4. q \in 0..(n - 1) /\ q + 1 \in 1..n
  BY <1>1, <1>2, <1>3
<1>5. x \in Nat \ {0}
  BY <1>4, FrameBitsType
<1>6. At(l, q) \in Nat /\ At(l, q + 1) = At(l, q) + z
  BY <1>4, AtSucc
<1>7. z \in Nat /\ y \in Int /\ (r # 0 => y \in Nat /\ y + x <= z)
      /\ (r = F - 1 => y + x = z)
  <2> HIDE DEF x
  <2>1. z \in Nat /\ y \in Int
    BY <1>1, <1>2, <1>5
  <2>2. ASSUME r # 0 PROVE y \in Nat /\ y + x <= z
    <3>1. r - 1 \in Nat /\ r \in Nat /\ r <= F - 1
      BY <1>2, <2>2
    <3> DEFINE a == r - 1
    <3>2. y \in Nat
      <4>1. a \in Nat /\ y = a * x
        BY <3>1
      <4> HIDE DEF a, y
      <4> QED
        BY <1>5, <4>1
    <3>3. x * r <= x * (F - 1)
      BY <1>1, <1>5, <3>1, TimesMonotonic
    <3>4. y + x = x * r
      BY <1>2, <1>5
    <3> QED
      BY <3>2, <3>3, <3>4
  <2>3. ASSUME r = F - 1 PROVE y + x = z
    BY <1>1, <1>2, <1>5, <2>3
  <2> QED
    BY <2>1, <2>2, <2>3
<1>8. y = 0 \/ r # 1
  BY <1>5
<1>9. BitsBefore(l, c) = At(l, q) + (IF r = 0 THEN 0 ELSE y)
  <2>1. BitsBefore(l, c) = At(l, q) + (IF r \in {0, 1} THEN 0 ELSE y)
    BY DEF BitsBefore
  <2> HIDE DEF x, y
  <2> QED
    BY <1>2, <1>8, <2>1
<1>10. IF r = F - 1
       THEN (c + 1) \div F = q + 1 /\ (c + 1) % F = 0
       ELSE (c + 1) \div F = q /\ (c + 1) % F = r + 1
  BY <1>1, DivModSucc
<1>11. BitsBefore(l, c + 1) = BitsBefore(l, c) + (IF r = 0 THEN 0 ELSE x)
  <2>1. CASE r = F - 1
    <3>1. BitsBefore(l, c + 1) = At(l, q + 1) + 0
      BY <1>10, <2>1 DEF BitsBefore
    <3>2. r # 0
      BY <1>1, <2>1
    <3> HIDE DEF x, y, z, F
    <3> QED
      BY SMTT(30), <1>5, <1>6, <1>7, <1>9, <2>1, <3>1, <3>2
  <2>2. CASE r # F - 1
    <3> DEFINE w == ((r + 1) - 1) * x
    <3>1. BitsBefore(l, c + 1) = At(l, q) + (IF r + 1 \in {0, 1} THEN 0 ELSE w)
      BY <1>10, <2>2 DEF BitsBefore
    <3>2. w = y + x
      <4> HIDE DEF x
      <4> QED
        BY <1>2, <1>5
    <3> HIDE DEF x, y, z, w
    <3>3. CASE r = 0
      BY <1>6, <1>9, <3>1, <3>3
    <3>4. CASE r # 0
      <4>1. r + 1 \notin {0, 1}
        BY <1>2, <3>4
      <4> QED
        BY <1>5, <1>6, <1>7, <1>9, <3>1, <3>2, <3>4, <4>1
    <3> QED
      BY <3>3, <3>4
  <2> QED
    BY <2>1, <2>2
<1>12. BitsBefore(l, c) \in Nat /\ BitsBefore(l, c) <= At(l, n)
  <2>1. At(l, q + 1) <= At(l, n) /\ At(l, n) \in Nat /\ At(l, q + 1) \in Nat
    <3>1. q + 1 \in 0..n /\ n \in (q + 1)..n
      BY <1>1, <1>4
    <3> QED
      BY <3>1, AtMonotonic
  <2> HIDE DEF x, y, z, n
  <2> QED
    BY <1>5, <1>6, <1>7, <1>9, <2>1
<1>13. ASSUME r # 0, NEW b \in 1..x PROVE y + b \in 1..z
  <2>1. y \in Nat /\ y + x <= z /\ z \in Nat /\ b \in Nat /\ b <= x /\ 1 <= b
    BY <1>5, <1>7, <1>13
  <2> HIDE DEF x, y, z
  <2> QED
    BY <1>5, <2>1
<1> QED
  BY <1>2, <1>4, <1>5, <1>9, <1>11, <1>12, <1>13

LEMMA BitsBeforeType ==
  ASSUME NEW l \in Seq(Loads), NEW c \in Nat, c <= Len(l) * frame_size
  PROVE  BitsBefore(l, c) \in Nat /\ BitsBefore(l, c) <= At(l, Len(l))
<1>1. CASE c < Len(l) * frame_size
  BY <1>1, SymbolBits
<1>2. CASE c = Len(l) * frame_size
  <2> DEFINE F == frame_size
             n == Len(l)
  <2>1. n \in Nat /\ F \in Nat \ {0} /\ 0 \in 0..(F - 1)
    BY Sizes, FrameBitsType
  <2>2. c = F * n + 0
    BY <1>2, <2>1
  <2>3. (F * n + 0) \div F = n /\ (F * n + 0) % F = 0
    BY <2>1, DivModIs
  <2>4. At(l, n) \in Nat
    BY <2>1, AtMonotonic
  <2>5. BitsBefore(l, c) = At(l, n) + 0
    BY <2>2, <2>3 DEF BitsBefore
  <2> QED
    BY <2>4, <2>5
<1>3. Len(l) * frame_size \in Nat
  BY Sizes, FrameBitsType
<1> QED
  BY <1>1, <1>2, <1>3

(* What the streams carry does not change with a further frame.            *)
SameUpTo(m, l, e) ==
  /\ \A n \in 1..e : DataAt(m)[n] = DataAt(l)[n]
  /\ \A n \in Int : n <= e => (Inverted(m, n) <=> Inverted(l, n))
  /\ \A n \in 0..e : RateAt(m)[n] = RateAt(l)[n] /\ Window(m, n) = Window(l, n)
  /\ \A n \in 0..e : TriggerAt(m)[n] = TriggerAt(l)[n]

LEMMA GrowStreams ==
  ASSUME NEW l \in Seq(Loads), NEW x \in Loads,
         NEW m, m = Append(l, x), NEW e, e = At(l, Len(l))
  PROVE  /\ e \in Nat
         /\ SameUpTo(m, l, e)
         /\ \A c \in Nat : c <= Len(l) * frame_size =>
              BitsBefore(m, c) = BitsBefore(l, c)
<1> DEFINE n == Len(l)
<1>1. /\ m \in Seq(Loads) /\ n \in Nat /\ Len(m) = n + 1
      /\ \A f \in 1..n : m[f] = l[f]
      /\ \A f \in 0..n : At(m, f) = At(l, f)
      /\ \A k \in 1..e : AllBits(m)[k] = AllBits(l)[k]
  BY Grow, FrameBitsType
<1>2. e \in Nat
  <2>1. n \in 0..n /\ n \in n..n
    BY <1>1
  <2> QED
    BY <2>1, AtMonotonic
<1>3. \A k \in 1..e : DataAt(m)[k] = DataAt(l)[k]
  BY <1>1, <1>2 DEF DataAt
<1>4. \A k \in Int : k <= e => (Inverted(m, k) <=> Inverted(l, k))
  BY <1>1, <1>2 DEF Inverted
<1>5. ASSUME NEW k \in 0..e
      PROVE  RateAt(m)[k] = RateAt(l)[k] /\ Window(m, k) = Window(l, k)
  <2>1. \A i \in 1..k : Inverted(m, i) <=> Inverted(l, i)
    BY <1>2, <1>4
  <2>2. InWindow(m, k) = InWindow(l, k)
    BY <2>1 DEF InWindow
  <2>3. Window(m, k) = Window(l, k)
    BY <2>2 DEF Window
  <2> QED
    BY <1>2, <2>3 DEF RateAt
<1>6. ASSUME NEW k \in 0..e PROVE TriggerAt(m)[k] = TriggerAt(l)[k]
  <2>1. At(m, n + 1) > e /\ At(m, n + 1) \in Nat
    <3>1. n \in 0..(n + 1) /\ n + 1 \in n..(n + 1) /\ n < n + 1 /\ n \in 0..n
      BY <1>1
    <3>2. At(m, n) = e
      BY <1>1, <3>1
    <3> QED
      BY <1>1, <1>2, <3>1, <3>2, AtMonotonic
  <2>2. k # At(m, n + 1) /\ 1..Len(m) = (1..n) \cup {n + 1}
    BY <1>1, <1>2, <2>1
  <2>3. (\E f \in 1..Len(m) : k = At(m, f)) <=> (\E f \in 1..n : k = At(m, f))
    BY <2>2
  <2>4. \A f \in 1..n : At(m, f) = At(l, f)
    BY <1>1
  <2>5. (\E f \in 1..n : k = At(m, f)) <=> (\E f \in 1..n : k = At(l, f))
    BY <2>4
  <2>6. k \in Nat
    BY <1>2
  <2> QED
    BY <2>3, <2>5, <2>6 DEF TriggerAt
<1>7. ASSUME NEW c \in Nat, c <= n * frame_size
      PROVE  BitsBefore(m, c) = BitsBefore(l, c)
  <2> DEFINE F == frame_size
             q == c \div F
             r == c % F
  <2>1. F \in Nat \ {0} /\ c = F * q + r /\ q \in Nat /\ r \in 0..(F - 1)
    <3>1. F \in Nat \ {0}
      BY Sizes
    <3> QED
      BY <3>1, DivMod
  <2> HIDE DEF q, r
  <2>2. q \in 0..n /\ (r \notin {0, 1} => q + 1 \in 1..n)
    <3> DEFINE v == F * q
               w == F * n
    <3>1. v \in Nat /\ w \in Nat /\ c = v + r /\ c <= w
      <4>1. n * F = F * n
        BY <1>1, <2>1
      <4> QED
        BY <1>1, <1>7, <2>1, <4>1
    <3>2. v = w \/ v < w
      <4> HIDE DEF v, w
      <4> QED
        BY <2>1, <3>1
    <3>3. CASE v < w
      <4>1. q < n
        BY <1>1, <2>1, <3>3, TimesCancel
      <4> QED
        BY <1>1, <2>1, <4>1
    <3>4. CASE v = w
      <4>1. r = 0
        <5> HIDE DEF v, w
        <5> QED
          BY <2>1, <3>1, <3>4
      <4>2. ~(n < q)
        <5>1. SUFFICES ASSUME n < q PROVE FALSE
          OBVIOUS
        <5>2. n + 1 <= q
          BY <1>1, <2>1, <5>1
        <5>3. F * (n + 1) <= F * q
          BY <1>1, <2>1, <5>2, TimesMonotonic
        <5>4. F * (n + 1) = w + F
          BY <1>1, <2>1
        <5> HIDE DEF v, w
        <5>5. w + F <= v
          BY <5>3, <5>4 DEF v
        <5> QED
          BY <2>1, <3>1, <3>4, <5>5
      <4> QED
        BY <1>1, <2>1, <4>1, <4>2
    <3> QED
      BY <3>2, <3>3, <3>4
  <2>3. At(m, q) = At(l, q) /\ (r \notin {0, 1} => m[q + 1] = l[q + 1])
    BY <1>1, <2>2
  <2> QED
    BY <2>3 DEF BitsBefore, q, r
<1> QED
  BY <1>2, <1>3, <1>4, <1>5, <1>6, <1>7 DEF SameUpTo

-----------------------------------------------------------------------------
(* The initial states.                                                     *)

LEMMA WindowNone ==
  ASSUME NEW l
  PROVE  Window(l, 0) = [bits |-> sliding_window_length, errs |-> 0]
<1>1. InWindow(l, 0) = {}
  BY DEF InWindow
<1> QED
  BY <1>1, FS_EmptySet DEF Window

LEMMA InitInv == Init => IndInv
<1> SUFFICES ASSUME Init PROVE IndInv
  OBVIOUS
<1> USE DEF Init
<1>1. /\ \A s \in Streams : buf[s] = << >>
      /\ DOMAIN buf = Streams
      /\ Len(load) = 0 /\ decoded = 0 /\ Len(<< >>) = 0
  BY EmptySeq
<1>2. \A S : << >> \in Seq(S)
  BY EmptySeq
<1>3. load \in Seq(Loads) /\ load = << >> /\ out = << >>
  BY <1>2
<1>4. TypeOK
  <2>1. frame_size - 1 \in Nat /\ 0 \in 0..(frame_size - 1)
    BY Sizes
  <2>2. ber.rate \in Rate /\ ber.history \in [1..sliding_window_length -> {0, 1}]
    BY Sizes DEF Rate
  <2>3. power \in [hold : Nat, counter : 0..(frame_size - 1)]
    BY <2>1
  <2>4. demapper \in [bitmap : Nat, need_bitmap : {0, 1}, multiple : {1} \cup Loads,
                      counter : 0..(frame_size - 1)]
    BY <2>1
  <2> QED
    BY <1>1, <1>2, <2>2, <2>3, <2>4 DEF TypeOK, Streams
<1>5. DataTypes
  BY <1>1, <1>2 DEF DataTypes, Streams
<1>6. /\ \A s \in Streams : Taken(s) = 0
      /\ Scaled = 0 /\ Demapped = 0 /\ Measured = 0 /\ Sampled = 0
  <2>1. ASSUME NEW s \in Streams PROVE Taken(s) = 0
    <3>1. Len(buf[s]) = 0 /\ decoded = 0
      BY <1>1
    <3> HIDE DEF Init
    <3> QED
      BY <3>1 DEF Taken
  <2>2. 0 * frame_size = 0
    BY Sizes
  <2>3. Scaled = 0
    BY <1>1, <2>2 DEF Scaled, Streams
  <2>4. Demapped = 0
    <3>1. Len(buf["symbols"]) = 0 /\ Len(buf["rates"]) = 0
      BY <1>1 DEF Streams
    <3> HIDE DEF Init
    <3> QED
      BY <2>3, <3>1 DEF Demapped
  <2>5. Measured = 0
    BY <1>1, <2>1, AtNone DEF Measured, Streams
  <2>6. Sampled = 0
    <3>1. Len(buf["rates"]) = 0
      BY <1>1 DEF Streams
    <3> HIDE DEF Init
    <3> QED
      BY <2>5, <3>1 DEF Sampled
  <2> QED
    BY <2>1, <2>3, <2>4, <2>5, <2>6
<1>7. \A s \in Streams : \A g : Segment(buf[s], g, 0)
  BY <1>1 DEF Segment
<1>8. FrameStreams /\ SampleStream /\ SymbolStream
  BY <1>6, <1>7 DEF FrameStreams, SampleStream, SymbolStream, Streams
<1>9. PowerHeld
  BY <1>6, Sizes DEF PowerHeld, Streams
<1>10. 0 \div frame_size = 0 /\ 0 % frame_size = 0
  <2> DEFINE F == frame_size
  <2>1. F \in Nat \ {0} /\ 0 \in 0..(F - 1) /\ F * 0 + 0 = 0
    BY Sizes
  <2>2. (F * 0 + 0) \div F = 0 /\ (F * 0 + 0) % F = 0
    BY <2>1, DivModIs
  <2> QED
    BY <2>1, <2>2
<1>11. BitmapHeld
  BY <1>6, <1>10 DEF BitmapHeld, AfterSymbols, Streams
<1>12. BitsBefore(load, 0) = 0
  BY <1>10, AtNone DEF BitsBefore
<1>13. DataStream /\ RefStream /\ RateStream
  BY <1>1, <1>6, <1>7, <1>12 DEF DataStream, RefStream, RateStream, Streams
<1>14. WindowHeld
  <2>1. \A b \in 1..sliding_window_length :
          ~Inverted(load, 0 - sliding_window_length + b)
    BY Sizes DEF Inverted
  <2> QED
    BY <1>6, <2>1, WindowNone DEF WindowHeld
<1>15. TriggerStream
  BY <1>1, <1>6, <1>7, AtNone DEF TriggerStream, Streams
<1>16. Published
  BY <1>1, <1>3, <1>6, AtNone DEF Published, EndedBy
<1> QED
  BY <1>4, <1>5, <1>8, <1>9, <1>11, <1>13, <1>14, <1>15, <1>16 DEF IndInv

-----------------------------------------------------------------------------
(* What the invariant says of the lengths of the streams.                  *)
LEMMA Lengths ==
  ASSUME IndInv
  PROVE  /\ load \in Seq(Loads) /\ Len(load) \in Nat /\ DOMAIN buf = Streams
         /\ decoded \in Nat /\ decoded <= Len(load)
         /\ \A s \in Settings :
              /\ buf[s] \in Seq(Nat) /\ Len(buf[s]) \in Nat
              /\ Taken(s) \in 0..Len(load) /\ Taken(s) + Len(buf[s]) = decoded
              /\ Taken(s) \in Nat
         /\ buf["samples"] \in Seq(Sample) /\ Len(buf["samples"]) \in Nat
         /\ Len(load) * frame_size \in Nat
         /\ Scaled + Len(buf["samples"]) = Len(load) * frame_size
         /\ buf["symbols"] \in Seq(Symbol) /\ Len(buf["symbols"]) \in Nat
         /\ Demapped + Len(buf["symbols"]) = Scaled
         /\ buf["data"] \in Seq(Bit) /\ Len(buf["data"]) \in Nat
         /\ buf["refdata"] \in Seq(RefBit) /\ Len(buf["refdata"]) \in Nat
         /\ At(load, Taken("ref")) \in Nat /\ At(load, Len(load)) \in Nat
         /\ Measured + Len(buf["refdata"]) = At(load, Taken("ref"))
         /\ Measured \in Nat /\ At(load, Taken("ref")) <= At(load, Len(load))
         /\ Measured <= At(load, Len(load))
         /\ buf["rates"] \in Seq(Rate) /\ Len(buf["rates"]) \in Nat
         /\ Sampled + Len(buf["rates"]) = Measured
         /\ buf["trigger"] \in Seq(BOOLEAN) /\ Len(buf["trigger"]) \in Nat
         /\ out \in Seq(Rate) /\ Len(out) \in Nat
<1>1. /\ load \in Seq(Loads) /\ Len(load) \in Nat /\ DOMAIN buf = Streams
      /\ decoded \in 0..Len(load)
  BY FrameBitsType DEF IndInv, TypeOK
<1>2. ASSUME NEW s \in Settings
      PROVE  /\ buf[s] \in Seq(Nat) /\ Len(buf[s]) \in Nat
             /\ Taken(s) \in 0..Len(load) /\ Taken(s) + Len(buf[s]) = decoded
             /\ Taken(s) \in Nat
  <2>1. buf[s] \in Seq(Nat) /\ Taken(s) \in Nat
    BY DEF IndInv, TypeOK, FrameStreams
  <2>2. Len(buf[s]) \in Nat
    BY <2>1, LenProperties
  <2> DEFINE n == Len(load)
             q == Len(buf[s])
  <2>3. Taken(s) = decoded - q
    BY DEF Taken
  <2> HIDE DEF n, q
  <2>4. Taken(s) \in 0..n /\ Taken(s) + q = decoded
    BY <1>1, <2>1, <2>2, <2>3 DEF n, q
  <2> QED
    BY <2>1, <2>2, <2>4 DEF n, q
<1>3. /\ buf["samples"] \in Seq(Sample) /\ buf["symbols"] \in Seq(Symbol)
      /\ buf["data"] \in Seq(Bit) /\ buf["refdata"] \in Seq(RefBit)
      /\ buf["rates"] \in Seq(Rate) /\ buf["trigger"] \in Seq(BOOLEAN)
      /\ out \in Seq(Rate)
  BY DEF IndInv, TypeOK, DataTypes
<1>4. /\ Len(buf["samples"]) \in Nat /\ Len(buf["symbols"]) \in Nat
      /\ Len(buf["data"]) \in Nat /\ Len(buf["refdata"]) \in Nat
      /\ Len(buf["rates"]) \in Nat /\ Len(buf["trigger"]) \in Nat
      /\ Len(out) \in Nat
  BY <1>3, LenProperties
<1>5. Len(load) * frame_size \in Nat
  BY <1>1, Sizes
<1>6. /\ Scaled + Len(buf["samples"]) = Len(load) * frame_size
      /\ Demapped + Len(buf["symbols"]) = Scaled
      /\ Scaled \in Nat
  <2> DEFINE w == Len(load) * frame_size
  <2>1. Scaled \in Nat /\ Demapped \in Nat
    BY DEF IndInv, SampleStream, SymbolStream
  <2>2. Scaled = w - Len(buf["samples"]) /\ Demapped = Scaled - Len(buf["symbols"])
    BY DEF Scaled, Demapped
  <2>3. w \in Nat
    BY <1>5
  <2> HIDE DEF w
  <2>4. Scaled + Len(buf["samples"]) = w /\ Demapped + Len(buf["symbols"]) = Scaled
    BY <1>4, <2>1, <2>2, <2>3
  <2> QED
    BY <2>1, <2>4 DEF w
<1>7. At(load, Taken("ref")) \in Nat /\ At(load, Len(load)) \in Nat
      /\ At(load, Taken("ref")) <= At(load, Len(load))
  <2>1. Taken("ref") \in 0..Len(load) /\ Len(load) \in Taken("ref")..Len(load)
    BY <1>1, <1>2
  <2> QED
    BY <1>1, <2>1, AtMonotonic
<1>8. Measured \in Nat /\ Sampled \in Nat
  BY DEF IndInv, RefStream, RateStream
<1>9. /\ Measured + Len(buf["refdata"]) = At(load, Taken("ref"))
      /\ Measured <= At(load, Len(load))
      /\ Sampled + Len(buf["rates"]) = Measured
  <2> DEFINE e == At(load, Taken("ref"))
  <2>1. Measured = e - Len(buf["refdata"]) /\ Sampled = Measured - Len(buf["rates"])
    BY DEF Measured, Sampled
  <2>2. e \in Nat /\ e <= At(load, Len(load))
    BY <1>7
  <2> HIDE DEF e
  <2>3. /\ Measured + Len(buf["refdata"]) = e
        /\ Measured <= At(load, Len(load))
        /\ Sampled + Len(buf["rates"]) = Measured
    BY <1>4, <1>7, <1>8, <2>1, <2>2
  <2> QED
    BY <2>3 DEF e
<1> QED
  BY <1>1, <1>2, <1>3, <1>4, <1>5, <1>6, <1>7, <1>8, <1>9

-----------------------------------------------------------------------------
(* A frame is received.                                                    *)

LEMMA SymbolsSegment ==
  ASSUME NEW n \in Nat
  PROVE  /\ Symbols(n + 1) \in Seq(Sample)
         /\ Len(Symbols(n + 1)) = frame_size
         /\ Segment(Symbols(n + 1), SampleAt, n * frame_size)
<1> DEFINE F == frame_size
           q == Symbols(n + 1)
<1>1. F \in Nat \ {0} /\ F \in Nat
  BY Sizes
<1>2. \A j \in 1..F : j - 1 \in 0..(F - 1)
  BY <1>1
<1>3. q \in Seq(Sample) /\ Len(q) = F
      /\ \A j \in 1..F : q[j] = [frame |-> n + 1, pos |-> j - 1]
  BY <1>1, <1>2 DEF Symbols, Sample
<1> HIDE DEF q
<1>4. ASSUME NEW j \in 1..F PROVE q[j] = SampleAt[n * F + j]
  <2> DEFINE k == j - 1
             c == n * F + j
  <2>1. k \in 0..(F - 1) /\ c - 1 = F * n + k /\ c \in Nat \ {0}
    BY <1>1
  <2> HIDE DEF k, c
  <2>2. (F * n + k) \div F = n /\ (F * n + k) % F = k
    BY <1>1, <2>1, DivModIs
  <2>3. SampleAt[c] = [frame |-> n + 1, pos |-> k]
    BY <2>1, <2>2 DEF SampleAt, FrameOf
  <2> QED
    BY <1>3, <2>3 DEF k, c
<1> QED
  BY <1>3, <1>4 DEF q, Segment

LEMMA RecvFrameInv ==
  ASSUME IndInv, NEW x \in Loads, RecvFrame(x)
  PROVE  IndInv'
<1> DEFINE n == Len(load)
           m == load'
<1>0. /\ m = Append(load, x)
      /\ UNCHANGED <<decoded, power, demapper, ref_bitcount, ber, d_produced, out>>
  BY DEF RecvFrame
<1>1. /\ DOMAIN buf' = Streams
      /\ buf'["samples"] = buf["samples"] \o Symbols(n + 1)
      /\ \A s \in Streams \ {"samples"} : buf'[s] = buf[s]
  BY Lengths DEF RecvFrame, Streams
<1> DEFINE e == At(load, n)
<1>2. /\ m \in Seq(Loads) /\ n \in Nat /\ Len(m) = n + 1 /\ load \in Seq(Loads)
      /\ \A f \in 1..n : m[f] = load[f]
      /\ \A f \in 0..n : At(m, f) = At(load, f)
      /\ \A k \in 1..e : AllBits(m)[k] = AllBits(load)[k]
  BY <1>0, Grow, Lengths
<1>3. /\ e \in Nat
      /\ \A k \in 1..e : DataAt(m)[k] = DataAt(load)[k]
      /\ \A k \in Int : k <= e => (Inverted(m, k) <=> Inverted(load, k))
      /\ \A k \in 0..e : RateAt(m)[k] = RateAt(load)[k] /\ Window(m, k) = Window(load, k)
      /\ \A k \in 0..e : TriggerAt(m)[k] = TriggerAt(load)[k]
      /\ \A c \in Nat : c <= n * frame_size => BitsBefore(m, c) = BitsBefore(load, c)
  <2> DEFINE l == load
  <2>1. m = Append(l, x) /\ e = At(l, Len(l)) /\ l \in Seq(Loads)
    BY <1>0, <1>2
  <2> HIDE DEF m, e, l
  <2>2. /\ e \in Nat
        /\ SameUpTo(m, l, e)
        /\ \A c \in Nat : c <= Len(l) * frame_size => BitsBefore(m, c) = BitsBefore(l, c)
    BY <2>1, GrowStreams
  <2> QED
    BY <2>2 DEF l, SameUpTo
<1>4. \A s \in Settings : buf'[s] = buf[s] /\ Taken(s)' = Taken(s)
  BY <1>0, <1>1 DEF Streams, Taken
<1>5. /\ buf'["samples"] \in Seq(Sample)
      /\ Len(buf'["samples"]) = Len(buf["samples"]) + frame_size
      /\ Scaled' = Scaled
      /\ Segment(buf'["samples"], SampleAt, Scaled)
  <2> DEFINE q == buf["samples"]
             p == Symbols(n + 1)
             w == n * frame_size
  <2>1. /\ q \in Seq(Sample) /\ Len(q) \in Nat /\ Scaled + Len(q) = w /\ w \in Nat
        /\ Scaled \in Nat /\ Segment(q, SampleAt, Scaled)
    BY Lengths DEF IndInv, SampleStream
  <2>2. p \in Seq(Sample) /\ Len(p) = frame_size /\ Segment(p, SampleAt, w)
    BY <1>2, SymbolsSegment
  <2>3. (n + 1) * frame_size = w + frame_size
    BY <1>2, Sizes
  <2>4. Scaled' = (n + 1) * frame_size - Len(q \o p)
    BY <1>1, <1>2 DEF Scaled
  <2>5. Scaled = w - Len(q)
    BY DEF Scaled
  <2> HIDE DEF q, p, w
  <2>6. q \o p \in Seq(Sample) /\ Len(q \o p) = Len(q) + frame_size
    BY <2>1, <2>2, ConcatProperties
  <2>7. Segment(q \o p, SampleAt, Scaled)
    BY <2>1, <2>2, SegmentConcat
  <2>8. Scaled' = Scaled
    BY <2>1, <2>3, <2>4, <2>5, <2>6, Sizes
  <2> QED
    BY <1>1, <2>6, <2>7, <2>8 DEF q, p
<1>6. /\ buf'["symbols"] = buf["symbols"] /\ buf'["data"] = buf["data"]
      /\ buf'["refdata"] = buf["refdata"] /\ buf'["rates"] = buf["rates"]
      /\ buf'["trigger"] = buf["trigger"]
  BY <1>1 DEF Streams
<1>7. Demapped' = Demapped
  BY <1>5, <1>6 DEF Demapped
<1>8. Taken("ref") \in 0..n /\ Taken("count") \in 0..n
  BY Lengths
<1>9. Measured' = Measured
  BY <1>2, <1>4, <1>6, <1>8 DEF Measured
<1>10. Sampled' = Sampled
  BY <1>6, <1>9 DEF Sampled
<1>11. TypeOK'
  <2>1. IF buf["count"] = << >> THEN d_produced = 0
        ELSE d_produced < m[buf["count"][1]] * (frame_size - 1)
    <3> DEFINE q == buf["count"]
    <3>1. /\ q \in Seq(Nat) /\ Len(q) \in Nat /\ Taken("count") + Len(q) = decoded
          /\ Taken("count") \in Nat /\ decoded \in Nat /\ decoded <= n
      BY Lengths
    <3>2. IF q = << >> THEN d_produced = 0
          ELSE d_produced < load[q[1]] * (frame_size - 1)
      BY DEF IndInv, TypeOK, BitCount
    <3>3. ASSUME q # << >> PROVE q[1] \in 1..n
      <4>1. Len(q) \in Nat \ {0}
        BY <3>1, <3>3, EmptySeq
      <4>2. Segment(q, FrameAt, Taken("count")) /\ 1 \in 1..Len(q)
        BY <4>1 DEF IndInv, FrameStreams
      <4>3. Taken("count") + 1 \in Nat
        BY <3>1
      <4>4. q[1] = Taken("count") + 1
        BY <4>2, <4>3 DEF Segment, FrameAt
      <4> HIDE DEF q
      <4> QED
        BY <1>2, <3>1, <4>1, <4>4
    <3> QED
      BY <1>2, <3>2, <3>3
  <2>2. decoded \in 0..Len(m)
    <3>1. decoded \in Nat /\ decoded <= n /\ n \in Nat /\ Len(m) = n + 1
      BY <1>2, Lengths
    <3> HIDE DEF m, n
    <3> QED
      BY <3>1
  <2> QED
    BY <1>0, <1>1, <1>2, <1>4, <1>5, <1>6, <2>1, <2>2
       DEF IndInv, TypeOK, BitCount
<1>12. DataTypes'
  BY <1>6 DEF IndInv, DataTypes
<1>13. FrameStreams'
  BY <1>4 DEF IndInv, FrameStreams
<1>14. SampleStream'
  BY <1>5 DEF IndInv, SampleStream
<1>15. PowerHeld'
  BY <1>0, <1>4, <1>5 DEF IndInv, PowerHeld
<1>16. SymbolStream'
  BY <1>6, <1>7 DEF IndInv, SymbolStream
<1>17. BitmapHeld'
  BY <1>0, <1>4, <1>7 DEF IndInv, BitmapHeld
<1>18. DataStream'
  <2> DEFINE q == buf["data"]
             c == Demapped
             a == Measured
  <2>1. /\ a + Len(q) = BitsBefore(load, c) /\ Segment(q, DataAt(load), a)
        /\ c \in Nat /\ a \in Nat
    BY DEF IndInv, DataStream, SymbolStream, RefStream
  <2>2. c <= n * frame_size /\ Len(q) \in Nat
    <3> DEFINE w == n * frame_size
    <3>1. /\ Scaled + Len(buf["samples"]) = w /\ Demapped + Len(buf["symbols"]) = Scaled
          /\ Len(buf["samples"]) \in Nat /\ Len(buf["symbols"]) \in Nat
          /\ w \in Nat /\ Len(q) \in Nat
      BY Lengths
    <3>2. Scaled \in Nat
      BY DEF IndInv, SampleStream
    <3> HIDE DEF w
    <3>3. c <= w
      BY <2>1, <3>1, <3>2
    <3> QED
      BY <3>1, <3>3 DEF w
  <2> HIDE DEF q, c, a
  <2>3. BitsBefore(load, c) <= e /\ BitsBefore(m, c) = BitsBefore(load, c)
    BY <1>2, <1>3, <2>1, <2>2, BitsBeforeType
  <2>4. \A k \in 1..Len(q) : a + k \in 1..e
    BY <1>3, <2>1, <2>2, <2>3
  <2>5. Segment(q, DataAt(m), a)
    BY <1>3, <2>1, <2>4, SegmentSame
  <2> QED
    BY <1>6, <1>7, <1>9, <2>1, <2>3, <2>5 DEF DataStream, q, c, a
<1>19. RefStream'
  <2> DEFINE q == buf["refdata"]
             a == Measured
  <2>1. a + Len(q) <= e /\ a \in Nat /\ Len(q) \in Nat /\ Segment(q, AllBits(load), a)
    BY Lengths DEF IndInv, RefStream
  <2> HIDE DEF q, a
  <2>2. \A k \in 1..Len(q) : a + k \in 1..e
    BY <1>3, <2>1
  <2>3. Segment(q, AllBits(m), a)
    BY <1>2, <2>1, <2>2, SegmentSame
  <2> QED
    BY <1>6, <1>9, <2>1, <2>3 DEF RefStream, q, a
<1>20. WindowHeld'
  <2> DEFINE a == Measured
             w == sliding_window_length
  <2>1. /\ ber.rate = Window(load, a)
        /\ \A b \in 1..w :
             ber.history[b] = IF Inverted(load, a - w + b) THEN 1 ELSE 0
    BY DEF IndInv, WindowHeld
  <2>2. a \in 0..e /\ w \in Nat
    BY <1>3, Lengths, Sizes
  <2> HIDE DEF a, w
  <2>3. \A b \in 1..w : a - w + b \in Int /\ a - w + b <= e
    BY <1>3, <2>2
  <2>4. \A b \in 1..w : Inverted(m, a - w + b) <=> Inverted(load, a - w + b)
    BY <1>3, <2>3
  <2>5. Window(m, a) = Window(load, a)
    BY <1>3, <2>2
  <2>6. \A b \in 1..w : ber.history[b] = IF Inverted(m, a - w + b) THEN 1 ELSE 0
    BY <2>1, <2>4
  <2> QED
    BY <1>0, <1>9, <2>1, <2>5, <2>6 DEF WindowHeld, a, w
<1>21. RateStream'
  <2> DEFINE q == buf["rates"]
             a == Sampled
  <2>1. a + Len(q) <= e /\ a \in Nat /\ Len(q) \in Nat /\ Segment(q, RateAt(load), a)
    BY Lengths DEF IndInv, RateStream
  <2> HIDE DEF q, a
  <2>2. \A k \in 1..Len(q) : a + k \in 0..e
    BY <1>3, <2>1
  <2>3. Segment(q, RateAt(m), a)
    BY <1>3, <2>1, <2>2, SegmentSame
  <2> QED
    BY <1>6, <1>10, <2>1, <2>3 DEF RateStream, q, a
<1>22. TriggerStream'
  <2> DEFINE q == buf["trigger"]
             a == Sampled
             t == Taken("count")
  <2>1. /\ a + Len(q) = At(load, t) + d_produced /\ a \in Nat /\ Len(q) \in Nat
        /\ Segment(q, TriggerAt(load), a)
        /\ d_produced \in Nat
    BY Lengths DEF IndInv, TriggerStream, RateStream, TypeOK
  <2>2. At(load, t) + d_produced <= e /\ At(load, t) \in Nat
    <3>1. t \in 0..n /\ At(load, t) \in Nat /\ At(load, t) <= e
      <4>1. t \in 0..n /\ n \in t..n
        BY <1>2, <1>8
      <4> QED
        BY <1>2, <4>1, AtMonotonic
    <3>2. CASE buf["count"] = << >>
      <4>1. d_produced = 0
        BY <3>2 DEF IndInv, TypeOK
      <4> QED
        BY <1>3, <3>1, <4>1
    <3>3. CASE buf["count"] # << >>
      <4>1. /\ buf["count"] \in Seq(Nat) /\ t + Len(buf["count"]) = decoded
            /\ decoded \in Nat /\ decoded <= n
            /\ Segment(buf["count"], FrameAt, t)
            /\ d_produced < load[buf["count"][1]] * (frame_size - 1)
        BY <3>3, Lengths DEF IndInv, FrameStreams, TypeOK, BitCount
      <4>2. buf["count"][1] = FrameAt[t + 1] /\ Len(buf["count"]) \in Nat \ {0}
        BY <3>1, <3>3, <4>1, SegmentTail
      <4>3. buf["count"][1] = t + 1 /\ t \in 0..(n - 1)
        BY <1>2, <3>1, <4>1, <4>2 DEF FrameAt
      <4> DEFINE d == d_produced
                 z == load[t + 1] * (frame_size - 1)
      <4>4. At(load, t + 1) = At(load, t) + z /\ At(load, t + 1) \in Nat
            /\ d < z /\ d \in Nat
        BY <1>2, <2>1, <4>1, <4>3, AtSucc
      <4>5. At(load, t + 1) <= e
        <5>1. t + 1 \in 0..n /\ n \in (t + 1)..n
          BY <1>2, <4>3
        <5> QED
          BY <1>2, <5>1, AtMonotonic
      <4>6. z \in Int
        <5>1. t + 1 \in 1..n
          BY <1>2, <4>3
        <5> QED
          BY <1>2, <5>1, FrameBitsType
      <4> HIDE DEF d, z, e, t
      <4>7. At(load, t) + d <= e
        BY <1>3, <3>1, <4>4, <4>5, <4>6
      <4> QED
        BY <3>1, <4>7 DEF d
    <3> QED
      BY <3>2, <3>3
  <2>3. At(m, t) = At(load, t) /\ Taken("count")' = t
    BY <1>2, <1>4, <1>8
  <2> HIDE DEF q, a, t
  <2>4. \A k \in 1..Len(q) : a + k \in 0..e
    BY <1>3, <2>1, <2>2
  <2>5. Segment(q, TriggerAt(m), a)
    BY <1>3, <2>1, <2>4, SegmentSame
  <2> QED
    BY <1>0, <1>6, <1>10, <2>1, <2>3, <2>5 DEF TriggerStream, q, a
<1>23. Published'
  <2> DEFINE o == Len(out)
             a == Sampled
  <2>1. EndedBy(load, o, a) /\ \A f \in 1..o : out[f] = Window(load, At(load, f))
    BY DEF IndInv, Published
  <2>2. a \in Nat /\ a <= e
    <3>1. /\ Sampled + Len(buf["rates"]) = Measured /\ Len(buf["rates"]) \in Nat
          /\ Measured <= e /\ Sampled \in Nat /\ Measured \in Nat
      BY Lengths DEF IndInv, RateStream
    <3> QED
      BY <1>3, <3>1
  <2> HIDE DEF o, a
  <2>3. EndedBy(m, o, a)
    <3>1. o \in 0..n /\ At(m, o) = At(load, o) /\ o \in 0..Len(m)
      BY <1>2, <2>1 DEF EndedBy
    <3>2. CASE o < n
      <4>1. o + 1 \in 0..n
        BY <1>2, <3>1, <3>2
      <4> QED
        BY <1>2, <2>1, <3>1, <3>2, <4>1 DEF EndedBy
    <3>3. CASE ~(o < n)
      <4>1. o = n /\ n \in 0..(n + 1) /\ n + 1 \in n..(n + 1) /\ n < n + 1
        BY <1>2, <3>1, <3>3
      <4>2. At(m, n) < At(m, n + 1) /\ At(m, n) \in Nat /\ At(m, n + 1) \in Nat
        BY <1>2, <4>1, AtMonotonic
      <4>3. At(m, n) = e
        BY <1>2, <4>1, <3>1
      <4>4. a < At(m, n + 1)
        BY <2>2, <1>3, <4>2, <4>3
      <4> QED
        BY <2>1, <3>1, <4>1, <4>4 DEF EndedBy
    <3> QED
      BY <3>2, <3>3
  <2>4. \A f \in 1..o : out[f] = Window(m, At(m, f))
    <3>1. SUFFICES ASSUME NEW f \in 1..o PROVE out[f] = Window(m, At(m, f))
      OBVIOUS
    <3>2. f \in 0..n /\ n \in f..n
      BY <1>2, <2>1 DEF EndedBy
    <3>3. At(load, f) \in 0..e
      BY <1>2, <3>2, AtMonotonic
    <3>4. Window(m, At(load, f)) = Window(load, At(load, f)) /\ At(m, f) = At(load, f)
      BY <1>2, <1>3, <3>2, <3>3
    <3> QED
      BY <2>1, <3>4
  <2> QED
    BY <1>0, <1>10, <2>3, <2>4 DEF Published, o, a
<1> QED
  BY <1>11, <1>12, <1>13, <1>14, <1>15, <1>16, <1>17, <1>18, <1>19, <1>20, <1>21,
     <1>22, <1>23 DEF IndInv

(* The id of a frame is decoded.                                            *)
LEMMA DecodeIdInv ==
  ASSUME IndInv, DecodeId
  PROVE  IndInv'
<1> DEFINE n == Len(load)
<1>0. /\ decoded' = decoded + 1 /\ decoded < n
      /\ UNCHANGED <<load, power, demapper, ref_bitcount, ber, d_produced, out>>
  BY DEF DecodeId
<1>1. /\ DOMAIN buf' = Streams
      /\ \A s \in Settings : buf'[s] = Append(buf[s], decoded + 1)
      /\ \A s \in Streams \ Settings : buf'[s] = buf[s]
  BY DEF DecodeId, Streams
<1>2. n \in Nat /\ load \in Seq(Loads) /\ decoded \in Nat
  BY Lengths
<1>3. ASSUME NEW s \in Settings
      PROVE  /\ buf'[s] \in Seq(Nat) /\ Len(buf'[s]) = Len(buf[s]) + 1
             /\ Taken(s)' = Taken(s)
             /\ Segment(buf'[s], FrameAt, Taken(s))
             /\ Len(buf[s]) # 0 => buf'[s][1] = buf[s][1]
             /\ Len(buf[s]) = 0 => buf'[s][1] = decoded + 1
  <2>1. buf[s] \in Seq(Nat) /\ Len(buf[s]) \in Nat /\ decoded + 1 \in Nat
        /\ Taken(s) \in Nat /\ Taken(s) + Len(buf[s]) = decoded
    <3>1. buf[s] \in Seq(Nat) /\ Len(buf[s]) \in Nat
          /\ Taken(s) \in Nat /\ Taken(s) + Len(buf[s]) = decoded
      BY Lengths
    <3> QED
      BY <1>2, <3>1
  <2>2. buf'[s] = Append(buf[s], decoded + 1)
    BY <1>1
  <2> DEFINE q == buf[s]
             k == decoded + 1
  <2> HIDE DEF q, k
  <2>3. /\ Append(q, k) \in Seq(Nat) /\ Len(Append(q, k)) = Len(q) + 1
        /\ \A i \in 1..Len(q) : Append(q, k)[i] = q[i]
        /\ Append(q, k)[Len(q) + 1] = k
    BY <2>1, AppendProperties DEF q, k
  <2>4. Segment(q, FrameAt, Taken(s))
    BY DEF q, IndInv, FrameStreams
  <2>5. Segment(Append(q, k), FrameAt, Taken(s))
    <3> DEFINE t == Taken(s)
    <3> HIDE DEF t
    <3>1. SUFFICES ASSUME NEW i \in 1..(Len(q) + 1)
                   PROVE  Append(q, k)[i] = FrameAt[t + i]
      BY <2>3 DEF Segment, t
    <3>2. t \in Nat /\ Len(q) \in Nat /\ t + Len(q) + 1 = k
      BY <2>1 DEF q, t, k
    <3>3. CASE i \in 1..Len(q)
      BY <2>3, <2>4, <3>3 DEF Segment, t
    <3>4. CASE i \notin 1..Len(q)
      <4>1. i = Len(q) + 1 /\ t + i = k /\ k \in Nat
        BY <3>2, <3>4
      <4> QED
        BY <2>3, <4>1 DEF FrameAt
    <3> QED
      BY <3>3, <3>4
  <2>6. Taken(s)' = Taken(s)
    <3>1. Taken(s)' = (decoded + 1) - Len(Append(q, k))
      BY <1>0, <2>2 DEF Taken, q, k
    <3>2. Taken(s) = decoded - Len(q) /\ Len(q) \in Nat
      BY <2>1 DEF Taken, q
    <3> QED
      BY <1>2, <2>3, <3>1, <3>2
  <2>7. (Len(q) # 0 => Append(q, k)[1] = q[1]) /\ (Len(q) = 0 => Append(q, k)[1] = k)
    <3>1. Len(q) \in Nat
      BY <2>1 DEF q
    <3> QED
      BY <2>3, <3>1
  <2> QED
    BY <2>2, <2>3, <2>5, <2>6, <2>7 DEF q, k
<1>4. /\ buf'["samples"] = buf["samples"]
      /\ buf'["symbols"] = buf["symbols"] /\ buf'["data"] = buf["data"]
      /\ buf'["refdata"] = buf["refdata"] /\ buf'["rates"] = buf["rates"]
      /\ buf'["trigger"] = buf["trigger"]
  BY <1>1 DEF Streams
<1>5. /\ Scaled' = Scaled /\ Demapped' = Demapped
      /\ Measured' = Measured /\ Sampled' = Sampled
  BY <1>0, <1>3, <1>4 DEF Scaled, Demapped, Measured, Sampled
<1>6. TypeOK'
  <2> DEFINE q == buf["count"]
             bits(x) == load[x[1]] * (frame_size - 1)
  <2>1. /\ buf'["count"] \in Seq(Nat) /\ Len(buf'["count"]) = Len(q) + 1
        /\ Len(q) # 0 => buf'["count"][1] = q[1]
        /\ Len(q) = 0 => buf'["count"][1] = decoded + 1
    BY <1>3
  <2>2. q \in Seq(Nat) /\ Len(q) \in Nat
    BY Lengths
  <2>3. IF q = << >> THEN d_produced = 0 ELSE d_produced < bits(q)
    BY DEF IndInv, TypeOK, BitCount
  <2>4. buf'["count"] # << >>
    BY <2>1, <2>2, EmptySeq
  <2>5. d_produced < bits(buf'["count"])
    <3>1. CASE q = << >>
      <4>1. decoded + 1 \in 1..n
        BY <1>0, <1>2
      <4>2. load[decoded + 1] * (frame_size - 1) \in Nat \ {0}
        BY <1>2, <4>1, FrameBitsType
      <4>3. buf'["count"][1] = decoded + 1 /\ d_produced = 0
        BY <2>1, <2>3, <3>1, EmptySeq
      <4> QED
        BY <4>2, <4>3
    <3>2. CASE q # << >>
      <4>1. Len(q) # 0
        BY <2>2, <3>2, EmptySeq
      <4> QED
        BY <2>1, <2>3, <3>2, <4>1
    <3> QED
      BY <3>1, <3>2
  <2>6. decoded + 1 \in 0..n
    BY <1>0, <1>2
  <2> QED
    BY <1>0, <1>1, <1>3, <1>4, <2>4, <2>5, <2>6 DEF IndInv, TypeOK, BitCount
<1>7. FrameStreams'
  BY <1>3 DEF IndInv, FrameStreams
<1>8. PowerHeld' /\ BitmapHeld'
  BY <1>0, <1>3, <1>5 DEF IndInv, PowerHeld, BitmapHeld
<1>9. TriggerStream'
  BY <1>0, <1>3, <1>4, <1>5 DEF IndInv, TriggerStream
<1>10. /\ DataTypes' /\ SampleStream' /\ SymbolStream' /\ DataStream' /\ RefStream'
       /\ WindowHeld' /\ RateStream' /\ Published'
  BY <1>0, <1>4, <1>5
     DEF IndInv, DataTypes, SampleStream, SymbolStream, DataStream, RefStream,
         WindowHeld, RateStream, Published
<1> QED
  BY <1>6, <1>7, <1>8, <1>9, <1>10 DEF IndInv

-----------------------------------------------------------------------------
(* multiply_frame_fc.                                                      *)

LEMMA FrameOfIs ==
  ASSUME NEW q \in Nat, NEW r \in 0..(frame_size - 1), NEW n, n - 1 = q * frame_size + r,
         n \in Nat \ {0}
  PROVE  /\ FrameOf(n) = q + 1 /\ (n - 1) % frame_size = r
         /\ (n - 1) \div frame_size = q
<1> DEFINE F == frame_size
           x == q * F
<1>1. F \in Nat \ {0} /\ r \in 0..(F - 1) /\ n - 1 = x + r /\ x = q * F
  BY Sizes
<1> HIDE DEF F, x
<1>2. IsItem(F, n, q, r)
  BY <1>1, FrameNumberIs
<1> QED
  BY <1>2 DEF IsItem, FrameOf, FrameNumber, F

(* The vectors taken are those of the frames whose symbols are scaled.     *)
LEMMA PowerVectors ==
  ASSUME NEW hold \in Nat, NEW counter \in 0..(frame_size - 1), NEW n \in Nat,
         NEW powers \in Seq(Nat), Segment(powers, FrameAt, hold),
         NEW c \in Nat, c = hold * frame_size - counter,
         NEW s, s.hold = hold, s.counter = counter,
         NEW p, p = PowerTaken(s, n, powers)
  PROVE  InStep(frame_size, p, hold, c, n, Len(powers))
<1> DEFINE F == frame_size
<1>1. p = Vectors(F, s, n, powers)
  BY DEF PowerTaken, Vectors
<1>2. F \in Nat \ {0} /\ counter \in 0..(F - 1) /\ c = hold * F - counter
  BY Sizes
<1> HIDE DEF F
<1>3. InStep(F, p, hold, c, n, Len(powers))
  BY <1>1, <1>2, VectorsTaken
<1> QED
  BY <1>3 DEF F

LEMMA PowerInv ==
  ASSUME IndInv, NEW n \in Calls, Power(n)
  PROVE  IndInv'
<1> DEFINE p == PowerTaken(power, n, buf["pow"])
           q == buf["samples"]
           v == buf["pow"]
           y == [k \in 1..p.done |-> [frame |-> q[k].frame, pos |-> q[k].pos,
                                      power |-> p.used[k]]]
           z == buf["symbols"]
           t == Taken("pow")
<1>1. /\ load' = load /\ decoded' = decoded
      /\ UNCHANGED <<demapper, ref_bitcount, ber, d_produced, out>>
      /\ power' = p.next
      /\ n <= Len(q)
  BY DEF Power
<1>2. DOMAIN buf = Streams
  BY Lengths
<1>3. /\ DOMAIN buf' = Streams
      /\ buf'["samples"] = Drop(q, p.done)
      /\ buf'["pow"] = Drop(v, p.taken)
      /\ buf'["symbols"] = z \o y
      /\ \A s \in Streams \ {"samples", "pow", "symbols"} : buf'[s] = buf[s]
  BY <1>2 DEF Power, Streams
<1>4. n \in Nat
  BY RxAssumption DEF Calls
<1>5. /\ v \in Seq(Nat) /\ Len(v) \in Nat /\ Segment(v, FrameAt, t) /\ t \in Nat
      /\ t + Len(v) = decoded /\ decoded \in Nat
  BY Lengths DEF IndInv, FrameStreams
<1>6. /\ q \in Seq(Sample) /\ Len(q) \in Nat /\ Segment(q, SampleAt, Scaled)
      /\ Scaled \in Nat
      /\ z \in Seq(Symbol) /\ Len(z) \in Nat /\ Segment(z, SymbolAt, Demapped)
      /\ Demapped \in Nat /\ Demapped + Len(z) = Scaled
      /\ Scaled + Len(q) = Len(load) * frame_size /\ Len(load) * frame_size \in Nat
  BY Lengths DEF IndInv, SampleStream, SymbolStream
<1>7. /\ power.hold = t /\ power.counter \in 0..(frame_size - 1)
      /\ Scaled = t * frame_size - power.counter
  BY DEF IndInv, PowerHeld, TypeOK
<1>8. /\ p.done \in 0..n
      /\ p.taken \in 0..Len(v)
      /\ p.next.hold = t + p.taken
      /\ p.next.counter \in 0..(frame_size - 1)
      /\ Scaled + p.done = (t + p.taken) * frame_size - p.next.counter
      /\ \A j \in 1..p.done : p.used[j] = FrameOf(Scaled + j)
      /\ p.next = [hold |-> p.next.hold, counter |-> p.next.counter]
  <2> DEFINE c == power.counter
             a == Scaled
             x == PowerTaken(power, n, v)
  <2>1. c \in 0..(frame_size - 1) /\ a \in Nat /\ a = t * frame_size - c
    BY <1>6, <1>7
  <2>2. power.hold = t /\ power.counter = c /\ x = PowerTaken(power, n, v)
    BY <1>7
  <2> HIDE DEF c, a, t, v, x
  <2>3. v \in Seq(Nat) /\ Segment(v, FrameAt, t) /\ t \in Nat
    BY <1>5
  <2>4. InStep(frame_size, x, t, a, n, Len(v))
    BY <1>4, <2>1, <2>2, <2>3, PowerVectors
  <2> QED
    BY <2>4 DEF InStep, FrameOf, FrameNumber, c, a, t, v, x
<1> HIDE DEF p
<1> DEFINE d == p.done
           g == p.taken
<1>9. d \in 0..Len(q) /\ d \in Nat /\ g \in Nat /\ g \in 0..Len(v)
  BY SMTT(30), <1>1, <1>4, <1>5, <1>6, <1>8
<1>10. /\ Drop(v, g) \in Seq(Nat) /\ Len(Drop(v, g)) = Len(v) - g
       /\ Segment(Drop(v, g), FrameAt, t + g)
  <2> HIDE DEF v, g, t
  <2>1. v \in Seq(Nat) /\ Segment(v, FrameAt, t) /\ t \in Nat /\ g \in 0..Len(v)
    BY <1>5, <1>9
  <2> QED
    BY SMTT(30), <2>1, SegmentDrop DEF Drop
<1>11. /\ Drop(q, d) \in Seq(Sample) /\ Len(Drop(q, d)) = Len(q) - d
       /\ Segment(Drop(q, d), SampleAt, Scaled + d)
  <2> HIDE DEF q, d
  <2> QED
    BY SMTT(30), <1>6, <1>9, SegmentDrop DEF Drop
<1>12. Scaled' = Scaled + d
  <2>1. Scaled' = Len(load) * frame_size - (Len(q) - d)
    BY <1>1, <1>3, <1>11 DEF Scaled
  <2> DEFINE w == Len(load) * frame_size
             k == Len(q)
  <2>2. Scaled' = w - (k - d) /\ Scaled + k = w /\ k \in Nat /\ w \in Nat
    BY <1>6, <2>1
  <2> HIDE DEF w, k, d
  <2> QED
    BY <1>6, <1>9, <2>2
<1>13. /\ y \in Seq(Symbol) /\ Len(y) = d /\ Segment(y, SymbolAt, Scaled)
  <2>1. ASSUME NEW k \in 1..d PROVE y[k] = SymbolAt[Scaled + k] /\ y[k] \in Symbol
    <3> DEFINE m == Scaled + k
    <3>1. k \in 1..Len(q) /\ m \in Nat \ {0}
      BY SMTT(30), <1>6, <1>9
    <3>2. q[k] = SampleAt[m] /\ q[k] \in Sample
      BY <1>6, <3>1, ElementOfSeq DEF Segment
    <3>3. y[k] = [frame |-> q[k].frame, pos |-> q[k].pos, power |-> FrameOf(m)]
      BY <1>8
    <3> HIDE DEF y, q, m
    <3>4. SampleAt[m] = [frame |-> FrameOf(m), pos |-> (m - 1) % frame_size]
          /\ SymbolAt[m] = [frame |-> FrameOf(m), pos |-> (m - 1) % frame_size,
                            power |-> FrameOf(m)]
      BY <3>1 DEF SampleAt, SymbolAt
    <3> DEFINE a == FrameOf(m)
               b == (m - 1) % frame_size
    <3>5. q[k] = [frame |-> a, pos |-> b] /\ SymbolAt[m] = [frame |-> a, pos |-> b, power |-> a]
      BY <3>2, <3>4
    <3> HIDE DEF a, b
    <3>6. q[k].frame = a /\ q[k].pos = b /\ a \in Nat /\ b \in 0..(frame_size - 1)
      BY <3>2, <3>5 DEF Sample
    <3>7. y[k] = [frame |-> a, pos |-> b, power |-> a]
      BY <3>3, <3>6 DEF a
    <3>8. y[k] \in Symbol
      BY <3>6, <3>7 DEF Symbol
    <3> QED
      BY <3>5, <3>7, <3>8 DEF m
  <2>2. y = [k \in 1..d |-> y[k]]
    OBVIOUS
  <2> HIDE DEF y, d
  <2>3. Len(y) = d /\ y \in Seq(Symbol)
    BY <1>9, <2>1, <2>2
  <2> QED
    BY <2>1, <2>3 DEF Segment
<1> HIDE DEF y
<1>14. /\ z \o y \in Seq(Symbol) /\ Len(z \o y) = Len(z) + d
       /\ Segment(z \o y, SymbolAt, Demapped)
  <2> HIDE DEF z
  <2>1. z \o y \in Seq(Symbol) /\ Len(z \o y) = Len(z) + Len(y)
    BY <1>6, <1>13, ConcatProperties
  <2>2. Segment(z \o y, SymbolAt, Demapped)
    BY <1>6, <1>13, SegmentConcat
  <2> QED
    BY <1>13, <2>1, <2>2
<1>15. Demapped' = Demapped
  <2>1. Demapped' = (Scaled + d) - (Len(z) + d)
    BY <1>3, <1>12, <1>14 DEF Demapped
  <2>2. Demapped = Scaled - Len(z)
    BY DEF Demapped
  <2> HIDE DEF d, z
  <2> QED
    BY <1>6, <1>9, <2>1, <2>2
<1>16. Taken("pow")' = t + g
  <2> DEFINE k == Len(v)
             e == decoded
             h == Taken("pow")'
  <2>1. h = e - (k - g)
    BY <1>1, <1>3, <1>10 DEF Taken
  <2>2. t + k = e /\ k \in Nat /\ t \in Nat /\ g \in Nat
    BY <1>5, <1>9
  <2> HIDE DEF h, k, e, g, t
  <2>3. h = t + g
    BY <2>1, <2>2
  <2> QED
    BY <2>3 DEF h
<1>17. /\ \A s \in {"map", "ref", "count"} : buf'[s] = buf[s] /\ Taken(s)' = Taken(s)
       /\ buf'["data"] = buf["data"] /\ buf'["refdata"] = buf["refdata"]
       /\ buf'["rates"] = buf["rates"] /\ buf'["trigger"] = buf["trigger"]
  BY <1>1, <1>3 DEF Streams, Taken
<1>18. Measured' = Measured /\ Sampled' = Sampled
  BY <1>1, <1>17 DEF Measured, Sampled
<1>19. power' = [hold |-> t + g, counter |-> power'.counter]
       /\ power'.counter \in 0..(frame_size - 1)
       /\ Scaled + d = (t + g) * frame_size - power'.counter
  BY <1>1, <1>8
<1>20. TypeOK'
  <2>1. power' \in [hold : Nat, counter : 0..(frame_size - 1)]
    <3>1. t + g \in Nat
      BY <1>5, <1>9
    <3> QED
      BY <1>19, <3>1
  <2> QED
    BY <1>1, <1>3, <1>10, <1>11, <1>14, <1>17, <2>1 DEF IndInv, TypeOK, BitCount
<1>21. FrameStreams'
  <2>1. t + g \in Nat
    BY <1>5, <1>9
  <2> QED
    BY <1>3, <1>10, <1>16, <1>17, <2>1 DEF IndInv, FrameStreams
<1>22. SampleStream'
  <2>1. Scaled + d \in Nat
    BY SMTT(30), <1>6, <1>9
  <2> QED
    BY <1>3, <1>11, <1>12, <2>1 DEF SampleStream
<1>23. PowerHeld'
  BY <1>12, <1>16, <1>19 DEF PowerHeld
<1>24. SymbolStream'
  BY <1>3, <1>6, <1>14, <1>15 DEF SymbolStream
<1>25. DataTypes' /\ BitmapHeld' /\ DataStream' /\ RefStream' /\ WindowHeld' /\ RateStream'
       /\ TriggerStream' /\ Published'
  BY <1>1, <1>15, <1>17, <1>18
     DEF IndInv, DataTypes, BitmapHeld, DataStream, RefStream, WindowHeld, RateStream,
         TriggerStream, Published
<1> QED
  BY <1>20, <1>21, <1>22, <1>23, <1>24, <1>25 DEF IndInv

-----------------------------------------------------------------------------
(* generic_demapper_vcb.                                                   *)

(* The locals of a call that began with d bits demapped and has e symbols  *)
(* to demap, after any of its turns.                                       *)
Demapping(e, d) ==
  {s \in DemapLocals :
     LET c == e - Len(s.symbols)
         m == decoded - Len(s.maps)
     IN  /\ c \in Nat /\ Segment(s.symbols, SymbolAt, c)
         /\ m \in Nat /\ Segment(s.maps, FrameAt, m)
         /\ AfterSymbols(c, m, s.counter, s.bitmap)
         /\ d + Len(s.bits) = BitsBefore(load, c)
         /\ Segment(s.bits, DataAt(load), d)
         /\ s.multiple \in {1} \cup Loads}

(* A symbol is demapped to the bits it carries.                            *)
LEMMA Demodulation ==
  ASSUME load \in Seq(Loads), NEW c \in Nat, c < Len(load) * frame_size,
         NEW q, NEW r, q = c \div frame_size, r = c % frame_size,
         NEW y, y = Demodulated(SymbolAt[c + 1], IF r = 0 THEN 0 ELSE q + 1)
  PROVE  /\ y \in Seq(Bit)
         /\ BitsBefore(load, c + 1) = BitsBefore(load, c) + Len(y)
         /\ Segment(y, DataAt(load), BitsBefore(load, c))
<1> DEFINE F == frame_size
           x == load[q + 1]
           p == (r - 1) * x
           g == q + 1
<1>1. F \in Nat \ {0}
  BY Sizes
<1>2. /\ q \in 0..(Len(load) - 1) /\ q + 1 \in 1..Len(load)
      /\ r \in 0..(F - 1) /\ x \in Nat \ {0}
      /\ BitsBefore(load, c) \in Nat
      /\ BitsBefore(load, c) = At(load, q) + (IF r = 0 THEN 0 ELSE p)
      /\ BitsBefore(load, c + 1) = BitsBefore(load, c) + (IF r = 0 THEN 0 ELSE x)
      /\ r # 0 => \A b \in 1..x : p + b \in 1..(x * (F - 1))
  BY SMTT(30), SymbolBits
<1>3. SymbolAt[c + 1] = [frame |-> g, pos |-> r, power |-> g] /\ g \in Nat \ {0}
  <2>1. c + 1 \in Nat \ {0} /\ (c + 1) - 1 = c
    OBVIOUS
  <2> HIDE DEF F
  <2>2. SymbolAt[c + 1] = [frame |-> (((c + 1) - 1) \div frame_size) + 1,
                           pos |-> ((c + 1) - 1) % frame_size,
                           power |-> (((c + 1) - 1) \div frame_size) + 1]
    BY <2>1 DEF SymbolAt, FrameOf
  <2>3. (((c + 1) - 1) \div frame_size) + 1 = g /\ ((c + 1) - 1) % frame_size = r
    BY <2>1
  <2>4. g \in Nat \ {0}
    <3> HIDE DEF x, p
    <3> QED
      BY <1>2
  <2> QED
    BY <2>2, <2>3, <2>4
<1>4. CASE r = 0
  <2>1. y = [b \in 1..0 |-> [frame |-> g, pos |-> (r - 1) * 0 + b, map |-> 0, power |-> g]]
    BY <1>3, <1>4 DEF Demodulated, BitsPerSymbol
  <2>2. y \in Seq(Bit) /\ Len(y) = 0
    <3> DEFINE z == 0
               Y(b) == [frame |-> g, pos |-> (r - 1) * 0 + b, map |-> 0, power |-> g]
    <3>1. z \in Nat /\ \A b \in 1..z : Y(b) \in Bit
      OBVIOUS
    <3>2. y = [b \in 1..z |-> Y(b)]
      BY <2>1
    <3> HIDE DEF z, Y
    <3>3. y \in Seq(Bit) /\ Len(y) = z
      BY <3>1, <3>2
    <3> QED
      BY <3>3 DEF z
  <2> HIDE DEF g, p, x
  <2> QED
    BY <1>2, <1>4, <2>2 DEF Segment
<1>5. CASE r # 0
  <2> DEFINE Y(b) == [frame |-> g, pos |-> p + b, map |-> g, power |-> g]
  <2>1. y = [b \in 1..x |-> Y(b)]
    BY <1>3, <1>5 DEF Demodulated, BitsPerSymbol
  <2>2. ASSUME NEW b \in 1..x
        PROVE  Y(b) \in Bit /\ Y(b) = DataAt(load)[BitsBefore(load, c) + b]
    <3> DEFINE a == p + b
    <3>1. a \in 1..(x * (F - 1)) /\ q \in 0..(Len(load) - 1)
      BY <1>2, <1>5
    <3>2. /\ AllBits(load)[At(load, q) + a] = [kind |-> "data", frame |-> g, pos |-> a]
          /\ At(load, q) + a \in 1..At(load, Len(load))
      <4> HIDE DEF a, F, p
      <4> QED
        BY <3>1, BitAt DEF F
    <3>3. At(load, q) \in Nat /\ BitsBefore(load, c) + b = At(load, q) + a
      <4>1. At(load, q) \in Nat
        BY <1>2, AtSucc
      <4>2. p \in Int
        <5> HIDE DEF x
        <5> QED
          BY <1>1, <1>2
      <4> HIDE DEF p, x
      <4> QED
        BY SMTT(30), <1>2, <1>5, <4>1, <4>2
    <3>4. a \in Nat /\ At(load, q) + a \in Nat
      <4>1. a \in Nat
        <5>1. x * (F - 1) \in Int
          BY SMTT(30), <1>1, <1>2
        <5> HIDE DEF a
        <5> QED
          BY <3>1, <5>1
      <4> HIDE DEF a
      <4> QED
        BY <3>3, <4>1
    <3>5. DataAt(load)[At(load, q) + a] = [frame |-> g, pos |-> a, map |-> g, power |-> g]
      <4> HIDE DEF g, a
      <4> QED
        BY <3>2, <3>4 DEF DataAt
    <3>6. Y(b) \in Bit
      <4> HIDE DEF g
      <4> QED
        BY <1>3, <3>4 DEF Bit
    <3> QED
      BY <3>3, <3>5, <3>6
  <2> HIDE DEF Y, x, p
  <2>3. y \in Seq(Bit) /\ Len(y) = x
    BY SMTT(30), <1>2, <2>1, <2>2
  <2>4. Segment(y, DataAt(load), BitsBefore(load, c))
    BY <2>1, <2>2, <2>3 DEF Segment
  <2> QED
    BY <1>2, <1>5, <2>3, <2>4
<1> QED
  BY <1>4, <1>5

LEMMA DemapTurn ==
  ASSUME load \in Seq(Loads), decoded \in Nat, NEW e \in Nat, e <= Len(load) * frame_size,
         NEW d \in Nat, NEW s \in Demapping(e, d)
  PROVE  DemapSymbol(s) \in Demapping(e, d)
<1> DEFINE F == frame_size
           n == Len(load)
           c == e - Len(s.symbols)
           m == decoded - Len(s.maps)
           q == c \div F
           r == c % F
           g == q + 1
           t == DemapSymbol(s)
           bitmap == CASE s.counter = 0 -> 0
                       [] s.counter = 1 -> Head(s.maps)
                       [] OTHER         -> s.bitmap
           bps == BitsPerSymbol(bitmap)
<1>1. F \in Nat \ {0} /\ F >= 2 /\ n \in Nat
  BY Sizes, FrameBitsType
<1>2. /\ s \in DemapLocals
      /\ c \in Nat /\ Segment(s.symbols, SymbolAt, c)
      /\ m \in Nat /\ Segment(s.maps, FrameAt, m)
      /\ AfterSymbols(c, m, s.counter, s.bitmap)
      /\ d + Len(s.bits) = BitsBefore(load, c)
      /\ Segment(s.bits, DataAt(load), d)
      /\ s.multiple \in {1} \cup Loads
  BY DEF Demapping
<1>3. /\ s.bitmap \in Nat /\ s.need_bitmap \in {0, 1}
      /\ s.counter \in Nat /\ s.maps \in Seq(Nat) /\ s.symbols \in Seq(Symbol)
      /\ s.room \in Nat /\ s.bits \in Seq(Bit) /\ s.stopped \in BOOLEAN
      /\ Len(s.symbols) \in Nat /\ Len(s.maps) \in Nat
  BY <1>2, LenProperties DEF DemapLocals
<1>4. CASE s.stopped \/ s.symbols = << >>
  BY <1>4 DEF DemapSymbol
<1>5. CASE ~(s.stopped \/ s.symbols = << >>)
  <2>1. /\ Head(s.symbols) = SymbolAt[c + 1]
        /\ Tail(s.symbols) \in Seq(Symbol) /\ Len(Tail(s.symbols)) = Len(s.symbols) - 1
        /\ Segment(Tail(s.symbols), SymbolAt, c + 1)
        /\ Len(s.symbols) \in Nat \ {0}
    <3> DEFINE z == s.symbols
    <3>1. z \in Seq(Symbol) /\ z # << >> /\ c \in Nat /\ Segment(z, SymbolAt, c)
      BY <1>2, <1>3, <1>5
    <3> HIDE DEF z, c
    <3>2. /\ Head(z) = SymbolAt[c + 1]
          /\ Tail(z) \in Seq(Symbol) /\ Len(Tail(z)) = Len(z) - 1
          /\ Segment(Tail(z), SymbolAt, c + 1)
          /\ Len(z) \in Nat \ {0}
      BY <3>1, SegmentTail
    <3> QED
      BY <3>2 DEF z
  <2>2. c < n * F
    <3> DEFINE w == n * F
               k == Len(s.symbols)
    <3>1. w \in Nat /\ e <= w /\ k \in Nat \ {0} /\ c = e - k
      BY <1>1, <2>1
    <3> HIDE DEF w, k, c
    <3>2. c < w
      BY <3>1
    <3> QED
      BY <3>2 DEF w
  <2>3. /\ q \in 0..(n - 1) /\ g \in 1..n /\ r \in 0..(F - 1) /\ load[g] \in Loads
        /\ q \in Nat
    <3>1. /\ q \in 0..(n - 1) /\ q + 1 \in 1..n /\ r \in 0..(F - 1)
      <4> HIDE DEF q, r, c
      <4> QED
        BY <1>2, <2>2, SymbolBits DEF q, r
    <3>2. load[g] \in Loads
      <4> HIDE DEF g
      <4> QED
        BY <3>1, ElementOfSeq DEF g
    <3> HIDE DEF q, r
    <3> QED
      BY <1>1, <3>1, <3>2
  <2>4. s.counter = r /\ IF r \in {0, 1} THEN m = q ELSE m = q + 1 /\ s.bitmap = m
    BY <1>2 DEF AfterSymbols
  <2>5. CASE s.counter = 1 /\ s.maps = << >>
    <3> DEFINE u == [s EXCEPT !.stopped = TRUE, !.need_bitmap = 1]
    <3>1. t = u
      BY <1>5, <2>5 DEF DemapSymbol
    <3> HIDE DEF t
    <3>2. /\ u \in DemapLocals /\ u.symbols = s.symbols /\ u.maps = s.maps
          /\ u.counter = s.counter /\ u.bitmap = s.bitmap /\ u.bits = s.bits
          /\ u.multiple = s.multiple
      BY <1>2 DEF DemapLocals
    <3> QED
      BY <1>2, <3>1, <3>2 DEF Demapping, t
  <2>6. CASE ~(s.counter = 1 /\ s.maps = << >>)
    <3> DEFINE mm == IF s.counter = 1 THEN Tail(s.maps) ELSE s.maps
               k == decoded - Len(mm)
    <3>1. /\ mm \in Seq(Nat) /\ k \in Nat /\ Segment(mm, FrameAt, k)
          /\ k = (IF r = 1 THEN m + 1 ELSE m)
          /\ r = 1 => Head(s.maps) = g
      <4>1. CASE r = 1
        <5> DEFINE z == s.maps
        <5>1. z \in Seq(Nat) /\ z # << >> /\ m \in Nat /\ Segment(z, FrameAt, m)
              /\ m = decoded - Len(z)
          BY <1>2, <1>3, <2>4, <2>6, <4>1
        <5> HIDE DEF z, m
        <5>2. /\ Head(z) = FrameAt[m + 1]
              /\ Tail(z) \in Seq(Nat) /\ Len(Tail(z)) = Len(z) - 1
              /\ Segment(Tail(z), FrameAt, m + 1)
              /\ Len(z) \in Nat \ {0}
          BY <5>1, SegmentTail
        <5>3. Head(z) = m + 1
          BY <5>1, <5>2 DEF FrameAt
        <5>4. mm = Tail(z) /\ m = q
          BY <2>4, <4>1 DEF z
        <5>5. k = m + 1
          <6> DEFINE v == Len(z)
          <6>1. k = decoded - (v - 1) /\ m = decoded - v /\ v \in Nat
            BY <5>1, <5>2, <5>4
          <6> HIDE DEF k, v
          <6> QED
            BY <1>1, <6>1
        <5>6. Head(s.maps) = q + 1
          BY <5>3, <5>4 DEF z
        <5>7. mm \in Seq(Nat) /\ k \in Nat /\ Segment(mm, FrameAt, k)
          <6> HIDE DEF mm, k
          <6> QED
            BY SMTT(30), <5>1, <5>2, <5>4, <5>5
        <5> HIDE DEF mm, k, q, r
        <5> QED
          BY <4>1, <5>5, <5>6, <5>7
      <4>2. CASE r # 1
        <5>1. mm = s.maps
          BY <2>4, <4>2
        <5> QED
          BY <1>2, <1>3, <4>2, <5>1
      <4> QED
        BY <4>1, <4>2
    <3>2. bitmap = (IF r = 0 THEN 0 ELSE g)
      <4>1. CASE r = 0
        BY <2>4, <4>1
      <4>2. CASE r = 1
        BY <2>4, <3>1, <4>2
      <4>3. CASE r \notin {0, 1}
        <5>1. s.counter = r /\ s.bitmap = g
          BY <2>4, <4>3
        <5> HIDE DEF r, g
        <5> QED
          BY <4>3, <5>1
      <4> QED
        BY <4>1, <4>2, <4>3
    <3>3. bps = (IF r = 0 THEN 0 ELSE load[g]) /\ bps \in Nat /\ bitmap \in Nat
          /\ (bps # 0 => bps \in Loads)
      <4>1. g \in Nat /\ g # 0 /\ load[g] \in Nat
        <5>1. g \in Nat /\ g # 0
          <6> HIDE DEF q
          <6> QED
            BY <2>3
        <5> HIDE DEF g
        <5> QED
          BY <2>3, <5>1, Sizes
      <4> HIDE DEF bitmap, r, g
      <4>2. bps = (IF r = 0 THEN 0 ELSE load[g]) /\ bitmap \in Nat
        BY <3>2, <4>1 DEF BitsPerSymbol
      <4> QED
        BY <2>3, <4>1, <4>2
    <3>4. CASE s.room < bps
      <4> DEFINE u == [s EXCEPT !.stopped = TRUE, !.multiple = bps]
      <4>1. t = u
        BY <1>5, <2>6, <3>4 DEF DemapSymbol, NoRoom
      <4>2. bps \in Loads
        BY <1>3, <3>3, <3>4
      <4> HIDE DEF t, bps
      <4>3. /\ u \in DemapLocals /\ u.symbols = s.symbols /\ u.maps = s.maps
            /\ u.counter = s.counter /\ u.bitmap = s.bitmap /\ u.bits = s.bits
            /\ u.multiple = bps
        BY <1>2, <3>3 DEF DemapLocals
      <4> QED
        BY <1>2, <4>1, <4>2, <4>3 DEF Demapping, t
    <3>5. CASE ~(s.room < bps)
      <4> DEFINE y == Demodulated(Head(s.symbols), bitmap)
                 counter == (s.counter + 1) % frame_size
                 need == NeedBitmap(s)
                 room == s.room - bps
                 bits == s.bits \o y
                 symbols == Tail(s.symbols)
                 u == [s EXCEPT !.bitmap = bitmap, !.need_bitmap = need,
                                !.maps = mm, !.counter = counter, !.room = room,
                                !.symbols = symbols, !.bits = bits]
      <4>1. t = u
        BY <1>5, <2>6, <3>5 DEF DemapSymbol
      <4>2. /\ y \in Seq(Bit)
            /\ BitsBefore(load, c + 1) = BitsBefore(load, c) + Len(y)
            /\ Segment(y, DataAt(load), BitsBefore(load, c))
        <5>1. y = Demodulated(SymbolAt[c + 1], IF r = 0 THEN 0 ELSE q + 1)
          BY <2>1, <3>2
        <5> HIDE DEF y, c, q, r, n, F
        <5>2. c \in Nat /\ c < Len(load) * frame_size /\ q = c \div frame_size
              /\ r = c % frame_size
          BY <1>2, <2>2 DEF q, r, n, F
        <5> QED
          BY <5>1, <5>2, Demodulation
      <4>3. /\ bits \in Seq(Bit) /\ Len(bits) = Len(s.bits) + Len(y)
            /\ Segment(bits, DataAt(load), d) /\ Len(y) \in Nat /\ Len(s.bits) \in Nat
        <5> DEFINE z == s.bits
        <5>1. z \in Seq(Bit) /\ y \in Seq(Bit) /\ Segment(z, DataAt(load), d)
              /\ Segment(y, DataAt(load), d + Len(z))
          BY <1>2, <1>3, <4>2
        <5> HIDE DEF z, y
        <5>2. z \o y \in Seq(Bit) /\ Len(z \o y) = Len(z) + Len(y)
              /\ Len(y) \in Nat /\ Len(z) \in Nat
          BY <5>1, ConcatProperties, LenProperties
        <5>3. Segment(z \o y, DataAt(load), d)
          BY <5>1, SegmentConcat
        <5> QED
          BY <5>2, <5>3 DEF z
      <4>4. d + Len(bits) = BitsBefore(load, c + 1)
        <5> HIDE DEF bits, y, c
        <5>1. d + Len(s.bits) = BitsBefore(load, c)
          BY <1>2
        <5> DEFINE a == Len(s.bits)
                   b == Len(y)
        <5>2. d + (a + b) = (d + a) + b
          <6>1. a \in Nat /\ b \in Nat
            BY <4>3
          <6> HIDE DEF a, b
          <6> QED
            BY <6>1
        <5> QED
          BY <4>2, <4>3, <5>1, <5>2
      <4>5. e - Len(symbols) = c + 1
        <5> DEFINE v == Len(s.symbols)
        <5>1. e - Len(symbols) = e - (v - 1) /\ c = e - v /\ v \in Nat
          BY <2>1
        <5> HIDE DEF v, symbols, c
        <5> QED
          BY <5>1
      <4>6. counter = (c + 1) % F /\ counter \in 0..(F - 1) /\ counter \in Nat
            /\ IF r = F - 1 THEN (c + 1) \div F = q + 1 /\ (c + 1) % F = 0
               ELSE (c + 1) \div F = q /\ (c + 1) % F = r + 1
        <5>1. counter = (r + 1) % F
          BY <2>4
        <5>6. c \in Nat /\ F \in Nat \ {0}
          BY <1>1, <1>2
        <5> HIDE DEF c, F, counter
        <5>7. ((c % F) + 1) % F = (c + 1) % F
          BY <5>6, ModSucc
        <5>2. ((c % F) + 1) % F = (c + 1) % F /\ c + 1 \in Nat
          BY <5>6, <5>7
        <5>3. (c + 1) % F \in 0..(F - 1)
          BY <5>2, <5>6, DivMod
        <5>4. IF c % F = F - 1
              THEN (c + 1) \div F = (c \div F) + 1 /\ (c + 1) % F = 0
              ELSE (c + 1) \div F = c \div F /\ (c + 1) % F = (c % F) + 1
          BY <1>1, <1>2, DivModSucc
        <5>5. counter = (c + 1) % F
          BY <5>1, <5>2
        <5> QED
          BY <1>1, <5>3, <5>4, <5>5
      <4>7. AfterSymbols(c + 1, k, counter, bitmap)
        <5> DEFINE Q == (c + 1) \div F
                   R == (c + 1) % F
        <5>1. IF r = F - 1 THEN Q = q + 1 /\ R = 0 ELSE Q = q /\ R = r + 1
          BY <4>6
        <5>2. IF R \in {0, 1} THEN k = Q ELSE k = Q + 1 /\ bitmap = k
          <6> HIDE DEF Q, R, q, r, bitmap, k, m
          <6>1. CASE r = F - 1
            BY <1>1, <2>3, <2>4, <3>1, <5>1, <6>1
          <6>2. CASE r # F - 1
            <7>1. CASE r = 0
              BY <1>1, <2>3, <2>4, <3>1, <5>1, <6>2, <7>1
            <7>2. CASE r = 1
              BY <1>1, <2>3, <2>4, <3>1, <3>2, <5>1, <6>2, <7>2
            <7>3. CASE r \notin {0, 1}
              BY <1>1, <2>3, <2>4, <3>1, <3>2, <5>1, <6>2, <7>3
            <7> QED
              BY <7>1, <7>2, <7>3
          <6> QED
            BY <6>1, <6>2
        <5>3. counter = R
          BY <4>6
        <5> HIDE DEF counter, bitmap, k
        <5> QED
          BY <5>2, <5>3 DEF AfterSymbols
      <4>8. need \in {0, 1} /\ room \in Nat
        <5>1. need \in {0, 1}
          BY <1>3 DEF NeedBitmap
        <5> HIDE DEF bps, need
        <5> QED
          BY <1>3, <3>3, <3>5, <5>1
      <4>9. symbols \in Seq(Symbol) /\ Segment(symbols, SymbolAt, c + 1) /\ c + 1 \in Nat
        <5>1. c \in Nat
          BY <1>2
        <5> HIDE DEF c
        <5> QED
          BY <2>1, <5>1
      <4> HIDE DEF t, bitmap, need, mm, counter, room, symbols, bits
      <4>10. /\ u \in DemapLocals /\ u.symbols = symbols /\ u.maps = mm
             /\ u.counter = counter /\ u.bitmap = bitmap /\ u.bits = bits
             /\ u.multiple = s.multiple
        BY <1>2, <3>1, <3>3, <4>3, <4>6, <4>8, <4>9 DEF DemapLocals
      <4> HIDE DEF u, c
      <4>11. u \in Demapping(e, d)
        BY <1>2, <3>1, <4>3, <4>4, <4>5, <4>7, <4>9, <4>10 DEF Demapping
      <4> QED
        BY <4>1, <4>11 DEF t
    <3> QED
      BY <3>4, <3>5
  <2> QED
    BY <2>5, <2>6
<1> QED
  BY <1>4, <1>5

LEMMA DemapInv ==
  ASSUME IndInv, NEW n \in Calls, Demap(n)
  PROVE  IndInv'
<1> DEFINE e == Scaled
           d == BitsBefore(load, Demapped)
           s == DemapCall(n)
           c == e - Len(s.symbols)
           m == decoded - Len(s.maps)
           q == buf["data"]
<1>1. /\ load' = load /\ decoded' = decoded
      /\ UNCHANGED <<power, ref_bitcount, ber, d_produced, out>>
      /\ demapper' = [bitmap |-> s.bitmap, need_bitmap |-> s.need_bitmap,
                      multiple |-> s.multiple, counter |-> s.counter]
      /\ buf' = [buf EXCEPT !["symbols"] = s.symbols, !["map"] = s.maps,
                            !["data"] = @ \o s.bits]
  <2> HIDE DEF s
  <2> QED
    BY DEF Demap, s
<1>2. DOMAIN buf = Streams
  BY Lengths
<1> HIDE DEF s
<1>3. /\ DOMAIN buf' = Streams
      /\ buf'["symbols"] = s.symbols
      /\ buf'["map"] = s.maps
      /\ buf'["data"] = q \o s.bits
      /\ \A t \in Streams \ {"symbols", "map", "data"} : buf'[t] = buf[t]
  BY <1>1, <1>2 DEF Streams
<1>4. /\ load \in Seq(Loads) /\ Len(load) \in Nat /\ decoded \in Nat
      /\ e \in Nat /\ e <= Len(load) * frame_size
      /\ d \in Nat /\ Measured \in Nat /\ Measured + Len(q) = d
      /\ q \in Seq(Bit) /\ Len(q) \in Nat
      /\ Segment(q, DataAt(load), Measured)
  <2>1. /\ load \in Seq(Loads) /\ Len(load) \in Nat /\ decoded \in Nat
        /\ Len(buf["samples"]) \in Nat /\ Len(load) * frame_size \in Nat
        /\ Scaled + Len(buf["samples"]) = Len(load) * frame_size
        /\ q \in Seq(Bit) /\ Len(q) \in Nat /\ Measured \in Nat
    BY Lengths
  <2>2. Scaled \in Nat /\ Measured + Len(q) = d /\ Segment(q, DataAt(load), Measured)
    BY DEF IndInv, SampleStream, DataStream
  <2> DEFINE w == Len(load) * frame_size
             k == Len(buf["samples"])
  <2>3. e \in Nat /\ k \in Nat /\ w \in Nat /\ e + k = w
    BY <2>1, <2>2
  <2> HIDE DEF w, k, e
  <2>4. e <= w
    BY <2>3
  <2> HIDE DEF d, q
  <2>5. d \in Nat
    BY <2>1, <2>2
  <2> QED
    BY <2>1, <2>2, <2>3, <2>4, <2>5 DEF w
<1>5. s \in Demapping(e, d)
  <2> DEFINE turn == [t \in DemapLocals |-> DemapSymbol(t)]
             locals == [bitmap |-> demapper.bitmap, need_bitmap |-> demapper.need_bitmap,
                        multiple |-> 1, counter |-> demapper.counter, maps |-> buf["map"],
                        symbols |-> buf["symbols"], room |-> n, bits |-> << >>,
                        stopped |-> FALSE]
             k == Len(buf["symbols"])
             I == Demapping(e, d)
  <2>1. s = Turns(turn, locals, k)
    BY DEF DemapCall, s
  <2>2. locals \in I
    <3>1. /\ demapper.bitmap \in Nat /\ demapper.need_bitmap \in {0, 1}
          /\ demapper.counter \in Nat /\ n \in Nat
      BY Sizes, RxAssumption DEF IndInv, TypeOK, Calls
    <3>2. /\ buf["map"] \in Seq(Nat) /\ buf["symbols"] \in Seq(Symbol)
          /\ << >> \in Seq(Bit) /\ Len(<< >>) = 0
      BY EmptySeq, Lengths
    <3>3. locals \in DemapLocals
      BY <3>1, <3>2 DEF DemapLocals
    <3>4. e - Len(locals.symbols) = Demapped /\ decoded - Len(locals.maps) = Taken("map")
      BY DEF Demapped, Taken
    <3>5. Demapped \in Nat /\ Segment(locals.symbols, SymbolAt, Demapped)
          /\ Taken("map") \in Nat /\ Segment(locals.maps, FrameAt, Taken("map"))
          /\ AfterSymbols(Demapped, Taken("map"), locals.counter, locals.bitmap)
      BY DEF IndInv, SymbolStream, FrameStreams, BitmapHeld
    <3>6. d + Len(locals.bits) = d
      <4> HIDE DEF d
      <4> QED
        BY <1>4, <3>2
    <3>7. Segment(locals.bits, DataAt(load), d) /\ locals.multiple \in {1} \cup Loads
      BY <3>2 DEF Segment
    <3> HIDE DEF locals
    <3> QED
      BY <3>3, <3>4, <3>5, <3>6, <3>7 DEF Demapping
  <2>3. k \in Nat
    BY Lengths
  <2>4. \A t \in I : turn[t] \in I
    <3>1. SUFFICES ASSUME NEW t \in I PROVE turn[t] \in I
      OBVIOUS
    <3>2. turn[t] = DemapSymbol(t)
      BY DEF Demapping
    <3> HIDE DEF turn, e, d
    <3>3. DemapSymbol(t) \in Demapping(e, d)
      BY <1>4, DemapTurn
    <3> QED
      BY <3>2, <3>3
  <2> HIDE DEF turn, locals, k, I
  <2>5. Turns(turn, locals, k) \in I
    BY <2>2, <2>3, <2>4, LoopInvariant
  <2> QED
    BY <2>1, <2>5 DEF I
<1>6. /\ s \in DemapLocals
      /\ c \in Nat /\ Segment(s.symbols, SymbolAt, c)
      /\ m \in Nat /\ Segment(s.maps, FrameAt, m)
      /\ AfterSymbols(c, m, s.counter, s.bitmap)
      /\ d + Len(s.bits) = BitsBefore(load, c)
      /\ Segment(s.bits, DataAt(load), d)
      /\ s.multiple \in {1} \cup Loads
  BY <1>5 DEF Demapping
<1>7. /\ s.bitmap \in Nat /\ s.need_bitmap \in {0, 1}
      /\ s.counter \in Nat /\ s.maps \in Seq(Nat) /\ s.symbols \in Seq(Symbol)
      /\ s.bits \in Seq(Bit)
  BY <1>6 DEF DemapLocals
<1>8. /\ q \o s.bits \in Seq(Bit)
      /\ Measured + Len(q \o s.bits) = BitsBefore(load, c)
      /\ Segment(q \o s.bits, DataAt(load), Measured)
  <2> DEFINE z == s.bits
             a == Len(q)
             b == Len(z)
  <2>1. z \in Seq(Bit) /\ q \in Seq(Bit) /\ Segment(q, DataAt(load), Measured)
        /\ Segment(z, DataAt(load), Measured + Len(q))
    BY <1>4, <1>6, <1>7
  <2> HIDE DEF z, q
  <2>2. q \o z \in Seq(Bit) /\ Len(q \o z) = a + b /\ b \in Nat /\ a \in Nat
    BY <2>1, ConcatProperties, LenProperties
  <2>3. Segment(q \o z, DataAt(load), Measured)
    BY <1>4, <2>1, SegmentConcat
  <2>4. Measured + (a + b) = BitsBefore(load, c)
    <3>1. Measured + a = d /\ d + b = BitsBefore(load, c)
      BY <1>4, <1>6 DEF z
    <3> HIDE DEF a, b, d, c
    <3> QED
      BY <1>4, <2>2, <3>1
  <2> QED
    BY <2>2, <2>3, <2>4 DEF z
<1>9. Scaled' = Scaled /\ \A t \in {"pow", "ref", "count"} : Taken(t)' = Taken(t)
  BY <1>1, <1>3 DEF Scaled, Taken, Streams
<1>10. Demapped' = c /\ Taken("map")' = m
  BY <1>1, <1>3, <1>9 DEF Demapped, Taken
<1>11. Measured' = Measured /\ Sampled' = Sampled
  BY <1>1, <1>3, <1>9 DEF Measured, Sampled, Streams
<1>12. s.counter \in 0..(frame_size - 1)
  <2>1. s.counter = c % frame_size /\ frame_size \in Nat \ {0}
    BY <1>6, Sizes DEF AfterSymbols
  <2> HIDE DEF c
  <2> QED
    BY <1>6, <2>1, DivMod
<1> HIDE DEF c, m, q, d, e
<1>13. TypeOK'
  <2>1. demapper' \in [bitmap : Nat, need_bitmap : {0, 1}, multiple : {1} \cup Loads,
                       counter : 0..(frame_size - 1)]
    BY <1>1, <1>6, <1>7, <1>12
  <2> QED
    BY <1>1, <1>3, <1>7, <2>1 DEF IndInv, TypeOK, Streams, BitCount
<1>14. DataTypes'
  BY <1>3, <1>8 DEF IndInv, DataTypes, Streams
<1>15. FrameStreams'
  BY <1>3, <1>6, <1>9, <1>10 DEF IndInv, FrameStreams, Streams
<1>16. SymbolStream'
  BY <1>3, <1>6, <1>10 DEF SymbolStream
<1>17. BitmapHeld'
  BY <1>1, <1>6, <1>10 DEF BitmapHeld
<1>18. DataStream'
  BY <1>1, <1>3, <1>8, <1>10, <1>11 DEF DataStream
<1>19. SampleStream' /\ PowerHeld' /\ RefStream' /\ WindowHeld' /\ RateStream'
       /\ TriggerStream' /\ Published'
  BY <1>1, <1>3, <1>9, <1>11
     DEF IndInv, SampleStream, PowerHeld, RefStream, WindowHeld, RateStream,
         TriggerStream, Published, Streams
<1> QED
  BY <1>13, <1>14, <1>15, <1>16, <1>17, <1>18, <1>19 DEF IndInv

-----------------------------------------------------------------------------
(* reference_data_source_02_ib.                                            *)

LEMMA SetReferenceInv ==
  ASSUME IndInv, SetReference
  PROVE  IndInv'
<1> DEFINE q == buf["ref"]
           t == Taken("ref")
<1>1. /\ UNCHANGED <<load, decoded, buf, power, demapper, ber, d_produced, out>>
      /\ ref_bitcount' = BitCount(q[1]) /\ q # << >>
  BY DEF SetReference
<1>2. q \in Seq(Nat) /\ Segment(q, FrameAt, t) /\ t \in Nat
      /\ load \in Seq(Loads) /\ Len(load) \in Nat /\ t + Len(q) = decoded
      /\ decoded \in Nat /\ decoded <= Len(load)
  BY Lengths DEF IndInv, FrameStreams
<1>3. q[1] = FrameAt[t + 1] /\ Len(q) \in Nat \ {0}
  <2> HIDE DEF q, t
  <2> QED
    BY <1>1, <1>2, SegmentTail
<1>4. q[1] \in 1..Len(load)
  <2> HIDE DEF q, t
  <2> QED
    BY <1>2, <1>3 DEF FrameAt
<1>5. BitCount(q[1]) \in Nat
  <2> HIDE DEF q
  <2>1. load[q[1]] * (frame_size - 1) \in Nat
    BY <1>2, <1>4, FrameBitsType
  <2> QED
    BY <2>1 DEF BitCount
<1>6. TypeOK'
  <2> HIDE DEF q
  <2> QED
    BY <1>1, <1>5 DEF IndInv, TypeOK, BitCount
<1>7. /\ \A s \in Streams : Taken(s)' = Taken(s)
      /\ Scaled' = Scaled /\ Demapped' = Demapped /\ Measured' = Measured
      /\ Sampled' = Sampled
  BY <1>1 DEF Taken, Scaled, Demapped, Measured, Sampled
<1>8. /\ Taken("pow")' = Taken("pow") /\ Taken("map")' = Taken("map")
      /\ Taken("ref")' = Taken("ref") /\ Taken("count")' = Taken("count")
  BY <1>7 DEF Streams
<1> HIDE DEF q, t
<1> QED
  BY <1>1, <1>6, <1>7, <1>8
     DEF IndInv, DataTypes, FrameStreams, SampleStream, PowerHeld, SymbolStream, BitmapHeld,
         DataStream, RefStream, WindowHeld, RateStream, TriggerStream, Published

LEMMA ReferenceBits ==
  ASSUME NEW l \in Seq(Loads), NEW t \in Nat, NEW n \in Nat, t + n <= Len(l),
         NEW u \in [1..n -> Seq(RefBit)], Continue(u, FrameBits(l), t, n),
         NEW z, z = FlattenSeq(u)
  PROVE  /\ z \in Seq(RefBit) /\ Len(z) \in Nat
         /\ At(l, t + n) = At(l, t) + Len(z) /\ At(l, t) \in Nat
         /\ \A k \in 1..Len(z) : AllBits(l)[At(l, t) + k] = z[k]
<1> DEFINE s == FrameBits(l)
           e == Len(l)
<1>1. /\ e \in Nat /\ s \in [1..e -> Seq(RefBit)] /\ t + n <= e
      /\ Continue(u, s, t, n)
  BY FrameBitsType
<1> HIDE DEF s, e
<1>2. z \in Seq(RefBit) /\ Follows(z, s, e, t, n)
  BY <1>1, JoinedNext
<1> QED
  BY <1>2 DEF At, AllBits, Follows, s, e

LEMMA ReferenceInv ==
  ASSUME IndInv, NEW runs \in Calls, Reference(runs)
  PROVE  IndInv'
<1> DEFINE q == buf["ref"]
           p == buf["refdata"]
           t == Taken("ref")
           e == Len(load)
           s == FrameBits(load)
           counts == [k \in 1..runs |-> BitCount(q[k])]
           n == EqualCount(counts, runs, ref_bitcount)
           u == [k \in 1..n |-> DataBits(q[k], ref_bitcount)]
           z == FlattenSeq(u)
<1>1. /\ runs <= Len(q)
      /\ UNCHANGED <<load, decoded, power, demapper, ref_bitcount, ber, d_produced, out>>
      /\ buf' = [buf EXCEPT !["ref"] = Drop(@, n), !["refdata"] = @ \o z]
  BY DEF Reference
<1>2. DOMAIN buf = Streams
  BY Lengths
<1>3. /\ DOMAIN buf' = Streams
      /\ buf'["ref"] = Drop(q, n)
      /\ buf'["refdata"] = p \o z
      /\ \A v \in Streams \ {"ref", "refdata"} : buf'[v] = buf[v]
  BY <1>1, <1>2 DEF Streams
<1>4. /\ q \in Seq(Nat) /\ Segment(q, FrameAt, t) /\ t \in Nat
      /\ load \in Seq(Loads) /\ e \in Nat /\ t + Len(q) = decoded /\ Len(q) \in Nat
      /\ decoded \in Nat /\ decoded <= e
      /\ p \in Seq(RefBit) /\ Segment(p, AllBits(load), Measured) /\ Measured \in Nat
      /\ Len(p) \in Nat /\ Measured + Len(p) = At(load, t)
  BY Lengths DEF IndInv, FrameStreams, RefStream
<1>5. n \in 0..runs /\ \A j \in 1..n : counts[j] = ref_bitcount
  <2> DEFINE T == {k \in 0..runs : \A j \in 1..k : counts[j] = ref_bitcount}
  <2>1. runs \in Nat /\ T \in SUBSET Nat /\ 0 \in T /\ \A x \in T : x <= runs
    BY RxAssumption DEF Calls
  <2>2. n = Max(T)
    BY DEF EqualCount
  <2> HIDE DEF T, n
  <2>3. T # {}
    BY <2>1
  <2>4. n \in T
    BY <2>1, <2>2, <2>3, Greatest
  <2> QED
    BY <2>4 DEF T
<1>6. n \in 0..Len(q) /\ n \in Nat /\ t + n <= e /\ t + n \in Nat
  <2> HIDE DEF n, q, t
  <2>1. runs \in Nat
    BY RxAssumption DEF Calls
  <2> QED
    BY <1>1, <1>4, <1>5, <2>1
<1> HIDE DEF n
<1>7. ASSUME NEW k \in 1..n PROVE u[k] = s[t + k]
  <2>1. q[k] = t + k /\ t + k \in 1..e /\ k \in 1..runs
    <3>1. q[k] = FrameAt[t + k] /\ t + k \in Nat /\ t + k \in 1..e /\ k \in 1..runs
      <4>1. k \in 1..Len(q) /\ k \in 1..runs /\ t + k \in Nat /\ t + k \in 1..e
        <5> DEFINE x == Len(q)
        <5>1. runs \in Nat
          BY RxAssumption DEF Calls
        <5>2. n \in 0..runs
          BY <1>5
        <5>3. x \in Nat /\ t \in Nat /\ n \in 0..x /\ t + x = decoded
              /\ decoded \in Nat /\ decoded <= e /\ e \in Nat
          BY <1>4, <1>6
        <5> HIDE DEF q, t, e, x
        <5>4. k \in 1..x /\ k \in 1..runs /\ t + k \in Nat /\ t + k \in 1..e
          BY <5>1, <5>2, <5>3
        <5> QED
          BY <5>4 DEF x
      <4> QED
        BY <1>4, <4>1 DEF Segment
    <3> QED
      BY <3>1 DEF FrameAt
  <2>2. ref_bitcount = load[t + k] * (frame_size - 1)
    <3>1. counts[k] = BitCount(q[k])
      BY <2>1
    <3> QED
      BY <1>5, <2>1, <3>1 DEF BitCount
  <2>3. s[t + k] = DataBits(t + k, load[t + k] * (frame_size - 1))
    <3> DEFINE f == t + k
    <3>1. f \in 1..Len(load)
      BY <2>1
    <3> HIDE DEF f
    <3> QED
      BY <1>4, <3>1, FrameBitsType DEF f
  <2> QED
    BY <2>1, <2>2, <2>3
<1>8. s \in [1..e -> Seq(RefBit)]
  BY <1>4, FrameBitsType
<1>9. u \in [1..n -> Seq(RefBit)]
  <2> SUFFICES ASSUME NEW k \in 1..n PROVE u[k] \in Seq(RefBit)
    OBVIOUS
  <2>1. t + k \in 1..e
    <3> HIDE DEF t, e
    <3> QED
      BY <1>4, <1>6
  <2> HIDE DEF u, s, e
  <2> QED
    BY <1>7, <1>8, <2>1
<1>10. /\ z \in Seq(RefBit) /\ Len(z) \in Nat
       /\ At(load, t + n) = At(load, t) + Len(z) /\ At(load, t) \in Nat
       /\ \A k \in 1..Len(z) : AllBits(load)[At(load, t) + k] = z[k]
  <2> HIDE DEF u, s, t
  <2>1. u \in [1..n -> Seq(RefBit)] /\ Continue(u, FrameBits(load), t, n)
    BY <1>7, <1>9 DEF s, Continue
  <2>2. t \in Nat /\ t + n <= Len(load) /\ load \in Seq(Loads)
    BY <1>4, <1>6
  <2>3. /\ z \in Seq(RefBit) /\ Len(z) \in Nat
        /\ At(load, t + n) = At(load, t) + Len(z) /\ At(load, t) \in Nat
        /\ \A k \in 1..Len(z) : AllBits(load)[At(load, t) + k] = z[k]
    BY <1>6, <2>1, <2>2, ReferenceBits
  <2> QED
    BY <2>3
<1> HIDE DEF z
<1>11. /\ p \o z \in Seq(RefBit) /\ Len(p \o z) = Len(p) + Len(z)
       /\ Segment(p \o z, AllBits(load), Measured)
  <2>1. Segment(z, AllBits(load), Measured + Len(p))
    BY <1>4, <1>10 DEF Segment
  <2> HIDE DEF p
  <2> QED
    BY <1>4, <1>10, <2>1, ConcatProperties, SegmentConcat
<1>12. /\ Drop(q, n) \in Seq(Nat) /\ Len(Drop(q, n)) = Len(q) - n
       /\ Segment(Drop(q, n), FrameAt, t + n)
  <2> HIDE DEF q, t
  <2>1. q \in Seq(Nat) /\ Segment(q, FrameAt, t) /\ t \in Nat /\ n \in 0..Len(q)
    BY <1>4, <1>6
  <2>2. /\ SubSeq(q, n + 1, Len(q)) \in Seq(Nat)
        /\ Len(SubSeq(q, n + 1, Len(q))) = Len(q) - n
        /\ Segment(SubSeq(q, n + 1, Len(q)), FrameAt, t + n)
    BY SMTT(30), <2>1, SegmentDrop
  <2> QED
    BY <2>2 DEF Drop
<1>13. Taken("ref")' = t + n
  <2> DEFINE k == Len(q)
             h == Taken("ref")'
  <2>1. h = decoded - (k - n)
    BY <1>1, <1>3, <1>12 DEF Taken
  <2>2. t + k = decoded /\ decoded \in Nat /\ k \in Nat /\ t \in Nat /\ n \in Nat
    BY <1>4, <1>6
  <2> HIDE DEF h, k, e, t
  <2>3. h = t + n
    BY <2>1, <2>2
  <2> QED
    BY <2>3 DEF h
<1>14. Measured' = Measured
  <2>1. Measured' = At(load, t + n) - Len(p \o z)
    BY <1>1, <1>3, <1>13 DEF Measured
  <2> DEFINE a == Len(p)
             b == Len(z)
             c == At(load, t)
  <2>2. Measured' = (c + b) - (a + b) /\ Measured + a = c
    BY <1>4, <1>10, <1>11, <2>1
  <2>3. a \in Nat /\ b \in Nat /\ c \in Nat
    BY <1>4, <1>10
  <2> HIDE DEF a, b, c
  <2> QED
    BY <1>4, <2>2, <2>3
<1>15. /\ \A v \in {"pow", "map", "count"} : Taken(v)' = Taken(v)
       /\ Scaled' = Scaled /\ Demapped' = Demapped /\ Sampled' = Sampled
  BY <1>1, <1>3, <1>14 DEF Taken, Scaled, Demapped, Sampled, Streams
<1> HIDE DEF q, t, p, e
<1>16. TypeOK'
  BY <1>1, <1>3, <1>12 DEF IndInv, TypeOK, Streams, BitCount
<1>17. DataTypes' /\ RefStream'
  BY <1>3, <1>4, <1>11, <1>14, <1>1 DEF IndInv, DataTypes, RefStream, Streams
<1>18. FrameStreams'
  BY <1>3, <1>6, <1>12, <1>13, <1>15 DEF IndInv, FrameStreams, Streams
<1>19. SampleStream' /\ PowerHeld' /\ SymbolStream' /\ BitmapHeld' /\ DataStream'
       /\ WindowHeld' /\ RateStream' /\ TriggerStream' /\ Published'
  BY <1>1, <1>3, <1>14, <1>15
     DEF IndInv, SampleStream, PowerHeld, SymbolStream, BitmapHeld, DataStream, WindowHeld,
         RateStream, TriggerStream, Published, Streams
<1> QED
  BY <1>16, <1>17, <1>18, <1>19 DEF IndInv

-----------------------------------------------------------------------------
(* ber_measurement.                                                        *)

ErrorAt(l) == [n \in Int |-> IF Inverted(l, n) THEN 1 ELSE 0]

(* A bit enters the window and one leaves it.                              *)
LEMMA WindowSucc ==
  ASSUME NEW l, NEW c \in Nat
  PROVE  /\ Window(l, c) \in Rate
         /\ ErrorAt(l)[c + 1] \in {0, 1}
         /\ ErrorAt(l)[c - sliding_window_length + 1] \in {0, 1}
         /\ Window(l, c + 1)
              = [bits |-> sliding_window_length,
                 errs |-> Window(l, c).errs
                            - ErrorAt(l)[c - sliding_window_length + 1]
                            + ErrorAt(l)[c + 1]]
<1> DEFINE w == sliding_window_length
           A == InWindow(l, c)
           x == c - w + 1
           y == c + 1
           B == A \ {x}
           C == InWindow(l, c + 1)
<1>1. w \in Nat \ {0} /\ x \in Int /\ y \in Int /\ x <= c /\ y \in Nat
  BY Sizes
<1>2. ErrorAt(l)[x] = (IF Inverted(l, x) THEN 1 ELSE 0)
      /\ ErrorAt(l)[y] = (IF Inverted(l, y) THEN 1 ELSE 0)
  BY <1>1 DEF ErrorAt
<1>3. IsFiniteSet(A) /\ Cardinality(A) \in Nat /\ IsFiniteSet(B)
  <2>1. IsFiniteSet(1..c)
    BY FS_Interval
  <2>2. A \subseteq 1..c /\ B \subseteq A
    BY DEF InWindow
  <2> HIDE DEF A, B
  <2>3. IsFiniteSet(A) /\ IsFiniteSet(B)
    BY <2>1, <2>2, FS_Subset
  <2> QED
    BY <2>3, FS_CardinalityType
<1>4. x \in A <=> Inverted(l, x)
  BY <1>1 DEF InWindow, Inverted
<1>5. y \notin B /\ C = (IF Inverted(l, y) THEN B \cup {y} ELSE B)
  <2>1. 1..(c + 1) = (1..c) \cup {y}
    BY <1>1
  <2>2. \A k \in 1..c : (k > (c + 1) - w) <=> (k > c - w /\ k # x)
    BY <1>1
  <2>3. y > (c + 1) - w
    BY <1>1
  <2>4. y \notin 1..c
    BY <1>1
  <2>5. C = {k \in (1..c) \cup {y} : k > (c + 1) - w /\ Inverted(l, k)}
    BY <2>1 DEF InWindow
  <2>6. B = {k \in 1..c : k > c - w /\ k # x /\ Inverted(l, k)}
    BY DEF InWindow
  <2> HIDE DEF C, B, A, y, x, w
  <2>7. B = {k \in 1..c : k > (c + 1) - w /\ Inverted(l, k)}
    BY <2>2, <2>6
  <2> QED
    BY <2>3, <2>4, <2>5, <2>7
<1>6. Cardinality(B) = Cardinality(A) - ErrorAt(l)[x] /\ Cardinality(B) \in Nat
  <2> HIDE DEF x, A
  <2>1. CASE Inverted(l, x)
    BY <1>2, <1>3, <1>4, <2>1, FS_RemoveElement, FS_CardinalityType
  <2>2. CASE ~Inverted(l, x)
    <3>1. B = A
      BY <1>4, <2>2
    <3> QED
      BY <1>2, <1>3, <2>2, <3>1
  <2> QED
    BY <2>1, <2>2
<1>7. Cardinality(C) = Cardinality(B) + ErrorAt(l)[y]
  <2> HIDE DEF x, A, y, B, C
  <2>1. CASE Inverted(l, y)
    <3>1. Cardinality(B \cup {y}) = Cardinality(B) + 1
      BY <1>3, <1>5, FS_AddElement
    <3> QED
      BY <1>2, <1>5, <2>1, <3>1
  <2>2. CASE ~Inverted(l, y)
    BY <1>2, <1>5, <1>6, <2>2
  <2> QED
    BY <2>1, <2>2
<1>8. Window(l, c) = [bits |-> w, errs |-> Cardinality(A)]
      /\ Window(l, c + 1) = [bits |-> w, errs |-> Cardinality(C)]
  BY DEF Window
<1>9. Window(l, c) \in Rate
  <2> HIDE DEF w, A
  <2> QED
    BY <1>1, <1>3, <1>8 DEF Rate
<1> QED
  BY <1>2, <1>6, <1>7, <1>8, <1>9

(* The locals of a call that began with a bits measured and measures n,    *)
(* when c are.                                                             *)
Sliding(s, l, a, n, c) ==
  /\ s \in SlideLocals
  /\ Segment(s.inputs, ErrorAt(l), c - sliding_window_length)
  /\ Len(s.inputs) = a + n - c + sliding_window_length
  /\ s.rate = Window(l, c)
  /\ Len(s.rates) = c - a
  /\ Segment(s.rates, RateAt(l), a)

LEMMA SlideTurn ==
  ASSUME NEW l, NEW a \in Nat, NEW n \in Nat, NEW c \in a..(a + n - 1),
         NEW s, Sliding(s, l, a, n, c)
  PROVE  Sliding(Slide(s), l, a, n, c + 1)
<1> DEFINE w == sliding_window_length
           i == s.inputs
           r == s.rates
           t == Slide(s)
           rate == [bits |-> s.rate.bits - 1 + 1, errs |-> s.rate.errs - i[1] + i[w + 1]]
<1>1. w \in Nat \ {0} /\ c \in Nat /\ c < a + n
  BY Sizes
<1>2. /\ s.rate \in Rate /\ i \in Seq({0, 1}) /\ r \in Seq(Rate)
      /\ Segment(i, ErrorAt(l), c - w)
      /\ Len(i) = a + n - c + w
      /\ s.rate = Window(l, c)
      /\ Len(r) = c - a
      /\ Segment(r, RateAt(l), a)
  BY DEF Sliding, SlideLocals
<1> HIDE DEF i, r
<1>3. 1 \in 1..Len(i) /\ w + 1 \in 1..Len(i) /\ Len(i) \in Nat \ {0}
      /\ (c - w) + (w + 1) = c + 1 /\ c - w \in Int
  BY <1>1, <1>2
<1>4. i[1] = ErrorAt(l)[c - w + 1] /\ i[w + 1] = ErrorAt(l)[c + 1]
  BY <1>2, <1>3 DEF Segment
<1>5. rate = Window(l, c + 1) /\ rate \in Rate
  <2>1. /\ s.rate \in Rate
        /\ s.rate.bits = w
        /\ Window(l, c + 1) = [bits |-> w, errs |-> s.rate.errs - i[1] + i[w + 1]]
    BY SMTT(30), <1>1, <1>2, <1>4, WindowSucc DEF Window
  <2>2. w - 1 + 1 = w
    BY <1>1
  <2>3. Window(l, c + 1) \in Rate
    <3>1. c + 1 \in Nat
      BY <1>1
    <3> QED
      BY <3>1, WindowSucc
  <2> QED
    BY <2>1, <2>2, <2>3
<1>6. t = [rate |-> rate, inputs |-> Tail(i), rates |-> Append(r, rate)]
  BY DEF Slide, i, r
<1> HIDE DEF rate, t
<1>7. /\ Tail(i) \in Seq({0, 1}) /\ Len(Tail(i)) = Len(i) - 1
      /\ Segment(Tail(i), ErrorAt(l), (c - w) + 1)
  <2>1. i # << >>
    BY <1>3, EmptySeq
  <2> DEFINE m == c - w
  <2>2. m \in Int /\ Segment(i, ErrorAt(l), m)
    BY <1>2, <1>3
  <2> HIDE DEF m
  <2>3. /\ Tail(i) \in Seq({0, 1}) /\ Len(Tail(i)) = Len(i) - 1
        /\ Segment(Tail(i), ErrorAt(l), m + 1)
    BY <1>2, <2>1, <2>2, SegmentTail
  <2> QED
    BY <2>3 DEF m
<1>8. /\ Append(r, rate) \in Seq(Rate)
      /\ Len(Append(r, rate)) = Len(r) + 1
      /\ Segment(Append(r, rate), RateAt(l), a)
  <2>1. a + Len(r) + 1 = c + 1 /\ c + 1 \in Nat /\ a \in Int
    BY <1>1, <1>2
  <2>2. rate = RateAt(l)[a + Len(r) + 1]
    BY <1>5, <2>1 DEF RateAt
  <2> QED
    BY <1>2, <1>5, <2>1, <2>2, SegmentAppend
<1>9. t \in SlideLocals
  BY <1>5, <1>6, <1>7, <1>8 DEF SlideLocals
<1>10. /\ (c - w) + 1 = (c + 1) - w
       /\ Len(i) - 1 = a + n - (c + 1) + w
       /\ Len(r) + 1 = (c + 1) - a
  BY <1>1, <1>2
<1> QED
  BY <1>5, <1>6, <1>7, <1>8, <1>9, <1>10 DEF Sliding, t

LEMMA SlideLoop ==
  ASSUME NEW l, NEW a \in Nat, NEW n \in Nat, NEW call, Sliding(call, l, a, n, a)
  PROVE  Sliding(Turns([s \in SlideLocals |-> Slide(s)], call, n), l, a, n, a + n)
<1> DEFINE turn == [s \in SlideLocals |-> Slide(s)]
<1> HIDE DEF turn
<1>1. PICK r : /\ r[0] = call
               /\ \A k \in 0..(n - 1) : r[k + 1] = turn[r[k]]
               /\ r[n] = Turns(turn, call, n)
  BY Loop
<1> DEFINE T == {k \in 0..n : ~Sliding(r[k], l, a, n, a + k)}
<1>2. 0 \notin T
  <2>1. a + 0 = a
    OBVIOUS
  <2> QED
    BY <1>1, <2>1
<1>3. ASSUME NEW k \in 0..(n - 1), k \notin T PROVE k + 1 \notin T
  <2>1. a + k \in a..(a + n - 1) /\ Sliding(r[k], l, a, n, a + k)
        /\ a + (k + 1) = (a + k) + 1
    BY <1>3
  <2>2. Sliding(Slide(r[k]), l, a, n, (a + k) + 1)
    <3> DEFINE c == a + k
               s == r[k]
    <3>1. c \in a..(a + n - 1) /\ Sliding(s, l, a, n, c)
      BY <2>1
    <3> HIDE DEF c, s
    <3>2. Sliding(Slide(s), l, a, n, c + 1)
      BY <3>1, SlideTurn
    <3> QED
      BY <3>2 DEF c, s
  <2>3. r[k + 1] = Slide(r[k])
    <3>1. r[k] \in SlideLocals
      BY <2>1 DEF Sliding
    <3>2. turn[r[k]] = Slide(r[k])
      BY <3>1 DEF turn
    <3> QED
      BY <1>1, <3>2
  <2> QED
    BY <2>1, <2>2, <2>3
<1>4. T = {}
  <2>1. T \in SUBSET (0..n)
    OBVIOUS
  <2> HIDE DEF T
  <2> QED
    BY <1>2, <1>3, <2>1, NoFirst
<1>5. Sliding(r[n], l, a, n, a + n)
  <2>1. n \in 0..n
    OBVIOUS
  <2> QED
    BY <1>4, <2>1
<1> QED
  BY <1>1, <1>5 DEF turn

(* Two bits with the same number are in step.                              *)
LEMMA SameNumber ==
  ASSUME NEW l, NEW c \in Nat \ {0}, NEW bit, NEW reference,
         bit = DataAt(l)[c], reference = AllBits(l)[c]
  PROVE  /\ bit.frame = reference.frame /\ bit.pos = reference.pos
         /\ bit.map = bit.frame /\ bit.power = bit.frame
         /\ Errors(bit, reference) = ErrorAt(l)[c]
<1>1. bit = [frame |-> reference.frame, pos |-> reference.pos,
             map |-> reference.frame, power |-> reference.frame]
  BY DEF DataAt
<1>2. Inverted(l, c) <=> <<bit.frame, bit.pos>> \in Wrong
  BY <1>1 DEF Inverted
<1>3. ErrorAt(l)[c] = (IF Inverted(l, c) THEN 1 ELSE 0)
  BY DEF ErrorAt
<1> QED
  BY <1>1, <1>2, <1>3 DEF Errors

LEMMA MeasurementInv ==
  ASSUME IndInv, NEW n \in Calls, BerMeasurement(n)
  PROVE  IndInv'
<1> DEFINE a == Measured
           w == sliding_window_length
           p == buf["data"]
           q == buf["refdata"]
           v == buf["rates"]
           errors == [k \in 1..n |-> Errors(p[k], q[k])]
           inputs == ber.history \o errors
           call == [rate |-> ber.rate, inputs |-> inputs, rates |-> << >>]
           s == Turns([x \in SlideLocals |-> Slide(x)], call, n)
<1>1. /\ n <= Len(p) /\ n <= Len(q)
      /\ UNCHANGED <<load, decoded, power, demapper, ref_bitcount, d_produced, out>>
      /\ ber' = [rate |-> s.rate, history |-> s.inputs]
      /\ buf' = [buf EXCEPT !["data"] = Drop(@, n), !["refdata"] = Drop(@, n),
                            !["rates"] = @ \o s.rates]
  <2> HIDE DEF s
  <2> QED
    BY DEF BerMeasurement, s
<1>2. DOMAIN buf = Streams /\ n \in Nat /\ w \in Nat \ {0}
  BY Lengths, Sizes, RxAssumption DEF Calls
<1>3. /\ a \in Nat
      /\ p \in Seq(Bit) /\ Len(p) \in Nat /\ Segment(p, DataAt(load), a)
      /\ q \in Seq(RefBit) /\ Len(q) \in Nat /\ Segment(q, AllBits(load), a)
      /\ v \in Seq(Rate) /\ Len(v) \in Nat /\ Segment(v, RateAt(load), Sampled)
      /\ Sampled \in Nat /\ Sampled + Len(v) = a
      /\ a + Len(p) = BitsBefore(load, Demapped)
      /\ a + Len(q) = At(load, Taken("ref")) /\ At(load, Taken("ref")) \in Nat
  BY Lengths DEF IndInv, DataStream, RefStream, RateStream
<1>4. /\ errors \in Seq({0, 1}) /\ Len(errors) = n
      /\ Segment(errors, ErrorAt(load), a)
  <2>1. ASSUME NEW k \in 1..n
        PROVE  Errors(p[k], q[k]) \in {0, 1} /\ Errors(p[k], q[k]) = ErrorAt(load)[a + k]
    <3>1. k \in 1..Len(p) /\ k \in 1..Len(q) /\ a + k \in Nat \ {0}
      <4>1. n <= Len(p) /\ n <= Len(q) /\ n \in Nat
        BY <1>1, <1>2
      <4>2. Len(p) \in Nat /\ Len(q) \in Nat /\ a \in Nat
        BY <1>3
      <4> HIDE DEF a, p, q
      <4> QED
        BY <4>1, <4>2
    <3> DEFINE x == p[k]
               y == q[k]
               c == a + k
    <3>2. x = DataAt(load)[c] /\ y = AllBits(load)[c]
      BY <1>3, <3>1 DEF Segment
    <3> HIDE DEF x, y, c
    <3>3. Errors(x, y) = ErrorAt(load)[c]
      BY <3>1, <3>2, SameNumber DEF c
    <3>4. Errors(x, y) \in {0, 1}
      BY DEF Errors
    <3> QED
      BY <3>3, <3>4 DEF x, y, c
  <2> DEFINE E(k) == Errors(p[k], q[k])
  <2>2. errors = [k \in 1..n |-> E(k)] /\ \A k \in 1..n : E(k) \in {0, 1}
    BY <2>1
  <2>3. \A k \in 1..n : E(k) = ErrorAt(load)[a + k]
    BY <2>1
  <2> HIDE DEF E, errors
  <2>4. errors \in Seq({0, 1}) /\ Len(errors) = n
    BY <1>2, <2>2
  <2> QED
    BY <2>2, <2>3, <2>4 DEF Segment
<1> HIDE DEF errors
<1>5. /\ ber.history \in Seq({0, 1}) /\ Len(ber.history) = w
      /\ Segment(ber.history, ErrorAt(load), a - w)
  <2> DEFINE h == ber.history
  <2>1. /\ h \in [1..w -> {0, 1}]
        /\ \A b \in 1..w : h[b] = IF Inverted(load, a - w + b) THEN 1 ELSE 0
    BY DEF IndInv, TypeOK, WindowHeld
  <2> HIDE DEF h
  <2>2. h \in Seq({0, 1}) /\ Len(h) = w
    BY <1>2, <2>1
  <2>3. \A b \in 1..w : a - w + b \in Int
    BY <1>2, <1>3
  <2>4. \A b \in 1..w : ErrorAt(load)[a - w + b] = IF Inverted(load, a - w + b) THEN 1 ELSE 0
    BY <2>3 DEF ErrorAt
  <2>5. Segment(h, ErrorAt(load), a - w)
    BY <2>1, <2>2, <2>4 DEF Segment
  <2> QED
    BY <2>2, <2>5 DEF h
<1>6. Sliding(s, load, a, n, a + n)
  <2>1. /\ inputs \in Seq({0, 1}) /\ Len(inputs) = w + n
        /\ Segment(inputs, ErrorAt(load), a - w)
    <3> DEFINE h == ber.history
               m == a - w
    <3>1. m \in Int /\ m + w = a
      BY <1>2, <1>3
    <3>2. h \in Seq({0, 1}) /\ Len(h) = w /\ Segment(h, ErrorAt(load), m)
      BY <1>5
    <3> HIDE DEF h, m
    <3>3. Segment(errors, ErrorAt(load), m + Len(h))
      BY <1>4, <3>1, <3>2
    <3>4. h \o errors \in Seq({0, 1}) /\ Len(h \o errors) = w + n
      BY <1>4, <3>2, ConcatProperties
    <3>5. Segment(h \o errors, ErrorAt(load), m)
      BY <1>4, <3>1, <3>2, <3>3, SegmentConcat
    <3> QED
      BY <3>4, <3>5 DEF h, m
  <2>2. ber.rate = Window(load, a) /\ ber.rate \in Rate
    BY DEF IndInv, TypeOK, WindowHeld
  <2>3. << >> \in Seq(Rate) /\ Len(<< >>) = 0 /\ Segment(<< >>, RateAt(load), a)
    BY EmptySeq DEF Segment
  <2> HIDE DEF inputs
  <2>4. call \in SlideLocals /\ call.inputs = inputs /\ call.rate = ber.rate
        /\ call.rates = << >>
    BY <2>1, <2>2, <2>3 DEF SlideLocals
  <2>5. w + n = a + n - a + w /\ 0 = a - a
    BY <1>2, <1>3
  <2> HIDE DEF call, a
  <2>6. Sliding(call, load, a, n, a)
    BY <2>1, <2>2, <2>3, <2>4, <2>5 DEF Sliding
  <2> QED
    BY <1>2, <1>3, <2>6, SlideLoop
<1> HIDE DEF s
<1>7. /\ s.rate \in Rate /\ s.inputs \in Seq({0, 1}) /\ s.rates \in Seq(Rate)
      /\ Segment(s.inputs, ErrorAt(load), (a + n) - w)
      /\ Len(s.inputs) = w
      /\ s.rate = Window(load, a + n)
      /\ Len(s.rates) = n
      /\ Segment(s.rates, RateAt(load), a)
  <2>1. a + n - (a + n) + w = w /\ (a + n) - a = n
    BY <1>2, <1>3
  <2> HIDE DEF a, w
  <2> QED
    BY <1>6, <2>1 DEF Sliding, SlideLocals, w
<1>8. /\ DOMAIN buf' = Streams
      /\ buf'["data"] = Drop(p, n) /\ buf'["refdata"] = Drop(q, n)
      /\ buf'["rates"] = v \o s.rates
      /\ \A t \in Streams \ {"data", "refdata", "rates"} : buf'[t] = buf[t]
  BY <1>1, <1>2 DEF Streams
<1>9. /\ Drop(p, n) \in Seq(Bit) /\ Len(Drop(p, n)) = Len(p) - n
      /\ Segment(Drop(p, n), DataAt(load), a + n)
  <2>1. n \in 0..Len(p)
    BY <1>1, <1>2, <1>3
  <2> HIDE DEF p, a
  <2> QED
    BY <1>3, <2>1, SegmentDrop DEF Drop
<1>10. /\ Drop(q, n) \in Seq(RefBit) /\ Len(Drop(q, n)) = Len(q) - n
       /\ Segment(Drop(q, n), AllBits(load), a + n)
  <2>1. n \in 0..Len(q)
    BY <1>1, <1>2, <1>3
  <2> HIDE DEF q, a
  <2> QED
    BY <1>3, <2>1, SegmentDrop DEF Drop
<1>11. /\ v \o s.rates \in Seq(Rate) /\ Len(v \o s.rates) = Len(v) + n
       /\ Segment(v \o s.rates, RateAt(load), Sampled)
  <2> DEFINE z == s.rates
  <2>1. z \in Seq(Rate) /\ Segment(z, RateAt(load), Sampled + Len(v)) /\ Len(z) = n
    BY <1>3, <1>7
  <2> HIDE DEF z, v
  <2>2. v \o z \in Seq(Rate) /\ Len(v \o z) = Len(v) + n
    BY <1>3, <2>1, ConcatProperties
  <2>3. Segment(v \o z, RateAt(load), Sampled)
    BY <1>3, <2>1, SegmentConcat
  <2> QED
    BY <2>2, <2>3 DEF z
<1>12. /\ \A t \in Settings : Taken(t)' = Taken(t)
       /\ Scaled' = Scaled /\ Demapped' = Demapped
  BY <1>1, <1>8 DEF Taken, Scaled, Demapped, Streams
<1>13. Measured' = a + n
  <2> DEFINE k == Len(q)
             e == At(load, Taken("ref"))
  <2>1. Measured' = e - (k - n)
    BY <1>1, <1>8, <1>10, <1>12 DEF Measured
  <2>2. a + k = e /\ k \in Nat /\ e \in Nat
    BY <1>3
  <2> HIDE DEF k, e, a
  <2> QED
    BY <1>2, <1>3, <2>1, <2>2
<1>14. Sampled' = Sampled
  <2>1. Sampled' = (a + n) - (Len(v) + n)
    BY <1>8, <1>11, <1>13 DEF Sampled
  <2> DEFINE k == Len(v)
             g == Sampled
             h == Sampled'
  <2>2. k \in Nat /\ g + k = a /\ g \in Nat /\ a \in Nat /\ h = (a + n) - (k + n)
    BY <1>3, <2>1
  <2> HIDE DEF k, a, g, h
  <2>3. h = g
    BY <1>2, <2>2
  <2> QED
    BY <2>3 DEF g, h
<1> HIDE DEF p, q, v
<1>15. TypeOK'
  <2>1. s.inputs \in [1..w -> {0, 1}]
    <3>1. s.inputs \in [1..Len(s.inputs) -> {0, 1}]
      BY <1>7, LenProperties
    <3> QED
      BY <1>7, <3>1
  <2>2. ber'.rate \in Rate /\ ber'.history \in [1..w -> {0, 1}]
    BY <1>1, <1>7, <2>1
  <2> QED
    BY <1>1, <1>8, <1>11, <2>2 DEF IndInv, TypeOK, Streams, BitCount
<1>16. DataTypes'
  BY <1>8, <1>9, <1>10 DEF DataTypes
<1>17. DataStream'
  <2>1. (a + n) + (Len(p) - n) = a + Len(p)
    BY <1>2, <1>3
  <2> HIDE DEF a
  <2> QED
    BY <1>1, <1>3, <1>8, <1>9, <1>12, <1>13, <2>1 DEF DataStream
<1>18. RefStream'
  <2>1. a + n \in Nat
    BY <1>2, <1>3
  <2> QED
    BY <1>1, <1>8, <1>10, <1>13, <2>1 DEF RefStream
<1>19. WindowHeld'
  <2> DEFINE m == (a + n) - w
             h == s.inputs
  <2>1. m \in Int /\ \A b \in 1..w : m + b \in Int
    BY <1>2, <1>3
  <2>2. Segment(h, ErrorAt(load), m) /\ Len(h) = w
    BY <1>7
  <2> HIDE DEF m, h
  <2>3. \A b \in 1..w : h[b] = IF Inverted(load, m + b) THEN 1 ELSE 0
    BY <2>1, <2>2 DEF Segment, ErrorAt
  <2> HIDE DEF a
  <2>4. ber'.rate = Window(load, a + n) /\ ber'.history = h
    BY <1>1, <1>7 DEF h
  <2> QED
    BY <1>1, <1>13, <2>3, <2>4 DEF WindowHeld, m
<1>20. RateStream'
  BY <1>1, <1>3, <1>8, <1>11, <1>14 DEF RateStream
<1>21. FrameStreams' /\ SampleStream' /\ PowerHeld' /\ SymbolStream' /\ BitmapHeld'
       /\ TriggerStream' /\ Published'
  BY <1>1, <1>8, <1>12, <1>14
     DEF IndInv, FrameStreams, SampleStream, PowerHeld, SymbolStream, BitmapHeld,
         TriggerStream, Published, Streams
<1> QED
  BY <1>15, <1>16, <1>17, <1>18, <1>19, <1>20, <1>21 DEF IndInv

-----------------------------------------------------------------------------
(* dynamic_trigger_ib.                                                     *)

(* Of the bits of a frame only the last has a trigger.                     *)
LEMMA OneTrigger ==
  ASSUME NEW l \in Seq(Loads), NEW f \in 0..(Len(l) - 1), NEW x \in Nat,
         At(l, f) < x, x <= At(l, f + 1)
  PROVE  TriggerAt(l)[x] = (x = At(l, f + 1))
<1> DEFINE n == Len(l)
<1>1. n \in Nat /\ f \in 0..n /\ f + 1 \in 1..n /\ f + 1 \in 0..n
  BY FrameBitsType
<1>2. TriggerAt(l)[x] = \E g \in 1..n : x = At(l, g)
  BY DEF TriggerAt
<1>3. ASSUME NEW g \in 1..n, x = At(l, g) PROVE g = f + 1
  <2>1. CASE g <= f
    <3>1. g \in 0..n /\ f \in g..n
      BY <1>1, <2>1
    <3>2. At(l, g) <= At(l, f) /\ At(l, f) \in Nat
      BY <3>1, AtMonotonic
    <3> QED
      BY <1>3, <3>2
  <2>2. CASE g > f + 1
    <3>1. f + 1 \in 0..n /\ g \in (f + 1)..n /\ f + 1 < g
      BY <1>1, <2>2
    <3>2. At(l, f + 1) < At(l, g) /\ At(l, f + 1) \in Nat
      <4> DEFINE h == f + 1
      <4>1. h \in 0..n /\ g \in h..n /\ h < g
        BY <3>1
      <4> HIDE DEF h
      <4> QED
        BY <4>1, AtMonotonic DEF h
    <3> QED
      BY <1>3, <3>2
  <2> QED
    BY <1>1, <2>1, <2>2
<1> QED
  BY <1>1, <1>2, <1>3

(* The locals of a call before which b bits had their trigger.             *)
Triggering(b) ==
  {s \in TriggerLocals :
     LET f == decoded - Len(s.in)
     IN  /\ f \in Nat /\ Segment(s.in, FrameAt, f)
         /\ IF s.in = << >> THEN s.produced = 0
            ELSE s.produced < BitCount(s.in[1])
         /\ b + Len(s.out) = At(load, f) + s.produced
         /\ Segment(s.out, TriggerAt(load), b)}

LEMMA TriggerTurnKeeps ==
  ASSUME load \in Seq(Loads), decoded \in 0..Len(load), NEW b \in Nat, NEW s \in Triggering(b)
  PROVE  TriggerTurn(s) \in Triggering(b)
<1> DEFINE e == Len(load)
           i == s.in
           f == decoded - Len(i)
           g == f + 1
           d == s.produced
           o == s.out
           c == BitCount(i[1])
           n == Min({s.room, c - d})
           last == d + n = c
           y == [k \in 1..n |-> last /\ k = n]
           t == TriggerTurn(s)
<1>1. /\ s \in TriggerLocals
      /\ f \in Nat /\ Segment(i, FrameAt, f)
      /\ IF i = << >> THEN d = 0 ELSE d < c
      /\ b + Len(o) = At(load, f) + d
      /\ Segment(o, TriggerAt(load), b)
  BY DEF Triggering
<1>2. /\ i \in Seq(Nat) /\ Len(i) \in Nat /\ s.room \in Nat /\ d \in Nat
      /\ o \in Seq(BOOLEAN) /\ Len(o) \in Nat /\ e \in Nat
      /\ decoded \in 0..e
  BY <1>1, FrameBitsType, LenProperties DEF TriggerLocals
<1>3. CASE s.room = 0 \/ i = << >>
  BY <1>3 DEF TriggerTurn
<1>4. CASE ~(s.room = 0 \/ i = << >>)
  <2>1. /\ i[1] = FrameAt[f + 1] /\ Len(i) \in Nat \ {0}
        /\ Tail(i) \in Seq(Nat) /\ Len(Tail(i)) = Len(i) - 1
        /\ Segment(Tail(i), FrameAt, f + 1)
    <3>1. f \in Int /\ i # << >>
      BY <1>1, <1>4
    <3> HIDE DEF i, f
    <3> QED
      BY <1>1, <1>2, <3>1, SegmentTail
  <2>2. i[1] = g /\ f \in 0..(e - 1) /\ g \in 1..e /\ g \in Nat
    <3>1. f \in 0..(e - 1)
      <4> DEFINE k == Len(i)
      <4>1. f = decoded - k /\ k \in Nat \ {0}
        BY <2>1
      <4> HIDE DEF k, f
      <4> QED
        BY <1>1, <1>2, <4>1
    <3> HIDE DEF f, e, i
    <3> QED
      BY <1>1, <1>2, <2>1, <3>1 DEF FrameAt
  <2>3. /\ c \in Nat \ {0} /\ At(load, f) \in Nat /\ At(load, g) \in Nat
        /\ At(load, g) = At(load, f) + c
    <3>1. c = load[g] * (frame_size - 1)
      BY <2>2 DEF BitCount
    <3> HIDE DEF c, f
    <3>2. load[g] * (frame_size - 1) \in Nat \ {0}
      <4> HIDE DEF g
      <4> QED
        BY <2>2, FrameBitsType
    <3> QED
      BY <2>2, <3>1, <3>2, AtSucc
  <2> HIDE DEF c
  <2>4. d < c /\ d \in Nat /\ s.room \in Nat \ {0} /\ c - d \in Nat \ {0}
    BY SMTT(30), <1>1, <1>2, <1>4, <2>3
  <2>5. n \in Nat \ {0} /\ n <= s.room /\ n <= c - d
    <3> DEFINE T == {s.room, c - d}
    <3>1. T \in SUBSET Nat /\ T # {} /\ s.room \in T /\ c - d \in T
      BY <2>4
    <3>2. n = Min(T)
      OBVIOUS
    <3> HIDE DEF T, n
    <3>3. n \in T /\ \A x \in T : n <= x
      BY <3>1, <3>2, Least
    <3> QED
      BY <2>4, <3>1, <3>3 DEF T
  <2> HIDE DEF n
  <2>6. /\ y \in Seq(BOOLEAN) /\ Len(y) = n
        /\ Segment(y, TriggerAt(load), b + Len(o))
    <3>1. y \in Seq(BOOLEAN) /\ Len(y) = n
      <4> HIDE DEF last
      <4> QED
        BY <2>5
    <3>2. ASSUME NEW k \in 1..n PROVE y[k] = TriggerAt(load)[b + Len(o) + k]
      <4> DEFINE a == At(load, f)
                 z == At(load, g)
                 x == b + Len(o) + k
      <4>1. x = a + d + k /\ a \in Nat /\ z \in Nat /\ z = a + c
        BY <1>1, <2>3
      <4>2. x \in Nat /\ a < x /\ x <= z /\ ((x = z) <=> (d + k = c))
            /\ ((last /\ k = n) <=> (d + k = c))
        <5>1. /\ c \in Nat /\ d \in Nat /\ n \in Nat /\ d + n <= c
              /\ k \in Nat /\ 1 <= k /\ k <= n
          BY <2>3, <2>4, <2>5
        <5> HIDE DEF a, z, x
        <5>2. x \in Nat /\ a < x /\ x <= z
          BY SMTT(30), <4>1, <5>1
        <5>3. (x = z) <=> (d + k = c)
          <6>1. ASSUME x = z PROVE d + k = c
            BY SMTT(30), <4>1, <5>1, <5>2, <6>1
          <6>2. ASSUME d + k = c PROVE x = z
            BY SMTT(30), <4>1, <5>1, <5>2, <6>2
          <6> QED
            BY <6>1, <6>2
        <5>4. (d + n = c /\ k = n) <=> (d + k = c)
          BY <5>1
        <5> QED
          BY <5>2, <5>3, <5>4
      <4>3. TriggerAt(load)[x] = (x = z)
        <5> HIDE DEF x, f, e
        <5>1. f \in 0..(Len(load) - 1) /\ At(load, f) < x /\ x <= At(load, f + 1) /\ x \in Nat
          BY <2>2, <4>2 DEF e
        <5> QED
          BY <5>1, OneTrigger
      <4>4. y[k] = (last /\ k = n)
        OBVIOUS
      <4> HIDE DEF x, y, z, last
      <4> QED
        BY <4>2, <4>3, <4>4 DEF x
    <3> HIDE DEF y
    <3> QED
      BY <3>1, <3>2 DEF Segment
  <2> DEFINE in == IF last THEN Tail(i) ELSE i
             room == s.room - n
             produced == IF last THEN 0 ELSE d + n
             out1 == o \o y
             h == decoded - Len(in)
  <2>7. t = [in |-> in, room |-> room, produced |-> produced, out |-> out1]
    BY <1>4 DEF TriggerTurn, n, c
  <2>8. /\ out1 \in Seq(BOOLEAN) /\ Len(out1) = Len(o) + n
        /\ Segment(out1, TriggerAt(load), b)
    <3> HIDE DEF o, y
    <3>1. o \o y \in Seq(BOOLEAN) /\ Len(o \o y) = Len(o) + n
      BY <1>2, <2>6, ConcatProperties
    <3>2. Segment(o \o y, TriggerAt(load), b)
      BY <1>1, <1>2, <2>6, SegmentConcat
    <3> QED
      BY <3>1, <3>2
  <2>9. /\ in \in Seq(Nat) /\ h \in Nat /\ Segment(in, FrameAt, h)
        /\ h = (IF last THEN g ELSE f)
        /\ (last /\ in # << >> => 0 < BitCount(in[1]))
    <3>1. CASE last
      <4>1. in = Tail(i)
        BY <3>1
      <4>2. h = g
        <5> DEFINE k == Len(i)
        <5>1. h = decoded - (k - 1) /\ f = decoded - k /\ k \in Nat
          BY <1>2, <2>1, <4>1
        <5> HIDE DEF k, h, f
        <5> QED
          BY <1>1, <1>2, <5>1
      <4>3. ASSUME in # << >> PROVE 0 < BitCount(in[1])
        <5>0. Segment(Tail(i), FrameAt, g)
          BY <2>1
        <5> HIDE DEF in, i, f, g
        <5>1. in \in Seq(Nat) /\ g \in Int /\ Segment(in, FrameAt, g)
          BY <2>1, <2>2, <4>1, <5>0
        <5>2. in[1] = FrameAt[g + 1] /\ Len(in) \in Nat \ {0}
          BY <4>3, <5>1, SegmentTail
        <5>3. in[1] = g + 1
          BY <2>2, <5>2 DEF FrameAt
        <5>4. g + 1 \in 1..e
          <6> DEFINE k == Len(in)
          <6>1. g = decoded - k /\ k \in Nat \ {0}
            BY <4>2, <5>2
          <6> HIDE DEF k, g
          <6> QED
            BY <1>2, <2>2, <6>1
        <5> DEFINE v == load[g + 1] * (frame_size - 1)
        <5>5. v \in Nat \ {0}
          <6> DEFINE j == g + 1
          <6>1. j \in 1..Len(load)
            BY <5>4
          <6> HIDE DEF j
          <6> QED
            BY <6>1, FrameBitsType DEF j
        <5>6. BitCount(in[1]) = v
          BY <5>3 DEF BitCount
        <5> HIDE DEF v
        <5> QED
          BY <5>5, <5>6
      <4> HIDE DEF in, h
      <4> QED
        BY <2>1, <2>2, <3>1, <4>1, <4>2, <4>3
    <3>2. CASE ~last
      <4>1. in = i
        BY <3>2
      <4> QED
        BY <1>1, <1>2, <3>2, <4>1
    <3> QED
      BY <3>1, <3>2
  <2>10. room \in Nat /\ produced \in Nat
    <3>1. room \in Nat
      BY <2>4, <2>5
    <3>2. d + n \in Nat
      BY <2>4, <2>5
    <3> QED
      BY <3>1, <3>2
  <2>11. IF in = << >> THEN produced = 0 ELSE produced < BitCount(in[1])
    <3>1. CASE last
      <4>1. produced = 0
        BY <3>1
      <4> HIDE DEF in, produced
      <4> QED
        BY <2>9, <3>1, <4>1
    <3>2. CASE ~last
      <4>1. in = i /\ produced = d + n
        BY <3>2
      <4>2. d + n < c
        BY <2>3, <2>4, <2>5, <3>2
      <4> HIDE DEF in, produced
      <4> QED
        BY <1>4, <4>1, <4>2 DEF c
    <3> QED
      BY <3>1, <3>2
  <2>12. b + Len(out1) = At(load, h) + produced
    <3> DEFINE a == At(load, f)
               k == Len(o)
               m == Len(out1)
    <3>1. m = k + n /\ b + k = a + d /\ At(load, g) = a + c /\ a \in Nat /\ k \in Nat
      BY <1>1, <1>2, <2>3, <2>8
    <3>2. CASE last
      <4>1. h = g /\ produced = 0 /\ d + n = c
        BY <2>9, <3>2
      <4> HIDE DEF a, k, m, h, produced, g
      <4>3. d \in Nat /\ n \in Nat /\ c \in Nat
        BY <2>3, <2>4, <2>5
      <4>2. b + m = (a + c) + 0
        BY <3>1, <4>1, <4>3
      <4> QED
        BY <3>1, <4>1, <4>2 DEF m
    <3>3. CASE ~last
      <4>1. h = f /\ produced = d + n
        BY <2>9, <3>3
      <4> HIDE DEF k, m, h, produced, f
      <4> HIDE DEF a
      <4>2. b + m = a + (d + n)
        BY SMTT(30), <2>4, <2>5, <3>1
      <4> QED
        BY <4>1, <4>2 DEF a, m
    <3> QED
      BY <3>2, <3>3
  <2> HIDE DEF in, room, produced, out1, t
  <2>13. t \in TriggerLocals /\ t.in = in /\ t.produced = produced /\ t.out = out1
    BY <2>7, <2>8, <2>9, <2>10 DEF TriggerLocals
  <2>14. t \in Triggering(b)
    BY <2>8, <2>9, <2>11, <2>12, <2>13 DEF Triggering
  <2> QED
    BY <2>14 DEF t
<1> QED
  BY <1>3, <1>4

LEMMA TriggerInv ==
  ASSUME IndInv, NEW n \in Calls, DynamicTrigger(n)
  PROVE  IndInv'
<1> DEFINE q == buf["trigger"]
           b == Sampled + Len(q)
           s == TriggerCall(n)
           f == decoded - Len(s.in)
<1>1. /\ buf["count"] # << >>
      /\ UNCHANGED <<load, decoded, power, demapper, ref_bitcount, ber, out>>
      /\ d_produced' = s.produced
      /\ buf' = [buf EXCEPT !["count"] = s.in, !["trigger"] = @ \o s.out]
  <2> HIDE DEF s
  <2> QED
    BY DEF DynamicTrigger, s
<1>2. DOMAIN buf = Streams
  BY Lengths
<1> HIDE DEF s
<1>3. /\ DOMAIN buf' = Streams
      /\ buf'["count"] = s.in
      /\ buf'["trigger"] = q \o s.out
      /\ \A t \in Streams \ {"count", "trigger"} : buf'[t] = buf[t]
  BY <1>1, <1>2 DEF Streams
<1>4. /\ load \in Seq(Loads) /\ Len(load) \in Nat /\ decoded \in 0..Len(load)
      /\ Sampled \in Nat /\ q \in Seq(BOOLEAN) /\ Len(q) \in Nat
      /\ Segment(q, TriggerAt(load), Sampled)
      /\ b = At(load, Taken("count")) + d_produced
  BY Lengths DEF IndInv, RateStream, TriggerStream
<1>5. s \in Triggering(b)
  <2> DEFINE turn == [t \in TriggerLocals |-> TriggerTurn(t)]
             locals == [in |-> buf["count"], room |-> n, produced |-> d_produced,
                        out |-> << >>]
             I == Triggering(b)
  <2>1. s = Turns(turn, locals, n)
    BY DEF TriggerCall, s
  <2>2. n \in Nat
    BY RxAssumption DEF Calls
  <2>3. locals \in I
    <3>1. /\ buf["count"] \in Seq(Nat) /\ d_produced \in Nat
          /\ IF buf["count"] = << >> THEN d_produced = 0
             ELSE d_produced < BitCount(buf["count"][1])
      BY DEF IndInv, TypeOK
    <3>2. << >> \in Seq(BOOLEAN) /\ Len(<< >>) = 0 /\ Segment(<< >>, TriggerAt(load), b)
      BY EmptySeq DEF Segment
    <3>3. locals \in TriggerLocals
      BY <2>2, <3>1, <3>2 DEF TriggerLocals
    <3>4. /\ locals.in = buf["count"] /\ locals.produced = d_produced
          /\ locals.out = << >>
      OBVIOUS
    <3>5. decoded - Len(buf["count"]) = Taken("count")
      BY DEF Taken
    <3>6. Taken("count") \in Nat /\ Segment(buf["count"], FrameAt, Taken("count"))
      BY DEF IndInv, FrameStreams
    <3>7. b + 0 = At(load, Taken("count")) + d_produced
      <4>1. b \in Nat
        BY <1>4
      <4> HIDE DEF b
      <4> QED
        BY <1>4, <4>1
    <3> DEFINE g == decoded - Len(locals.in)
    <3>8. g = Taken("count")
      BY <3>4, <3>5
    <3> HIDE DEF locals, b, g
    <3>9. g \in Nat /\ Segment(locals.in, FrameAt, g)
      BY <3>4, <3>6, <3>8
    <3>10. IF locals.in = << >> THEN locals.produced = 0
           ELSE locals.produced < BitCount(locals.in[1])
      BY <3>1, <3>4
    <3>11. b + Len(locals.out) = At(load, g) + locals.produced
           /\ Segment(locals.out, TriggerAt(load), b)
      BY <3>2, <3>4, <3>7, <3>8
    <3> QED
      BY <3>3, <3>9, <3>10, <3>11 DEF Triggering, g
  <2>4. \A t \in I : turn[t] \in I
    <3>1. SUFFICES ASSUME NEW t \in I PROVE turn[t] \in I
      OBVIOUS
    <3>2. turn[t] = TriggerTurn(t)
      BY DEF Triggering
    <3>3. b \in Nat
      BY <1>4
    <3> HIDE DEF turn, b
    <3>4. TriggerTurn(t) \in Triggering(b)
      BY <1>4, <3>3, TriggerTurnKeeps
    <3> QED
      BY <3>2, <3>4
  <2> HIDE DEF turn, locals, I
  <2>5. Turns(turn, locals, n) \in I
    BY <2>2, <2>3, <2>4, LoopInvariant
  <2> QED
    BY <2>1, <2>5 DEF I
<1>6. /\ s \in TriggerLocals
      /\ f \in Nat /\ Segment(s.in, FrameAt, f)
      /\ IF s.in = << >> THEN s.produced = 0
         ELSE s.produced < BitCount(s.in[1])
      /\ b + Len(s.out) = At(load, f) + s.produced
      /\ Segment(s.out, TriggerAt(load), b)
  BY <1>5 DEF Triggering
<1>7. s.in \in Seq(Nat) /\ s.produced \in Nat /\ s.out \in Seq(BOOLEAN)
  BY <1>6 DEF TriggerLocals
<1>8. /\ q \o s.out \in Seq(BOOLEAN)
      /\ Sampled + Len(q \o s.out) = At(load, f) + s.produced
      /\ Segment(q \o s.out, TriggerAt(load), Sampled)
  <2> DEFINE z == s.out
             k == Len(q)
             m == Len(z)
  <2>1. z \in Seq(BOOLEAN) /\ Segment(z, TriggerAt(load), Sampled + Len(q))
    BY <1>6, <1>7
  <2> HIDE DEF z, q
  <2>2. q \o z \in Seq(BOOLEAN) /\ Len(q \o z) = k + m /\ k \in Nat /\ m \in Nat
    BY <1>4, <2>1, ConcatProperties, LenProperties
  <2>3. Segment(q \o z, TriggerAt(load), Sampled)
    BY <1>4, <2>1, SegmentConcat
  <2>4. Sampled + (k + m) = b + m
    <3> DEFINE g == Sampled
    <3>1. b = g + k /\ g \in Nat /\ k \in Nat /\ m \in Nat
      BY <1>4, <2>2 DEF q
    <3> HIDE DEF b, k, m, g
    <3>2. g + (k + m) = b + m
      BY <3>1
    <3> QED
      BY <3>2 DEF g
  <2>5. b + m = At(load, f) + s.produced
    BY <1>6 DEF z
  <2> HIDE DEF b, m, k, f
  <2>6. Sampled + Len(q \o z) = At(load, f) + s.produced
    BY <2>2, <2>4, <2>5
  <2> QED
    BY <2>2, <2>3, <2>6 DEF z
<1>9. /\ \A t \in {"pow", "map", "ref"} : Taken(t)' = Taken(t)
      /\ Scaled' = Scaled /\ Demapped' = Demapped /\ Measured' = Measured
      /\ Sampled' = Sampled
  BY <1>1, <1>3 DEF Taken, Scaled, Demapped, Measured, Sampled, Streams
<1>10. Taken("count")' = f
  BY <1>1, <1>3 DEF Taken
<1> HIDE DEF f, b, q
<1>11. TypeOK'
  <2>1. IF buf'["count"] = << >> THEN d_produced' = 0
        ELSE d_produced' < BitCount(buf["count"][1])'
    BY <1>1, <1>3, <1>6 DEF BitCount
  <2>2. d_produced' \in Nat /\ buf'["count"] \in Seq(Nat) /\ buf'["trigger"] \in Seq(BOOLEAN)
    BY <1>1, <1>3, <1>7, <1>8
  <2> QED
    BY <1>1, <1>3, <2>1, <2>2 DEF IndInv, TypeOK, Streams
<1>12. FrameStreams'
  BY <1>3, <1>6, <1>9, <1>10 DEF IndInv, FrameStreams, Streams
<1>13. TriggerStream'
  BY <1>1, <1>3, <1>8, <1>9, <1>10 DEF TriggerStream
<1>14. DataTypes' /\ SampleStream' /\ PowerHeld' /\ SymbolStream' /\ BitmapHeld'
       /\ DataStream' /\ RefStream' /\ WindowHeld' /\ RateStream' /\ Published'
  BY <1>1, <1>3, <1>9
     DEF IndInv, DataTypes, SampleStream, PowerHeld, SymbolStream, BitmapHeld, DataStream,
         RefStream, WindowHeld, RateStream, Published, Streams
<1> QED
  BY <1>11, <1>12, <1>13, <1>14 DEF IndInv

-----------------------------------------------------------------------------
(* vector_sampler.                                                         *)

LEMMA EndedUnique ==
  ASSUME NEW l \in Seq(Loads), NEW x, NEW y \in 0..Len(l), EndedBy(l, x, At(l, y))
  PROVE  x = y
<1>1. x \in 0..Len(l) /\ Len(l) \in Nat /\ At(l, x) <= At(l, y)
      /\ (x < Len(l) => At(l, y) < At(l, x + 1))
  BY FrameBitsType DEF EndedBy
<1>2. CASE y < x
  <2>1. x \in y..Len(l)
    BY <1>1, <1>2
  <2>2. At(l, y) < At(l, x) /\ At(l, x) \in Nat /\ At(l, y) \in Nat
    BY <1>2, <2>1, AtMonotonic
  <2> QED
    BY <1>1, <2>2
<1>3. CASE x < y
  <2> DEFINE h == x + 1
  <2>1. h \in 0..Len(l) /\ y \in h..Len(l) /\ x < Len(l)
    BY <1>1, <1>3
  <2>2. At(l, y) < At(l, h)
    BY <1>1, <2>1
  <2> HIDE DEF h
  <2>3. At(l, h) <= At(l, y) /\ At(l, h) \in Nat /\ At(l, y) \in Nat
    BY <2>1, AtMonotonic
  <2> QED
    BY <2>2, <2>3
<1> QED
  BY <1>1, <1>2, <1>3

LEMMA EndedSucc ==
  ASSUME NEW l \in Seq(Loads), NEW m, NEW c \in Nat, EndedBy(l, m, c)
  PROVE  IF \E g \in 1..Len(l) : c + 1 = At(l, g)
         THEN EndedBy(l, m + 1, c + 1)
         ELSE EndedBy(l, m, c + 1)
<1> DEFINE n == Len(l)
           h == m + 1
<1>1. /\ m \in 0..n /\ n \in Nat /\ At(l, m) <= c
      /\ m < n => c < At(l, h)
      /\ At(l, m) \in Nat
  <2>1. /\ m \in 0..n /\ n \in Nat /\ At(l, m) <= c
        /\ m < n => c < At(l, h)
    BY FrameBitsType DEF EndedBy
  <2>2. m \in m..n
    BY <2>1
  <2> QED
    BY <2>1, <2>2, AtMonotonic
<1>2. ASSUME m < n PROVE h \in 0..n /\ h \in 1..n /\ At(l, h) \in Nat /\ c < At(l, h)
  <2>1. h \in 0..n /\ h \in h..n /\ h \in 1..n
    BY <1>1, <1>2
  <2>2. c < At(l, h)
    BY <1>1, <1>2
  <2> HIDE DEF h
  <2> QED
    BY <2>1, <2>2, AtMonotonic
<1>3. CASE \E g \in 1..n : c + 1 = At(l, g)
  <2>1. PICK g \in 1..n : c + 1 = At(l, g)
    BY <1>3
  <2>2. m < g
    <3>1. SUFFICES ASSUME g <= m PROVE FALSE
      BY <1>1
    <3>2. g \in 0..n /\ m \in g..n
      BY <1>1, <3>1
    <3>3. At(l, g) <= At(l, m)
      BY <3>2, AtMonotonic
    <3> QED
      BY <1>1, <2>1, <3>3
  <2>3. m < n /\ g \in h..n
    BY <1>1, <2>2
  <2>4. h \in 0..n /\ At(l, h) \in Nat /\ c < At(l, h)
    BY <1>2, <2>3
  <2> HIDE DEF h
  <2>5. At(l, h) <= At(l, g)
    BY <2>3, <2>4, AtMonotonic
  <2>6. At(l, h) = c + 1
    BY <2>1, <2>4, <2>5
  <2>7. ASSUME h < n PROVE c + 1 < At(l, h + 1)
    <3> DEFINE j == h + 1
    <3>1. j \in h..n /\ h < j
      BY <1>1, <2>4, <2>7
    <3> HIDE DEF j
    <3>2. At(l, h) < At(l, j)
      BY <2>4, <3>1, AtMonotonic
    <3> QED
      BY <2>6, <3>2 DEF j
  <2>8. EndedBy(l, h, c + 1)
    BY <2>4, <2>6, <2>7 DEF EndedBy
  <2> QED
    BY <1>3, <2>8 DEF h
<1>4. CASE ~(\E g \in 1..n : c + 1 = At(l, g))
  <2>1. ASSUME m < n PROVE c + 1 < At(l, h)
    BY <1>2, <1>4, <2>1
  <2>2. EndedBy(l, m, c + 1)
    BY <1>1, <2>1 DEF EndedBy
  <2> QED
    BY <1>4, <2>2
<1> QED
  BY <1>3, <1>4

(* The triggers among the first i tell how many frames end by then.        *)
LEMMA TriggersEnded ==
  ASSUME IndInv, NEW i \in 0..Len(buf["trigger"])
  PROVE  /\ Cardinality(Triggers(i)) \in Nat
         /\ EndedBy(load, Len(out) + Cardinality(Triggers(i)), Sampled + i)
<1> DEFINE q == buf["trigger"]
           n == Len(q)
           a == Sampled
           e == Len(out)
           C(k) == Cardinality(Triggers(k))
           OK(k) == C(k) \in Nat /\ EndedBy(load, e + C(k), a + k)
           T == {k \in 0..n : ~OK(k)}
<1>1. /\ load \in Seq(Loads) /\ a \in Nat /\ n \in Nat /\ Segment(q, TriggerAt(load), a)
      /\ EndedBy(load, e, a) /\ e \in Nat
  BY Lengths DEF IndInv, RateStream, TriggerStream, Published
<1>2. 0 \notin T
  <2>1. Triggers(0) = {}
    BY DEF Triggers
  <2>2. C(0) = 0
    BY <2>1, FS_EmptySet
  <2>3. e + 0 = e /\ a + 0 = a
    BY <1>1
  <2> HIDE DEF e, a
  <2> QED
    BY <1>1, <2>2, <2>3
<1>3. ASSUME NEW k \in 0..(n - 1), k \notin T PROVE k + 1 \notin T
  <2> DEFINE j == k + 1
             A == Triggers(k)
             m == e + C(k)
             c == a + k
  <2>1. k \in 0..n /\ j \in 1..n /\ k \in Nat /\ OK(k)
    BY <1>1, <1>3
  <2>2. m \in Nat /\ c \in Nat /\ a + j = c + 1 /\ EndedBy(load, m, c) /\ C(k) \in Nat
    BY <1>1, <2>1
  <2>3. IF \E g \in 1..Len(load) : c + 1 = At(load, g)
        THEN EndedBy(load, m + 1, c + 1)
        ELSE EndedBy(load, m, c + 1)
    <3> HIDE DEF m, c
    <3> QED
      BY <1>1, <2>2, EndedSucc
  <2>4. q[j] = \E g \in 1..Len(load) : c + 1 = At(load, g)
    <3>1. q[j] = TriggerAt(load)[a + j] /\ a + j \in Nat
      BY <1>1, <2>1, <2>2 DEF Segment
    <3>2. q[j] = TriggerAt(load)[c + 1] /\ c + 1 \in Nat
      BY <2>2, <3>1
    <3> HIDE DEF c
    <3> QED
      BY <3>2 DEF TriggerAt
  <2>5. IsFiniteSet(A) /\ j \notin A
    <3>1. IsFiniteSet(1..k)
      BY <2>1, FS_Interval
    <3>2. A \subseteq 1..k
      BY DEF Triggers
    <3>3. j \notin 1..k
      BY <2>1
    <3> HIDE DEF A, j
    <3> QED
      BY <3>1, <3>2, <3>3, FS_Subset
  <2>6. Triggers(j) = (IF q[j] THEN A \cup {j} ELSE A)
    <3>1. 1..j = (1..k) \cup {j}
      BY <2>1
    <3> QED
      BY <3>1 DEF Triggers
  <2>7. CASE q[j]
    <3>1. EndedBy(load, m + 1, c + 1)
      BY <2>3, <2>4, <2>7
    <3>2. C(j) = C(k) + 1
      <4> HIDE DEF j
      <4>1. Cardinality(A \cup {j}) = Cardinality(A) + 1
        BY <2>5, FS_AddElement
      <4> QED
        BY <2>6, <2>7, <4>1
    <3>3. e + (C(k) + 1) = m + 1
      BY <1>1, <2>2
    <3> HIDE DEF m, c, C, e, a, j
    <3>4. C(j) \in Nat /\ EndedBy(load, e + C(j), a + j)
      BY <2>2, <3>1, <3>2, <3>3
    <3> QED
      BY <3>4 DEF j, C, e, a
  <2>8. CASE ~q[j]
    <3>1. EndedBy(load, m, c + 1)
      BY <2>3, <2>4, <2>8
    <3>2. C(j) = C(k)
      BY <2>6, <2>8
    <3>3. EndedBy(load, e + C(j), a + j) /\ C(j) \in Nat
      BY <2>2, <3>1, <3>2
    <3> QED
      BY <3>3
  <2> QED
    BY <2>7, <2>8
<1>4. T = {}
  <2>1. T \in SUBSET (0..n)
    OBVIOUS
  <2> HIDE DEF T
  <2> QED
    BY <1>1, <1>2, <1>3, <2>1, NoFirst
<1>5. OK(i)
  BY <1>4
<1> QED
  BY <1>5

(* The k-th trigger taken is the one at the last bit of the k-th frame     *)
(* from the next to publish on.                                            *)
LEMMA TriggerOf ==
  ASSUME IndInv, NEW done \in 0..Len(buf["trigger"]),
         NEW k \in 1..Cardinality(Triggers(done)),
         NEW i, i = Min({j \in 1..done : Cardinality(Triggers(j)) = k})
  PROVE  i \in 1..done /\ Sampled + i = At(load, Len(out) + k)
<1> DEFINE n == Len(load)
           a == Sampled
           e == Len(out)
           d == Cardinality(Triggers(done))
           y == e + k
           z == At(load, y)
           x == z - a
           T == {j \in 1..done : Cardinality(Triggers(j)) = k}
<1>1. /\ load \in Seq(Loads) /\ n \in Nat /\ a \in Nat /\ e \in Nat
      /\ Len(buf["trigger"]) \in Nat /\ done \in Nat
      /\ EndedBy(load, e, a)
  BY Lengths DEF IndInv, RateStream, Published
<1>2. d \in Nat /\ EndedBy(load, e + d, a + done)
  BY TriggersEnded
<1>3. e + d \in 0..n /\ At(load, e + d) <= a + done /\ (e < n => a < At(load, e + 1))
  BY <1>1, <1>2 DEF EndedBy
<1>4. /\ k \in Nat /\ y \in 0..n /\ e + d \in y..n /\ e + 1 \in 0..n /\ y \in (e + 1)..n
      /\ e < n
  <2>1. k \in 1..d
    OBVIOUS
  <2> HIDE DEF d, n, e
  <2> QED
    BY <1>1, <1>2, <1>3, <2>1
<1>5. z \in Nat /\ a < z /\ z <= a + done
  <2> DEFINE f == e + d
             g == e + 1
  <2>1. y \in 0..n /\ f \in y..n /\ g \in 0..n /\ y \in g..n
    BY <1>4
  <2>2. a < At(load, g) /\ At(load, f) <= a + done
    BY <1>3, <1>4
  <2> HIDE DEF y, f, g
  <2>3. /\ At(load, y) \in Nat /\ At(load, y) <= At(load, f) /\ At(load, f) \in Nat
        /\ At(load, g) <= At(load, y) /\ At(load, g) \in Nat
    BY <1>1, <2>1, AtMonotonic
  <2> HIDE DEF a
  <2> QED
    BY <1>1, <2>2, <2>3
<1>6. x \in 1..done /\ a + x = z
  <2> HIDE DEF a, z
  <2> QED
    BY <1>1, <1>5
<1>7. x \in T
  <2> DEFINE c == Cardinality(Triggers(x))
  <2>1. c \in Nat /\ EndedBy(load, e + c, a + x)
    <3>1. x \in 0..Len(buf["trigger"])
      <4> HIDE DEF x
      <4> QED
        BY <1>1, <1>6
    <3> HIDE DEF x
    <3> QED
      BY <3>1, TriggersEnded
  <2> HIDE DEF c
  <2> DEFINE h == e + c
  <2>2. EndedBy(load, h, At(load, y))
    BY <1>6, <2>1
  <2> HIDE DEF h, y
  <2>3. h = y
    BY <1>1, <1>4, <2>2, EndedUnique
  <2>4. c = k
    <3>1. e + c = e + k
      BY <2>3 DEF h, y
    <3> HIDE DEF e
    <3> QED
      BY <1>1, <1>4, <2>1, <3>1
  <2> HIDE DEF x
  <2> QED
    BY <1>6, <2>4 DEF c
<1>8. i \in T /\ i <= x
  <2>1. T \in SUBSET Nat /\ T # {}
    BY <1>7
  <2> HIDE DEF T, x
  <2>2. i = Min(T)
    BY DEF T
  <2> QED
    BY <1>7, <2>1, <2>2, Least
<1>9. i \in 1..done /\ Cardinality(Triggers(i)) = k
  BY <1>8
<1>10. z <= a + i
  <2>1. i \in 0..Len(buf["trigger"])
    BY <1>1, <1>9
  <2>2. EndedBy(load, e + k, a + i)
    BY <1>9, <2>1, TriggersEnded
  <2> QED
    BY <2>2 DEF EndedBy
<1> HIDE DEF z, T, y, e
<1>11. a + i = z
  <2> DEFINE w == x
  <2>1. w \in Nat /\ a + w = z /\ i \in Nat /\ i <= w
    BY <1>1, <1>6, <1>8, <1>9
  <2> HIDE DEF w, a
  <2> QED
    BY <1>1, <1>5, <1>10, <2>1
<1> QED
  BY <1>9, <1>11 DEF z, y, e

LEMMA SamplerInv ==
  ASSUME IndInv, NEW n \in Calls, Sampler(n)
  PROVE  IndInv'
<1> DEFINE q == buf["trigger"]
           v == buf["rates"]
           a == Sampled
           e == Len(out)
           i_max == Min({Len(v), Len(q)})
           done == Max({i \in 0..i_max : Cardinality(Triggers(i)) <= n})
           d == Cardinality(Triggers(done))
           first(k) == Min({i \in 1..done : Cardinality(Triggers(i)) = k})
           y == [k \in 1..d |-> v[first(k)]]
<1>1. /\ UNCHANGED <<load, decoded, power, demapper, ref_bitcount, ber, d_produced>>
      /\ buf' = [buf EXCEPT !["rates"] = Drop(@, done), !["trigger"] = Drop(@, done)]
      /\ out' = out \o y
  BY DEF Sampler
<1>2. DOMAIN buf = Streams
  BY Lengths
<1>3. /\ load \in Seq(Loads) /\ Len(load) \in Nat
      /\ a \in Nat /\ q \in Seq(BOOLEAN) /\ Len(q) \in Nat
      /\ Segment(q, TriggerAt(load), a)
      /\ a + Len(q) = At(load, Taken("count")) + d_produced
      /\ v \in Seq(Rate) /\ Len(v) \in Nat /\ Segment(v, RateAt(load), a)
      /\ a + Len(v) = Measured /\ Measured \in Nat
      /\ out \in Seq(Rate) /\ e \in Nat
  BY Lengths DEF IndInv, RateStream, TriggerStream
<1>4. done \in Nat /\ done <= Len(v) /\ done <= Len(q)
  <2> DEFINE M == {Len(v), Len(q)}
             T == {i \in 0..i_max : Cardinality(Triggers(i)) <= n}
  <2>1. M \in SUBSET Nat /\ M # {} /\ Len(v) \in M /\ Len(q) \in M
    BY <1>3
  <2> HIDE DEF M
  <2>2. Min(M) \in M /\ \A x \in M : Min(M) <= x
    BY <2>1, Least
  <2>3. i_max \in Nat /\ i_max <= Len(v) /\ i_max <= Len(q)
    BY <2>1, <2>2 DEF M
  <2> HIDE DEF i_max
  <2>4. T \in SUBSET Nat /\ \A x \in T : x <= i_max
    BY <2>3
  <2>5. 0 \in T
    <3>1. Triggers(0) = {}
      BY DEF Triggers
    <3>2. Cardinality(Triggers(0)) = 0
      BY <3>1, FS_EmptySet
    <3>3. n \in Nat
      BY RxAssumption DEF Calls
    <3> QED
      BY <2>3, <3>2, <3>3
  <2> HIDE DEF T, done
  <2>6. done = Max(T)
    BY DEF T, done
  <2>7. done \in T
    BY <2>3, <2>4, <2>5, <2>6, Greatest
  <2>8. done \in 0..i_max
    BY <2>7 DEF T
  <2> HIDE DEF v, q
  <2> QED
    BY <1>3, <2>3, <2>8
<1> HIDE DEF done
<1>5. done \in 0..Len(q) /\ done \in 0..Len(v)
  <2> HIDE DEF q, v
  <2> QED
    BY <1>3, <1>4
<1>6. d \in Nat /\ EndedBy(load, e + d, a + done)
  BY <1>5, TriggersEnded
<1>7. ASSUME NEW k \in 1..d
      PROVE  y[k] = Window(load, At(load, e + k)) /\ y[k] \in Rate
  <2> DEFINE i == first(k)
  <2>1. y[k] = v[i]
    OBVIOUS
  <2>2. i \in 1..done /\ a + i = At(load, e + k)
    BY <1>5, TriggerOf
  <2> HIDE DEF i, y, d
  <2>3. i \in 1..Len(v) /\ a + i \in Nat
    <3> HIDE DEF v, a
    <3> QED
      BY <1>3, <1>5, <2>2
  <2>4. v[i] = RateAt(load)[a + i] /\ v[i] \in Rate
    BY <1>3, <2>3, ElementOfSeq DEF Segment
  <2>5. v[i] = Window(load, a + i)
    BY <2>3, <2>4 DEF RateAt
  <2> QED
    BY <2>1, <2>2, <2>4, <2>5
<1>8. y \in Seq(Rate) /\ Len(y) = d
  <2>1. y = [k \in 1..d |-> y[k]]
    OBVIOUS
  <2> HIDE DEF y, d
  <2> QED
    BY <1>6, <1>7, <2>1
<1> HIDE DEF y
<1>9. /\ out \o y \in Seq(Rate) /\ Len(out \o y) = e + d
      /\ \A k \in 1..e : (out \o y)[k] = out[k]
      /\ \A k \in (e + 1)..(e + d) : (out \o y)[k] = y[k - e]
  <2> HIDE DEF d
  <2>1. /\ out \o y \in Seq(Rate) /\ Len(out \o y) = e + d
        /\ \A k \in 1..(e + d) : (out \o y)[k] = IF k <= e THEN out[k] ELSE y[k - e]
    BY <1>3, <1>8, ConcatProperties
  <2>2. \A k \in 1..e : k \in 1..(e + d) /\ k <= e
    BY <1>3, <1>6
  <2>3. \A k \in (e + 1)..(e + d) : k \in 1..(e + d) /\ ~(k <= e)
    BY <1>3, <1>6
  <2> QED
    BY <2>1, <2>2, <2>3
<1>10. /\ DOMAIN buf' = Streams
       /\ buf'["rates"] = Drop(v, done) /\ buf'["trigger"] = Drop(q, done)
       /\ \A t \in Streams \ {"rates", "trigger"} : buf'[t] = buf[t]
  BY <1>1, <1>2 DEF Streams
<1>11. /\ Drop(v, done) \in Seq(Rate) /\ Len(Drop(v, done)) = Len(v) - done
       /\ Segment(Drop(v, done), RateAt(load), a + done)
  <2> HIDE DEF v, a
  <2> QED
    BY <1>3, <1>5, SegmentDrop DEF Drop
<1>12. /\ Drop(q, done) \in Seq(BOOLEAN) /\ Len(Drop(q, done)) = Len(q) - done
       /\ Segment(Drop(q, done), TriggerAt(load), a + done)
  <2> HIDE DEF q, a
  <2> QED
    BY SMTT(30), <1>3, <1>5, SegmentDrop DEF Drop
<1>13. /\ \A t \in Settings : Taken(t)' = Taken(t)
       /\ Scaled' = Scaled /\ Demapped' = Demapped /\ Measured' = Measured
  BY <1>1, <1>10 DEF Taken, Scaled, Demapped, Measured, Streams
<1>14. Sampled' = a + done /\ a + done \in Nat
  <2> DEFINE k == Len(v)
             m == Measured
             h == Sampled'
  <2>1. h = m - (k - done)
    BY <1>10, <1>11, <1>13 DEF Sampled
  <2>2. a + k = m /\ k \in Nat /\ m \in Nat /\ a \in Nat /\ done \in Nat
    BY <1>3, <1>4
  <2> HIDE DEF h, m, k, a
  <2>3. h = a + done /\ a + done \in Nat
    BY <2>1, <2>2
  <2> QED
    BY <2>3 DEF h
<1> HIDE DEF q, v, d
<1>15. TypeOK'
  BY <1>1, <1>9, <1>10, <1>11, <1>12 DEF IndInv, TypeOK, Streams, BitCount
<1>16. RateStream'
  BY <1>1, <1>10, <1>11, <1>14 DEF RateStream
<1>17. TriggerStream'
  <2> DEFINE k == Len(q)
             c == At(load, Taken("count"))
             p == d_produced
  <2>1. a + k = c + p /\ k \in Nat /\ a \in Nat /\ done \in Nat
    BY <1>3, <1>4 DEF q
  <2> HIDE DEF k, c, p, a
  <2>2. (a + done) + (k - done) = c + p
    <3>1. (a + done) + (k - done) = a + k
      BY <2>1
    <3> QED
      BY <2>1, <3>1
  <2>3. Sampled' + Len(buf'["trigger"]) = c + p
    BY <1>10, <1>12, <1>14, <2>2 DEF k
  <2> QED
    BY <1>1, <1>10, <1>12, <1>13, <1>14, <2>3 DEF TriggerStream, c, p, a
<1>18. Published'
  <2> DEFINE m == Len(out \o y)
  <2>1. ASSUME NEW f \in 1..m PROVE (out \o y)[f] = Window(load, At(load, f))
    <3>1. CASE f <= e
      <4>1. f \in 1..e
        BY <3>1
      <4> QED
        BY <1>9, <4>1 DEF IndInv, Published
    <3>2. CASE ~(f <= e)
      <4> DEFINE k == f - e
      <4>1. f \in (e + 1)..(e + d) /\ k \in 1..d /\ e + k = f
        <5> HIDE DEF e
        <5> QED
          BY <1>3, <1>6, <1>9, <3>2
      <4>2. y[k] = Window(load, At(load, e + k))
        <5> HIDE DEF k
        <5> QED
          BY <1>7, <4>1
      <4> QED
        BY <1>9, <4>1, <4>2
    <3> QED
      BY <3>1, <3>2
  <2>2. EndedBy(load, m, a + done)
    BY <1>6, <1>9
  <2> QED
    BY <1>1, <1>14, <2>1, <2>2 DEF Published
<1>19. DataTypes' /\ FrameStreams' /\ SampleStream' /\ PowerHeld' /\ SymbolStream'
       /\ BitmapHeld' /\ DataStream' /\ RefStream' /\ WindowHeld'
  BY <1>1, <1>10, <1>13
     DEF IndInv, DataTypes, FrameStreams, SampleStream, PowerHeld, SymbolStream, BitmapHeld,
         DataStream, RefStream, WindowHeld, Streams
<1> QED
  BY <1>15, <1>16, <1>17, <1>18, <1>19 DEF IndInv

-----------------------------------------------------------------------------
(* The theorems.                                                           *)

LEMMA StutterInv ==
  ASSUME IndInv, UNCHANGED vars
  PROVE  IndInv'
BY DEF vars, IndInv, TypeOK, DataTypes, FrameStreams, SampleStream, PowerHeld, SymbolStream,
       BitmapHeld, DataStream, RefStream, WindowHeld, RateStream, TriggerStream, Published,
       Taken, Scaled, Demapped, Measured, Sampled, BitCount

(* The streams continue at the numbers that the blocks have come to.       *)
THEOREM Numbering == Spec => []IndInv
<1>1. Init => IndInv
  BY InitInv
<1>2. IndInv /\ [Next]_vars => IndInv'
  <2> SUFFICES ASSUME IndInv, [Next]_vars PROVE IndInv'
    OBVIOUS
  <2>1. ASSUME NEW l \in Loads, RecvFrame(l) PROVE IndInv'
    BY <2>1, RecvFrameInv
  <2>2. CASE PowerDeallocator
    BY <2>2, PowerInv DEF PowerDeallocator
  <2>3. CASE Demapper
    BY <2>3, DemapInv DEF Demapper
  <2>4. CASE ReferenceSource
    BY <2>4, SetReferenceInv, ReferenceInv DEF ReferenceSource
  <2>5. CASE Measurement
    BY <2>5, MeasurementInv DEF Measurement
  <2>6. CASE Trigger
    BY <2>6, TriggerInv DEF Trigger
  <2>7. CASE BerSampler
    BY <2>7, SamplerInv DEF BerSampler
  <2>8. CASE DecodeId
    BY <2>8, DecodeIdInv
  <2>9. CASE UNCHANGED vars
    BY <2>9, StutterInv
  <2> QED
    BY <2>1, <2>2, <2>3, <2>4, <2>5, <2>6, <2>7, <2>8, <2>9 DEF Next, Blocks
<1> QED
  BY <1>1, <1>2, PTL DEF Spec

(* Every stream holds items of its kind, and the trigger counts less bits  *)
(* than the frame has that it counts.                                      *)
THEOREM FramingTypes == Spec => []TypeOK
<1>1. IndInv => TypeOK
  BY DEF IndInv
<1> QED
  BY <1>1, Numbering, PTL

LEMMA InvInStep == IndInv => ComparedInStep
<1> SUFFICES ASSUME IndInv PROVE ComparedInStep
  OBVIOUS
<1> DEFINE p == buf["data"]
           q == buf["refdata"]
           a == Measured
<1>1. /\ a \in Nat /\ Len(p) \in Nat /\ Len(q) \in Nat
      /\ Segment(p, DataAt(load), a) /\ Segment(q, AllBits(load), a)
  BY Lengths DEF IndInv, DataStream, RefStream
<1>2. SUFFICES ASSUME NEW k \in 1..Min({Len(p), Len(q)})
               PROVE  /\ p[k].frame = q[k].frame /\ p[k].pos = q[k].pos
                      /\ p[k].map = p[k].frame /\ p[k].power = p[k].frame
  BY DEF ComparedInStep
<1>3. k \in 1..Len(p) /\ k \in 1..Len(q) /\ a + k \in Nat \ {0}
  <2> DEFINE x == Len(p)
             y == Len(q)
  <2>1. Min({x, y}) = IF x <= y THEN x ELSE y
    BY <1>1, MinOfTwo
  <2> HIDE DEF x, y, a
  <2>2. k \in 1..(IF x <= y THEN x ELSE y)
    BY <2>1 DEF x, y
  <2>3. x \in Nat /\ y \in Nat /\ a \in Nat
    BY <1>1 DEF x, y
  <2> QED
    BY <2>2, <2>3 DEF x, y
<1> DEFINE c == a + k
           bit == p[k]
           reference == q[k]
<1>4. bit = DataAt(load)[c] /\ reference = AllBits(load)[c] /\ c \in Nat \ {0}
  BY <1>1, <1>3 DEF Segment
<1> HIDE DEF bit, reference, c
<1>5. /\ bit.frame = reference.frame /\ bit.pos = reference.pos
      /\ bit.map = bit.frame /\ bit.power = bit.frame
  BY <1>4, SameNumber
<1> QED
  BY <1>5 DEF bit, reference

(* Bits are compared with the reference of their own frame and place, and  *)
(* each was demapped with this frame's bit loading and scaled with its     *)
(* power, in whatever portions the blocks of the receiver are called.      *)
THEOREM BitsCompared == Spec => []ComparedInStep
BY InvInStep, Numbering, PTL

(* The bits of the property are those of the invariant.                    *)
LEMMA BitsUpToIs ==
  ASSUME load \in Seq(Loads), NEW f \in 0..Len(load)
  PROVE  /\ At(load, f) \in Nat /\ Len(BitsUpTo(f)) = At(load, f)
         /\ \A k \in 1..At(load, f) :
              BitsUpTo(f)[k] = <<AllBits(load)[k].frame, AllBits(load)[k].pos>>
<1> DEFINE n == Len(load)
           s == FrameBits(load)
           u == [g \in 1..n |-> [b \in 1..BitCount(g) |-> <<g, b>>]]
           h == [x \in RefBit |-> <<x.frame, x.pos>>]
<1>1. n \in Nat /\ s \in [1..n -> Seq(RefBit)] /\ f \in 0..n /\ n \in f..n
  BY FrameBitsType
<1>2. ASSUME NEW g \in 1..n
      PROVE  /\ u[g] \in Seq(Nat \X Nat) /\ Len(u[g]) = Len(s[g])
             /\ Image(u[g], s[g], h, Len(s[g]))
  <2> DEFINE c == load[g] * (frame_size - 1)
  <2>1. c \in Nat /\ s[g] = DataBits(g, c) /\ Len(s[g]) = c /\ BitCount(g) = c
    BY FrameBitsType DEF BitCount
  <2> HIDE DEF c
  <2>2. u[g] = [b \in 1..c |-> <<g, b>>]
    BY <2>1
  <2>3. u[g] \in Seq(Nat \X Nat) /\ Len(u[g]) = c
    <3> HIDE DEF u
    <3>1. \A b \in 1..c : <<g, b>> \in Nat \X Nat
      BY <1>1
    <3> QED
      BY <2>1, <2>2, <3>1
  <2>4. ASSUME NEW b \in 1..c PROVE u[g][b] = h[s[g][b]]
    <3>1. s[g][b] = [kind |-> "data", frame |-> g, pos |-> b]
      BY <2>1 DEF DataBits
    <3>2. [kind |-> "data", frame |-> g, pos |-> b] \in RefBit
      BY <1>1, <2>1 DEF RefBit
    <3> DEFINE x == s[g][b]
    <3>3. x \in RefBit /\ x.frame = g /\ x.pos = b
      BY <3>1, <3>2
    <3> HIDE DEF x
    <3>4. h[x] = <<g, b>>
      BY <3>3
    <3> HIDE DEF h, u
    <3>5. u[g][b] = <<g, b>>
      BY <2>2
    <3> QED
      BY <3>4, <3>5 DEF x
  <2> HIDE DEF u, s, h
  <2> QED
    BY <2>1, <2>3, <2>4 DEF Image
<1>3. u \in [1..n -> Seq(Nat \X Nat)]
  BY <1>2
<1>4. BitsUpTo(f) = Joined(u, f)
  <2>1. [g \in 1..f |-> u[g]] = [g \in 1..f |-> [b \in 1..BitCount(g) |-> <<g, b>>]]
    <3>1. \A g \in 1..f : g \in 1..n
      BY <1>1
    <3> QED
      BY <3>1
  <2> QED
    BY <2>1 DEF BitsUpTo, Joined
<1> HIDE DEF u, s, h
<1>5. /\ End(u, f) = End(s, f)
      /\ Image(Joined(u, f), Joined(s, f), h, End(s, f))
  BY <1>1, <1>2, <1>3, JoinedImage
<1>6. Joined(s, f) \in Seq(RefBit) /\ End(s, f) \in Nat /\ End(s, f) = At(load, f)
  BY <1>1, JoinedType DEF At, s
<1>7. SameFirst(Joined(s, n), Joined(s, f), End(s, f))
  BY <1>1, JoinedSameFirst
<1>8. Len(BitsUpTo(f)) = At(load, f)
  BY <1>4, <1>5, <1>6 DEF End
<1>9. ASSUME NEW k \in 1..At(load, f)
      PROVE  BitsUpTo(f)[k] = <<AllBits(load)[k].frame, AllBits(load)[k].pos>>
  <2>1. Joined(s, f)[k] = AllBits(load)[k]
    BY <1>6, <1>7 DEF SameFirst, AllBits, s, n
  <2>2. Joined(s, f)[k] \in RefBit
    BY <1>6, ElementOfSeq DEF End
  <2>3. h[Joined(s, f)[k]] = <<Joined(s, f)[k].frame, Joined(s, f)[k].pos>>
    BY <2>2 DEF h
  <2>4. BitsUpTo(f)[k] = h[Joined(s, f)[k]]
    BY <1>4, <1>5, <1>6 DEF Image
  <2> QED
    BY <2>1, <2>3, <2>4
<1> QED
  BY <1>6, <1>8, <1>9

LEMMA InvRate == IndInv => RatePerFrame
<1> SUFFICES ASSUME IndInv, NEW f \in 1..Len(out)
             PROVE  LET bits  == BitsUpTo(f)
                        first == Max({1, Len(bits) - sliding_window_length + 1})
                    IN  out[f] = [bits |-> sliding_window_length,
                                  errs |-> Cardinality({k \in first..Len(bits) :
                                                          bits[k] \in Wrong})]
  BY DEF RatePerFrame
<1> DEFINE w == sliding_window_length
           n == At(load, f)
           bits == BitsUpTo(f)
           first == Max({1, Len(bits) - w + 1})
<1>1. load \in Seq(Loads) /\ Len(load) \in Nat /\ w \in Nat
  BY Lengths, Sizes
<1>2. f \in 0..Len(load) /\ out[f] = Window(load, n)
  BY Lengths DEF IndInv, Published, EndedBy
<1>3. /\ n \in Nat /\ Len(bits) = n
      /\ \A k \in 1..n : bits[k] = <<AllBits(load)[k].frame, AllBits(load)[k].pos>>
  BY <1>1, <1>2, BitsUpToIs
<1> HIDE DEF bits
<1>4. first = IF 1 >= n - w + 1 THEN 1 ELSE n - w + 1
  <2> DEFINE x == Len(bits) - w + 1
  <2>1. x = n - w + 1 /\ x \in Int
    BY <1>1, <1>3
  <2> HIDE DEF x
  <2>2. Max({1, x}) = IF 1 >= x THEN 1 ELSE x
    BY <2>1, MaxOfTwo
  <2> QED
    BY <2>1, <2>2 DEF x
<1> HIDE DEF first
<1>5. {k \in first..n : bits[k] \in Wrong} = InWindow(load, n)
  <2> HIDE DEF n, w
  <2>1. \A k \in Int : k \in first..n <=> (k \in 1..n /\ k > n - w)
    BY <1>1, <1>3, <1>4
  <2>2. \A k \in 1..n : Inverted(load, k) <=> bits[k] \in Wrong
    BY <1>3 DEF Inverted
  <2>3. first..n \subseteq Int /\ 1..n \subseteq Int
    BY <1>3, <1>4, <1>1
  <2>4. InWindow(load, n) = {k \in 1..n : k > n - w /\ Inverted(load, k)}
    BY DEF InWindow, w
  <2> QED
    BY <2>1, <2>2, <2>3, <2>4
<1> QED
  BY <1>2, <1>3, <1>5 DEF Window, bits, first

(* A published rate is that of the bits before and up to the end of its    *)
(* frame, however far the measurement has got and however often the        *)
(* sampler stopped for want of room.                                       *)
THEOREM Rates == Spec => []RatePerFrame
BY InvRate, Numbering, PTL
=============================================================================
