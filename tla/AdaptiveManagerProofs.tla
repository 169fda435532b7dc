----------------------- MODULE AdaptiveManagerProofs -----------------------
(***************************************************************************)
(* Theorems about the water-filling resource manager.  Most of the work is *)
(* Levin-Campello's: the loops of BitLoading end within the turns they are *)
(* given, and the loadings they end with are the best of all loadings,     *)
(* whatever the channel's weights.                                         *)
(*                                                                         *)
(* The argument is a price per bit.  In an efficient loading no last bit   *)
(* is dearer than any next bit, so there is a price between them; at this  *)
(* price another loading saves no more on the bits it drops than their     *)
(* price, and pays no less for the bits it adds.                           *)
(***************************************************************************)
EXTENDS AdaptiveManager, BasicLemmas

-----------------------------------------------------------------------------
(* Sums.                                                                   *)

IsTotal(t, f, n) ==
  t = [k \in 0..n |-> IF k = 0 THEN 0 ELSE t[k - 1] + f[k]]

(* The sums that Total names exist, for any f.                             *)
LEMMA TotalExists ==
  ASSUME NEW f, NEW n \in Nat
  PROVE  \E t : IsTotal(t, f, n)
<1> DEFINE T == {m \in 0..n : ~ \E t : IsTotal(t, f, m)}
<1>1. 0 \notin T
  <2>1. IsTotal([k \in 0..0 |-> 0], f, 0)
    BY DEF IsTotal
  <2> QED
    BY <2>1
<1>2. ASSUME NEW m \in 0..(n - 1), m \notin T PROVE m + 1 \notin T
  <2>0. m \in Nat
    OBVIOUS
  <2>1. PICK t : IsTotal(t, f, m)
    BY <1>2
  <2> DEFINE s == [k \in 0..(m + 1) |-> IF k = m + 1 THEN t[m] + f[k] ELSE t[k]]
  <2>2. \A k \in 0..(m + 1) : s[k] = IF k = 0 THEN 0 ELSE s[k - 1] + f[k]
    <3> TAKE k \in 0..(m + 1)
    <3>1. CASE k = m + 1
      <4>1. k - 1 \in 0..(m + 1) /\ k - 1 = m /\ k - 1 # m + 1 /\ k # 0
        BY <2>0, <3>1
      <4>2. s[k - 1] = t[m] /\ s[k] = t[m] + f[k]
        BY <3>1, <4>1
      <4> QED
        BY <4>1, <4>2
    <3>2. CASE k # m + 1
      <4>1. k \in 0..m /\ (k # 0 => k - 1 \in 0..(m + 1) /\ k - 1 # m + 1)
        BY <2>0, <3>2
      <4>2. s[k] = t[k] /\ (k # 0 => s[k - 1] = t[k - 1])
        BY <3>2, <4>1
      <4>3. t[k] = IF k = 0 THEN 0 ELSE t[k - 1] + f[k]
        BY <2>1, <4>1 DEF IsTotal
      <4> QED
        BY <4>2, <4>3
    <3> QED
      BY <3>1, <3>2
  <2>3. IsTotal(s, f, m + 1)
    <3> HIDE DEF s
    <3>1. s = [k \in 0..(m + 1) |-> s[k]]
      BY DEF s
    <3> QED
      BY <2>2, <3>1 DEF IsTotal
  <2> QED
    BY <2>3
<1> HIDE DEF T
<1>3. T = {}
  <2>1. T \in SUBSET (0..n)
    BY DEF T
  <2> QED
    BY <1>1, <1>2, <2>1, NoFirst
<1> QED
  BY <1>3 DEF T

LEMMA TotalIs ==
  ASSUME NEW f, NEW n \in Nat
  PROVE  \E t : /\ t[0] = 0
                /\ \A k \in 0..(n - 1) : t[k + 1] = t[k] + f[k + 1]
                /\ t[n] = Total(f, n)
<1> DEFINE t == CHOOSE q : IsTotal(q, f, n)
<1>1. Total(f, n) = t[n]
  BY DEF Total, IsTotal
<1> HIDE DEF t
<1>2. IsTotal(t, f, n)
  BY TotalExists DEF t
<1>3. \A k \in 0..n : t[k] = IF k = 0 THEN 0 ELSE t[k - 1] + f[k]
  BY <1>2 DEF IsTotal
<1>4. t[0] = 0
  BY <1>3
<1>5. ASSUME NEW k \in 0..(n - 1) PROVE t[k + 1] = t[k] + f[k + 1]
  <2>1. k + 1 \in 0..n /\ k + 1 # 0 /\ (k + 1) - 1 = k
    OBVIOUS
  <2> QED
    BY <1>3, <2>1
<1> QED
  BY <1>1, <1>4, <1>5

LEMMA TotalNone == \A f : Total(f, 0) = 0
  BY TotalIs

LEMMA TotalSucc ==
  ASSUME NEW f, NEW n \in Nat
  PROVE  Total(f, n + 1) = Total(f, n) + f[n + 1]
<1>1. PICK s : /\ s[0] = 0
               /\ \A k \in 0..(n - 1) : s[k + 1] = s[k] + f[k + 1]
               /\ s[n] = Total(f, n)
  BY TotalIs
<1>2. PICK t : /\ t[0] = 0
               /\ \A k \in 0..((n + 1) - 1) : t[k + 1] = t[k] + f[k + 1]
               /\ t[n + 1] = Total(f, n + 1)
  <2>1. n + 1 \in Nat
    OBVIOUS
  <2> HIDE DEF Total
  <2> QED
    BY <2>1, TotalIs
<1> DEFINE T == {k \in 0..n : s[k] # t[k]}
<1>3. T \in SUBSET (0..n) /\ 0 \notin T
  BY <1>1, <1>2
<1>4. ASSUME NEW k \in 0..(n - 1), k \notin T PROVE k + 1 \notin T
  <2>1. k \in 0..n /\ k \in 0..((n + 1) - 1)
    OBVIOUS
  <2>2. s[k] = t[k] /\ s[k + 1] = s[k] + f[k + 1] /\ t[k + 1] = t[k] + f[k + 1]
    BY <1>1, <1>2, <1>4, <2>1
  <2> QED
    BY <2>2
<1>5. T = {}
  <2> HIDE DEF T
  <2> QED
    BY <1>3, <1>4, NoFirst
<1>6. n \in 0..n /\ n \in 0..((n + 1) - 1)
  OBVIOUS
<1>7. s[n] = t[n]
  BY <1>5, <1>6
<1> QED
  BY <1>1, <1>2, <1>6, <1>7

(* The values that are summed are numbers.                                 *)
Numbers(f, n) == \A k \in 1..n : f[k] \in Int

LEMMA TotalType ==
  ASSUME NEW f, NEW n \in Nat, Numbers(f, n), NEW m \in 0..n
  PROVE  Total(f, m) \in Int
<1> DEFINE T == {k \in 0..n : Total(f, k) \notin Int}
<1>1. T \in SUBSET (0..n) /\ 0 \notin T
  BY TotalNone
<1>2. ASSUME NEW k \in 0..(n - 1), k \notin T PROVE k + 1 \notin T
  <2>1. k \in Nat /\ k \in 0..n /\ k + 1 \in 1..n
    OBVIOUS
  <2>2. Total(f, k) \in Int /\ f[k + 1] \in Int
    BY <1>2, <2>1 DEF Numbers
  <2>3. Total(f, k + 1) = Total(f, k) + f[k + 1]
    BY <2>1, TotalSucc
  <2> HIDE DEF Total
  <2> QED
    BY <2>2, <2>3
<1>3. T = {}
  <2> HIDE DEF T
  <2> QED
    BY <1>1, <1>2, NoFirst
<1> QED
  BY <1>3

(* Where what f costs more than g is, place by place, at least the price   *)
(* of what x has more than b, it is so in total.                           *)
Worth(f, g, x, b, price, n) ==
  \A k \in 1..n : f[k] - g[k] >= price * (x[k] - b[k])

LEMMA TotalWorth ==
  ASSUME NEW f, NEW g, NEW x, NEW b, NEW n \in Nat, NEW price \in Int,
         Numbers(f, n), Numbers(g, n), Numbers(x, n), Numbers(b, n),
         Worth(f, g, x, b, price, n)
  PROVE  Total(f, n) - Total(g, n) >= price * (Total(x, n) - Total(b, n))
<1> DEFINE Has(k) ==
      Total(f, k) - Total(g, k) >= price * (Total(x, k) - Total(b, k))
<1> DEFINE T == {k \in 0..n : ~Has(k)}
<1>1. T \in SUBSET (0..n) /\ 0 \notin T
  <2>1. Has(0)
    BY TotalNone
  <2> QED
    BY <2>1
<1>2. ASSUME NEW k \in 0..(n - 1), k \notin T PROVE k + 1 \notin T
  <2> DEFINE y == k + 1
  <2>1. k \in Nat /\ k \in 0..n /\ y \in 1..n
    OBVIOUS
  <2>2. /\ Total(f, y) = Total(f, k) + f[y]
        /\ Total(g, y) = Total(g, k) + g[y]
        /\ Total(x, y) = Total(x, k) + x[y]
        /\ Total(b, y) = Total(b, k) + b[y]
    BY <2>1, TotalSucc
  <2>3. /\ Total(f, k) \in Int /\ Total(g, k) \in Int
        /\ Total(x, k) \in Int /\ Total(b, k) \in Int
    BY <2>1, TotalType
  <2>4. /\ f[y] \in Int /\ g[y] \in Int /\ x[y] \in Int /\ b[y] \in Int
        /\ f[y] - g[y] >= price * (x[y] - b[y])
    BY <2>1 DEF Numbers, Worth
  <2>5. Has(k)
    BY <1>2, <2>1
  <2>6. price * ((Total(x, k) + x[y]) - (Total(b, k) + b[y]))
          = price * (Total(x, k) - Total(b, k)) + price * (x[y] - b[y])
    <3> HIDE DEF y
    <3>1. \A p, q, r, s \in Int :
            price * ((p + q) - (r + s)) = price * (p - r) + price * (q - s)
      OBVIOUS
    <3> QED
      BY <2>3, <2>4, <3>1
  <2>7. Has(y)
    <3> DEFINE u == price * (Total(x, k) - Total(b, k))
               v == price * (x[y] - b[y])
    <3>1. u \in Int /\ v \in Int
      BY <2>3, <2>4
    <3>2. Total(f, k) - Total(g, k) >= u /\ f[y] - g[y] >= v
      BY <2>4, <2>5
    <3>3. price * (Total(x, y) - Total(b, y)) = u + v
      BY <2>2, <2>6
    <3> HIDE DEF u, v, y
    <3>4. (Total(f, k) + f[y]) - (Total(g, k) + g[y]) >= u + v
      BY <2>3, <2>4, <3>1, <3>2
    <3> QED
      BY <2>2, <3>3, <3>4
  <2> HIDE DEF Has
  <2> QED
    BY <2>7
<1>3. T = {}
  <2> HIDE DEF T
  <2> QED
    BY <1>1, <1>2, NoFirst
<1>4. n \in 0..n
  OBVIOUS
<1> QED
  BY <1>3, <1>4

LEMMA TotalMonotonic ==
  ASSUME NEW f, NEW g, NEW n \in Nat, Numbers(f, n), Numbers(g, n),
         \A k \in 1..n : g[k] <= f[k]
  PROVE  Total(g, n) <= Total(f, n)
<1>1. \A k \in 1..n : f[k] \in Int /\ g[k] \in Int
  BY DEF Numbers
<1>2. Worth(f, g, f, f, 0, n)
  BY <1>1 DEF Worth
<1>3. Total(f, n) \in Int /\ Total(g, n) \in Int
  <2>1. n \in 0..n
    OBVIOUS
  <2> QED
    BY <2>1, TotalType
<1>4. 0 \in Int
  OBVIOUS
<1>5. Total(f, n) - Total(g, n) >= 0 * (Total(f, n) - Total(f, n))
  BY <1>2, <1>4, TotalWorth
<1> HIDE DEF Total
<1> QED
  BY <1>3, <1>5

(* One of the values changes.                                              *)
LEMMA TotalUpdate ==
  ASSUME NEW f, NEW g, NEW n \in Nat, Numbers(f, n), Numbers(g, n),
         NEW m \in 1..n, \A k \in 1..n : k # m => g[k] = f[k]
  PROVE  Total(g, n) = Total(f, n) + g[m] - f[m]
<1> DEFINE Has(k) ==
      Total(g, k) = Total(f, k) + (IF k >= m THEN g[m] - f[m] ELSE 0)
<1> DEFINE T == {k \in 0..n : ~Has(k)}
<1>1. T \in SUBSET (0..n) /\ 0 \notin T
  <2>1. Has(0)
    BY TotalNone
  <2> QED
    BY <2>1
<1>2. ASSUME NEW k \in 0..(n - 1), k \notin T PROVE k + 1 \notin T
  <2> DEFINE y == k + 1
  <2>1. k \in Nat /\ k \in 0..n /\ y \in 1..n
    OBVIOUS
  <2>2. Total(f, y) = Total(f, k) + f[y] /\ Total(g, y) = Total(g, k) + g[y]
    BY <2>1, TotalSucc
  <2>3. Total(f, k) \in Int /\ Total(g, k) \in Int
    BY <2>1, TotalType
  <2>4. /\ f[y] \in Int /\ g[y] \in Int /\ f[m] \in Int /\ g[m] \in Int
        /\ y # m => g[y] = f[y]
    BY <2>1 DEF Numbers
  <2>5. Has(k)
    BY <1>2, <2>1
  <2>6. Has(y)
    <3>1. CASE y = m
      <4>1. ~(k >= m) /\ y >= m
        BY <3>1
      <4> HIDE DEF Total, y
      <4> QED
        BY <2>2, <2>3, <2>4, <2>5, <3>1, <4>1
    <3>2. CASE y # m
      <4>1. k >= m <=> y >= m
        BY <3>2
      <4> HIDE DEF Total, y
      <4> QED
        BY <2>2, <2>3, <2>4, <2>5, <3>2, <4>1
    <3> QED
      BY <3>1, <3>2
  <2> HIDE DEF Has
  <2> QED
    BY <2>6
<1>3. T = {}
  <2> HIDE DEF T
  <2> QED
    BY <1>1, <1>2, NoFirst
<1>4. n \in 0..n /\ n >= m
  OBVIOUS
<1>5. Total(f, n) \in Int /\ f[m] \in Int /\ g[m] \in Int
  BY <1>4, TotalType DEF Numbers
<1>6. Has(n)
  BY <1>3, <1>4
<1> HIDE DEF Total
<1> QED
  BY <1>4, <1>5, <1>6

LEMMA TotalConstant ==
  ASSUME NEW f, NEW n \in Nat, NEW c \in Nat, \A k \in 1..n : f[k] = c
  PROVE  Total(f, n) = n * c
<1> DEFINE T == {k \in 0..n : Total(f, k) # k * c}
<1>1. T \in SUBSET (0..n) /\ 0 \notin T
  BY TotalNone
<1>2. ASSUME NEW k \in 0..(n - 1), k \notin T PROVE k + 1 \notin T
  <2>1. k \in Nat /\ k \in 0..n /\ k + 1 \in 1..n
    OBVIOUS
  <2>2. Total(f, k) = k * c /\ f[k + 1] = c
    BY <1>2, <2>1
  <2>3. Total(f, k + 1) = Total(f, k) + f[k + 1]
    BY <2>1, TotalSucc
  <2>4. (k + 1) * c = k * c + c
    BY <2>1
  <2> HIDE DEF Total
  <2> QED
    BY <2>2, <2>3, <2>4
<1>3. T = {}
  <2> HIDE DEF T
  <2> QED
    BY <1>1, <1>2, NoFirst
<1>4. n \in 0..n
  OBVIOUS
<1> QED
  BY <1>3, <1>4

(* A sum of natural numbers is one, and none of them exceeds it.           *)
LEMMA TotalNat ==
  ASSUME NEW n \in Nat, NEW f, \A k \in 1..n : f[k] \in Nat
  PROVE  Total(f, n) \in Nat /\ \A m \in 1..n : f[m] <= Total(f, n)
<1> DEFINE zero == [k \in 1..n |-> 0]
<1>1. Numbers(f, n) /\ Numbers(zero, n)
  BY DEF Numbers
<1>2. Total(zero, n) = 0
  <2>1. \A k \in 1..n : zero[k] = 0
    OBVIOUS
  <2> HIDE DEF zero
  <2>2. Total(zero, n) = n * 0
    BY <2>1, TotalConstant
  <2> QED
    BY <2>2
<1>3. n \in 0..n
  OBVIOUS
<1>4. ASSUME NEW g, \A k \in 1..n : g[k] \in Nat
      PROVE  Total(g, n) \in Nat
  <2>1. Numbers(g, n) /\ \A k \in 1..n : zero[k] <= g[k]
    BY <1>4 DEF Numbers
  <2> HIDE DEF zero
  <2>2. Total(zero, n) <= Total(g, n)
    BY <1>1, <2>1, TotalMonotonic
  <2>3. Total(g, n) \in Int
    BY <1>3, <2>1, TotalType
  <2> QED
    BY <1>2, <2>2, <2>3
<1>5. ASSUME NEW m \in 1..n PROVE f[m] <= Total(f, n)
  <2> DEFINE g == [k \in 1..n |-> IF k = m THEN 0 ELSE f[k]]
  <2>1. /\ \A k \in 1..n : g[k] \in Nat
        /\ \A k \in 1..n : k # m => g[k] = f[k]
        /\ g[m] = 0 /\ f[m] \in Nat
    OBVIOUS
  <2>2. Numbers(g, n)
    BY DEF Numbers
  <2> HIDE DEF g
  <2>3. Total(g, n) = Total(f, n) + g[m] - f[m]
    BY <1>1, <2>1, <2>2, TotalUpdate
  <2>4. Total(g, n) \in Nat /\ Total(f, n) \in Nat
    BY <1>4, <2>1
  <2> QED
    BY <2>1, <2>3, <2>4
<1> QED
  BY <1>4, <1>5

-----------------------------------------------------------------------------
(* The energy of bits.                                                     *)

Weights == [Subcarriers -> Nat \ {0}]

(* Every bit costs something, and more than the one before it.             *)
LEMMA BitEnergy ==
  ASSUME NEW w \in Weights, NEW n \in Subcarriers
  PROVE  /\ \A i \in Bits : gn(w, i, n) \in Nat /\ (i > 0 => gn(w, i, n) > 0)
         /\ \A i, j \in Bits : i < j => gn(w, i, n) < gn(w, j, n)
<1>1. w[n] \in Nat \ {0}
  BY DEF Weights
<1>2. \A i \in Bits : i # 0 => i \in 1..max_nbits /\ Increment[i] \in Nat \ {0}
  BY LoadingAssumption DEF Bits
<1>3. \A p, q \in Nat \ {0} : p * q \in Nat \ {0}
  <2> TAKE p, q \in Nat \ {0}
  <2>1. p * q = p + p * (q - 1) /\ p * (q - 1) \in Nat
    OBVIOUS
  <2> QED
    BY <2>1
<1>4. \A i \in Bits : gn(w, i, n) \in Nat /\ (i > 0 => gn(w, i, n) > 0)
  <2> TAKE i \in Bits
  <2>1. i \in Nat
    BY LoadingAssumption DEF Bits
  <2>2. CASE i = 0
    BY <2>1, <2>2 DEF gn
  <2>3. CASE i # 0
    <3>1. w[n] * Increment[i] \in Nat \ {0}
      BY <1>1, <1>2, <1>3, <2>3
    <3> QED
      BY <2>3, <3>1 DEF gn
  <2> QED
    BY <2>2, <2>3
<1>5. ASSUME NEW i \in Bits, NEW j \in Bits, i < j
      PROVE  gn(w, i, n) < gn(w, j, n)
  <2>1. i \in Nat /\ j \in Nat /\ j > 0
    BY <1>5, LoadingAssumption DEF Bits
  <2>2. CASE i = 0
    BY <1>4, <2>1, <2>2 DEF gn
  <2>3. CASE i # 0
    <3>1. Increment[i] < Increment[j]
      BY <1>2, <1>5, <2>1, <2>3, LoadingAssumption
    <3> DEFINE p == Increment[i]
               q == Increment[j]
               u == w[n]
    <3>2. p \in Nat /\ q \in Nat /\ u \in Nat \ {0} /\ p < q
      BY <1>1, <1>2, <2>1, <2>3, <3>1
    <3>3. gn(w, i, n) = u * p /\ gn(w, j, n) = u * q
      BY <2>1, <2>3 DEF gn
    <3> HIDE DEF p, q, u
    <3>4. u * (q - p) \in Nat \ {0}
      <4>1. q - p \in Nat \ {0}
        BY <3>2
      <4> QED
        BY <1>3, <3>2, <4>1
    <3>5. u * q = u * p + u * (q - p) /\ u * p \in Nat
      BY <3>2
    <3> QED
      BY <3>3, <3>4, <3>5
  <2> QED
    BY <2>2, <2>3
<1> QED
  BY <1>4, <1>5

(* The energy of a subcarrier, bit by bit.                                 *)
LEMMA SubcarrierEnergy ==
  ASSUME NEW w \in Weights, NEW n \in Subcarriers
  PROVE  /\ energy(w, n, 0) = 0
         /\ \A c \in Bits : energy(w, n, c) \in Nat
         /\ \A c \in Bits : c < max_nbits =>
              energy(w, n, c + 1) = energy(w, n, c) + gn(w, c + 1, n)
<1> DEFINE f == [bit \in 1..max_nbits |-> gn(w, bit, n)]
<1>1. \A c : energy(w, n, c) = Total(f, c)
  BY DEF energy
<1>2. \A bit \in 1..max_nbits : f[bit] = gn(w, bit, n) /\ f[bit] \in Nat
  BY BitEnergy, LoadingAssumption DEF Bits
<1> HIDE DEF f
<1>3. energy(w, n, 0) = 0
  BY <1>1, TotalNone
<1>4. ASSUME NEW c \in Bits PROVE energy(w, n, c) \in Nat
  <2>1. c \in Nat /\ \A bit \in 1..c : f[bit] \in Nat
    BY <1>2, LoadingAssumption DEF Bits
  <2>2. Total(f, c) \in Nat
    BY <2>1, TotalNat
  <2> QED
    BY <1>1, <2>2
<1>5. ASSUME NEW c \in Bits, c < max_nbits
      PROVE  energy(w, n, c + 1) = energy(w, n, c) + gn(w, c + 1, n)
  <2>1. c \in Nat /\ c + 1 \in 1..max_nbits
    BY <1>5, LoadingAssumption DEF Bits
  <2>2. Total(f, c + 1) = Total(f, c) + f[c + 1]
    BY <2>1, TotalSucc
  <2> QED
    BY <1>1, <1>2, <2>1, <2>2
<1> QED
  BY <1>3, <1>4, <1>5

(* The price lies between the subcarrier's last bit and its next one.      *)
Fits(w, n, c, price) ==
  /\ c > 0 => gn(w, c, n) <= price
  /\ c < max_nbits => price <= gn(w, c + 1, n)

(* Bits beyond cost the price or more, and bits before it or less.         *)
LEMMA SubcarrierWorth ==
  ASSUME NEW w \in Weights, NEW n \in Subcarriers, NEW c \in Bits,
         NEW price \in Int, Fits(w, n, c, price), NEW x \in Bits
  PROVE  energy(w, n, x) - energy(w, n, c) >= price * (x - c)
<1> DEFINE Has(y) == energy(w, n, y) - energy(w, n, c) >= price * (y - c)
<1>0. /\ c \in Nat /\ max_nbits \in Nat /\ c <= max_nbits
      /\ \A i \in 0..max_nbits : i \in Bits
      /\ \A i \in Bits : i \in Nat /\ i <= max_nbits
  BY LoadingAssumption DEF Bits
<1>1. \A y \in Bits : energy(w, n, y) \in Nat /\ gn(w, y, n) \in Nat
  BY BitEnergy, SubcarrierEnergy
<1>2. Has(c)
  <2>1. price * (c - c) = 0
    BY <1>0
  <2> QED
    BY <1>1, <2>1
<1>3. ASSUME NEW y \in Bits, y >= c, y < max_nbits, Has(y)
      PROVE  Has(y + 1)
  <2>1. y + 1 \in Bits /\ y \in Nat /\ c + 1 \in Bits /\ c < max_nbits
    BY <1>0, <1>3
  <2>2. energy(w, n, y + 1) = energy(w, n, y) + gn(w, y + 1, n)
    BY <1>3, SubcarrierEnergy
  <2>3. price <= gn(w, y + 1, n)
    <3>1. price <= gn(w, c + 1, n)
      BY <2>1 DEF Fits
    <3>2. gn(w, c + 1, n) <= gn(w, y + 1, n)
      <4>1. CASE y = c
        BY <1>1, <2>1, <4>1
      <4>2. CASE y # c
        <5>1. c + 1 < y + 1
          BY <1>0, <1>3, <2>1, <4>2
        <5>2. gn(w, c + 1, n) < gn(w, y + 1, n)
          BY <2>1, <5>1, BitEnergy
        <5> QED
          BY <1>1, <2>1, <5>2
      <4> QED
        BY <4>1, <4>2
    <3> QED
      BY <1>1, <2>1, <3>1, <3>2
  <2>4. price * ((y + 1) - c) = price * (y - c) + price
    BY <1>0, <2>1
  <2>5. price * (y - c) \in Int
    BY <1>0, <2>1
  <2> DEFINE u == price * (y - c)
             e == energy(w, n, y)
             g == gn(w, y + 1, n)
             d == energy(w, n, c)
  <2>6. u \in Int /\ e \in Nat /\ g \in Nat /\ d \in Nat
    BY <1>1, <2>1, <2>5
  <2>7. e - d >= u /\ price <= g
    BY <1>3, <2>3
  <2>8. energy(w, n, y + 1) = e + g /\ price * ((y + 1) - c) = u + price
    BY <2>2, <2>4
  <2>9. (e + g) - d >= u + price
    <3> HIDE DEF u, e, g, d
    <3> QED
      BY <2>6, <2>7
  <2> HIDE DEF u, e, g, d
  <2> QED
    BY <2>8, <2>9 DEF d
<1>4. ASSUME NEW y \in Bits, y <= c, y > 0, Has(y)
      PROVE  Has(y - 1)
  <2> DEFINE z == y - 1
  <2>1. z \in Bits /\ z < max_nbits /\ z + 1 = y /\ z \in Nat /\ c > 0
    BY <1>0, <1>4
  <2>2. energy(w, n, y) = energy(w, n, z) + gn(w, y, n)
    <3> HIDE DEF z
    <3>1. energy(w, n, z + 1) = energy(w, n, z) + gn(w, z + 1, n)
      BY <2>1, SubcarrierEnergy
    <3> QED
      BY <2>1, <3>1
  <2>3. gn(w, y, n) <= price
    <3>1. gn(w, c, n) <= price
      BY <2>1 DEF Fits
    <3>2. gn(w, y, n) <= gn(w, c, n)
      <4>1. CASE y = c
        BY <1>1, <4>1
      <4>2. CASE y # c
        <5>1. y < c
          BY <1>0, <1>4, <4>2
        <5>2. gn(w, y, n) < gn(w, c, n)
          BY <5>1, BitEnergy
        <5> QED
          BY <1>1, <5>2
      <4> QED
        BY <4>1, <4>2
    <3> QED
      BY <1>1, <3>1, <3>2
  <2>4. price * (z - c) = price * (y - c) - price
    BY <1>0, <2>1
  <2>5. price * (y - c) \in Int
    BY <1>0, <2>1
  <2> DEFINE u == price * (y - c)
             e == energy(w, n, z)
             g == gn(w, y, n)
             d == energy(w, n, c)
  <2>6. u \in Int /\ e \in Nat /\ g \in Nat /\ d \in Nat
    BY <1>1, <2>1, <2>5
  <2>7. (e + g) - d >= u /\ g <= price
    BY <1>4, <2>2, <2>3
  <2>8. e - d >= u - price
    <3> HIDE DEF u, e, g, d
    <3> QED
      BY <2>6, <2>7
  <2> HIDE DEF u, g, d
  <2> QED
    BY <2>4, <2>8 DEF u, d
<1> HIDE DEF Has
<1>5. CASE x >= c
  <2> DEFINE T == {k \in 0..(x - c) : ~Has(c + k)}
             m == x - c
  <2>1. m \in Nat /\ c + m = x /\ m \in 0..m
    BY <1>0, <1>5
  <2>2. T \in SUBSET (0..m) /\ 0 \notin T
    BY <1>0, <1>2
  <2>3. ASSUME NEW k \in 0..(m - 1), k \notin T PROVE k + 1 \notin T
    <3>1. k \in 0..(x - c) /\ c + k \in Nat /\ c + k < x
      BY <1>0, <1>5
    <3>2. Has(c + k) /\ c + k \in Bits /\ c + k >= c /\ c + k < max_nbits
      BY <1>0, <2>3, <3>1
    <3>3. Has((c + k) + 1)
      BY <1>3, <3>2
    <3>4. (c + k) + 1 = c + (k + 1)
      BY <1>0, <3>1
    <3> QED
      BY <3>3, <3>4
  <2>4. T = {}
    <3> HIDE DEF T, m
    <3> QED
      BY <2>1, <2>2, <2>3, NoFirst
  <2>5. Has(x)
    BY <2>1, <2>4
  <2> QED
    BY <2>5 DEF Has
<1>6. CASE x < c
  <2> DEFINE T == {k \in 0..(c - x) : ~Has(c - k)}
             m == c - x
  <2>1. m \in Nat /\ c - m = x /\ m \in 0..m
    BY <1>0, <1>6
  <2>2. T \in SUBSET (0..m) /\ 0 \notin T
    BY <1>0, <1>2
  <2>3. ASSUME NEW k \in 0..(m - 1), k \notin T PROVE k + 1 \notin T
    <3>1. k \in 0..(c - x) /\ c - k \in Nat /\ c - k > x /\ x \in Nat
      BY <1>0, <1>6
    <3>2. Has(c - k) /\ c - k \in Bits /\ c - k <= c /\ c - k > 0
      BY <1>0, <2>3, <3>1
    <3>3. Has((c - k) - 1)
      BY <1>4, <3>2
    <3>4. (c - k) - 1 = c - (k + 1)
      BY <1>0, <3>1
    <3> QED
      BY <3>3, <3>4
  <2>4. T = {}
    <3> HIDE DEF T, m
    <3> QED
      BY <2>1, <2>2, <2>3, NoFirst
  <2>5. Has(x)
    BY <2>1, <2>4
  <2> QED
    BY <2>5 DEF Has
<1> QED
  BY <1>0, <1>5, <1>6

-----------------------------------------------------------------------------
(* Energy and rate of a loading.                                           *)

LEMMA LoadingBits ==
  ASSUME NEW b \in Loadings
  PROVE  /\ N \in Nat \ {0} /\ max_nbits \in Nat \ {0}
         /\ \A n \in 1..N : /\ n \in Subcarriers /\ b[n] \in Bits
                            /\ b[n] \in Nat /\ b[n] <= max_nbits
  BY LoadingAssumption DEF Loadings, Bits, Subcarriers

(* No loading has more bits than all full subcarriers.                     *)
LEMMA LoadingRate ==
  ASSUME NEW b \in Loadings
  PROVE  /\ Rate(b) \in Nat
         /\ Rate(b) <= N * max_nbits
         /\ \A n \in Subcarriers : b[n] <= Rate(b)
<1>1. /\ N \in Nat /\ max_nbits \in Nat
      /\ \A n \in 1..N : b[n] \in Nat /\ b[n] <= max_nbits
  BY LoadingBits
<1> DEFINE full == [n \in 1..N |-> max_nbits]
<1>2. \A n \in 1..N : full[n] = max_nbits
  OBVIOUS
<1> HIDE DEF full
<1>3. Numbers(b, N) /\ Numbers(full, N) /\ \A n \in 1..N : b[n] <= full[n]
  BY <1>1, <1>2 DEF Numbers
<1>4. Total(b, N) <= Total(full, N)
  BY <1>1, <1>3, TotalMonotonic
<1>5. Total(full, N) = N * max_nbits
  BY <1>1, <1>2, TotalConstant
<1>6. Total(b, N) \in Nat /\ \A n \in 1..N : b[n] <= Total(b, N)
  BY <1>1, TotalNat
<1> QED
  BY <1>4, <1>5, <1>6 DEF Rate, Subcarriers

LEMMA LoadingEnergy ==
  ASSUME NEW w \in Weights, NEW b \in Loadings
  PROVE  /\ Energy(w, b) \in Nat
         /\ \A n \in Subcarriers : energy(w, n, b[n]) <= Energy(w, b)
<1> DEFINE f == [n \in Subcarriers |-> energy(w, n, b[n])]
<1>1. /\ N \in Nat
      /\ \A n \in 1..N : f[n] = energy(w, n, b[n]) /\ f[n] \in Nat
  BY LoadingBits, SubcarrierEnergy
<1>2. Energy(w, b) = Total(f, N)
  BY DEF Energy
<1> HIDE DEF f
<1>3. Total(f, N) \in Nat /\ \A n \in 1..N : f[n] <= Total(f, N)
  BY <1>1, TotalNat
<1> QED
  BY <1>1, <1>2, <1>3 DEF Subcarriers

(* A loading without energy has no bits.                                   *)
LEMMA EnergyOfBits ==
  ASSUME NEW w \in Weights, NEW b \in Loadings, NEW n \in Subcarriers,
         b[n] > 0
  PROVE  Energy(w, b) > 0
<1> DEFINE c == b[n] - 1
<1>1. b[n] \in Bits /\ b[n] \in Nat
  BY LoadingBits DEF Subcarriers
<1>2. c \in Bits /\ c < max_nbits /\ c + 1 = b[n]
  BY <1>1, LoadingAssumption DEF Bits
<1> HIDE DEF c
<1>3. energy(w, n, c + 1) = energy(w, n, c) + gn(w, c + 1, n)
  BY <1>2, SubcarrierEnergy
<1>4. gn(w, b[n], n) \in Nat /\ gn(w, b[n], n) > 0 /\ energy(w, n, c) \in Nat
  BY <1>1, <1>2, BitEnergy, SubcarrierEnergy
<1>5. energy(w, n, b[n]) \in Nat /\ energy(w, n, b[n]) > 0
  BY <1>2, <1>3, <1>4
<1>6. Energy(w, b) \in Nat /\ energy(w, n, b[n]) <= Energy(w, b)
  BY LoadingEnergy
<1> QED
  BY <1>5, <1>6

(* One subcarrier gets another number of bits.                             *)
Changed(b, d, m, c) == \A n \in Subcarriers : d[n] = IF n = m THEN c ELSE b[n]

LEMMA ChangedTotals ==
  ASSUME NEW b \in Loadings, NEW d \in Loadings, NEW m \in Subcarriers,
         NEW c \in Bits, Changed(b, d, m, c)
  PROVE  /\ Rate(d) = Rate(b) + c - b[m]
         /\ \A w \in Weights :
              Energy(w, d) = Energy(w, b) + energy(w, m, c) - energy(w, m, b[m])
<1>3. /\ N \in Nat /\ m \in 1..N
      /\ \A n \in 1..N : b[n] \in Bits /\ b[n] \in Nat
      /\ \A n \in 1..N : d[n] \in Bits /\ d[n] \in Nat
      /\ \A n \in 1..N : d[n] = IF n = m THEN c ELSE b[n]
  BY LoadingBits DEF Subcarriers, Changed
<1>4. Rate(d) = Rate(b) + c - b[m]
  <2>1. Numbers(b, N) /\ Numbers(d, N)
    BY <1>3 DEF Numbers
  <2>2. \A n \in 1..N : n # m => d[n] = b[n]
    BY <1>3
  <2>3. Total(d, N) = Total(b, N) + d[m] - b[m]
    BY <1>3, <2>1, <2>2, TotalUpdate
  <2> QED
    BY <1>3, <2>3 DEF Rate
<1>5. ASSUME NEW w \in Weights
      PROVE  Energy(w, d) = Energy(w, b) + energy(w, m, c) - energy(w, m, b[m])
  <2> DEFINE f == [n \in Subcarriers |-> energy(w, n, b[n])]
             g == [n \in Subcarriers |-> energy(w, n, d[n])]
  <2>1. \A n \in 1..N : /\ f[n] = energy(w, n, b[n]) /\ f[n] \in Nat
                        /\ g[n] = energy(w, n, d[n]) /\ g[n] \in Nat
    BY <1>3, SubcarrierEnergy DEF Subcarriers
  <2>2. Energy(w, b) = Total(f, N) /\ Energy(w, d) = Total(g, N)
    BY DEF Energy
  <2> HIDE DEF f, g
  <2>3. Numbers(f, N) /\ Numbers(g, N)
    BY <2>1 DEF Numbers
  <2>4. \A n \in 1..N : n # m => g[n] = f[n]
    BY <1>3, <2>1
  <2>5. Total(g, N) = Total(f, N) + g[m] - f[m]
    BY <1>3, <2>3, <2>4, TotalUpdate
  <2>6. g[m] = energy(w, m, c) /\ f[m] = energy(w, m, b[m])
    BY <1>3, <2>1
  <2> QED
    BY <2>2, <2>5, <2>6
<1> QED
  BY <1>4, <1>5

LEMMA LoadingUpdate ==
  ASSUME NEW b \in Loadings, NEW m \in Subcarriers, NEW c \in Bits
  PROVE  /\ [b EXCEPT ![m] = c] \in Loadings
         /\ Changed(b, [b EXCEPT ![m] = c], m, c)
  BY DEF Loadings, Changed

(* A loading that no price beats: whatever another one has more, costs at  *)
(* least this price per bit.                                               *)
Priced(w, b, price) == \A n \in Subcarriers : Fits(w, n, b[n], price)

LEMMA LoadingWorth ==
  ASSUME NEW w \in Weights, NEW b \in Loadings, NEW price \in Int,
         Priced(w, b, price), NEW x \in Loadings
  PROVE  Energy(w, x) - Energy(w, b) >= price * (Rate(x) - Rate(b))
<1> DEFINE f == [n \in Subcarriers |-> energy(w, n, x[n])]
           g == [n \in Subcarriers |-> energy(w, n, b[n])]
<1>1. /\ N \in Nat
      /\ \A n \in 1..N : /\ n \in Subcarriers
                         /\ b[n] \in Bits /\ b[n] \in Nat
                         /\ x[n] \in Bits /\ x[n] \in Nat
  BY LoadingBits
<1>2. \A n \in 1..N : /\ f[n] = energy(w, n, x[n]) /\ f[n] \in Nat
                      /\ g[n] = energy(w, n, b[n]) /\ g[n] \in Nat
  BY <1>1, SubcarrierEnergy
<1>3. Energy(w, x) = Total(f, N) /\ Energy(w, b) = Total(g, N)
  BY DEF Energy
<1> HIDE DEF f, g
<1>4. Numbers(f, N) /\ Numbers(g, N) /\ Numbers(x, N) /\ Numbers(b, N)
  BY <1>1, <1>2 DEF Numbers
<1>5. Worth(f, g, x, b, price, N)
  <2>1. ASSUME NEW n \in 1..N
        PROVE  f[n] - g[n] >= price * (x[n] - b[n])
    <3>1. Fits(w, n, b[n], price)
      BY <1>1 DEF Priced
    <3>2. energy(w, n, x[n]) - energy(w, n, b[n]) >= price * (x[n] - b[n])
      BY <1>1, <3>1, SubcarrierWorth
    <3> QED
      BY <1>2, <3>2
  <2> QED
    BY <2>1 DEF Worth
<1>6. Total(f, N) - Total(g, N) >= price * (Total(x, N) - Total(b, N))
  BY <1>1, <1>4, <1>5, TotalWorth
<1> QED
  BY <1>3, <1>6 DEF Rate

-----------------------------------------------------------------------------
(* The next bit and the last one.                                          *)

LEMMA Cheapest ==
  ASSUME NEW w \in Weights, NEW b \in Loadings, NotFull(b) # {}
  PROVE  /\ min_c(w, b) \in Subcarriers
         /\ b[min_c(w, b)] + 1 \in Bits /\ b[min_c(w, b)] < max_nbits
         /\ NextBit(w, b) \in Nat
         /\ \A k \in Subcarriers :
              b[k] < max_nbits => NextBit(w, b) <= gn(w, b[k] + 1, k)
<1> DEFINE v(n) == gn(w, b[n] + 1, n)
           V == {v(n) : n \in NotFull(b)}
           low == Min(V)
           M == {n \in NotFull(b) : v(n) = low}
           m == Min(M)
<1>1. \A n \in NotFull(b) : /\ n \in Subcarriers /\ n \in Nat
                            /\ b[n] < max_nbits /\ b[n] + 1 \in Bits
                            /\ v(n) \in Nat
  <2> TAKE n \in NotFull(b)
  <2>1. n \in Subcarriers /\ n \in Nat /\ b[n] < max_nbits
    BY LoadingAssumption DEF NotFull, Subcarriers
  <2>2. b[n] + 1 \in Bits
    BY <2>1, LoadingBits DEF Subcarriers, Bits
  <2> QED
    BY <2>1, <2>2, BitEnergy
<1>2. V \in SUBSET Nat /\ V # {}
  BY <1>1
<1>3. low \in V /\ \A y \in V : low <= y
  <2> HIDE DEF V
  <2> QED
    BY <1>2, Least
<1>4. M \in SUBSET Nat /\ M # {}
  BY <1>1, <1>3
<1>5. m \in M /\ \A y \in M : m <= y
  <2> HIDE DEF M
  <2> QED
    BY <1>4, Least
<1>6. \A k \in NotFull(b) : v(m) < v(k) \/ (v(m) = v(k) /\ m <= k)
  <2> TAKE k \in NotFull(b)
  <2>1. v(m) = low /\ low <= v(k) /\ v(k) \in Nat /\ low \in Nat
    BY <1>1, <1>2, <1>3, <1>5
  <2>2. v(k) = low => m <= k
    BY <1>5
  <2> HIDE DEF v, low, m
  <2> QED
    BY <2>1, <2>2
<1> DEFINE Is(n) == \A k \in NotFull(b) : v(n) < v(k) \/ (v(n) = v(k) /\ n <= k)
<1>7. \E n \in NotFull(b) : Is(n)
  <2>1. m \in NotFull(b)
    BY <1>5
  <2> QED
    BY <1>6, <2>1
<1>8. min_c(w, b) = CHOOSE n \in NotFull(b) : Is(n)
  BY DEF min_c
<1>9. min_c(w, b) \in NotFull(b) /\ Is(min_c(w, b))
  <2> HIDE DEF Is
  <2> QED
    BY <1>7, <1>8
<1>10. \A k \in NotFull(b) : v(min_c(w, b)) <= v(k)
  <2> TAKE k \in NotFull(b)
  <2>1. v(k) \in Nat /\ v(min_c(w, b)) \in Nat
    BY <1>1, <1>9
  <2> QED
    BY <1>9, <2>1
<1>11. NextBit(w, b) = v(min_c(w, b))
  BY DEF NextBit
<1>12. \A k \in Subcarriers : b[k] < max_nbits => k \in NotFull(b)
  BY DEF NotFull
<1> HIDE DEF Is, V, low, M, m
<1> QED
  BY <1>1, <1>9, <1>10, <1>11, <1>12

LEMMA Dearest ==
  ASSUME NEW w \in Weights, NEW b \in Loadings
  PROVE  /\ max_c(w, b) \in Subcarriers
         /\ b[max_c(w, b)] \in Bits
         /\ LastBit(w, b) \in Nat
         /\ \A k \in Subcarriers : gn(w, b[k], k) <= LastBit(w, b)
<1> DEFINE f == [n \in Subcarriers |-> gn(w, b[n], n)]
           V == {f[n] : n \in Subcarriers}
           high == Max(V)
           M == {n \in Subcarriers : f[n] = high}
           m == Min(M)
<1>1. /\ N \in Nat \ {0}
      /\ \A n \in Subcarriers : /\ n \in Nat /\ b[n] \in Bits
                                /\ f[n] = gn(w, b[n], n) /\ f[n] \in Nat
  BY LoadingBits, BitEnergy DEF Subcarriers
<1> HIDE DEF f
<1>2. Total(f, N) \in Nat /\ \A n \in Subcarriers : f[n] <= Total(f, N)
  <2>1. N \in Nat /\ \A n \in 1..N : f[n] \in Nat
    BY <1>1 DEF Subcarriers
  <2> QED
    BY <2>1, TotalNat DEF Subcarriers
<1>3. V \in SUBSET Nat /\ V # {} /\ \A y \in V : y <= Total(f, N)
  <2>1. 1 \in Subcarriers
    BY <1>1 DEF Subcarriers
  <2> QED
    BY <1>1, <1>2, <2>1
<1>4. high \in V /\ \A y \in V : high >= y
  <2> HIDE DEF V
  <2> QED
    BY <1>2, <1>3, Greatest
<1>5. M \in SUBSET Nat /\ M # {}
  BY <1>1, <1>4
<1>6. m \in M /\ \A y \in M : m <= y
  <2> HIDE DEF M
  <2> QED
    BY <1>5, Least
<1>7. \A k \in Subcarriers : f[m] > f[k] \/ (f[m] = f[k] /\ m <= k)
  <2> TAKE k \in Subcarriers
  <2>1. f[m] = high /\ high >= f[k] /\ f[k] \in Nat /\ high \in Nat
    BY <1>1, <1>3, <1>4, <1>6
  <2>2. f[k] = high => m <= k
    BY <1>6
  <2> HIDE DEF high, m
  <2> QED
    BY <2>1, <2>2
<1> DEFINE Is(n) ==
      \A k \in Subcarriers :
        \/ gn(w, b[n], n) > gn(w, b[k], k)
        \/ gn(w, b[n], n) = gn(w, b[k], k) /\ n <= k
<1>8. \E n \in Subcarriers : Is(n)
  <2>1. m \in Subcarriers
    BY <1>6
  <2> HIDE DEF m
  <2>2. Is(m)
    BY <1>1, <1>7, <2>1
  <2> QED
    BY <2>1, <2>2
<1>9. max_c(w, b) = CHOOSE n \in Subcarriers : Is(n)
  BY DEF max_c
<1>10. max_c(w, b) \in Subcarriers /\ Is(max_c(w, b))
  <2> HIDE DEF Is
  <2> QED
    BY <1>8, <1>9
<1>11. LastBit(w, b) = f[max_c(w, b)]
  BY <1>1, <1>10 DEF LastBit
<1>12. \A k \in Subcarriers : gn(w, b[k], k) <= LastBit(w, b)
  <2> TAKE k \in Subcarriers
  <2>1. f[k] \in Nat /\ f[max_c(w, b)] \in Nat
    BY <1>1, <1>10
  <2>2. gn(w, b[k], k) = f[k] /\ gn(w, b[max_c(w, b)], max_c(w, b)) = f[max_c(w, b)]
    BY <1>1, <1>10
  <2> QED
    BY <1>10, <1>11, <2>1, <2>2
<1> HIDE DEF Is, V, high, M, m
<1> QED
  BY <1>1, <1>10, <1>11, <1>12

-----------------------------------------------------------------------------
(* Bits added, removed and moved.                                          *)

(* The bits of subcarrier n and their neighbours, as the lemmas on gn      *)
(* want them.                                                              *)
LEMMA NeighbourBits ==
  ASSUME NEW b \in Loadings, NEW n \in Subcarriers
  PROVE  /\ b[n] \in Bits /\ b[n] \in Nat
         /\ b[n] < max_nbits => b[n] + 1 \in Bits
         /\ b[n] > 0 => b[n] - 1 \in Bits /\ b[n] - 1 < max_nbits
  BY LoadingBits DEF Subcarriers, Bits

LEMMA SomeBit ==
  ASSUME NEW w \in Weights, NEW b \in Loadings,
         Rate(b) > 0 \/ Energy(w, b) > 0
  PROVE  \E n \in Subcarriers : b[n] > 0
<1> SUFFICES ASSUME \A n \in Subcarriers : ~(b[n] > 0) PROVE FALSE
  OBVIOUS
<1>1. N \in Nat /\ \A n \in 1..N : n \in Subcarriers /\ b[n] = 0
  BY LoadingBits
<1>2. Total(b, N) = N * 0
  BY <1>1, TotalConstant
<1> DEFINE f == [n \in Subcarriers |-> energy(w, n, b[n])]
<1>3. \A n \in 1..N : f[n] = 0
  BY <1>1, SubcarrierEnergy
<1>4. Energy(w, b) = Total(f, N)
  BY DEF Energy
<1> HIDE DEF f
<1>5. Total(f, N) = N * 0
  BY <1>1, <1>3, TotalConstant
<1>6. Rate(b) = 0 /\ Energy(w, b) = 0
  BY <1>1, <1>2, <1>4, <1>5 DEF Rate
<1> QED
  BY <1>6

LEMMA AddBitIs ==
  ASSUME NEW w \in Weights, NEW b \in Loadings, NotFull(b) # {}
  PROVE  /\ AddBit(w, b) \in Loadings
         /\ Changed(b, AddBit(w, b), min_c(w, b), b[min_c(w, b)] + 1)
         /\ Rate(AddBit(w, b)) = Rate(b) + 1
         /\ Energy(w, AddBit(w, b)) = Energy(w, b) + NextBit(w, b)
<1> DEFINE m == min_c(w, b)
           c == b[m] + 1
           d == AddBit(w, b)
<1>1. m \in Subcarriers /\ c \in Bits /\ b[m] < max_nbits
  BY Cheapest
<1>2. d = [b EXCEPT ![m] = c]
  BY DEF AddBit
<1>3. NextBit(w, b) = gn(w, c, m)
  BY DEF NextBit
<1>4. b[m] \in Bits /\ b[m] \in Nat /\ c = b[m] + 1
  BY <1>1, NeighbourBits
<1> HIDE DEF m, c, d
<1>5. d \in Loadings /\ Changed(b, d, m, c)
  BY <1>1, <1>2, LoadingUpdate
<1>6. /\ Rate(d) = Rate(b) + c - b[m]
      /\ Energy(w, d) = Energy(w, b) + energy(w, m, c) - energy(w, m, b[m])
  BY <1>1, <1>5, ChangedTotals
<1>7. energy(w, m, c) = energy(w, m, b[m]) + gn(w, c, m)
  BY <1>1, <1>4, SubcarrierEnergy
<1>8. /\ Rate(b) \in Nat /\ Energy(w, b) \in Nat
      /\ energy(w, m, b[m]) \in Nat /\ gn(w, c, m) \in Nat
  BY <1>1, <1>4, LoadingRate, LoadingEnergy, SubcarrierEnergy, BitEnergy
<1>9. Rate(d) = Rate(b) + 1
  BY <1>4, <1>6, <1>8
<1>10. Energy(w, d) = Energy(w, b) + NextBit(w, b)
  BY <1>3, <1>6, <1>7, <1>8
<1> QED
  BY <1>5, <1>9, <1>10 DEF d, m, c

LEMMA DearestHasBit ==
  ASSUME NEW w \in Weights, NEW b \in Loadings,
         \E n \in Subcarriers : b[n] > 0
  PROVE  b[max_c(w, b)] > 0 /\ LastBit(w, b) > 0
<1>1. PICK n \in Subcarriers : b[n] > 0
  OBVIOUS
<1>2. gn(w, b[n], n) \in Nat /\ gn(w, b[n], n) > 0
  BY <1>1, NeighbourBits, BitEnergy
<1>3. LastBit(w, b) \in Nat /\ gn(w, b[n], n) <= LastBit(w, b)
  BY Dearest
<1>4. LastBit(w, b) > 0
  BY <1>2, <1>3
<1>5. b[max_c(w, b)] # 0
  <2>1. ASSUME b[max_c(w, b)] = 0 PROVE LastBit(w, b) = 0
    BY <2>1 DEF LastBit, gn
  <2> QED
    BY <1>4, <2>1
<1>6. b[max_c(w, b)] \in Nat
  BY Dearest, NeighbourBits
<1> QED
  BY <1>4, <1>5, <1>6

LEMMA RemoveBitIs ==
  ASSUME NEW w \in Weights, NEW b \in Loadings,
         \E n \in Subcarriers : b[n] > 0
  PROVE  /\ RemoveBit(w, b) \in Loadings
         /\ Changed(b, RemoveBit(w, b), max_c(w, b), b[max_c(w, b)] - 1)
         /\ Rate(RemoveBit(w, b)) = Rate(b) - 1
         /\ Energy(w, RemoveBit(w, b)) = Energy(w, b) - LastBit(w, b)
<1> DEFINE m == max_c(w, b)
           c == b[m] - 1
           d == RemoveBit(w, b)
<1>1. m \in Subcarriers /\ b[m] > 0
  BY Dearest, DearestHasBit
<1>2. d = [b EXCEPT ![m] = c]
  BY DEF RemoveBit
<1>3. LastBit(w, b) = gn(w, b[m], m)
  BY DEF LastBit
<1>4. b[m] \in Bits /\ b[m] \in Nat /\ c \in Bits /\ c < max_nbits /\ b[m] = c + 1
  BY <1>1, NeighbourBits
<1> HIDE DEF m, c, d
<1>5. d \in Loadings /\ Changed(b, d, m, c)
  BY <1>1, <1>2, <1>4, LoadingUpdate
<1>6. /\ Rate(d) = Rate(b) + c - b[m]
      /\ Energy(w, d) = Energy(w, b) + energy(w, m, c) - energy(w, m, b[m])
  BY <1>1, <1>4, <1>5, ChangedTotals
<1>7. energy(w, m, b[m]) = energy(w, m, c) + gn(w, b[m], m)
  BY <1>1, <1>4, SubcarrierEnergy
<1>8. /\ Rate(b) \in Nat /\ Energy(w, b) \in Nat /\ c \in Nat
      /\ energy(w, m, c) \in Nat /\ gn(w, b[m], m) \in Nat
  <2>1. c \in Nat
    BY <1>4, LoadingAssumption DEF Bits
  <2>2. energy(w, m, c) \in Nat /\ gn(w, b[m], m) \in Nat
    BY <1>1, <1>4, SubcarrierEnergy, BitEnergy
  <2> QED
    BY <2>1, <2>2, LoadingRate, LoadingEnergy
<1>9. Rate(d) = Rate(b) - 1
  BY <1>4, <1>6, <1>8
<1>10. Energy(w, d) = Energy(w, b) - LastBit(w, b)
  BY <1>3, <1>6, <1>7, <1>8
<1> QED
  BY <1>5, <1>9, <1>10 DEF d, m, c

(* Nowhere is the last bit dearer than the next one elsewhere.             *)
Efficient(w, b) ==
  \A n, k \in Subcarriers :
    b[n] < max_nbits /\ b[k] > 0 => gn(w, b[k], k) <= gn(w, b[n] + 1, n)

(* A bit added where it is cheapest leaves the loading efficient.          *)
LEMMA AddEfficient ==
  ASSUME NEW w \in Weights, NEW b \in Loadings, NotFull(b) # {},
         Efficient(w, b)
  PROVE  Efficient(w, AddBit(w, b))
<1> DEFINE m == min_c(w, b)
           d == AddBit(w, b)
<1>1. /\ m \in Subcarriers /\ b[m] < max_nbits
      /\ NextBit(w, b) = gn(w, b[m] + 1, m)
      /\ \A k \in Subcarriers :
           b[k] < max_nbits => gn(w, b[m] + 1, m) <= gn(w, b[k] + 1, k)
  BY Cheapest DEF NextBit
<1>2. /\ d \in Loadings
      /\ \A k \in Subcarriers : d[k] = IF k = m THEN b[m] + 1 ELSE b[k]
  BY AddBitIs DEF Changed
<1> HIDE DEF m, d
<1> SUFFICES ASSUME NEW n \in Subcarriers, NEW k \in Subcarriers,
                    d[n] < max_nbits, d[k] > 0
             PROVE  gn(w, d[k], k) <= gn(w, d[n] + 1, n)
  BY DEF Efficient, d
<1>3. /\ b[n] \in Nat /\ d[n] \in Nat /\ b[n] <= d[n] /\ b[n] < max_nbits
      /\ d[n] + 1 \in Bits /\ b[n] + 1 \in Bits
  <2>1. b[n] \in Nat /\ d[n] \in Nat /\ max_nbits \in Nat
    BY <1>2, NeighbourBits, LoadingAssumption
  <2>2. b[n] <= d[n]
    BY <1>2, <2>1
  <2>3. b[n] < max_nbits
    BY <2>1, <2>2
  <2> QED
    BY <1>2, <2>1, <2>2, <2>3, NeighbourBits
<1>4. gn(w, b[n] + 1, n) \in Nat /\ gn(w, d[n] + 1, n) \in Nat
  BY <1>3, BitEnergy
<1>5. gn(w, b[n] + 1, n) <= gn(w, d[n] + 1, n)
  <2>1. CASE b[n] = d[n]
    BY <1>4, <2>1
  <2>2. CASE b[n] # d[n]
    <3>1. b[n] + 1 < d[n] + 1
      BY <1>3, <2>2
    <3>2. gn(w, b[n] + 1, n) < gn(w, d[n] + 1, n)
      BY <1>3, <3>1, BitEnergy
    <3> QED
      BY <1>4, <3>2
  <2> QED
    BY <2>1, <2>2
<1>6. gn(w, d[k], k) \in Nat
  BY <1>2, NeighbourBits, BitEnergy
<1>7. gn(w, d[k], k) <= gn(w, b[n] + 1, n)
  <2>1. CASE k = m
    BY <1>1, <1>2, <1>3, <2>1
  <2>2. CASE k # m
    <3>1. d[k] = b[k] /\ b[k] > 0
      BY <1>2, <2>2
    <3> QED
      BY <1>3, <3>1 DEF Efficient
  <2> QED
    BY <2>1, <2>2
<1> QED
  BY <1>4, <1>5, <1>6, <1>7

(* So does a bit removed where it is dearest.                              *)
LEMMA RemoveEfficient ==
  ASSUME NEW w \in Weights, NEW b \in Loadings,
         \E n \in Subcarriers : b[n] > 0, Efficient(w, b)
  PROVE  Efficient(w, RemoveBit(w, b))
<1> DEFINE m == max_c(w, b)
           d == RemoveBit(w, b)
<1>1. /\ m \in Subcarriers /\ b[m] > 0
      /\ \A k \in Subcarriers : gn(w, b[k], k) <= gn(w, b[m], m)
  BY Dearest, DearestHasBit DEF LastBit
<1>2. /\ d \in Loadings
      /\ \A k \in Subcarriers : d[k] = IF k = m THEN b[m] - 1 ELSE b[k]
  BY RemoveBitIs DEF Changed
<1> HIDE DEF m, d
<1> SUFFICES ASSUME NEW n \in Subcarriers, NEW k \in Subcarriers,
                    d[n] < max_nbits, d[k] > 0
             PROVE  gn(w, d[k], k) <= gn(w, d[n] + 1, n)
  BY DEF Efficient, d
<1>3. /\ b[k] \in Bits /\ d[k] \in Bits /\ b[k] \in Nat /\ d[k] \in Nat
      /\ d[k] <= b[k] /\ b[k] > 0
  <2>1. b[k] \in Bits /\ d[k] \in Bits /\ b[k] \in Nat /\ d[k] \in Nat
    BY <1>2, NeighbourBits
  <2>2. d[k] <= b[k]
    BY <1>2, <2>1
  <2> QED
    BY <2>1, <2>2
<1>4. gn(w, b[k], k) \in Nat /\ gn(w, d[k], k) \in Nat
  BY <1>3, BitEnergy
<1>5. gn(w, d[k], k) <= gn(w, b[k], k)
  <2>1. CASE b[k] = d[k]
    BY <1>4, <2>1
  <2>2. CASE b[k] # d[k]
    <3>1. d[k] < b[k]
      BY <1>3, <2>2
    <3>2. gn(w, d[k], k) < gn(w, b[k], k)
      BY <1>3, <3>1, BitEnergy
    <3> QED
      BY <1>4, <3>2
  <2> QED
    BY <2>1, <2>2
<1>6. gn(w, d[n] + 1, n) \in Nat
  <2>1. d[n] + 1 \in Bits
    BY <1>2, NeighbourBits
  <2> QED
    BY <2>1, BitEnergy
<1>7. gn(w, b[k], k) <= gn(w, d[n] + 1, n)
  <2>1. CASE n = m
    <3>1. b[m] \in Nat
      BY <1>1, NeighbourBits
    <3>2. d[n] + 1 = b[m]
      BY <1>1, <1>2, <2>1, <3>1
    <3> QED
      BY <1>1, <2>1, <3>2
  <2>2. CASE n # m
    <3>1. d[n] = b[n]
      BY <1>2, <2>2
    <3> QED
      BY <1>3, <3>1 DEF Efficient
  <2> QED
    BY <2>1, <2>2
<1> QED
  BY <1>4, <1>5, <1>6, <1>7

(* A bit is moved between two subcarriers.                                 *)
LEMMA MoveBitIs ==
  ASSUME NEW w \in Weights, NEW b \in Loadings, NotFull(b) # {},
         NextBit(w, b) < LastBit(w, b)
  PROVE  /\ min_c(w, b) # max_c(w, b)
         /\ b[max_c(w, b)] > 0
         /\ MoveBit(w, b) \in Loadings
         /\ \A k \in Subcarriers :
              MoveBit(w, b)[k] = IF k = min_c(w, b) THEN b[k] + 1
                                 ELSE IF k = max_c(w, b) THEN b[k] - 1
                                 ELSE b[k]
<1> DEFINE m == min_c(w, b)
           n == max_c(w, b)
           d == MoveBit(w, b)
<1>1. /\ m \in Subcarriers /\ b[m] + 1 \in Bits /\ NextBit(w, b) \in Nat
      /\ n \in Subcarriers /\ b[n] \in Bits /\ LastBit(w, b) \in Nat
  BY Cheapest, Dearest
<1>2. b[n] \in Nat /\ b[n] # 0
  <2>1. ASSUME b[n] = 0 PROVE LastBit(w, b) = 0
    BY <2>1 DEF LastBit, gn
  <2> QED
    BY <1>1, <2>1, NeighbourBits
<1>3. m # n
  <2>1. SUFFICES ASSUME m = n PROVE FALSE
    OBVIOUS
  <2>2. gn(w, b[m], m) < gn(w, b[m] + 1, m)
    <3>1. b[m] \in Bits /\ b[m] < b[m] + 1
      BY <1>1, NeighbourBits
    <3> QED
      BY <1>1, <3>1, BitEnergy
  <2>3. NextBit(w, b) = gn(w, b[m] + 1, m) /\ LastBit(w, b) = gn(w, b[m], m)
    BY <2>1 DEF NextBit, LastBit
  <2> QED
    BY <1>1, <2>2, <2>3
<1>4. b[n] > 0 /\ b[n] - 1 \in Bits
  BY <1>1, <1>2, NeighbourBits
<1>5. d = [b EXCEPT ![m] = b[m] + 1, ![n] = b[n] - 1]
  BY <1>3 DEF MoveBit, Loadings
<1> HIDE DEF m, n, d
<1>6. d \in Loadings
  BY <1>1, <1>4, <1>5 DEF Loadings
<1>7. \A k \in Subcarriers :
        d[k] = IF k = m THEN b[k] + 1 ELSE IF k = n THEN b[k] - 1 ELSE b[k]
  BY <1>1, <1>3, <1>5 DEF Loadings
<1> QED
  BY <1>3, <1>4, <1>6, <1>7 DEF m, n, d

-----------------------------------------------------------------------------
(* EF ends with an efficient loading.                                      *)

EFEnded(w, b) == ~(NotFull(b) # {} /\ NextBit(w, b) < LastBit(w, b))

LEMMA EndedEfficient ==
  ASSUME NEW w \in Weights, NEW b \in Loadings, EFEnded(w, b)
  PROVE  Efficient(w, b)
<1> SUFFICES ASSUME NEW n \in Subcarriers, NEW k \in Subcarriers,
                    b[n] < max_nbits, b[k] > 0
             PROVE  gn(w, b[k], k) <= gn(w, b[n] + 1, n)
  BY DEF Efficient
<1>1. NotFull(b) # {}
  BY DEF NotFull
<1>2. NextBit(w, b) \in Nat /\ NextBit(w, b) <= gn(w, b[n] + 1, n)
  BY <1>1, Cheapest
<1>3. LastBit(w, b) \in Nat /\ gn(w, b[k], k) <= LastBit(w, b)
  BY Dearest
<1>4. LastBit(w, b) <= NextBit(w, b)
  BY <1>1, <1>2, <1>3 DEF EFEnded
<1>5. gn(w, b[k], k) \in Nat /\ gn(w, b[n] + 1, n) \in Nat
  BY NeighbourBits, BitEnergy
<1> QED
  BY <1>2, <1>3, <1>4, <1>5

(* While EF runs: bits that a subcarrier has gained are no dearer than any *)
(* next bit, and those it has lost are no cheaper than any last one.       *)
Gained(w, old, b) ==
  \A n, k \in Subcarriers :
    b[n] > old[n] /\ b[k] < max_nbits => gn(w, b[n], n) <= gn(w, b[k] + 1, k)

Lost(w, old, b) ==
  \A n, k \in Subcarriers :
    b[n] < old[n] => gn(w, b[k], k) <= gn(w, b[n] + 1, n)

(* Bits that are still where they were at first.                           *)
Kept(old, b) == Total([n \in Subcarriers |-> IF b[n] < old[n] THEN b[n] ELSE old[n]], N)

LEMMA KeptType ==
  ASSUME NEW old \in Loadings, NEW b \in Loadings
  PROVE  /\ Kept(old, b) \in Nat
         /\ \A n \in Subcarriers :
              (IF b[n] < old[n] THEN b[n] ELSE old[n]) <= Kept(old, b)
<1> DEFINE f == [n \in Subcarriers |-> IF b[n] < old[n] THEN b[n] ELSE old[n]]
<1>1. /\ N \in Nat
      /\ \A n \in 1..N : /\ f[n] = IF b[n] < old[n] THEN b[n] ELSE old[n]
                         /\ f[n] \in Nat
  BY LoadingBits
<1>2. Kept(old, b) = Total(f, N)
  BY DEF Kept
<1> HIDE DEF f
<1>3. Total(f, N) \in Nat /\ \A n \in 1..N : f[n] <= Total(f, N)
  BY <1>1, TotalNat
<1> QED
  BY <1>1, <1>2, <1>3 DEF Subcarriers

(* A turn of EF moves a bit from n, where it is dearest, to m.             *)
Move(w, b, d, m, n) ==
  /\ m # n
  /\ \A k \in Subcarriers : d[k] = IF k = m THEN b[k] + 1
                                   ELSE IF k = n THEN b[k] - 1 ELSE b[k]
  /\ b[m] < max_nbits /\ b[n] > 0
  /\ gn(w, b[m] + 1, m) < gn(w, b[n], n)
  /\ \A k \in Subcarriers :
       b[k] < max_nbits => gn(w, b[m] + 1, m) <= gn(w, b[k] + 1, k)
  /\ \A k \in Subcarriers : gn(w, b[k], k) <= gn(w, b[n], n)

LEMMA MoveIs ==
  ASSUME NEW w \in Weights, NEW b \in Loadings, ~EFEnded(w, b)
  PROVE  /\ MoveBit(w, b) \in Loadings
         /\ min_c(w, b) \in Subcarriers /\ max_c(w, b) \in Subcarriers
         /\ Move(w, b, MoveBit(w, b), min_c(w, b), max_c(w, b))
<1>1. NotFull(b) # {} /\ NextBit(w, b) < LastBit(w, b)
  BY DEF EFEnded
<1> DEFINE m == min_c(w, b)
           n == max_c(w, b)
           d == MoveBit(w, b)
<1>2. /\ m # n /\ b[n] > 0 /\ d \in Loadings
      /\ \A k \in Subcarriers : d[k] = IF k = m THEN b[k] + 1
                                       ELSE IF k = n THEN b[k] - 1 ELSE b[k]
  BY <1>1, MoveBitIs
<1>3. /\ m \in Subcarriers /\ b[m] < max_nbits
      /\ \A k \in Subcarriers :
           b[k] < max_nbits => gn(w, b[m] + 1, m) <= gn(w, b[k] + 1, k)
  BY <1>1, Cheapest DEF NextBit
<1>4. n \in Subcarriers /\ \A k \in Subcarriers : gn(w, b[k], k) <= gn(w, b[n], n)
  BY Dearest DEF LastBit
<1>5. gn(w, b[m] + 1, m) < gn(w, b[n], n)
  BY <1>1 DEF NextBit, LastBit
<1> HIDE DEF m, n, d
<1>6. Move(w, b, d, m, n)
  BY <1>2, <1>3, <1>4, <1>5 DEF Move
<1> QED
  BY <1>2, <1>3, <1>4, <1>6 DEF m, n, d

LEMMA MoveStep ==
  ASSUME NEW w \in Weights, NEW old \in Loadings, NEW b \in Loadings,
         NEW d \in Loadings, NEW m \in Subcarriers, NEW n \in Subcarriers,
         Move(w, b, d, m, n), Gained(w, old, b), Lost(w, old, b)
  PROVE  /\ Gained(w, old, d) /\ Lost(w, old, d)
         /\ Kept(old, d) = Kept(old, b) - 1
<1> DEFINE e == gn(w, b[m] + 1, m)
           l == gn(w, b[n], n)
<1>0. /\ m # n /\ b[m] < max_nbits /\ b[n] > 0 /\ e < l
      /\ \A k \in Subcarriers : d[k] = IF k = m THEN b[k] + 1
                                       ELSE IF k = n THEN b[k] - 1 ELSE b[k]
      /\ \A k \in Subcarriers : b[k] < max_nbits => e <= gn(w, b[k] + 1, k)
      /\ \A k \in Subcarriers : gn(w, b[k], k) <= l
  BY DEF Move
<1>1. /\ max_nbits \in Nat
      /\ \A k \in Subcarriers : /\ b[k] \in Nat /\ d[k] \in Nat /\ old[k] \in Nat
                                /\ b[k] \in Bits /\ d[k] \in Bits
                                /\ b[k] <= max_nbits
                                /\ b[k] < max_nbits => b[k] + 1 \in Bits
                                /\ d[k] < max_nbits => d[k] + 1 \in Bits
  BY NeighbourBits, LoadingBits, LoadingAssumption DEF Subcarriers
<1>2. /\ e \in Nat /\ l \in Nat
      /\ \A k \in Subcarriers : gn(w, b[k], k) \in Nat /\ gn(w, d[k], k) \in Nat
      /\ \A k \in Subcarriers : b[k] < max_nbits => gn(w, b[k] + 1, k) \in Nat
      /\ \A k \in Subcarriers : d[k] < max_nbits => gn(w, d[k] + 1, k) \in Nat
  BY <1>0, <1>1, BitEnergy
<1>3. /\ d[m] = b[m] + 1 /\ d[n] = b[n] - 1 /\ d[n] + 1 = b[n]
      /\ \A k \in Subcarriers : k # m /\ k # n => d[k] = b[k]
  BY <1>0, <1>1
<1>4. ASSUME NEW k \in Subcarriers, d[k] < max_nbits
      PROVE  e <= gn(w, d[k] + 1, k)
  <2>1. CASE k = m
    <3>1. b[m] + 1 \in Bits /\ d[m] + 1 \in Bits /\ b[m] + 1 < d[m] + 1
      BY <1>0, <1>1, <1>3, <1>4, <2>1
    <3>2. e < gn(w, d[m] + 1, m)
      BY <3>1, BitEnergy
    <3> QED
      BY <1>2, <1>4, <2>1, <3>2
  <2>2. CASE k = n
    BY <1>0, <1>2, <1>3, <2>2
  <2>3. CASE k # m /\ k # n
    <3>1. d[k] = b[k] /\ b[k] < max_nbits
      BY <1>3, <1>4, <2>3
    <3> QED
      BY <1>0, <3>1
  <2> QED
    BY <2>1, <2>2, <2>3
<1>5. ASSUME NEW k \in Subcarriers
      PROVE  gn(w, d[k], k) <= l
  <2>1. CASE k = m
    BY <1>0, <1>2, <1>3, <2>1
  <2>2. CASE k = n
    <3>1. d[n] \in Bits /\ b[n] \in Bits /\ d[n] < b[n]
      BY <1>1, <1>3
    <3>2. gn(w, d[n], n) < l
      BY <3>1, BitEnergy
    <3> QED
      BY <1>2, <2>2, <3>2
  <2>3. CASE k # m /\ k # n
    BY <1>0, <1>3, <2>3
  <2> QED
    BY <2>1, <2>2, <2>3
<1>6. b[n] <= old[n]
  <2>1. ASSUME b[n] > old[n] PROVE l <= e
    BY <1>0, <2>1 DEF Gained
  <2>2. ~(b[n] > old[n])
    BY <1>0, <1>2, <2>1
  <2> QED
    BY <1>1, <2>2
<1>7. b[m] >= old[m]
  <2>1. ASSUME b[m] < old[m] PROVE l <= e
    BY <2>1 DEF Lost
  <2>2. ~(b[m] < old[m])
    BY <1>0, <1>2, <2>1
  <2> QED
    BY <1>1, <2>2
<1> HIDE DEF e, l
<1>8. Gained(w, old, d)
  <2> SUFFICES ASSUME NEW q \in Subcarriers, NEW k \in Subcarriers,
                      d[q] > old[q], d[k] < max_nbits
               PROVE  gn(w, d[q], q) <= gn(w, d[k] + 1, k)
    BY DEF Gained
  <2>1. gn(w, d[q], q) <= e
    <3>1. CASE q = m
      BY <1>2, <1>3, <3>1 DEF e
    <3>2. CASE q = n
      BY <1>1, <1>3, <1>6, <3>2
    <3>3. CASE q # m /\ q # n
      BY <1>0, <1>3, <3>3 DEF Gained, e
    <3> QED
      BY <3>1, <3>2, <3>3
  <2>2. e <= gn(w, d[k] + 1, k)
    BY <1>4
  <2> QED
    BY <1>2, <2>1, <2>2
<1>9. Lost(w, old, d)
  <2> SUFFICES ASSUME NEW q \in Subcarriers, NEW k \in Subcarriers,
                      d[q] < old[q]
               PROVE  gn(w, d[k], k) <= gn(w, d[q] + 1, q)
    BY DEF Lost
  <2>0. d[q] < max_nbits
    <3>1. old[q] \in Nat /\ old[q] <= max_nbits
      BY LoadingBits DEF Subcarriers
    <3> QED
      BY <1>1, <3>1
  <2>1. l <= gn(w, d[q] + 1, q)
    <3>1. CASE q = m
      BY <1>1, <1>3, <1>7, <3>1
    <3>2. CASE q = n
      BY <1>2, <1>3, <3>2 DEF l
    <3>3. CASE q # m /\ q # n
      BY <1>3, <3>3 DEF Lost, l
    <3> QED
      BY <3>1, <3>2, <3>3
  <2>2. gn(w, d[k], k) <= l
    BY <1>5
  <2> QED
    BY <1>2, <2>0, <2>1, <2>2
<1>10. Kept(old, d) = Kept(old, b) - 1
  <2> DEFINE f == [k \in Subcarriers |-> IF b[k] < old[k] THEN b[k] ELSE old[k]]
             g == [k \in Subcarriers |-> IF d[k] < old[k] THEN d[k] ELSE old[k]]
  <2>1. \A k \in Subcarriers : /\ f[k] = (IF b[k] < old[k] THEN b[k] ELSE old[k])
                               /\ g[k] = (IF d[k] < old[k] THEN d[k] ELSE old[k])
                               /\ f[k] \in Int /\ g[k] \in Int
    BY <1>1
  <2>2. Kept(old, b) = Total(f, N) /\ Kept(old, d) = Total(g, N)
    BY DEF Kept
  <2> HIDE DEF f, g
  <2>3. Numbers(f, N) /\ Numbers(g, N) /\ N \in Nat /\ n \in 1..N
    BY <2>1, LoadingAssumption DEF Numbers, Subcarriers
  <2>4. \A k \in Subcarriers : k # n => g[k] = f[k]
    <3> TAKE k \in Subcarriers
    <3>1. CASE k = m
      BY <1>1, <1>3, <1>7, <2>1, <3>1
    <3>2. CASE k # m /\ k # n
      BY <1>3, <2>1, <3>2
    <3> QED
      BY <3>1, <3>2
  <2>5. g[n] = f[n] - 1
    BY <1>1, <1>3, <1>6, <2>1
  <2>6. \A k \in 1..N : k # n => g[k] = f[k]
    BY <2>4 DEF Subcarriers
  <2>7. Total(g, N) = Total(f, N) + g[n] - f[n]
    BY <2>3, <2>6, TotalUpdate
  <2>8. Total(f, N) \in Int
    <3>1. N \in 0..N
      BY <2>3
    <3> QED
      BY <2>3, <3>1, TotalType
  <2>9. f[n] \in Int
    BY <2>1
  <2> QED
    BY <2>2, <2>5, <2>7, <2>8, <2>9
<1> QED
  BY <1>8, <1>9, <1>10

(* No bit is moved twice, so that EF ends within as many turns as there    *)
(* are bits.                                                               *)
LEMMA EFEnds ==
  ASSUME NEW w \in Weights, NEW loading \in Loadings
  PROVE  EF(w, loading) \in Loadings /\ Efficient(w, EF(w, loading))
<1> DEFINE turn == [b \in Loadings |->
                      IF NotFull(b) # {} /\ NextBit(w, b) < LastBit(w, b)
                      THEN MoveBit(w, b) ELSE b]
           n == Rate(loading)
           Moving(b, k) == /\ Gained(w, loading, b) /\ Lost(w, loading, b)
                           /\ Kept(loading, b) <= n - k
           I == [k \in 0..n |-> {b \in Loadings : EFEnded(w, b) \/ Moving(b, k)}]
<1>1. EF(w, loading) = Turns(turn, loading, n)
  BY DEF EF
<1>2. \A b \in Loadings : turn[b] = IF EFEnded(w, b) THEN b ELSE MoveBit(w, b)
  BY DEF EFEnded
<1>3. n \in Nat
  BY LoadingRate
<1>4. \A k \in 0..n : I[k] = {b \in Loadings : EFEnded(w, b) \/ Moving(b, k)}
  OBVIOUS
<1> HIDE DEF turn, n, I
<1>5. Moving(loading, 0)
  <2>1. \A k \in Subcarriers : loading[k] \in Nat
    BY NeighbourBits
  <2>2. Gained(w, loading, loading) /\ Lost(w, loading, loading)
    BY <2>1 DEF Gained, Lost
  <2>3. Kept(loading, loading) = n
    <3> DEFINE f == [k \in Subcarriers |-> IF loading[k] < loading[k] THEN loading[k]
                                           ELSE loading[k]]
    <3>1. f = loading
      BY <2>1 DEF Loadings
    <3>2. Kept(loading, loading) = Total(f, N)
      BY DEF Kept
    <3> HIDE DEF f
    <3> QED
      BY <3>1, <3>2 DEF n, Rate
  <2> QED
    BY <1>3, <2>2, <2>3
<1>6. loading \in I[0]
  <2>1. 0 \in 0..n
    BY <1>3
  <2> QED
    BY <1>4, <1>5, <2>1
<1>7. ASSUME NEW k \in 0..(n - 1), NEW b \in I[k]
      PROVE  turn[b] \in I[k + 1]
  <2>1. k \in 0..n /\ k + 1 \in 0..n
    BY <1>3
  <2>2. b \in Loadings /\ (EFEnded(w, b) \/ Moving(b, k))
    BY <1>4, <2>1
  <2>3. CASE EFEnded(w, b)
    <3>1. turn[b] = b
      BY <1>2, <2>2, <2>3
    <3> QED
      BY <1>4, <2>1, <2>2, <2>3, <3>1
  <2>4. CASE ~EFEnded(w, b)
    <3> DEFINE d == MoveBit(w, b)
               p == min_c(w, b)
               q == max_c(w, b)
    <3>1. turn[b] = d
      BY <1>2, <2>2, <2>4
    <3>2. d \in Loadings /\ p \in Subcarriers /\ q \in Subcarriers /\ Move(w, b, d, p, q)
      BY <2>2, <2>4, MoveIs
    <3> HIDE DEF d, p, q
    <3>3. /\ Gained(w, loading, b) /\ Lost(w, loading, b)
          /\ Kept(loading, b) <= n - k
      BY <2>2, <2>4
    <3>4. /\ Gained(w, loading, d) /\ Lost(w, loading, d)
          /\ Kept(loading, d) = Kept(loading, b) - 1
      BY <2>2, <3>2, <3>3, MoveStep
    <3>5. Kept(loading, b) \in Nat
      BY <2>2, KeptType
    <3>6. Kept(loading, d) <= n - (k + 1)
      BY <1>3, <2>1, <3>3, <3>4, <3>5
    <3> QED
      BY <1>4, <2>1, <3>1, <3>2, <3>4, <3>6
  <2> QED
    BY <2>3, <2>4
<1> DEFINE b == Turns(turn, loading, n)
<1>8. b \in I[n]
  BY <1>3, <1>6, <1>7, LoopStages
<1> HIDE DEF b
<1>9. b \in Loadings /\ (EFEnded(w, b) \/ Moving(b, n))
  <2>1. n \in 0..n
    BY <1>3
  <2> QED
    BY <1>4, <1>8, <2>1
<1>10. EFEnded(w, b)
  <2>1. SUFFICES ASSUME ~EFEnded(w, b) PROVE FALSE
    OBVIOUS
  <2> DEFINE d == MoveBit(w, b)
             p == min_c(w, b)
             q == max_c(w, b)
  <2>2. d \in Loadings /\ p \in Subcarriers /\ q \in Subcarriers /\ Move(w, b, d, p, q)
    BY <1>9, <2>1, MoveIs
  <2> HIDE DEF d, p, q
  <2>3. /\ Gained(w, loading, b) /\ Lost(w, loading, b)
        /\ Kept(loading, b) <= n - n
    BY <1>9, <2>1
  <2>4. Kept(loading, d) = Kept(loading, b) - 1
    BY <1>9, <2>2, <2>3, MoveStep
  <2>5. Kept(loading, b) \in Nat /\ Kept(loading, d) \in Nat
    BY <1>9, <2>2, KeptType
  <2> QED
    BY <1>3, <2>3, <2>4, <2>5
<1>11. Efficient(w, b)
  BY <1>9, <1>10, EndedEfficient
<1> QED
  BY <1>1, <1>9, <1>11 DEF b

(* The bit that was the dearest is, once removed, the cheapest to add.     *)
LEMMA RemovedFits ==
  ASSUME NEW w \in Weights, NEW b \in Loadings,
         \E n \in Subcarriers : b[n] > 0, Efficient(w, b),
         NotFull(RemoveBit(w, b)) # {}
  PROVE  LastBit(w, b) <= NextBit(w, RemoveBit(w, b))
<1> DEFINE n == max_c(w, b)
           d == RemoveBit(w, b)
           m == min_c(w, d)
<1>1. /\ n \in Subcarriers /\ b[n] > 0 /\ LastBit(w, b) = gn(w, b[n], n)
      /\ LastBit(w, b) \in Nat
  BY Dearest, DearestHasBit DEF LastBit
<1>2. /\ d \in Loadings
      /\ \A k \in Subcarriers : d[k] = IF k = n THEN b[n] - 1 ELSE b[k]
  BY RemoveBitIs DEF Changed
<1>3. /\ m \in Subcarriers /\ d[m] < max_nbits
      /\ NextBit(w, d) = gn(w, d[m] + 1, m)
  BY <1>2, Cheapest DEF NextBit
<1> HIDE DEF n, d, m
<1>4. CASE m = n
  <2>1. b[n] \in Nat
    BY <1>1, NeighbourBits
  <2>2. d[m] + 1 = b[n]
    BY <1>1, <1>2, <1>4, <2>1
  <2> QED
    BY <1>1, <1>3, <1>4, <2>2 DEF d
<1>5. CASE m # n
  <2>1. d[m] = b[m]
    BY <1>2, <1>3, <1>5
  <2>2. gn(w, b[n], n) <= gn(w, b[m] + 1, m)
    BY <1>1, <1>3, <2>1 DEF Efficient
  <2> QED
    BY <1>1, <1>3, <2>1, <2>2 DEF d
<1> QED
  BY <1>4, <1>5

-----------------------------------------------------------------------------
(* ET and BT keep the loading efficient and end.                           *)

(* The price of an efficient loading: that of its next bit, or of its last *)
(* one if every subcarrier is full.                                        *)
LEMMA EfficientPriced ==
  ASSUME NEW w \in Weights, NEW b \in Loadings, Efficient(w, b)
  PROVE  /\ NotFull(b) # {} => NextBit(w, b) \in Int /\ Priced(w, b, NextBit(w, b))
         /\ NotFull(b) = {} => LastBit(w, b) \in Int /\ Priced(w, b, LastBit(w, b))
<1>1. ASSUME NotFull(b) # {}
      PROVE  NextBit(w, b) \in Int /\ Priced(w, b, NextBit(w, b))
  <2> DEFINE m == min_c(w, b)
  <2>1. /\ m \in Subcarriers /\ b[m] < max_nbits
        /\ NextBit(w, b) = gn(w, b[m] + 1, m) /\ NextBit(w, b) \in Int
        /\ \A k \in Subcarriers :
             b[k] < max_nbits => NextBit(w, b) <= gn(w, b[k] + 1, k)
    BY <1>1, Cheapest DEF NextBit
  <2> HIDE DEF m
  <2>2. \A k \in Subcarriers : b[k] > 0 => gn(w, b[k], k) <= NextBit(w, b)
    BY <2>1 DEF Efficient
  <2> QED
    BY <2>1, <2>2 DEF Priced, Fits
<1>2. ASSUME NotFull(b) = {}
      PROVE  LastBit(w, b) \in Int /\ Priced(w, b, LastBit(w, b))
  <2>1. /\ LastBit(w, b) \in Int
        /\ \A k \in Subcarriers : gn(w, b[k], k) <= LastBit(w, b)
    BY Dearest
  <2>2. \A k \in Subcarriers : ~(b[k] < max_nbits)
    BY <1>2 DEF NotFull
  <2> QED
    BY <2>1, <2>2 DEF Priced, Fits
<1> QED
  BY <1>1, <1>2

(* All subcarriers are full if the loading has as many bits as they carry. *)
LEMMA FullRate ==
  ASSUME NEW w \in Weights, NEW b \in Loadings, Rate(b) >= N * max_nbits
  PROVE  NotFull(b) = {}
<1>1. SUFFICES ASSUME NotFull(b) # {} PROVE FALSE
  OBVIOUS
<1>2. AddBit(w, b) \in Loadings /\ Rate(AddBit(w, b)) = Rate(b) + 1
  BY <1>1, AddBitIs
<1> DEFINE full == N * max_nbits
           d == AddBit(w, b)
<1>3. full \in Nat
  BY LoadingAssumption
<1> HIDE DEF full, d
<1>4. Rate(b) \in Nat /\ Rate(b) >= full /\ Rate(d) <= full
  BY <1>2, LoadingRate DEF full, d
<1> QED
  BY <1>2, <1>3, <1>4 DEF d

(* Within energy K, and a further bit does not fit.                        *)
Tight(w, K, b) ==
  /\ Energy(w, b) <= K
  /\ NotFull(b) # {} => K - Energy(w, b) < NextBit(w, b)

LEMMA TightBest ==
  ASSUME NEW w \in Weights, NEW K \in Nat, NEW b \in Loadings,
         Efficient(w, b), Tight(w, K, b)
  PROVE  BestRate(w, K, b)
<1>1. Energy(w, b) \in Nat /\ Rate(b) \in Nat /\ Energy(w, b) <= K
  BY LoadingEnergy, LoadingRate DEF Tight
<1>2. ASSUME NEW x \in Loadings, Energy(w, x) <= K
      PROVE  \/ Rate(x) < Rate(b)
             \/ Rate(x) = Rate(b) /\ Energy(w, x) >= Energy(w, b)
  <2>1. Energy(w, x) \in Nat /\ Rate(x) \in Nat
    BY LoadingEnergy, LoadingRate
  <2>2. CASE NotFull(b) # {}
    <3> DEFINE p == NextBit(w, b)
               r == Rate(x) - Rate(b)
    <3>1. p \in Nat /\ p \in Int /\ Priced(w, b, p) /\ K - Energy(w, b) < p
      BY <2>2, EfficientPriced, Cheapest DEF Tight
    <3> HIDE DEF p
    <3>2. Energy(w, x) - Energy(w, b) >= p * r
      BY <3>1, LoadingWorth
    <3>3. r \in Int
      BY <1>1, <2>1
    <3>4. CASE r >= 1
      <4> HIDE DEF r
      <4>1. p * r = p + p * (r - 1) /\ p * (r - 1) \in Nat
        BY <3>1, <3>3, <3>4
      <4> DEFINE u == p * (r - 1)
                 v == p * r
      <4>2. u \in Nat /\ v = p + u /\ Energy(w, x) - Energy(w, b) >= v
        BY <3>2, <4>1
      <4> HIDE DEF u, v
      <4>3. FALSE
        BY <1>1, <1>2, <2>1, <3>1, <4>2
      <4> QED
        BY <4>3
    <3>5. CASE r = 0
      <4>1. p * r = 0
        BY <3>1, <3>5
      <4>2. Rate(x) = Rate(b)
        BY <1>1, <2>1, <3>5
      <4> HIDE DEF r
      <4>3. Energy(w, x) >= Energy(w, b)
        BY <1>1, <2>1, <3>2, <4>1
      <4> QED
        BY <4>2, <4>3
    <3>6. CASE r < 0
      BY <1>1, <2>1, <3>6
    <3> QED
      BY <3>3, <3>4, <3>5, <3>6
  <2>3. CASE NotFull(b) = {}
    <3> DEFINE p == LastBit(w, b)
    <3>1. p \in Int /\ Priced(w, b, p)
      BY <2>3, EfficientPriced
    <3> HIDE DEF p
    <3>2. Energy(w, x) - Energy(w, b) >= p * (Rate(x) - Rate(b))
      BY <3>1, LoadingWorth
    <3>3. Rate(x) <= Rate(b)
      <4>1. /\ N \in Nat
            /\ \A n \in 1..N : /\ x[n] \in Nat /\ x[n] <= max_nbits /\ b[n] \in Nat
                               /\ n \in Subcarriers /\ ~(b[n] < max_nbits)
        BY <2>3, LoadingBits DEF NotFull
      <4>2. Numbers(x, N) /\ Numbers(b, N) /\ \A n \in 1..N : x[n] <= b[n]
        BY <4>1, LoadingAssumption DEF Numbers
      <4> QED
        BY <4>1, <4>2, TotalMonotonic DEF Rate
    <3>4. Rate(x) = Rate(b) => Energy(w, x) >= Energy(w, b)
      <4>1. SUFFICES ASSUME Rate(x) = Rate(b) PROVE Energy(w, x) >= Energy(w, b)
        OBVIOUS
      <4>2. p * (Rate(x) - Rate(b)) = 0
        <5>1. Rate(x) - Rate(b) = 0
          BY <1>1, <4>1
        <5> QED
          BY <3>1, <5>1
      <4> QED
        BY <1>1, <2>1, <3>2, <4>2
    <3> QED
      BY <1>1, <2>1, <3>3, <3>4
  <2> QED
    BY <2>2, <2>3
<1> QED
  BY <1>1, <1>2 DEF BestRate

LEMMA EfficientBest ==
  ASSUME NEW w \in Weights, NEW b \in Loadings, Efficient(w, b)
  PROVE  BestMargin(w, Rate(b), b)
<1> DEFINE p == IF NotFull(b) # {} THEN NextBit(w, b) ELSE LastBit(w, b)
<1>1. p \in Int /\ Priced(w, b, p)
  BY EfficientPriced
<1> HIDE DEF p
<1>2. Energy(w, b) \in Nat /\ Rate(b) \in Nat
  BY LoadingEnergy, LoadingRate
<1>3. ASSUME NEW x \in Loadings, Rate(x) = Rate(b)
      PROVE  Energy(w, x) >= Energy(w, b)
  <2>1. Energy(w, x) - Energy(w, b) >= p * (Rate(x) - Rate(b))
    BY <1>1, LoadingWorth
  <2>2. p * (Rate(x) - Rate(b)) = 0
    <3>1. Rate(x) - Rate(b) = 0
      BY <1>2, <1>3
    <3> QED
      BY <1>1, <3>1
  <2>3. Energy(w, x) \in Nat
    BY LoadingEnergy
  <2> QED
    BY <1>2, <2>1, <2>2, <2>3
<1> QED
  BY <1>3 DEF BestMargin

(* ET: too much energy, and the bits become fewer; or the next bit fits,   *)
(* and they become more.  After the last removal the bit removed does not  *)
(* fit, nor does any other.                                                *)
LEMMA ETEnds ==
  ASSUME NEW w \in Weights, NEW K \in Nat, NEW loading \in Loadings,
         Efficient(w, loading)
  PROVE  /\ ET(w, K, loading) \in Loadings
         /\ Efficient(w, ET(w, K, loading))
         /\ Tight(w, K, ET(w, K, loading))
<1> DEFINE full == N * max_nbits
           turn == [b \in Loadings |->
                      IF Energy(w, b) > K THEN RemoveBit(w, b)
                      ELSE IF NotFull(b) # {} /\ K - Energy(w, b) >= NextBit(w, b)
                           THEN AddBit(w, b)
                      ELSE b]
           At(b, k) == /\ Efficient(w, b)
                       /\ \/ Energy(w, b) > K /\ Rate(b) <= full - k
                          \/ Energy(w, b) <= K /\ Rate(b) >= k
                          \/ Tight(w, K, b)
           I == [k \in 0..full |-> {b \in Loadings : At(b, k)}]
<1>1. ET(w, K, loading) = Turns(turn, loading, full)
  BY DEF ET
<1>2. \A b \in Loadings :
        turn[b] = IF Energy(w, b) > K THEN RemoveBit(w, b)
                  ELSE IF NotFull(b) # {} /\ K - Energy(w, b) >= NextBit(w, b)
                       THEN AddBit(w, b)
                  ELSE b
  OBVIOUS
<1>3. full \in Nat
  BY LoadingAssumption
<1>4. \A k \in 0..full : I[k] = {b \in Loadings : At(b, k)}
  OBVIOUS
<1>5. \A b \in Loadings : /\ Rate(b) \in Nat /\ Rate(b) <= full
                          /\ Energy(w, b) \in Nat /\ LastBit(w, b) \in Nat
                          /\ NotFull(b) # {} => NextBit(w, b) \in Nat
  BY LoadingRate, LoadingEnergy, Dearest, Cheapest
<1>6. \A b \in Loadings : Rate(b) >= full => NotFull(b) = {}
  BY FullRate
<1> HIDE DEF turn, full, I
<1>7. loading \in I[0]
  <2>1. 0 \in 0..full
    BY <1>3
  <2>2. At(loading, 0)
    <3>1. /\ Rate(loading) <= full - 0 /\ Rate(loading) >= 0
          /\ Energy(w, loading) > K \/ Energy(w, loading) <= K
      BY <1>3, <1>5
    <3> QED
      BY <3>1
  <2> QED
    BY <1>4, <2>1, <2>2
<1>8. ASSUME NEW k \in 0..(full - 1), NEW b \in I[k]
      PROVE  turn[b] \in I[k + 1]
  <2>1. k \in 0..full /\ k + 1 \in 0..full /\ k \in Nat
    BY <1>3
  <2>2. b \in Loadings /\ At(b, k)
    BY <1>4, <2>1
  <2>3. CASE Energy(w, b) > K
    <3> DEFINE d == RemoveBit(w, b)
    <3>1. turn[b] = d
      BY <1>2, <2>2, <2>3
    <3>2. Rate(b) <= full - k
      <4>1. ~Tight(w, K, b)
        BY <1>5, <2>2, <2>3 DEF Tight
      <4> QED
        BY <1>5, <2>2, <2>3, <4>1
    <3>3. \E n \in Subcarriers : b[n] > 0
      <4>1. Energy(w, b) > 0
        BY <1>5, <2>2, <2>3
      <4> QED
        BY <2>2, <4>1, SomeBit
    <3>4. /\ d \in Loadings /\ Rate(d) = Rate(b) - 1
          /\ Energy(w, d) = Energy(w, b) - LastBit(w, b)
      BY <2>2, <3>3, RemoveBitIs
    <3>5. Efficient(w, d)
      BY <2>2, <3>3, RemoveEfficient
    <3>6. NotFull(d) # {} => LastBit(w, b) <= NextBit(w, d)
      BY <2>2, <3>3, RemovedFits
    <3> HIDE DEF d
    <3>7. CASE Energy(w, d) > K
      <4>1. Rate(d) <= full - (k + 1)
        BY <1>3, <1>5, <2>1, <2>2, <3>2, <3>4
      <4> QED
        BY <1>4, <2>1, <3>1, <3>4, <3>5, <3>7, <4>1
    <3>8. CASE ~(Energy(w, d) > K)
      <4>1. Energy(w, d) <= K
        BY <1>5, <3>4, <3>8
      <4>2. NotFull(d) # {} => K - Energy(w, d) < NextBit(w, d)
        BY <1>5, <2>2, <2>3, <3>4, <3>6
      <4>3. Tight(w, K, d)
        BY <4>1, <4>2 DEF Tight
      <4> QED
        BY <1>4, <2>1, <3>1, <3>4, <3>5, <4>3
    <3> QED
      BY <3>7, <3>8
  <2>4. CASE ~(Energy(w, b) > K) /\ NotFull(b) # {} /\ K - Energy(w, b) >= NextBit(w, b)
    <3> DEFINE d == AddBit(w, b)
    <3>1. turn[b] = d
      BY <1>2, <2>2, <2>4
    <3>2. Rate(b) >= k
      <4>1. ~Tight(w, K, b)
        BY <1>5, <2>2, <2>4 DEF Tight
      <4> QED
        BY <2>2, <2>4, <4>1
    <3>3. /\ d \in Loadings /\ Rate(d) = Rate(b) + 1
          /\ Energy(w, d) = Energy(w, b) + NextBit(w, b)
      BY <2>2, <2>4, AddBitIs
    <3>4. Efficient(w, d)
      BY <2>2, <2>4, AddEfficient
    <3> HIDE DEF d
    <3>5. Energy(w, d) <= K /\ Rate(d) >= k + 1
      BY <1>5, <2>1, <2>2, <2>4, <3>2, <3>3
    <3> QED
      BY <1>4, <2>1, <3>1, <3>3, <3>4, <3>5
  <2>5. CASE ~(Energy(w, b) > K) /\ ~(NotFull(b) # {} /\ K - Energy(w, b) >= NextBit(w, b))
    <3>1. turn[b] = b
      BY <1>2, <2>2, <2>5
    <3>2. Tight(w, K, b)
      <4>1. Energy(w, b) <= K
        BY <1>5, <2>2, <2>5
      <4>2. NotFull(b) # {} => K - Energy(w, b) < NextBit(w, b)
        BY <1>5, <2>2, <2>5
      <4> QED
        BY <4>1, <4>2 DEF Tight
    <3> QED
      BY <1>4, <2>1, <2>2, <3>1, <3>2
  <2> QED
    BY <2>3, <2>4, <2>5
<1> DEFINE b == Turns(turn, loading, full)
<1>9. b \in I[full]
  BY <1>3, <1>7, <1>8, LoopStages
<1> HIDE DEF b
<1>10. b \in Loadings /\ At(b, full)
  <2>1. full \in 0..full
    BY <1>3
  <2> QED
    BY <1>4, <1>9, <2>1
<1>11. Tight(w, K, b)
  <2>1. CASE Energy(w, b) > K /\ Rate(b) <= full - full
    <3>1. Energy(w, b) > 0
      BY <1>5, <1>10, <2>1
    <3>2. PICK n \in Subcarriers : b[n] > 0
      BY <1>10, <3>1, SomeBit
    <3>3. b[n] \in Nat /\ b[n] <= Rate(b)
      BY <1>10, NeighbourBits, LoadingRate
    <3>4. Rate(b) \in Nat /\ Rate(b) <= 0
      BY <1>3, <1>5, <1>10, <2>1
    <3> QED
      BY <3>2, <3>3, <3>4
  <2>2. CASE Energy(w, b) <= K /\ Rate(b) >= full
    <3>1. NotFull(b) = {}
      BY <1>6, <1>10, <2>2
    <3> QED
      BY <2>2, <3>1 DEF Tight
  <2> QED
    BY <1>10, <2>1, <2>2
<1> QED
  BY <1>1, <1>10, <1>11 DEF b

(* BT: one bit less, or more, per turn.                                    *)
LEMMA BTEnds ==
  ASSUME NEW w \in Weights, NEW K \in 0..(N * max_nbits), NEW loading \in Loadings,
         Efficient(w, loading)
  PROVE  /\ BT(w, K, loading) \in Loadings
         /\ Efficient(w, BT(w, K, loading))
         /\ Rate(BT(w, K, loading)) = K
<1> DEFINE full == N * max_nbits
           missing == IF Rate(loading) > K THEN Rate(loading) - K ELSE K - Rate(loading)
           turn == [b \in Loadings |->
                      IF Rate(b) > K THEN RemoveBit(w, b)
                      ELSE IF Rate(b) < K THEN AddBit(w, b)
                      ELSE b]
           At(b, k) == /\ Efficient(w, b)
                       /\ \/ Rate(b) = K + (missing - k)
                          \/ Rate(b) = K - (missing - k)
           I == [k \in 0..missing |-> {b \in Loadings : At(b, k)}]
<1>1. BT(w, K, loading) = Turns(turn, loading, missing)
  BY DEF BT
<1>2. \A b \in Loadings :
        turn[b] = IF Rate(b) > K THEN RemoveBit(w, b)
                  ELSE IF Rate(b) < K THEN AddBit(w, b)
                  ELSE b
  OBVIOUS
<1>3. full \in Nat /\ K \in Nat /\ K <= full
  BY LoadingAssumption
<1>4. \A k \in 0..missing : I[k] = {b \in Loadings : At(b, k)}
  OBVIOUS
<1>5. \A b \in Loadings : Rate(b) \in Nat /\ Rate(b) <= full
  BY LoadingRate
<1>6. \A b \in Loadings : NotFull(b) = {} => Rate(b) = full
  <2> TAKE b \in Loadings
  <2> SUFFICES ASSUME NotFull(b) = {} PROVE Rate(b) = full
    OBVIOUS
  <2>1. /\ N \in Nat /\ max_nbits \in Nat
        /\ \A n \in 1..N : n \in Subcarriers /\ b[n] \in Nat /\ b[n] <= max_nbits
    BY LoadingBits
  <2>2. \A n \in 1..N : b[n] = max_nbits
    BY <2>1 DEF NotFull
  <2> QED
    BY <2>1, <2>2, TotalConstant DEF Rate
<1>7. /\ missing \in Nat
      /\ Rate(loading) = K + (missing - 0) \/ Rate(loading) = K - (missing - 0)
  BY <1>3, <1>5
<1> HIDE DEF turn, full, I, missing
<1>8. loading \in I[0]
  <2>1. 0 \in 0..missing
    BY <1>7
  <2> QED
    BY <1>4, <1>7, <2>1
<1>9. ASSUME NEW k \in 0..(missing - 1), NEW b \in I[k]
      PROVE  turn[b] \in I[k + 1]
  <2>1. k \in 0..missing /\ k + 1 \in 0..missing /\ k \in Nat /\ missing - k >= 1
    BY <1>7
  <2>2. b \in Loadings /\ At(b, k)
    BY <1>4, <2>1
  <2>3. CASE Rate(b) = K + (missing - k)
    <3> DEFINE d == RemoveBit(w, b)
    <3>1. Rate(b) > K /\ Rate(b) > 0
      BY <1>3, <1>7, <2>1, <2>3
    <3>2. turn[b] = d
      BY <1>2, <2>2, <3>1
    <3>3. \E n \in Subcarriers : b[n] > 0
      BY <2>2, <3>1, SomeBit
    <3>4. d \in Loadings /\ Rate(d) = Rate(b) - 1
      BY <2>2, <3>3, RemoveBitIs
    <3>5. Efficient(w, d)
      BY <2>2, <3>3, RemoveEfficient
    <3> HIDE DEF d
    <3>6. Rate(d) = K + (missing - (k + 1))
      BY <1>3, <1>7, <2>1, <2>3, <3>4
    <3> QED
      BY <1>4, <2>1, <3>2, <3>4, <3>5, <3>6
  <2>4. CASE Rate(b) = K - (missing - k)
    <3> DEFINE d == AddBit(w, b)
    <3>1. Rate(b) < K
      BY <1>3, <1>7, <2>1, <2>4
    <3>2. turn[b] = d
      <4>1. ~(Rate(b) > K)
        BY <1>3, <1>5, <2>2, <3>1
      <4> QED
        BY <1>2, <2>2, <3>1, <4>1
    <3>3. NotFull(b) # {}
      BY <1>3, <1>5, <1>6, <2>2, <3>1
    <3>4. d \in Loadings /\ Rate(d) = Rate(b) + 1
      BY <2>2, <3>3, AddBitIs
    <3>5. Efficient(w, d)
      BY <2>2, <3>3, AddEfficient
    <3> HIDE DEF d
    <3>6. Rate(d) = K - (missing - (k + 1))
      BY <1>3, <1>7, <2>1, <2>4, <3>4
    <3> QED
      BY <1>4, <2>1, <3>2, <3>4, <3>5, <3>6
  <2> QED
    BY <2>2, <2>3, <2>4
<1> DEFINE b == Turns(turn, loading, missing)
<1>10. b \in I[missing]
  BY <1>7, <1>8, <1>9, LoopStages
<1> HIDE DEF b
<1>11. b \in Loadings /\ At(b, missing)
  <2>1. missing \in 0..missing
    BY <1>7
  <2> QED
    BY <1>4, <1>10, <2>1
<1>12. Rate(b) = K
  BY <1>3, <1>7, <1>11
<1> QED
  BY <1>1, <1>11, <1>12 DEF b

-----------------------------------------------------------------------------
(* The manager.                                                            *)

(* Only the last measurement is kept.                                      *)
OneMeasurement ==
  /\ \A m, n \in latest : m = n
  /\ \A m, n \in rxperf : m = n

(* Rate adaptive mode: a loading with bits has been given power, and no    *)
(* more than the constraint.                                               *)
PowerWithin ==
  asked.mode = "rate" /\ Used(mod_map) > 0 =>
    tx_power \in 1..(asked.constraint * asked.constraint)

IndInv == TypeOK /\ OneMeasurement /\ PowerWithin

(* A loading with a used subcarrier has a bit.                             *)
LEMMA UsedBits ==
  ASSUME NEW b \in Loadings, Used(b) > 0
  PROVE  \E n \in Subcarriers : b[n] > 0
<1>1. SUFFICES ASSUME \A n \in Subcarriers : ~(b[n] > 0) PROVE FALSE
  OBVIOUS
<1>2. {n \in Subcarriers : b[n] > 0} = {}
  BY <1>1
<1>3. Used(b) = 0
  BY <1>2, FS_EmptySet DEF Used
<1> QED
  BY <1>3

LEMMA EqualLoading ==
  ASSUME NEW bits \in Bits
  PROVE  AllSubcarriers(bits) \in Loadings
  BY DEF AllSubcarriers, Loadings

LEMMA LimitedType ==
  ASSUME NEW power \in Nat
  PROVE  /\ Limited(power) \in 1..MaxPower
         /\ power > 0 => Limited(power) <= power
  BY AdaptiveAssumption DEF Limited

LEMMA SquareType ==
  ASSUME NEW c \in Nat
  PROVE  c * c \in Nat
  OBVIOUS

(* levin_campello ends, from any loading and for any weights, and nothing  *)
(* it could have returned has more bits within energy K, or as many for    *)
(* less energy.                                                            *)
THEOREM RateLoading ==
  ASSUME NEW w \in Weights, NEW K \in Nat, NEW b \in Loadings
  PROVE  /\ levin_campello(w, K, b) \in Loadings
         /\ BestRate(w, K, levin_campello(w, K, b))
<1> DEFINE e == EF(w, b)
           t == ET(w, K, e)
<1>1. levin_campello(w, K, b) = t
  BY DEF levin_campello
<1>2. e \in Loadings /\ Efficient(w, e)
  BY EFEnds
<1> HIDE DEF e
<1>3. t \in Loadings /\ Efficient(w, t) /\ Tight(w, K, t)
  BY <1>2, ETEnds
<1> HIDE DEF t
<1> QED
  BY <1>1, <1>3, TightBest

(* levin_campello_margin ends with the K bits asked for, at the least      *)
(* energy, for every K that the subcarriers carry together.                *)
THEOREM MarginLoading ==
  ASSUME NEW w \in Weights, NEW K \in 0..(N * max_nbits), NEW b \in Loadings
  PROVE  /\ levin_campello_margin(w, K, b) \in Loadings
         /\ BestMargin(w, K, levin_campello_margin(w, K, b))
<1> DEFINE e == EF(w, b)
           t == BT(w, K, e)
<1>1. levin_campello_margin(w, K, b) = t
  BY DEF levin_campello_margin
<1>2. e \in Loadings /\ Efficient(w, e)
  BY EFEnds
<1> HIDE DEF e
<1>3. t \in Loadings /\ Efficient(w, t) /\ Rate(t) = K
  BY <1>2, BTEnds
<1> HIDE DEF t
<1> QED
  BY <1>1, <1>3, EfficientBest

(* An estimate of the channel is one it may have.                          *)
LEMMA EstimatesType ==
  ASSUME NEW m \in RxPerf, NEW w \in Estimates(m)
  PROVE  w \in Weights
  BY AdaptiveAssumption DEF RxPerf, Estimates, Weights

(* A round in rate adaptive mode, and one in margin adaptive mode.         *)
LEMMA RateRound ==
  ASSUME TypeOK, rate_adaptive_policy
  PROVE  \E m \in rxperf : \E w \in Estimates(m) :
           /\ w \in Weights
           /\ mod_map' \in Loadings
           /\ BestRate(w, constraint * constraint, mod_map')
           /\ tx_power' = Energy(w, mod_map')
<1>1. PICK m \in rxperf : \E w \in Estimates(m) :
        /\ mod_map' = levin_campello(w, constraint * constraint, mod_map)
        /\ tx_power' = Energy(w, mod_map')
  BY DEF rate_adaptive_policy, Adapt
<1>2. PICK w \in Estimates(m) :
        /\ mod_map' = levin_campello(w, constraint * constraint, mod_map)
        /\ tx_power' = Energy(w, mod_map')
  BY <1>1
<1>3. w \in Weights
  BY EstimatesType DEF TypeOK
<1>4. constraint * constraint \in Nat /\ mod_map \in Loadings
  BY SquareType DEF TypeOK
<1>5. mod_map' \in Loadings /\ BestRate(w, constraint * constraint, mod_map')
  BY <1>2, <1>3, <1>4, RateLoading
<1> QED
  BY <1>2, <1>3, <1>5

LEMMA MarginRound ==
  ASSUME TypeOK, margin_adaptive_policy
  PROVE  \E m \in rxperf : \E w \in Estimates(m) :
           /\ w \in Weights
           /\ mod_map' \in Loadings
           /\ BestMargin(w, constraint, mod_map')
           /\ tx_power' = Energy(w, mod_map')
<1>1. PICK m \in rxperf : \E w \in Estimates(m) :
        /\ mod_map' = levin_campello_margin(w, constraint, mod_map)
        /\ tx_power' = Energy(w, mod_map')
  BY DEF margin_adaptive_policy, Adapt
<1>2. PICK w \in Estimates(m) :
        /\ mod_map' = levin_campello_margin(w, constraint, mod_map)
        /\ tx_power' = Energy(w, mod_map')
  BY <1>1
<1>3. w \in Weights
  BY EstimatesType DEF TypeOK
<1>4. constraint \in 0..(N * max_nbits) /\ mod_map \in Loadings
  BY DEF TypeOK, margin_adaptive_policy
<1>5. mod_map' \in Loadings /\ BestMargin(w, constraint, mod_map')
  BY <1>2, <1>3, <1>4, MarginLoading
<1> QED
  BY <1>2, <1>3, <1>5

LEMMA InitInd == Init => IndInv
<1> SUFFICES ASSUME Init PROVE IndInv
  OBVIOUS
<1>1. AllSubcarriers(ResetBits) \in Loadings
  BY EqualLoading, AdaptiveAssumption
<1>2. TypeOK
  <2>1. asked \in Pairs
    BY DEF Init, Pairs
  <2>2. amplifier \in 1..MaxPower /\ tx_power \in Nat /\ constraint \in Nat
    BY AdaptiveAssumption DEF Init
  <2>3. latest \subseteq RxPerf /\ rxperf \subseteq RxPerf
    BY DEF Init
  <2> QED
    BY <1>1, <2>1, <2>2, <2>3 DEF Init, TypeOK, Modes
<1>3. OneMeasurement /\ PowerWithin
  BY DEF Init, OneMeasurement, PowerWithin
<1> QED
  BY <1>2, <1>3 DEF IndInv

(* Steps of a round that decide nothing.                                   *)
LEMMA WaitingInd ==
  ASSUME IndInv,
         \/ BeginRound \/ is_reset_mode \/ is_margin_adaptive_policy
         \/ is_rate_adaptive_policy \/ Fail \/ push_data
  PROVE  IndInv'
<1>0. TypeOK /\ OneMeasurement /\ PowerWithin
  BY DEF IndInv
<1>1. CASE BeginRound
  <2>1. TypeOK'
    BY <1>0, <1>1 DEF BeginRound, Go, TypeOK, clients, decision, outside
  <2>2. OneMeasurement' /\ PowerWithin'
    BY <1>0, <1>1 DEF BeginRound, OneMeasurement, PowerWithin, decision
  <2> QED
    BY <2>1, <2>2 DEF IndInv
<1>2. CASE is_reset_mode \/ is_margin_adaptive_policy \/ is_rate_adaptive_policy
  <2>1. PICK from, mode, next :
          /\ mode \in Modes /\ next \in {"is_margin", "is_rate", "power"}
          /\ AskMode(from, mode, next)
    BY <1>2 DEF is_reset_mode, is_margin_adaptive_policy,
                is_rate_adaptive_policy, Modes
  <2>2. TypeOK'
    BY <1>0, <2>1 DEF AskMode, Go, TypeOK, clients, decision, outside
  <2>3. OneMeasurement' /\ PowerWithin'
    BY <1>0, <2>1 DEF AskMode, OneMeasurement, PowerWithin, decision
  <2> QED
    BY <2>2, <2>3 DEF IndInv
<1>3. CASE Fail
  <2>1. TypeOK'
    BY <1>0, <1>3 DEF Fail, TypeOK, clients, decision, outside
  <2>2. OneMeasurement' /\ PowerWithin'
    BY <1>0, <1>3 DEF Fail, OneMeasurement, PowerWithin, decision
  <2> QED
    BY <2>1, <2>2 DEF IndInv
<1>4. CASE push_data
  <2>1. TypeOK'
    BY <1>0, <1>4 DEF push_data, Go, TypeOK, clients, decision
  <2>2. OneMeasurement' /\ PowerWithin'
    BY <1>0, <1>4 DEF push_data, OneMeasurement, PowerWithin, decision
  <2> QED
    BY <2>1, <2>2 DEF IndInv
<1> QED
  BY <1>1, <1>2, <1>3, <1>4

LEMMA ResetInd ==
  ASSUME IndInv, Reset
  PROVE  IndInv'
<1>0. TypeOK /\ OneMeasurement /\ PowerWithin
  BY DEF IndInv
<1>1. AllSubcarriers(ResetBits) \in Loadings
  BY EqualLoading, AdaptiveAssumption
<1>2. constraint * constraint \in Nat
  BY <1>0, SquareType DEF TypeOK
<1>3. asked' \in Pairs
  BY <1>0 DEF Reset, Pairs, Modes, TypeOK
<1>4. TypeOK'
  BY <1>0, <1>1, <1>2, <1>3 DEF Reset, Go, TypeOK, clients, outside
<1>5. OneMeasurement' /\ PowerWithin'
  BY <1>0 DEF Reset, OneMeasurement, PowerWithin
<1> QED
  BY <1>4, <1>5 DEF IndInv

(* Rate adaptive mode: the energy is within the constraint, and that of a  *)
(* loading with bits is not 0.                                             *)
LEMMA RateInd ==
  ASSUME IndInv, rate_adaptive_policy
  PROVE  IndInv'
<1>0. TypeOK /\ OneMeasurement
  BY DEF IndInv
<1> DEFINE K == constraint * constraint
<1>1. PICK w \in Weights : /\ mod_map' \in Loadings
                           /\ BestRate(w, K, mod_map')
                           /\ tx_power' = Energy(w, mod_map')
  BY <1>0, RateRound
<1>2. K \in Nat
  BY <1>0, SquareType DEF TypeOK
<1>3. tx_power' \in Nat /\ tx_power' <= K
  BY <1>1, LoadingEnergy DEF BestRate
<1>4. asked' = [mode |-> "rate", constraint |-> constraint]
  BY DEF rate_adaptive_policy, Adapt
<1> HIDE DEF K
<1>5. TypeOK'
  <2>1. asked' \in Pairs
    BY <1>0, <1>4 DEF Pairs, Modes, TypeOK
  <2> QED
    BY <1>0, <1>1, <1>3, <2>1
       DEF rate_adaptive_policy, Adapt, Go, TypeOK, clients, outside
<1>6. OneMeasurement'
  BY <1>0 DEF rate_adaptive_policy, Adapt, OneMeasurement
<1>7. PowerWithin'
  <2>1. ASSUME Used(mod_map') > 0 PROVE tx_power' \in 1..K
    <3>1. Energy(w, mod_map') > 0
      BY <1>1, <2>1, UsedBits, EnergyOfBits
    <3> QED
      BY <1>1, <1>2, <1>3, <3>1
  <2> QED
    BY <1>4, <2>1 DEF PowerWithin, K
<1> QED
  BY <1>5, <1>6, <1>7 DEF IndInv

LEMMA MarginInd ==
  ASSUME IndInv, margin_adaptive_policy
  PROVE  IndInv'
<1>0. TypeOK /\ OneMeasurement
  BY DEF IndInv
<1>1. PICK w \in Weights : /\ mod_map' \in Loadings
                           /\ tx_power' = Energy(w, mod_map')
  BY <1>0, MarginRound
<1>2. tx_power' \in Nat
  BY <1>1, LoadingEnergy
<1>3. asked' = [mode |-> "margin", constraint |-> constraint]
  BY DEF margin_adaptive_policy, Adapt
<1>4. TypeOK'
  <2>1. asked' \in Pairs
    BY <1>0, <1>3 DEF Pairs, Modes, TypeOK
  <2> QED
    BY <1>0, <1>1, <1>2, <2>1
       DEF margin_adaptive_policy, Adapt, Go, TypeOK, clients, outside
<1>5. OneMeasurement' /\ PowerWithin'
  BY <1>0, <1>3 DEF margin_adaptive_policy, Adapt, OneMeasurement, PowerWithin
<1> QED
  BY <1>4, <1>5 DEF IndInv

(* Limiting never raises a power, but for no power at all.                 *)
LEMMA PushInd ==
  ASSUME IndInv, NEW ok \in BOOLEAN, PushPower(ok)
  PROVE  IndInv'
<1>0. TypeOK /\ OneMeasurement /\ PowerWithin
  BY DEF IndInv
<1>1. tx_power \in Nat /\ tx_power' = Limited(tx_power)
  BY <1>0 DEF PushPower, TypeOK
<1>2. /\ tx_power' \in 1..MaxPower
      /\ tx_power > 0 => tx_power' <= tx_power
  BY <1>1, LimitedType
<1>3. tx_power' \in Nat /\ amplifier' \in 1..MaxPower
  BY <1>0, <1>2, AdaptiveAssumption DEF PushPower, TypeOK
<1>4. TypeOK'
  BY <1>0, <1>3 DEF PushPower, Go, TypeOK, clients
<1>5. OneMeasurement'
  BY <1>0 DEF PushPower, OneMeasurement
<1>6. PowerWithin'
  <2>1. UNCHANGED <<asked, mod_map>>
    BY DEF PushPower
  <2>2. SUFFICES ASSUME asked.mode = "rate", Used(mod_map) > 0
                 PROVE  tx_power' \in 1..(asked.constraint * asked.constraint)
    BY <2>1 DEF PowerWithin
  <2>3. tx_power \in 1..(asked.constraint * asked.constraint)
    BY <1>0, <2>2 DEF PowerWithin
  <2>4. asked.constraint * asked.constraint \in Nat
    <3>1. asked.constraint \in Nat
      BY <1>0 DEF TypeOK, Pairs
    <3> QED
      BY <3>1, SquareType
  <2> QED
    BY <1>2, <1>3, <2>3, <2>4
<1> QED
  BY <1>4, <1>5, <1>6 DEF IndInv

(* What happens outside.                                                   *)
LEMMA OutsideInd ==
  ASSUME IndInv, Measure \/ ChannelChange \/ StartUpdate \/ FinishUpdate
  PROVE  IndInv'
<1>0. TypeOK /\ OneMeasurement /\ PowerWithin
  BY DEF IndInv
<1>1. CASE Measure
  <2>1. latest' \subseteq RxPerf
    <3>1. channel \in Channels /\ amplifier \in Nat
      BY <1>0, AdaptiveAssumption DEF TypeOK
    <3> QED
      BY <1>1, <3>1 DEF Measure, RxPerf
  <2>2. TypeOK'
    BY <1>0, <1>1, <2>1 DEF Measure, TypeOK, clients, decision, outside
  <2>3. OneMeasurement' /\ PowerWithin'
    BY <1>0, <1>1 DEF Measure, OneMeasurement, PowerWithin, decision
  <2> QED
    BY <2>2, <2>3 DEF IndInv
<1>2. CASE ChannelChange
  <2>1. TypeOK'
    BY <1>0, <1>2 DEF ChannelChange, TypeOK, clients, decision
  <2>2. OneMeasurement' /\ PowerWithin'
    BY <1>0, <1>2 DEF ChannelChange, OneMeasurement, PowerWithin, decision
  <2> QED
    BY <2>1, <2>2 DEF IndInv
<1>3. CASE StartUpdate
  <2>1. TypeOK'
    BY <1>0, <1>3 DEF StartUpdate, UpdateMode, TypeOK, decision, outside
  <2>2. OneMeasurement' /\ PowerWithin'
    BY <1>0, <1>3 DEF StartUpdate, OneMeasurement, PowerWithin, decision
  <2> QED
    BY <2>1, <2>2 DEF IndInv
<1>4. CASE FinishUpdate
  <2>1. constraint' \in Nat
    BY <1>4, AdaptiveAssumption DEF FinishUpdate, UpdateConstraint
  <2>2. TypeOK'
    BY <1>0, <1>4, <2>1 DEF FinishUpdate, UpdateConstraint, TypeOK, decision, outside
  <2>3. OneMeasurement' /\ PowerWithin'
    BY <1>0, <1>4 DEF FinishUpdate, OneMeasurement, PowerWithin, decision
  <2> QED
    BY <2>2, <2>3 DEF IndInv
<1> QED
  BY <1>1, <1>2, <1>3, <1>4

LEMMA StepInd == IndInv /\ [Next]_vars => IndInv'
<1> SUFFICES ASSUME IndInv, [Next]_vars PROVE IndInv'
  OBVIOUS
<1>1. CASE \/ BeginRound \/ is_reset_mode \/ is_margin_adaptive_policy
           \/ is_rate_adaptive_policy \/ Fail \/ push_data
  BY <1>1, WaitingInd
<1>2. CASE Reset
  BY <1>2, ResetInd
<1>3. CASE rate_adaptive_policy
  BY <1>3, RateInd
<1>4. CASE margin_adaptive_policy
  BY <1>4, MarginInd
<1>5. CASE PushPower(TRUE) \/ PushPower(FALSE)
  BY <1>5, PushInd
<1>6. CASE Measure \/ ChannelChange \/ StartUpdate \/ FinishUpdate
  BY <1>6, OutsideInd
<1>7. CASE UNCHANGED vars
  BY <1>7 DEF vars, clients, decision, outside, IndInv, TypeOK,
              OneMeasurement, PowerWithin
<1> QED
  BY <1>1, <1>2, <1>3, <1>4, <1>5, <1>6, <1>7 DEF Next, Round

LEMMA Invariance == Spec => []IndInv
<1> QED
  BY InitInd, StepInd, PTL DEF Spec

-----------------------------------------------------------------------------
(* The variables keep their types: every loading is one of bits the tables *)
(* have, however long EF, ET and BT swap, add and remove them, and the     *)
(* power pushed to the amplifier is in its range.                          *)
THEOREM ManagerTypes == Spec => []TypeOK
<1>1. IndInv => TypeOK
  BY DEF IndInv
<1> QED
  BY <1>1, Invariance, PTL

(* In rate adaptive mode the power that is pushed is within the constraint *)
(* as long as the constraint allows a bit.                                 *)
THEOREM PowerIsWithin == Spec => []PowerWithinWhenUsed
<1>1. IndInv => PowerWithinWhenUsed
  <2> SUFFICES ASSUME IndInv, asked.mode = "rate", Used(mod_map) > 0
               PROVE  tx_power <= asked.constraint * asked.constraint
    BY DEF PowerWithinWhenUsed
  <2>1. tx_power \in 1..(asked.constraint * asked.constraint)
    BY DEF IndInv, PowerWithin
  <2> QED
    BY <2>1
<1> QED
  BY <1>1, Invariance, PTL

(* Levin-Campello is optimal: every adaptive round ends with the most bits *)
(* that the energy allows and the least energy for them, or with the least *)
(* energy for the bits asked for, for the channel it has estimated and     *)
(* whatever the loading it started from.                                   *)
THEOREM LoadingIsBest == Spec => LoadingBest
<1> DEFINE Best ==
      \A m \in rxperf :
        /\ Go("rate", "power") =>
             \E w \in Estimates(m) : BestRate(w, constraint * constraint, mod_map')
        /\ Go("margin", "power") =>
             \E w \in Estimates(m) : BestMargin(w, constraint, mod_map')
<1>1. IndInv /\ [Next]_vars => [Best]_vars
  <2> SUFFICES ASSUME IndInv, Next, NEW m \in rxperf
               PROVE  /\ Go("rate", "power") =>
                           \E w \in Estimates(m) :
                             BestRate(w, constraint * constraint, mod_map')
                      /\ Go("margin", "power") =>
                           \E w \in Estimates(m) : BestMargin(w, constraint, mod_map')
    OBVIOUS
  <2>0. TypeOK /\ \A n \in rxperf : n = m
    BY DEF IndInv, OneMeasurement
  <2>1. ASSUME Go("rate", "power")
        PROVE  \E w \in Estimates(m) : BestRate(w, constraint * constraint, mod_map')
    <3>1. rate_adaptive_policy
      BY <2>1 DEF Next, Round, BeginRound, is_reset_mode, AskMode,
                  is_margin_adaptive_policy, is_rate_adaptive_policy, Reset,
                  margin_adaptive_policy, Adapt, Fail, PushPower, push_data,
                  Measure, ChannelChange, StartUpdate, FinishUpdate, Go
    <3> QED
      BY <2>0, <3>1, RateRound
  <2>2. ASSUME Go("margin", "power")
        PROVE  \E w \in Estimates(m) : BestMargin(w, constraint, mod_map')
    <3>1. margin_adaptive_policy
      BY <2>2 DEF Next, Round, BeginRound, is_reset_mode, AskMode,
                  is_margin_adaptive_policy, is_rate_adaptive_policy, Reset,
                  rate_adaptive_policy, Adapt, Fail, PushPower, push_data,
                  Measure, ChannelChange, StartUpdate, FinishUpdate, Go
    <3> QED
      BY <2>0, <3>1, MarginRound
  <2> QED
    BY <2>1, <2>2
<1>2. []IndInv /\ [][Next]_vars => [][Best]_vars
  BY <1>1, PTL
<1> QED
  BY <1>2, Invariance, PTL DEF Spec, LoadingBest
=============================================================================
