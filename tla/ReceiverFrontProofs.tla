------------------------ MODULE ReceiverFrontProofs ------------------------
(***************************************************************************)
(* The receiver front end for every frame length, every position of the    *)
(* preambles, every size of the buffers and however many blocks: it is     *)
(* type correct, each block is corrected with the estimates of its own     *)
(* frame, the frame sampler loses no frame, and the pilot block filter     *)
(* hands on the data blocks in order.                                      *)
(***************************************************************************)
EXTENDS ReceiverFront, BasicLemmas, FiniteSetTheorems, SequenceTheorems

(* The marks up to block b in a stream f of frame starts delayed by d.     *)
M(f, b, d) == {k \in 1..b : k > d /\ f[k - d]}

UpTo(S, k) == {x \in S : x <= k}

-----------------------------------------------------------------------------
(* Sets of naturals, counted and in ascending order.                       *)

(* The count of a finite set of naturals up to one of its members.         *)
LEMMA Ranks ==
  ASSUME NEW S \in SUBSET Nat, IsFiniteSet(S), NEW x \in S
  PROVE  /\ IsFiniteSet(Below(S, x)) /\ Below(S, x) \in SUBSET S
         /\ Cardinality(Below(S, x)) \in 0..(Cardinality(S) - 1)
         /\ Cardinality(UpTo(S, x)) = Cardinality(Below(S, x)) + 1
<1>1. Below(S, x) \in SUBSET S
  BY DEF Below
<1>2. IsFiniteSet(Below(S, x)) /\ Cardinality(Below(S, x)) \in Nat
  BY <1>1, FS_Subset, FS_CardinalityType
<1>3. UpTo(S, x) = Below(S, x) \cup {x} /\ x \notin Below(S, x)
  <2>1. \A y \in S : y \in Nat /\ x \in Nat
    OBVIOUS
  <2>2. \A y \in S : (y <= x <=> y < x \/ y = x) /\ ~(x < x)
    BY <2>1
  <2> QED
    BY <2>2 DEF UpTo, Below
<1>4. Cardinality(UpTo(S, x)) = Cardinality(Below(S, x)) + 1
  BY <1>2, <1>3, FS_AddElement
<1>5. UpTo(S, x) \in SUBSET S
  BY DEF UpTo
<1>6. Cardinality(UpTo(S, x)) <= Cardinality(S) /\ Cardinality(S) \in Nat
  BY <1>5, FS_Subset, FS_CardinalityType
<1> QED
  BY <1>1, <1>2, <1>4, <1>6

(* Two members have different ranks.                                       *)
LEMMA RanksDiffer ==
  ASSUME NEW S \in SUBSET Nat, IsFiniteSet(S), NEW x \in S, NEW y \in S, x < y
  PROVE  Cardinality(Below(S, x)) < Cardinality(Below(S, y))
<1>1. UpTo(S, x) \in SUBSET Below(S, y)
  <2>1. \A z \in S : z \in Nat /\ x \in Nat /\ y \in Nat
    OBVIOUS
  <2>2. \A z \in S : z <= x => z < y
    BY <2>1
  <2> QED
    BY <2>2 DEF UpTo, Below
<1>2. Cardinality(UpTo(S, x)) <= Cardinality(Below(S, y))
  BY <1>1, Ranks, FS_Subset
<1> QED
  BY <1>2, Ranks

(* Each entry has as many members before it as its place says, and there   *)
(* is a place for every member.                                            *)
LEMMA Ascends ==
  ASSUME NEW S \in SUBSET Nat, IsFiniteSet(S)
  PROVE  /\ Cardinality(S) \in Nat
         /\ Ascending(S) \in [1..Cardinality(S) -> S]
         /\ Ascending(S) \in Seq(S) /\ Len(Ascending(S)) = Cardinality(S)
         /\ \A i \in 1..Cardinality(S) :
              Cardinality(Below(S, Ascending(S)[i])) = i - 1
         /\ \A x \in S : Ascending(S)[Cardinality(Below(S, x)) + 1] = x
<1> DEFINE n       == Cardinality(S)
           rank    == [x \in S |-> Cardinality(Below(S, x)) + 1]
           at(i)   == CHOOSE x \in S : Cardinality(Below(S, x)) = i - 1
<1>1. n \in Nat
  BY FS_CardinalityType
<1>2. rank \in [S -> 1..n]
  <2>1. \A x \in S : Cardinality(Below(S, x)) \in 0..(n - 1)
    BY Ranks
  <2> HIDE DEF n
  <2>2. \A x \in S : Cardinality(Below(S, x)) + 1 \in 1..n
    BY <1>1, <2>1
  <2> QED
    BY <2>2
<1>3. rank \in Injection(S, 1..n)
  <2>1. ASSUME NEW x \in S, NEW y \in S, rank[x] = rank[y] PROVE x = y
    <3>1. Cardinality(Below(S, x)) = Cardinality(Below(S, y))
      BY <2>1, Ranks
    <3>2. ~(x < y) /\ ~(y < x)
      BY <3>1, RanksDiffer, Ranks
    <3> QED
      BY <3>2
  <2> QED
    BY <1>2, <2>1 DEF Injection, IsInjective
<1>4. IsFiniteSet(1..n) /\ Cardinality(1..n) = n
  BY <1>1, FS_Interval
<1>5. rank \in Surjection(S, 1..n)
  BY <1>3, <1>4, FS_Injection
<1>6. \A i \in 1..n : \E x \in S : Cardinality(Below(S, x)) = i - 1
  <2>1. SUFFICES ASSUME NEW i \in 1..n
                 PROVE  \E x \in S : Cardinality(Below(S, x)) = i - 1
    OBVIOUS
  <2>2. PICK x \in S : rank[x] = i
    BY <1>5 DEF Surjection
  <2>3. Cardinality(Below(S, x)) \in Nat
    BY Ranks
  <2> QED
    BY <2>2, <2>3
<1>7. \A i \in 1..n : at(i) \in S /\ Cardinality(Below(S, at(i))) = i - 1
  BY <1>6
<1>8. Ascending(S) = [i \in 1..n |-> at(i)]
  BY DEF Ascending
<1> HIDE DEF at
<1>9. Ascending(S) \in [1..n -> S]
  BY <1>7, <1>8
<1>10. \A i \in 1..n : Cardinality(Below(S, Ascending(S)[i])) = i - 1
  BY <1>7, <1>8
<1>11. ASSUME NEW x \in S PROVE Ascending(S)[Cardinality(Below(S, x)) + 1] = x
  <2> DEFINE i == Cardinality(Below(S, x)) + 1
             y == Ascending(S)[i]
  <2>1. i \in 1..n /\ i - 1 = Cardinality(Below(S, x))
    <3>1. Cardinality(Below(S, x)) \in 0..(n - 1)
      BY Ranks
    <3> QED
      BY <1>1, <3>1
  <2>2. y \in S /\ Cardinality(Below(S, y)) = i - 1
    BY <1>9, <1>10, <2>1
  <2> HIDE DEF i, y
  <2>3. ~(x < y) /\ ~(y < x)
    BY <2>1, <2>2, RanksDiffer, Ranks
  <2>4. x = y
    BY <2>2, <2>3
  <2> QED
    BY <2>4 DEF y, i
<1>12. Ascending(S) \in Seq(S) /\ Len(Ascending(S)) = n
  BY <1>1, <1>9
<1> QED
  BY <1>1, <1>9, <1>10, <1>11, <1>12

LEMMA AscendingType ==
  ASSUME NEW S \in SUBSET Nat, IsFiniteSet(S)
  PROVE  Ascending(S) \in Seq(Nat)
<1>1. Ascending(S) \in Seq(S)
  BY Ascends
<1> QED
  BY <1>1, SeqMonotonic

(* The entry whose place is the count up to k is the greatest up to k.     *)
LEMMA LastUpTo ==
  ASSUME NEW S \in SUBSET Nat, IsFiniteSet(S), NEW k \in Nat,
         UpTo(S, k) # {}
  PROVE  /\ Max(UpTo(S, k)) \in S
         /\ Cardinality(UpTo(S, k)) \in 1..Cardinality(S)
         /\ Ascending(S)[Cardinality(UpTo(S, k))] = Max(UpTo(S, k))
<1> DEFINE T == UpTo(S, k)
           x == Max(T)
<1>1. T \in SUBSET Nat /\ T \subseteq S /\ \A y \in T : y <= k
  BY DEF UpTo
<1> HIDE DEF T
<1>2. x \in T /\ \A y \in T : x >= y
  BY <1>1, Greatest DEF T
<1> HIDE DEF x
<1>3. x \in S /\ x \in Nat /\ x <= k
  BY <1>1, <1>2
<1>4. T = UpTo(S, x)
  <2>1. \A y \in S : y <= k <=> y <= x
    <3>1. ASSUME NEW y \in S, y <= k PROVE y <= x
      <4>1. y \in T
        BY <3>1 DEF T, UpTo
      <4> QED
        BY <1>1, <1>2, <1>3, <4>1
    <3>2. ASSUME NEW y \in S, y <= x PROVE y <= k
      <4>1. y \in Nat /\ x \in Nat /\ x <= k /\ k \in Nat
        BY <1>3
      <4> QED
        BY <3>2, <4>1
    <3> QED
      BY <3>1, <3>2
  <2> QED
    BY <2>1 DEF T, UpTo
<1>5. /\ Cardinality(T) = Cardinality(Below(S, x)) + 1
      /\ Cardinality(Below(S, x)) \in 0..(Cardinality(S) - 1)
  BY <1>3, <1>4, Ranks
<1>6. Cardinality(S) \in Nat
  BY FS_CardinalityType
<1>7. Cardinality(T) \in 1..Cardinality(S)
  BY <1>5, <1>6
<1>8. Ascending(S)[Cardinality(T)] = x
  BY <1>3, <1>5, Ascends
<1> QED
  BY <1>3, <1>7, <1>8 DEF x, T

(* Members that are greater than all others come behind them.              *)
LEMMA Join ==
  ASSUME NEW S \in SUBSET Nat, IsFiniteSet(S),
         NEW T \in SUBSET Nat, IsFiniteSet(T),
         \A x \in S : \A y \in T : x < y
  PROVE  /\ Cardinality(S \cup T) = Cardinality(S) + Cardinality(T)
         /\ Ascending(S \cup T) = Ascending(S) \o Ascending(T)
<1> DEFINE m == Cardinality(S)
           n == Cardinality(T)
           U == S \cup T
<1>1. m \in Nat /\ n \in Nat
  BY FS_CardinalityType
<1>2. S \cap T = {}
  <2>1. ASSUME NEW x \in S, x \in T PROVE FALSE
    <3>1. x < x /\ x \in Nat
      BY <2>1
    <3> QED
      BY <3>1
  <2> QED
    BY <2>1
<1>3. IsFiniteSet(U) /\ U \in SUBSET Nat
  BY FS_Union
<1>4. Cardinality(U) = m + n
  <2>1. Cardinality(U) = m + n - Cardinality(S \cap T)
    BY FS_Union
  <2>2. Cardinality(S \cap T) = 0
    BY <1>2, FS_EmptySet
  <2> HIDE DEF m, n, U
  <2> QED
    BY <1>1, <2>1, <2>2
<1>5. ASSUME NEW i \in 1..m PROVE Ascending(U)[i] = Ascending(S)[i]
  <2> DEFINE x == Ascending(S)[i]
  <2>1. x \in S /\ Cardinality(Below(S, x)) = i - 1
    BY Ascends
  <2> HIDE DEF x
  <2>2. Below(U, x) = Below(S, x)
    <3>1. \A y \in T : ~(y < x)
      <4>1. ASSUME NEW y \in T PROVE ~(y < x)
        <5>1. x < y /\ x \in Nat /\ y \in Nat
          BY <2>1
        <5> QED
          BY <5>1
      <4> QED
        BY <4>1
    <3> QED
      BY <3>1 DEF Below
  <2>3. x \in U
    BY <2>1
  <2>4. Ascending(U)[Cardinality(Below(U, x)) + 1] = x
    BY <1>3, <2>3, Ascends
  <2>5. (i - 1) + 1 = i
    BY <1>1
  <2>6. Ascending(U)[i] = x
    BY <2>1, <2>2, <2>4, <2>5
  <2> QED
    BY <2>6 DEF x
<1>6. ASSUME NEW j \in 1..n PROVE Ascending(U)[m + j] = Ascending(T)[j]
  <2> DEFINE x == Ascending(T)[j]
  <2>1. x \in T /\ Cardinality(Below(T, x)) = j - 1
    BY Ascends
  <2> HIDE DEF x
  <2>2. Below(U, x) = S \cup Below(T, x)
    <3>1. \A y \in S : y < x
      BY <2>1
    <3> QED
      BY <3>1 DEF Below
  <2>3. IsFiniteSet(Below(T, x)) /\ S \cap Below(T, x) = {}
    BY ZenonT(60), <1>2, <2>1, Ranks DEF Below
  <2>4. Cardinality(Below(U, x)) = m + (j - 1)
    <3>1. Cardinality(Below(U, x))
             = m + Cardinality(Below(T, x)) - Cardinality(S \cap Below(T, x))
      BY <2>2, <2>3, FS_Union
    <3>2. Cardinality(S \cap Below(T, x)) = 0
      BY <2>3, FS_EmptySet
    <3> HIDE DEF m, n, U
    <3> QED
      BY <1>1, <2>1, <3>1, <3>2
  <2>5. x \in U
    BY <2>1
  <2>6. Ascending(U)[Cardinality(Below(U, x)) + 1] = x
    BY <1>3, <2>5, Ascends
  <2> HIDE DEF m, n, U
  <2>7. m + (j - 1) + 1 = m + j
    BY <1>1
  <2>8. Ascending(U)[m + j] = x
    BY <2>4, <2>6, <2>7
  <2> QED
    BY <2>8 DEF x
<1>7. /\ Ascending(S) \in Seq(Nat) /\ Len(Ascending(S)) = m
      /\ Ascending(T) \in Seq(Nat) /\ Len(Ascending(T)) = n
      /\ Ascending(U) \in Seq(Nat) /\ Len(Ascending(U)) = m + n
  <2>1. Ascending(S) \in Seq(Nat) /\ Len(Ascending(S)) = m
    BY Ascends, SeqMonotonic
  <2>2. Ascending(T) \in Seq(Nat) /\ Len(Ascending(T)) = n
    BY Ascends, SeqMonotonic
  <2>3. Ascending(U) \in Seq(Nat) /\ Len(Ascending(U)) = m + n
    <3>1. Ascending(U) \in Seq(U) /\ Len(Ascending(U)) = Cardinality(U)
      BY <1>3, Ascends
    <3> HIDE DEF U
    <3> QED
      BY <1>3, <1>4, <3>1, SeqMonotonic
  <2> QED
    BY <2>1, <2>2, <2>3
<1> DEFINE A == Ascending(S)
           B == Ascending(T)
           C == Ascending(U)
<1> HIDE DEF m, n, U, A, B, C
<1>8. /\ A \in Seq(Nat) /\ Len(A) = m /\ B \in Seq(Nat) /\ Len(B) = n
      /\ C \in Seq(Nat) /\ Len(C) = m + n
  BY <1>7 DEF A, B, C
<1>9. \A i \in 1..m : C[i] = A[i]
  BY <1>5 DEF A, C
<1>10. \A j \in 1..n : C[m + j] = B[j]
  BY <1>6 DEF B, C
<1>11. /\ A \o B \in Seq(Nat) /\ Len(A \o B) = m + n
       /\ \A i \in 1..(m + n) : (A \o B)[i] = IF i <= m THEN A[i] ELSE B[i - m]
  BY <1>8, ConcatProperties
<1>12. \A i \in 1..(m + n) : C[i] = (A \o B)[i]
  <2>1. SUFFICES ASSUME NEW i \in 1..(m + n) PROVE C[i] = (A \o B)[i]
    OBVIOUS
  <2>2. CASE i <= m
    <3>1. i \in 1..m
      BY <1>1, <2>2
    <3> QED
      BY <1>9, <1>11, <2>2, <3>1
  <2>3. CASE ~(i <= m)
    <3>1. i - m \in 1..n /\ m + (i - m) = i
      BY <1>1, <2>3
    <3>2. C[i] = B[i - m]
      BY <1>10, <3>1
    <3> QED
      BY <1>11, <2>3, <3>2
  <2> QED
    BY <2>2, <2>3
<1>13. C = A \o B
  BY <1>8, <1>11, <1>12, SeqEqual
<1> QED
  BY <1>4, <1>13 DEF A, B, C, m, n, U

(* The first entries are those of the members before the next one.         *)
LEMMA Prefix ==
  ASSUME NEW S \in SUBSET Nat, IsFiniteSet(S),
         NEW r \in Nat, r < Cardinality(S)
  PROVE  LET next == Ascending(S)[r + 1]
         IN  /\ next \in S
             /\ IsFiniteSet(Below(S, next)) /\ Cardinality(Below(S, next)) = r
             /\ SubSeq(Ascending(S), 1, r) = Ascending(Below(S, next))
<1> DEFINE next == Ascending(S)[r + 1]
           A    == Below(S, next)
           B    == S \ A
<1>1. Cardinality(S) \in Nat /\ r + 1 \in 1..Cardinality(S) /\ (r + 1) - 1 = r
  BY FS_CardinalityType
<1>2. next \in S /\ Cardinality(A) = r
  BY <1>1, Ascends
<1> HIDE DEF next
<1>3. IsFiniteSet(A) /\ A \in SUBSET Nat /\ A \cup B = S
  <2>1. A \subseteq S
    BY DEF Below
  <2>2. IsFiniteSet(A)
    BY <1>2, Ranks
  <2> HIDE DEF A
  <2> QED
    BY <2>1, <2>2
<1>4. IsFiniteSet(B) /\ B \in SUBSET Nat
  BY FS_Subset
<1>5. \A x \in A : \A y \in B : x < y
  <2>1. \A x, y \in S : x < next /\ ~(y < next) => x < y
    <3>1. \A x \in S : x \in Nat
      OBVIOUS
    <3> QED
      BY <1>2, <3>1
  <2> QED
    BY <2>1 DEF Below
<1> HIDE DEF A, B
<1>6. Ascending(S) = Ascending(A) \o Ascending(B)
  BY <1>3, <1>4, <1>5, Join
<1>7. Ascending(A) \in Seq(Nat) /\ Len(Ascending(A)) = r
  BY <1>2, <1>3, Ascends, SeqMonotonic
<1>8. Ascending(B) \in Seq(Nat)
  BY <1>4, Ascends, SeqMonotonic
<1> DEFINE q == Ascending(A)
           t == Ascending(B)
<1> HIDE DEF q, t
<1>9. q \in Seq(Nat) /\ t \in Seq(Nat) /\ Len(q) = r /\ Len(t) \in Nat
  BY <1>7, <1>8, LenProperties DEF q, t
<1> DEFINE u == q \o t
<1>10. \A i \in 1..r : u[i] = q[i] /\ q[i] \in Nat
  <2>1. \A i \in 1..(r + Len(t)) : u[i] = IF i <= r THEN q[i] ELSE t[i - r]
    BY <1>9, ConcatProperties
  <2> HIDE DEF u
  <2>2. \A i \in 1..r : i \in 1..(r + Len(t)) /\ i <= r
    BY <1>9
  <2>3. \A i \in 1..r : q[i] \in Nat
    BY <1>9, ElementOfSeq
  <2> QED
    BY <2>1, <2>2, <2>3
<1> HIDE DEF u
<1>11. /\ SubSeq(u, 1, r) \in Seq(Nat)
       /\ Len(SubSeq(u, 1, r)) = IF 1 <= r THEN r - 1 + 1 ELSE 0
       /\ \A i \in 1..(r - 1 + 1) : SubSeq(u, 1, r)[i] = u[1 + i - 1]
  <2>1. 1 \in Int /\ r \in Int
    OBVIOUS
  <2>2. \A i \in 1..r : u[i] \in Nat
    BY <1>10
  <2> QED
    BY <2>1, <2>2, SubSeqProperties
<1>12. \A i \in 1..r : SubSeq(u, 1, r)[i] = q[i]
  <2>1. \A i \in 1..r : i \in 1..(r - 1 + 1) /\ 1 + i - 1 = i
    OBVIOUS
  <2> QED
    BY <1>10, <1>11, <2>1
<1>13. Len(SubSeq(u, 1, r)) = r
  BY <1>11
<1>14. SubSeq(u, 1, r) = q
  BY <1>9, <1>11, <1>12, <1>13, SeqEqual
<1> QED
  BY <1>2, <1>3, <1>6, <1>14 DEF u, q, t, A, next

Moved(S, c) == {x + c : x \in S}

LEMMA MovedCount ==
  ASSUME NEW S \in SUBSET Int, IsFiniteSet(S), NEW c \in Int
  PROVE  IsFiniteSet(Moved(S, c)) /\ Cardinality(Moved(S, c)) = Cardinality(S)
<1> DEFINE f == [x \in S |-> x + c]
<1>1. \A x \in S : x \in Int
  OBVIOUS
<1>2. f \in [S -> Moved(S, c)]
  BY DEF Moved
<1>3. \A x, y \in S : f[x] = f[y] => x = y
  BY <1>1
<1>4. \A z \in Moved(S, c) : \E x \in S : f[x] = z
  BY DEF Moved
<1>5. f \in Bijection(S, Moved(S, c))
  BY <1>2, <1>3, <1>4 DEF Bijection, Injection, Surjection, IsInjective
<1>6. ExistsBijection(S, Moved(S, c))
  BY <1>5 DEF ExistsBijection
<1> QED
  BY <1>6, FS_Bijection

(* Order survives a move.                                                  *)
LEMMA MovedOrder ==
  ASSUME NEW S \in SUBSET Nat, IsFiniteSet(S), NEW c \in Int,
         Moved(S, c) \in SUBSET Nat
  PROVE  Ascending(Moved(S, c))
           = [h \in 1..Cardinality(S) |-> Ascending(S)[h] + c]
<1> DEFINE T == Moved(S, c)
           n == Cardinality(S)
<1>1. IsFiniteSet(T) /\ Cardinality(T) = n
  BY MovedCount
<1>2. Ascending(T) \in [1..n -> T]
  BY <1>1, Ascends
<1>3. ASSUME NEW h \in 1..n PROVE Ascending(T)[h] = Ascending(S)[h] + c
  <2> DEFINE x == Ascending(S)[h]
  <2>1. x \in S /\ Cardinality(Below(S, x)) = h - 1
    BY Ascends
  <2> HIDE DEF x
  <2>2. Below(T, x + c) = Moved(Below(S, x), c)
    <3>1. \A y \in S : y + c < x + c <=> y < x
      <4>1. \A y \in S : y \in Int
        OBVIOUS
      <4> QED
        BY <2>1, <4>1
    <3> QED
      BY <3>1 DEF Moved, Below
  <2>3. IsFiniteSet(Below(S, x)) /\ Below(S, x) \in SUBSET Int
    <3>1. IsFiniteSet(Below(S, x)) /\ Below(S, x) \subseteq S
      BY <2>1, Ranks
    <3>2. \A y \in S : y \in Int
      OBVIOUS
    <3> QED
      BY <3>1, <3>2
  <2>4. Cardinality(Below(T, x + c)) = h - 1
    BY <2>1, <2>2, <2>3, MovedCount
  <2>5. x + c \in T
    BY <2>1 DEF Moved
  <2>6. Ascending(T)[Cardinality(Below(T, x + c)) + 1] = x + c
    BY <1>1, <2>5, Ascends
  <2>7. n \in Nat /\ (h - 1) + 1 = h
    BY FS_CardinalityType
  <2> HIDE DEF T
  <2>8. Ascending(T)[h] = x + c
    BY <2>4, <2>6, <2>7
  <2> QED
    BY <2>8 DEF x
<1> QED
  BY <1>2, <1>3

LEMMA LesserOf ==
  ASSUME NEW x \in Int, NEW y \in Int
  PROVE  Min({x, y}) = IF x <= y THEN x ELSE y
<1> DEFINE m == IF x <= y THEN x ELSE y
<1>1. m \in {x, y} /\ \A z \in {x, y} : m <= z
  OBVIOUS
<1>2. \A z \in {x, y} : (\A v \in {x, y} : z <= v) => z = m
  OBVIOUS
<1> HIDE DEF m
<1>3. Min({x, y}) \in {x, y} /\ \A v \in {x, y} : Min({x, y}) <= v
  BY <1>1 DEF Min
<1> QED
  BY <1>2, <1>3 DEF m

-----------------------------------------------------------------------------
(* The marks up to a block.                                                *)

LEMMA MarksType ==
  ASSUME NEW f, NEW b \in Int, NEW d \in Int
  PROVE  /\ M(f, b, d) \in SUBSET Nat /\ IsFiniteSet(M(f, b, d))
         /\ Cardinality(M(f, b, d)) \in Nat
         /\ \A k \in M(f, b, d) : k >= 1 /\ k <= b
<1>1. M(f, b, d) \in SUBSET (1..b)
  BY DEF M
<1>2. IsFiniteSet(1..b)
  BY FS_Interval
<1>3. IsFiniteSet(M(f, b, d)) /\ Cardinality(M(f, b, d)) \in Nat
  BY <1>1, <1>2, FS_Subset, FS_CardinalityType
<1>4. \A k \in 1..b : k \in Nat /\ k >= 1 /\ k <= b
  OBVIOUS
<1> QED
  BY <1>1, <1>3, <1>4

(* Those of the blocks a call has not done yet come behind the others.     *)
LEMMA MarksSplit ==
  ASSUME NEW a \in Nat, NEW b \in Nat, a <= b, NEW d \in Int
  PROVE  /\ M(frame_start, b, d) = M(frame_start, a, d) \cup Marks(a + 1, b, d)
         /\ Marks(a + 1, b, d) \in SUBSET Nat
         /\ IsFiniteSet(Marks(a + 1, b, d))
         /\ \A x \in M(frame_start, a, d) : x <= a
         /\ \A y \in Marks(a + 1, b, d) : a < y /\ y <= b
         /\ \A x \in M(frame_start, a, d) : \A y \in Marks(a + 1, b, d) : x < y
<1>1. \A k \in Int : k \in 1..b <=> k \in 1..a \/ k \in (a + 1)..b
  OBVIOUS
<1>2. M(frame_start, b, d) = M(frame_start, a, d) \cup Marks(a + 1, b, d)
  BY <1>1 DEF M, Marks
<1>3. \A x \in M(frame_start, a, d) : x \in Nat /\ x <= a
  BY DEF M
<1>4. \A y \in Marks(a + 1, b, d) : y \in Nat /\ a < y /\ y <= b
  BY DEF Marks
<1>5. M(frame_start, b, d) \in SUBSET Nat /\ IsFiniteSet(M(frame_start, b, d))
  BY MarksType
<1>6. IsFiniteSet(Marks(a + 1, b, d))
  BY <1>2, <1>5, FS_Subset
<1>7. \A x \in M(frame_start, a, d) : \A y \in Marks(a + 1, b, d) : x < y
  BY <1>3, <1>4
<1> QED
  BY <1>2, <1>3, <1>4, <1>6, <1>7

(* A new block changes nothing for those before it.                        *)
LEMMA MarksKept ==
  ASSUME NEW f \in Seq(BOOLEAN), NEW v \in BOOLEAN,
         NEW b \in Int, b <= Len(f), NEW d \in Nat
  PROVE  M(Append(f, v), b, d) = M(f, b, d)
<1>1. \A k \in 1..b : k > d => k - d \in 1..Len(f)
  OBVIOUS
<1>2. \A j \in 1..Len(f) : Append(f, v)[j] = f[j]
  OBVIOUS
<1> QED
  BY <1>1, <1>2 DEF M

-----------------------------------------------------------------------------
(* vector_sampler.                                                         *)

Firsts(q, vlen) == [h \in DOMAIN q |-> FirstOf(q[h], vlen)]

LEMMA FirstsJoin ==
  ASSUME NEW p \in Seq(Nat), NEW q \in Seq(Nat), NEW vlen \in Int
  PROVE  /\ Firsts(p \o q, vlen) = Firsts(p, vlen) \o Firsts(q, vlen)
         /\ Firsts(p, vlen) \in Seq(Int) /\ Len(Firsts(p, vlen)) = Len(p)
<1> DEFINE F(s) == Firsts(s, vlen)
<1>1. ASSUME NEW s \in Seq(Nat)
      PROVE  /\ F(s) \in Seq(Int) /\ Len(F(s)) = Len(s) /\ Len(s) \in Nat
             /\ \A i \in 1..Len(s) : F(s)[i] = FirstOf(s[i], vlen)
  <2>1. /\ Len(s) \in Nat /\ DOMAIN s = 1..Len(s)
        /\ \A i \in 1..Len(s) : s[i] \in Nat
    BY LenProperties, ElementOfSeq
  <2>2. \A i \in 1..Len(s) : FirstOf(s[i], vlen) \in Int
    BY <2>1 DEF FirstOf
  <2>3. F(s) = [i \in 1..Len(s) |-> FirstOf(s[i], vlen)]
    BY <2>1 DEF Firsts
  <2>4. F(s) \in [1..Len(s) -> Int]
    BY <2>2, <2>3
  <2> HIDE DEF F
  <2>5. F(s) \in Seq(Int) /\ Len(F(s)) = Len(s)
    BY <2>1, <2>4
  <2> QED
    BY <2>1, <2>3, <2>5
<1> HIDE DEF F
<1> DEFINE m == Len(p)
           n == Len(q)
           A == F(p)
           B == F(q)
           r == p \o q
<1>2. /\ r \in Seq(Nat) /\ Len(r) = m + n
      /\ \A i \in 1..(m + n) : r[i] = IF i <= m THEN p[i] ELSE q[i - m]
  BY ConcatProperties
<1>3. /\ F(r) \in Seq(Int) /\ Len(F(r)) = m + n
      /\ \A i \in 1..(m + n) : F(r)[i] = FirstOf(r[i], vlen)
  BY <1>1, <1>2
<1>4. /\ A \in Seq(Int) /\ Len(A) = m /\ m \in Nat
      /\ \A i \in 1..m : A[i] = FirstOf(p[i], vlen)
  BY <1>1
<1>5. /\ B \in Seq(Int) /\ Len(B) = n /\ n \in Nat
      /\ \A i \in 1..n : B[i] = FirstOf(q[i], vlen)
  BY <1>1
<1> HIDE DEF m, n, A, B, r
<1>6. /\ A \o B \in Seq(Int) /\ Len(A \o B) = m + n
      /\ \A i \in 1..(m + n) : (A \o B)[i] = IF i <= m THEN A[i] ELSE B[i - m]
  BY ZenonT(60), <1>4, <1>5, ConcatProperties
<1>7. ASSUME NEW i \in 1..(m + n) PROVE F(r)[i] = (A \o B)[i]
  <2>1. CASE i <= m
    <3>1. i \in 1..m
      BY <1>4, <2>1
    <3> QED
      BY ZenonT(60), <1>2, <1>3, <1>4, <1>6, <2>1, <3>1
  <2>2. CASE ~(i <= m)
    <3>1. i - m \in 1..n
      BY <1>4, <1>5, <2>2
    <3> QED
      BY <1>2, <1>3, <1>5, <1>6, <2>2, <3>1
  <2> QED
    BY <2>1, <2>2
<1>8. F(r) = A \o B
  BY <1>3, <1>6, <1>7, SeqEqual
<1> QED
  BY <1>4, <1>8 DEF F, A, B, r, m

Sampled(s, f, delay, vlen) ==
  /\ s.done \in Nat
  /\ s.out = Firsts(Ascending(M(f, s.done, delay)), vlen)

(* A call puts out the marks it consumes, no more and no less.             *)
LEMMA SampleStep ==
  ASSUME NEW s, NEW avail \in Nat, NEW delay \in Int, NEW vlen \in Int,
         NEW room \in Nat,
         Sampled(s, frame_start, delay, vlen), s.done <= avail
  PROVE  LET t == Sample(s, avail, delay, vlen, room)
         IN  /\ Sampled(t, frame_start, delay, vlen)
             /\ s.done <= t.done /\ t.done <= avail
<1> DEFINE N    == Marks(s.done + 1, avail, delay)
           n    == Cardinality(N)
           hits == Ascending(N)
           out  == SubSeq(hits, 1, Min({room, Len(hits)}))
           t    == Sample(s, avail, delay, vlen, room)
           L    == M(frame_start, s.done, delay)
<1>1. s.done \in Nat /\ s.out = Firsts(Ascending(L), vlen)
  BY DEF Sampled
<1>2. /\ N \in SUBSET Nat /\ IsFiniteSet(N)
      /\ \A y \in N : s.done < y /\ y <= avail
  BY <1>1, MarksSplit
<1>3. L \in SUBSET Nat /\ IsFiniteSet(L)
  BY <1>1, MarksType
<1>4. \A x \in L : x <= s.done
  BY <1>1, MarksSplit
<1>5. n \in Nat /\ Len(hits) = n /\ hits \in Seq(Nat)
  BY <1>2, Ascends, SeqMonotonic
<1>6. /\ t.done = Consumed(hits, room, avail)
      /\ t.out = s.out \o Firsts(out, vlen)
  BY DEF Sample, Firsts
<1> HIDE DEF t
<1>7. Min({room, n}) = IF room <= n THEN room ELSE n
  BY <1>5, LesserOf
<1>8. ASSUME NEW P \in SUBSET N, t.done \in Nat,
             M(frame_start, t.done, delay) = L \cup P, out = Ascending(P)
      PROVE  Sampled(t, frame_start, delay, vlen)
  <2>1. P \in SUBSET Nat /\ IsFiniteSet(P)
    BY <1>2, FS_Subset
  <2>2. \A x \in L : \A y \in P : x < y
    <3>1. \A x \in L : \A y \in N : x \in Nat /\ y \in Nat /\ x <= s.done /\ s.done < y
      BY <1>2, <1>3, <1>4
    <3>2. \A x \in L : \A y \in N : x < y
      BY <1>1, <3>1
    <3> QED
      BY <3>2
  <2> HIDE DEF L, N
  <2>3. Ascending(L \cup P) = Ascending(L) \o Ascending(P)
    BY <1>3, <2>1, <2>2, Join
  <2>4. Ascending(L) \in Seq(Nat) /\ Ascending(P) \in Seq(Nat)
    BY <1>3, <2>1, AscendingType
  <2> DEFINE p == Ascending(L)
             q == Ascending(P)
  <2> HIDE DEF p, q
  <2>5. Firsts(p \o q, vlen) = Firsts(p, vlen) \o Firsts(q, vlen)
    BY <2>4, FirstsJoin DEF p, q
  <2>6. t.out = Firsts(p \o q, vlen)
    BY <1>1, <1>6, <1>8, <2>5 DEF p, q
  <2> QED
    BY <1>8, <2>3, <2>6 DEF Sampled, p, q
<1>9. CASE room < n
  <2> DEFINE next == hits[room + 1]
  <2>1. /\ next \in N /\ SubSeq(hits, 1, room) = Ascending(Below(N, next))
    BY <1>2, <1>9, Prefix
  <2>2. t.done = next - 1
    BY <1>5, <1>6, <1>9 DEF Consumed
  <2>3. out = Ascending(Below(N, next))
    <3>1. Min({room, Len(hits)}) = room
      <4> HIDE DEF hits, n
      <4> QED
        BY <1>5, <1>7, <1>9
    <3> QED
      BY <2>1, <3>1
  <2> HIDE DEF next
  <2>4. next \in Nat /\ s.done < next /\ next <= avail
    BY <1>2, <2>1
  <2>5. t.done \in Nat /\ s.done <= t.done /\ t.done <= avail
    BY <1>1, <2>2, <2>4
  <2>6. Marks(s.done + 1, t.done, delay) = Below(N, next)
    <3>1. \A k \in Int : k \in (s.done + 1)..(next - 1)
                           <=> k \in (s.done + 1)..avail /\ k < next
      BY <1>1, <2>4
    <3> QED
      BY <2>2, <3>1 DEF Marks, Below
  <2>7. M(frame_start, t.done, delay) = L \cup Below(N, next)
    BY <1>1, <2>5, <2>6, MarksSplit
  <2>8. Below(N, next) \in SUBSET N
    BY DEF Below
  <2> HIDE DEF N, L, out
  <2>9. Sampled(t, frame_start, delay, vlen)
    BY <1>8, <2>3, <2>5, <2>7, <2>8
  <2> QED
    BY <2>5, <2>9 DEF t
<1>10. CASE ~(room < n)
  <2>1. t.done = avail
    BY <1>5, <1>6, <1>10 DEF Consumed
  <2>2. Min({room, n}) = n
    BY <1>5, <1>7, <1>10
  <2>3. out = hits
    <3> HIDE DEF hits
    <3> QED
      BY <1>5, <2>2, SubSeqFull
  <2>4. M(frame_start, t.done, delay) = L \cup N
    BY <1>1, <2>1, MarksSplit
  <2> HIDE DEF N, L, out
  <2>5. Sampled(t, frame_start, delay, vlen)
    BY <1>8, <2>1, <2>3, <2>4
  <2> QED
    BY <2>1, <2>5 DEF t
<1> QED
  BY <1>5, <1>9, <1>10

-----------------------------------------------------------------------------
(* frequency_shift_vcc and channel_equalizer.                              *)

(* The estimate of the last mark up to block k, made e blocks after it.    *)
EstimateOf(f, k, e) == IF M(f, k, 0) = {} THEN 0 ELSE Max(M(f, k, 0)) + e

(* The estimates of the marks up to block b.                               *)
Estimates(est, f, b, e) ==
  /\ Len(est) = Cardinality(M(f, b, 0))
  /\ \A h \in 1..Len(est) : est[h] = Ascending(M(f, b, 0))[h] + e

Followed(c, f, est, e) ==
  /\ c.out \in Seq(Nat)
  /\ c.taken = Cardinality(M(f, Len(c.out), 0)) /\ c.taken <= Len(est)
  /\ c.last = EstimateOf(f, Len(c.out), e)
  /\ \A k \in 1..Len(c.out) : c.out[k] = EstimateOf(f, k, e)

LEMMA EstimateType ==
  ASSUME NEW f, NEW k \in Nat, NEW e \in Nat
  PROVE  EstimateOf(f, k, e) \in Nat
<1> DEFINE T == M(f, k, 0)
<1>1. T \in SUBSET Nat /\ \A x \in T : x <= k
  BY MarksType
<1>2. T # {} => Max(T) \in Nat
  BY <1>1, Greatest
<1> HIDE DEF T
<1>3. (IF T = {} THEN 0 ELSE Max(T) + e) \in Nat
  BY <1>2
<1> QED
  BY <1>3 DEF EstimateOf, T

(* While there are enough estimates, the one whose place is the number of  *)
(* marks is that of the last of them.                                      *)
LEMMA EstimateAt ==
  ASSUME NEW f, NEW k \in Nat, NEW b \in Int, NEW e \in Nat, NEW est,
         Estimates(est, f, b, e),
         Cardinality(M(f, k, 0)) <= Len(est), M(f, k, 0) # {}
  PROVE  est[Cardinality(M(f, k, 0))] = EstimateOf(f, k, e)
<1> DEFINE S == M(f, b, 0)
           T == M(f, k, 0)
<1>1. /\ S \in SUBSET Nat /\ IsFiniteSet(S) /\ Cardinality(S) \in Nat
      /\ T \in SUBSET Nat /\ IsFiniteSet(T) /\ Cardinality(T) \in Nat
  BY MarksType
<1>2. Len(est) = Cardinality(S)
  BY DEF Estimates
<1>3. T = UpTo(S, k)
  <2>1. CASE k <= b
    <3>1. \A j \in Int : j \in 1..k <=> j \in 1..b /\ j <= k
      BY <2>1
    <3> QED
      BY <3>1 DEF M, UpTo
  <2>2. CASE ~(k <= b)
    <3>1. \A j \in Int : j \in 1..b => j \in 1..k /\ j <= k
      BY <2>2
    <3>2. S \subseteq T /\ S = UpTo(S, k)
      BY <3>1 DEF M, UpTo
    <3>3. Cardinality(S) <= Cardinality(T)
      BY <1>1, <3>2, FS_Subset
    <3> HIDE DEF S, T
    <3>4. Cardinality(S) = Cardinality(T)
      BY <1>1, <1>2, <3>3 DEF S, T
    <3>5. S = T
      BY <1>1, <3>2, <3>4, FS_Subset
    <3> QED
      BY <3>2, <3>5
  <2> QED
    BY <2>1, <2>2
<1>4. /\ Cardinality(T) \in 1..Cardinality(S)
      /\ Ascending(S)[Cardinality(T)] = Max(T)
  <2> HIDE DEF S
  <2>1. UpTo(S, k) # {}
    BY <1>3
  <2>2. /\ Cardinality(UpTo(S, k)) \in 1..Cardinality(S)
        /\ Ascending(S)[Cardinality(UpTo(S, k))] = Max(UpTo(S, k))
    BY <1>1, <2>1, LastUpTo
  <2> HIDE DEF T
  <2> QED
    BY <1>3, <2>2
<1>5. est[Cardinality(T)] = Max(T) + e
  <2>1. est[Cardinality(T)] = Ascending(S)[Cardinality(T)] + e
    BY <1>2, <1>4 DEF Estimates
  <2> QED
    BY <1>4, <2>1
<1> QED
  BY <1>5 DEF EstimateOf

LEMMA CorrectStep ==
  ASSUME NEW c, NEW avail \in Nat, NEW room \in Nat, NEW b \in Int,
         NEW e \in Nat, NEW est, Len(est) \in Nat,
         Estimates(est, frame_start, b, e),
         Followed(c, frame_start, est, e), Len(c.out) <= avail
  PROVE  LET t == Correct(c, avail, est, room)
         IN  /\ Followed(t, frame_start, est, e)
             /\ Len(c.out) <= Len(t.out) /\ Len(t.out) <= avail
<1> DEFINE done    == Len(c.out)
           last    == done + Min({room, avail - done})
           have    == Len(est) - c.taken
           more(k) == Cardinality(Marks(done + 1, k, 0))
           n(k)    == Cardinality(M(frame_start, k, 0))
           Q       == {k \in done..last : more(k) <= have}
           to      == Max(Q)
           used(k) == c.taken + more(k)
           val(k)  == IF used(k) = c.taken THEN c.last ELSE est[used(k)]
           t       == Correct(c, avail, est, room)
<1>1. /\ done \in Nat /\ done <= avail /\ c.out \in Seq(Nat) /\ c.taken = n(done)
      /\ c.taken <= Len(est) /\ c.last = EstimateOf(frame_start, done, e)
      /\ \A k \in 1..done : c.out[k] = EstimateOf(frame_start, k, e)
  BY LenProperties DEF Followed
<1>2. \A k \in Nat : n(k) \in Nat
  BY MarksType
<1>3. ASSUME NEW k \in Nat, done <= k
      PROVE  more(k) \in Nat /\ used(k) = n(k)
  <2> DEFINE L == M(frame_start, done, 0)
             N == Marks(done + 1, k, 0)
  <2> HIDE DEF done
  <2>1. /\ M(frame_start, k, 0) = L \cup N
        /\ N \in SUBSET Nat /\ IsFiniteSet(N)
        /\ \A x \in L : \A y \in N : x < y
    <3>1. done \in Nat /\ k \in Nat /\ done <= k /\ 0 \in Int
      BY <1>1, <1>3
    <3> QED
      BY <3>1, MarksSplit
  <2>2. L \in SUBSET Nat /\ IsFiniteSet(L)
    <3>1. done \in Int /\ 0 \in Int
      BY <1>1
    <3> QED
      BY <3>1, MarksType
  <2>3. Cardinality(N) \in Nat
    BY <2>1, FS_CardinalityType
  <2> HIDE DEF L, N
  <2>4. Cardinality(L \cup N) = Cardinality(L) + Cardinality(N)
    BY <2>1, <2>2, Join
  <2> QED
    BY <1>1, <2>1, <2>3, <2>4 DEF L, N
<1>4. /\ t.taken = used(to) /\ t.last = val(to)
      /\ t.out = c.out \o [j \in 1..(to - done) |-> val(done + j)]
  BY DEF Correct
<1> HIDE DEF t
<1>5. last \in Nat /\ done <= last /\ last <= avail
  <2>1. Min({room, avail - done}) = IF room <= avail - done THEN room ELSE avail - done
    BY SMTT(30), <1>1, LesserOf
  <2> HIDE DEF done
  <2> QED
    BY <1>1, <2>1
<1>6. to \in Q
  <2>1. more(done) = 0
    <3>1. Marks(done + 1, done, 0) = {}
      <4>1. (done + 1)..done = {}
        BY <1>1
      <4> QED
        BY <4>1 DEF Marks
    <3> QED
      BY <3>1, FS_EmptySet
  <2>2. done \in Q
    <3> HIDE DEF done, last, more, n
    <3>1. 0 <= have /\ done \in done..last
      BY <1>1, <1>2, <1>5
    <3> QED
      BY <2>1, <3>1
  <2>3. Q \in SUBSET Nat /\ \A k \in Q : k <= last
    <3> HIDE DEF done, last, more, n
    <3> QED
      BY <1>1, <1>5
  <2> HIDE DEF Q, last
  <2> QED
    BY <1>5, <2>2, <2>3, Greatest
<1> HIDE DEF to
<1>7. /\ to \in Nat /\ done <= to /\ to <= avail
      /\ n(to) <= Len(est)
  <2>1. to \in done..last /\ more(to) <= have
    BY <1>6
  <2> HIDE DEF done, last, more, n
  <2>2. to \in Nat /\ done <= to /\ to <= avail
    BY <1>1, <1>5, <2>1
  <2>3. more(to) \in Nat /\ used(to) = n(to)
    BY <1>3, <2>2
  <2> QED
    BY <1>1, <1>2, <2>1, <2>2, <2>3
<1>8. ASSUME NEW k \in Nat, done <= k, k <= to
      PROVE  val(k) = EstimateOf(frame_start, k, e)
  <2> DEFINE T == M(frame_start, k, 0)
             L == M(frame_start, done, 0)
             U == M(frame_start, to, 0)
  <2>1. /\ IsFiniteSet(T) /\ IsFiniteSet(U)
        /\ Cardinality(T) \in Nat /\ Cardinality(U) \in Nat
    BY <1>7, MarksType
  <2>2. L \subseteq T /\ T \subseteq U
    <3>1. \A j \in Int : (j \in 1..done => j \in 1..k) /\ (j \in 1..k => j \in 1..to)
      BY <1>1, <1>7, <1>8
    <3> QED
      BY <3>1 DEF M
  <2>3. n(k) <= n(to)
    BY <2>1, <2>2, FS_Subset
  <2>4. used(k) = n(k)
    BY <1>3, <1>8
  <2>5. CASE n(k) = c.taken
    <3>1. Cardinality(T) = Cardinality(L)
      BY <1>1, <2>5
    <3>2. T = L
      BY <2>1, <2>2, <3>1, FS_Subset
    <3>3. EstimateOf(frame_start, k, e) = EstimateOf(frame_start, done, e)
      BY <3>2 DEF EstimateOf
    <3> QED
      BY <1>1, <2>4, <2>5, <3>3
  <2>6. CASE n(k) # c.taken
    <3>1. T # {}
      <4>1. ASSUME T = {} PROVE FALSE
        <5>1. T = L
          BY <2>2, <4>1
        <5> QED
          BY <1>1, <2>6, <5>1
      <4> QED
        BY <4>1
    <3>2. Cardinality(T) <= Len(est)
      <4> HIDE DEF done, T, U
      <4> QED
        BY <1>2, <1>7, <2>3 DEF T
    <3>3. est[n(k)] = EstimateOf(frame_start, k, e)
      BY <3>1, <3>2, EstimateAt
    <3> QED
      BY <2>4, <2>6, <3>3
  <2> QED
    BY <2>5, <2>6
<1>9. t.taken = n(to) /\ t.last = EstimateOf(frame_start, to, e)
  BY <1>3, <1>4, <1>7, <1>8
<1> DEFINE w == [j \in 1..(to - done) |-> val(done + j)]
<1>10. /\ w \in Seq(Nat) /\ Len(w) = to - done
       /\ \A j \in 1..(to - done) : w[j] = EstimateOf(frame_start, done + j, e)
  <2> DEFINE m == to - done
  <2>1. m \in Nat
    BY <1>1, <1>7
  <2>2. \A j \in 1..m : done + j \in Nat /\ done <= done + j /\ done + j <= to
    <3> HIDE DEF done
    <3> QED
      BY <1>1, <1>7
  <2>3. \A j \in 1..m : val(done + j) = EstimateOf(frame_start, done + j, e)
    BY <1>8, <2>2
  <2>4. \A j \in 1..m : EstimateOf(frame_start, done + j, e) \in Nat
    BY <2>2, EstimateType
  <2> HIDE DEF m, val, done
  <2>5. [j \in 1..m |-> val(done + j)] \in [1..m -> Nat]
    BY <2>3, <2>4
  <2>6. [j \in 1..m |-> val(done + j)] \in Seq(Nat)
    BY <2>1, <2>5
  <2>7. Len([j \in 1..m |-> val(done + j)]) = m
    BY <2>1, <2>5
  <2> QED
    BY <2>3, <2>6, <2>7 DEF m
<1> HIDE DEF w
<1>11. t.out = c.out \o w
  BY <1>4 DEF w
<1>12. /\ t.out \in Seq(Nat) /\ Len(t.out) = done + (to - done)
       /\ \A i \in 1..(done + (to - done)) :
            t.out[i] = IF i <= done THEN c.out[i] ELSE w[i - done]
  <2> DEFINE v == c.out
  <2>1. v \in Seq(Nat) /\ Len(v) = done
    BY <1>1
  <2> HIDE DEF v, done
  <2>2. /\ v \o w \in Seq(Nat) /\ Len(v \o w) = Len(v) + Len(w)
        /\ \A i \in 1..(Len(v) + Len(w)) :
             (v \o w)[i] = IF i <= Len(v) THEN v[i] ELSE w[i - Len(v)]
    BY <1>10, <2>1, ConcatProperties
  <2>3. t.out = v \o w
    BY <1>11 DEF v
  <2> QED
    BY <1>10, <2>1, <2>2, <2>3 DEF v
<1> HIDE DEF done
<1>13. Len(t.out) = to
  BY <1>1, <1>7, <1>12
<1>14. ASSUME NEW k \in 1..to PROVE t.out[k] = EstimateOf(frame_start, k, e)
  <2>1. k \in 1..(done + (to - done))
    BY <1>1, <1>7
  <2>2. CASE k <= done
    <3>1. k \in 1..done
      BY <1>1, <2>2
    <3> QED
      BY <1>1, <1>12, <2>1, <2>2, <3>1
  <2>3. CASE ~(k <= done)
    <3>1. k - done \in 1..(to - done) /\ done + (k - done) = k
      BY <1>1, <1>7, <2>3
    <3>2. w[k - done] = EstimateOf(frame_start, k, e)
      BY <1>10, <3>1
    <3> QED
      BY <1>12, <2>1, <2>3, <3>2
  <2> QED
    BY <2>2, <2>3
<1> HIDE DEF n
<1>15. Followed(t, frame_start, est, e)
  BY <1>7, <1>9, <1>12, <1>13, <1>14 DEF Followed, n
<1> QED
  BY <1>7, <1>13, <1>15 DEF t, done

-----------------------------------------------------------------------------
(* lms_phase_tracking_dc_null.                                             *)

LEMMA GreaterOf ==
  ASSUME NEW x \in Int, NEW y \in Int
  PROVE  Max({x, y}) = IF x >= y THEN x ELSE y
<1> DEFINE m == IF x >= y THEN x ELSE y
<1>1. m \in {x, y} /\ \A z \in {x, y} : m >= z
  OBVIOUS
<1>2. \A z \in {x, y} : (\A v \in {x, y} : z >= v) => z = m
  OBVIOUS
<1> HIDE DEF m
<1>3. Max({x, y}) \in {x, y} /\ \A v \in {x, y} : Max({x, y}) >= v
  BY <1>1 DEF Max
<1> QED
  BY <1>2, <1>3 DEF m

(* Counted from the last mark, or from the first block.                    *)
Position(f, k) == k - Max({1, EstimateOf(f, k, 0)})

Tracked(tr, f) ==
  /\ tr.out \in Seq(Int)
  /\ tr.d_blk = Position(f, Len(tr.out)) + 1
  /\ \A k \in 1..Len(tr.out) : tr.out[k] = Position(f, k)

LEMMA PositionIs ==
  ASSUME NEW f, NEW k \in Nat
  PROVE  /\ EstimateOf(f, k, 0) \in Nat
         /\ Position(f, k) = k - (IF 1 >= EstimateOf(f, k, 0) THEN 1 ELSE EstimateOf(f, k, 0))
         /\ Position(f, k) \in Int
<1>1. EstimateOf(f, k, 0) \in Nat
  BY EstimateType
<1> DEFINE x == EstimateOf(f, k, 0)
<1> HIDE DEF x
<1>2. x \in Nat /\ x \in Int /\ 1 \in Int
  BY <1>1 DEF x
<1>3. Max({1, x}) = IF 1 >= x THEN 1 ELSE x
  BY <1>2, GreaterOf
<1>4. k - (IF 1 >= x THEN 1 ELSE x) \in Int
  BY <1>2
<1> QED
  BY <1>1, <1>3, <1>4 DEF Position, x

(* The blocks of a call: the marks before it count as one with those in it. *)
LEMMA PositionStep ==
  ASSUME NEW a \in Nat, NEW j \in Nat, a < j
  PROVE  LET marks == Marks(a + 1, j, 0)
         IN  Position(frame_start, j)
               = IF marks = {} THEN Position(frame_start, a) + (j - a)
                 ELSE j - Max(marks)
<1> DEFINE L == M(frame_start, a, 0)
           N == Marks(a + 1, j, 0)
           T == M(frame_start, j, 0)
<1>1. /\ T = L \cup N /\ N \in SUBSET Nat
      /\ \A y \in N : a < y /\ y <= j
      /\ \A x \in L : \A y \in N : x < y
  <2>1. a <= j /\ 0 \in Int
    OBVIOUS
  <2> QED
    BY <2>1, MarksSplit
<1>2. L \in SUBSET Nat /\ T \in SUBSET Nat
  BY MarksType
<1>3. CASE N = {}
  <2>1. EstimateOf(frame_start, j, 0) = EstimateOf(frame_start, a, 0)
    BY <1>1, <1>3 DEF EstimateOf
  <2> DEFINE x == EstimateOf(frame_start, a, 0)
  <2>2. /\ x \in Nat
        /\ Position(frame_start, a) = a - (IF 1 >= x THEN 1 ELSE x)
        /\ Position(frame_start, j) = j - (IF 1 >= x THEN 1 ELSE x)
    BY <2>1, PositionIs
  <2> HIDE DEF x
  <2>3. Position(frame_start, j) = Position(frame_start, a) + (j - a)
    BY <2>2
  <2> QED
    BY <1>3, <2>3
<1>4. CASE N # {}
  <2> DEFINE y == Max(N)
  <2> HIDE DEF L, N, T
  <2>1. y \in N /\ \A z \in N : y >= z
    BY <1>1, <1>4, Greatest
  <2>2. Max(T) \in T /\ \A z \in T : Max(T) >= z
    <3>1. \A x \in T : x <= j
      BY MarksType DEF T
    <3>2. T # {}
      BY <1>1, <1>4
    <3> QED
      BY <1>2, <3>1, <3>2, Greatest
  <2> HIDE DEF y
  <2> DEFINE m == Max(T)
  <2>3. m \in Nat /\ y \in Nat /\ m >= y
    <3>1. y \in T
      BY <1>1, <2>1
    <3> QED
      BY <1>2, <2>2, <3>1
  <2>4. y >= m
    <3>1. CASE m \in N
      BY <2>1, <3>1
    <3>2. CASE m \notin N
      <4>1. m \in L
        BY <1>1, <2>2, <3>2
      <4>2. m < y
        BY <1>1, <2>1, <4>1
      <4> QED
        BY <2>3, <4>2
    <3> QED
      BY <3>1, <3>2
  <2> HIDE DEF m
  <2>5. m = y /\ y >= 1
    <3>1. a < y
      BY <1>1, <2>1
    <3> QED
      BY <2>3, <2>4, <3>1
  <2>6. EstimateOf(frame_start, j, 0) = y
    <3>1. T # {}
      BY <1>1, <1>4
    <3>2. EstimateOf(frame_start, j, 0) = m + 0
      BY <3>1 DEF EstimateOf, T, m
    <3> QED
      BY <2>3, <2>5, <3>2
  <2>7. Position(frame_start, j) = j - (IF 1 >= y THEN 1 ELSE y)
    BY <2>6, PositionIs
  <2>8. Position(frame_start, j) = j - y
    BY <2>3, <2>5, <2>7
  <2> QED
    BY <1>4, <2>8 DEF y, N
<1> QED
  BY <1>3, <1>4

LEMMA TrackStep ==
  ASSUME NEW tr, Tracked(tr, frame_start), NEW b \in Nat, Len(tr.out) + 1 <= b
  PROVE  LET blk == PositionsFrom(tr.d_blk, Len(tr.out) + 1, b)
             t   == [d_blk |-> Last(blk) + 1, out |-> tr.out \o blk]
         IN  Tracked(t, frame_start) /\ Len(t.out) = b
<1> DEFINE n    == Len(tr.out)
           a    == n + 1
           blk  == PositionsFrom(tr.d_blk, a, b)
           t    == [d_blk |-> Last(blk) + 1, out |-> tr.out \o blk]
           p(k) == Position(frame_start, k)
           m    == b - n
<1>1. /\ n \in Nat /\ tr.out \in Seq(Int) /\ tr.d_blk = p(n) + 1
      /\ \A k \in 1..n : tr.out[k] = p(k)
  BY LenProperties DEF Tracked
<1> HIDE DEF n
<1>2. m \in Nat /\ m >= 1 /\ b - a + 1 = m /\ n < b /\ n + m = b
  BY <1>1 DEF n
<1>3. ASSUME NEW k \in 1..m
      PROVE  /\ blk[k] = p(n + k) /\ n + k \in Nat
  <2> DEFINE marks == Marks(a, a + k - 1, 0)
  <2>1. /\ k \in 1..(b - a + 1) /\ a + k - 1 = n + k /\ n + k \in Nat
        /\ n < n + k /\ (n + k) - n = k /\ k \in Int
    BY <1>1, <1>2
  <2>2. blk[k] = IF marks = {} THEN tr.d_blk + k - 1 ELSE a + k - 1 - Max(marks)
    BY <2>1 DEF PositionsFrom
  <2>3. p(n + k) = IF marks = {} THEN p(n) + ((n + k) - n) ELSE (n + k) - Max(marks)
    BY <1>1, <2>1, PositionStep
  <2>4. p(n) \in Int
    BY <1>1, PositionIs
  <2> HIDE DEF p, marks, blk
  <2>5. tr.d_blk + k - 1 = p(n) + k
    BY <1>1, <2>1, <2>4
  <2>6. CASE marks = {}
    <3>1. blk[k] = p(n) + k /\ p(n + k) = p(n) + k
      BY <2>1, <2>2, <2>3, <2>5, <2>6
    <3> QED
      BY <2>1, <3>1
  <2>7. CASE marks # {}
    <3>1. blk[k] = a + k - 1 - Max(marks)
      BY <2>2, <2>7
    <3>2. p(n + k) = (n + k) - Max(marks)
      BY <2>3, <2>7
    <3>3. Max(marks) \in Nat
      <4>1. marks \in SUBSET Nat /\ \A x \in marks : x <= n + k
        BY <1>1, <2>1 DEF Marks, marks
      <4> QED
        BY <2>1, <2>7, <4>1, Greatest
    <3> DEFINE x == Max(marks)
    <3> HIDE DEF x
    <3>4. a + k - 1 - x = (n + k) - x
      BY <1>1, <2>1, <3>3 DEF x
    <3>5. blk[k] = p(n + k)
      BY <3>1, <3>2, <3>4 DEF x
    <3> QED
      BY <2>1, <3>5
  <2> QED
    BY <2>6, <2>7
<1>4. \A k \in Nat : p(k) \in Int
  BY PositionIs
<1>5. blk \in Seq(Int) /\ Len(blk) = m
  <2>1. blk \in [1..m -> Int]
    <3>1. DOMAIN blk = 1..m /\ blk = [k \in 1..m |-> blk[k]]
      BY <1>2 DEF PositionsFrom
    <3> HIDE DEF blk, p, m
    <3>2. \A k \in 1..m : blk[k] \in Int
      BY <1>3, <1>4
    <3> QED
      BY <3>1, <3>2
  <2> HIDE DEF blk, m
  <2> QED
    BY <1>2, <2>1
<1> HIDE DEF blk, p, m
<1> DEFINE v == tr.out
<1>6. v \in Seq(Int) /\ Len(v) = n
  BY <1>1 DEF n
<1> HIDE DEF v
<1>7. /\ v \o blk \in Seq(Int) /\ Len(v \o blk) = Len(v) + Len(blk)
      /\ \A i \in 1..(Len(v) + Len(blk)) :
           (v \o blk)[i] = IF i <= Len(v) THEN v[i] ELSE blk[i - Len(v)]
  BY <1>5, <1>6, ConcatProperties
<1>8. t.out = v \o blk /\ t.d_blk = Last(blk) + 1
  BY DEF v
<1> HIDE DEF t
<1>9. t.out \in Seq(Int) /\ Len(t.out) = b
  BY <1>2, <1>5, <1>6, <1>7, <1>8
<1>10. ASSUME NEW k \in 1..b PROVE t.out[k] = p(k)
  <2>1. k \in 1..(n + m)
    BY <1>2
  <2>2. CASE k <= n
    <3>1. k \in 1..n
      BY <1>1, <2>2
    <3> QED
      BY <1>1, <1>5, <1>6, <1>7, <1>8, <2>1, <2>2, <3>1 DEF v
  <2>3. CASE ~(k <= n)
    <3>1. k - n \in 1..m /\ n + (k - n) = k
      BY <1>1, <1>2, <2>1, <2>3
    <3>2. blk[k - n] = p(k)
      BY <1>3, <3>1
    <3> QED
      BY <1>5, <1>6, <1>7, <1>8, <2>1, <2>3, <3>2
  <2> QED
    BY <2>2, <2>3
<1>11. t.d_blk = p(b) + 1
  <2>1. m \in 1..m
    BY <1>2
  <2>2. blk[m] = p(b)
    BY <1>2, <1>3, <2>1
  <2>3. Last(blk) = blk[m]
    BY <1>5 DEF Last
  <2> QED
    BY <1>8, <2>2, <2>3
<1>12. Tracked(t, frame_start)
  BY <1>9, <1>10, <1>11 DEF Tracked, p
<1> QED
  BY <1>9, <1>12 DEF t, blk, n

-----------------------------------------------------------------------------
(* The streams keep in step.                                               *)

IndInv ==
  /\ frame_start \in Seq(BOOLEAN)
  /\ Sampled(preamble, frame_start, 0, 1) /\ preamble.done <= Len(frame_start)
  /\ Followed(shift, frame_start, preamble.out, 0)
  /\ Len(shift.out) <= Len(frame_start)
  /\ Sampled(chest, frame_start, 1, 1) /\ chest.done <= Len(shift.out)
  /\ Followed(equalizer, frame_start, chest.out, 1)
  /\ Len(equalizer.out) <= Len(shift.out)
  /\ Tracked(tracking, frame_start) /\ Len(tracking.out) <= Len(equalizer.out)
  /\ Sampled(sampler, frame_start, frame_length - 1, frame_length)
  /\ sampler.done <= Len(tracking.out)

LEMMA FrameLength == frame_length \in Nat /\ frame_length - 1 \in Nat
<1>1. frame_length \in Nat /\ 0 \in 0..(frame_length - 1)
  BY FrontAssumption
<1> QED
  BY <1>1

LEMMA Lengths ==
  ASSUME IndInv
  PROVE  /\ Len(frame_start) \in Nat /\ Len(shift.out) \in Nat
         /\ Len(equalizer.out) \in Nat /\ Len(tracking.out) \in Nat
         /\ preamble.done \in Nat /\ chest.done \in Nat /\ sampler.done \in Nat
<1>1. /\ frame_start \in Seq(BOOLEAN) /\ shift.out \in Seq(Nat)
      /\ equalizer.out \in Seq(Nat) /\ tracking.out \in Seq(Int)
  BY DEF IndInv, Followed, Tracked
<1> QED
  BY <1>1, LenProperties DEF IndInv, Sampled

(* What a sampler has put out, with vectors of one block, are the marks.   *)
LEMMA SingleVectors ==
  ASSUME NEW s, NEW f, NEW delay \in Int, Sampled(s, f, delay, 1)
  PROVE  LET m == M(f, s.done, delay)
         IN  /\ Len(s.out) = Cardinality(m) /\ Len(s.out) \in Nat
             /\ \A h \in 1..Len(s.out) : s.out[h] = Ascending(m)[h]
<1> DEFINE m == M(f, s.done, delay)
           q == Ascending(m)
<1>1. s.done \in Int /\ s.out = Firsts(q, 1)
  BY DEF Sampled
<1>2. m \in SUBSET Nat /\ IsFiniteSet(m)
  BY <1>1, MarksType
<1> HIDE DEF m
<1>3. /\ q \in Seq(Nat) /\ Len(q) = Cardinality(m) /\ Cardinality(m) \in Nat
  BY <1>2, Ascends, SeqMonotonic
<1> HIDE DEF q
<1>4. DOMAIN q = 1..Len(q) /\ \A h \in 1..Len(q) : q[h] \in Nat
  BY <1>3, LenProperties, ElementOfSeq
<1>5. Len(Firsts(q, 1)) = Len(q)
  BY <1>3, FirstsJoin
<1>6. \A h \in 1..Len(q) : Firsts(q, 1)[h] = q[h]
  BY <1>4 DEF Firsts, FirstOf
<1> QED
  BY <1>1, <1>3, <1>5, <1>6 DEF q, m

LEMMA Offsets ==
  ASSUME NEW s, NEW f, Sampled(s, f, 0, 1)
  PROVE  Len(s.out) \in Nat /\ Estimates(s.out, f, s.done, 0)
<1> DEFINE q == Ascending(M(f, s.done, 0))
<1>1. 0 \in Int
  OBVIOUS
<1>2. /\ Len(s.out) = Cardinality(M(f, s.done, 0)) /\ Len(s.out) \in Nat
      /\ \A h \in 1..Len(s.out) : s.out[h] = q[h]
  BY <1>1, SingleVectors
<1>3. s.done \in Int /\ M(f, s.done, 0) \in SUBSET Nat /\ IsFiniteSet(M(f, s.done, 0))
  BY <1>1, MarksType DEF Sampled
<1>4. q \in [1..Len(s.out) -> M(f, s.done, 0)]
  BY <1>2, <1>3, Ascends
<1> HIDE DEF q
<1>5. \A h \in 1..Len(s.out) : q[h] \in Nat /\ q[h] + 0 = q[h]
  BY <1>3, <1>4
<1> QED
  BY <1>2, <1>5 DEF Estimates, q

(* The block after a mark is the estimate of the mark.                     *)
LEMMA Channels ==
  ASSUME NEW s, NEW f, Sampled(s, f, 1, 1)
  PROVE  Len(s.out) \in Nat /\ Estimates(s.out, f, s.done - 1, 1)
<1> DEFINE S == M(f, s.done - 1, 0)
           T == M(f, s.done, 1)
<1>1. s.done \in Nat /\ 1 \in Int /\ 0 \in Int /\ s.done - 1 \in Int
  BY DEF Sampled
<1>2. /\ Len(s.out) = Cardinality(T) /\ Len(s.out) \in Nat
      /\ \A h \in 1..Len(s.out) : s.out[h] = Ascending(T)[h]
  BY <1>1, SingleVectors
<1>3. T = Moved(S, 1)
  <2>1. \A k \in T : k - 1 \in S /\ k = (k - 1) + 1
    <3>1. ASSUME NEW k \in T PROVE k - 1 \in S /\ k = (k - 1) + 1
      <4>1. k \in 1..s.done /\ k > 1 /\ f[k - 1]
        BY DEF M
      <4>2. /\ k - 1 \in 1..(s.done - 1) /\ k - 1 > 0 /\ (k - 1) - 0 = k - 1
            /\ k = (k - 1) + 1
        BY <1>1, <4>1
      <4> QED
        BY <4>1, <4>2 DEF M
    <3> QED
      BY <3>1
  <2>2. \A j \in S : j + 1 \in T
    <3>1. ASSUME NEW j \in S PROVE j + 1 \in T
      <4>1. j \in 1..(s.done - 1) /\ f[j - 0]
        BY DEF M
      <4>2. j + 1 \in 1..s.done /\ j + 1 > 1 /\ (j + 1) - 1 = j - 0
        BY <1>1, <4>1
      <4> QED
        BY <4>1, <4>2 DEF M
    <3> QED
      BY <3>1
  <2> QED
    BY <2>1, <2>2 DEF Moved
<1>4. /\ S \in SUBSET Nat /\ IsFiniteSet(S) /\ T \in SUBSET Nat
  BY <1>1, MarksType
<1> HIDE DEF S, T
<1>5. Cardinality(T) = Cardinality(S)
  <2>1. S \in SUBSET Int
    BY <1>4
  <2> QED
    BY <1>1, <1>3, <1>4, <2>1, MovedCount
<1>6. Ascending(T) = [h \in 1..Cardinality(S) |-> Ascending(S)[h] + 1]
  BY <1>1, <1>3, <1>4, MovedOrder
<1> QED
  BY <1>2, <1>5, <1>6 DEF Estimates, S

-----------------------------------------------------------------------------
LEMMA InitInv == Init => IndInv
<1> SUFFICES ASSUME Init PROVE IndInv
  OBVIOUS
<1>1. \A d \in Int : M(<<>>, 0, d) = {}
  <2>1. 1..0 = {}
    OBVIOUS
  <2> QED
    BY <2>1 DEF M
<1>2. \A vlen : Firsts(Ascending({}), vlen) = <<>>
  <2>1. Cardinality({}) = 0 /\ 1..0 = {}
    BY FS_EmptySet
  <2>2. Ascending({}) = <<>>
    BY <2>1 DEF Ascending
  <2> QED
    BY <2>2 DEF Firsts
<1>3. Len(<<>>) = 0 /\ Cardinality({}) = 0
  BY FS_EmptySet
<1>4. \A e : EstimateOf(<<>>, 0, e) = 0
  <2>1. M(<<>>, 0, 0) = {}
    BY <1>1
  <2> QED
    BY <2>1 DEF EstimateOf
<1>5. Position(<<>>, 0) = -1
  <2>1. Max({1, 0}) = 1
    BY GreaterOf
  <2>2. Position(<<>>, 0) = 0 - Max({1, 0})
    BY <1>4 DEF Position
  <2> QED
    BY <2>1, <2>2
<1>6. /\ Sampled(preamble, frame_start, 0, 1) /\ Sampled(chest, frame_start, 1, 1)
      /\ Sampled(sampler, frame_start, frame_length - 1, frame_length)
  <2>1. 0 \in Int /\ 1 \in Int /\ frame_length - 1 \in Int
    BY FrameLength
  <2> QED
    BY <1>1, <1>2, <2>1 DEF Init, Sampled
<1>7. /\ Followed(shift, frame_start, preamble.out, 0)
      /\ Followed(equalizer, frame_start, chest.out, 1)
  <2>1. Cardinality(M(<<>>, 0, 0)) = 0
    BY <1>1, <1>3
  <2>2. ASSUME NEW c, NEW e, c.out = <<>>, c.taken = 0, c.last = 0
        PROVE  Followed(c, <<>>, <<>>, e)
    <3>1. <<>> \in Seq(Nat) /\ 1..0 = {} /\ 0 <= 0
      BY EmptySeq
    <3> QED
      BY <1>3, <1>4, <2>1, <2>2, <3>1 DEF Followed
  <2> QED
    BY <2>2 DEF Init
<1>8. Tracked(tracking, frame_start)
  BY <1>3, <1>5 DEF Init, Tracked
<1> QED
  BY <1>3, <1>6, <1>7, <1>8 DEF Init, IndInv

(* A block that is cut leaves what was done with those before it.          *)
LEMMA CutStep == ASSUME IndInv, NEW start \in BOOLEAN, Cut(start) PROVE IndInv'
<1> DEFINE g == Append(frame_start, start)
           n == Len(frame_start)
<1>1. /\ frame_start' = g
      /\ UNCHANGED <<preamble, shift, chest, equalizer, tracking, sampler>>
  BY DEF Cut
<1>2. /\ frame_start \in Seq(BOOLEAN) /\ g \in Seq(BOOLEAN)
      /\ n \in Nat /\ Len(g) = n + 1
  BY LenProperties DEF IndInv
<1>3. \A b \in Int : \A d \in Nat : b <= n => M(g, b, d) = M(frame_start, b, d)
  BY <1>2, MarksKept
<1> HIDE DEF g
<1>4. ASSUME NEW s, NEW d \in Nat, NEW vlen, s.done <= n,
             Sampled(s, frame_start, d, vlen)
      PROVE  Sampled(s, g, d, vlen)
  <2>1. s.done \in Int /\ M(g, s.done, d) = M(frame_start, s.done, d)
    BY <1>3, <1>4 DEF Sampled
  <2> QED
    BY <1>4, <2>1 DEF Sampled
<1>5. ASSUME NEW k \in Nat, k <= n
      PROVE  /\ M(g, k, 0) = M(frame_start, k, 0)
             /\ \A e : EstimateOf(g, k, e) = EstimateOf(frame_start, k, e)
             /\ Position(g, k) = Position(frame_start, k)
  <2>1. k \in Int /\ 0 \in Nat
    OBVIOUS
  <2>2. M(g, k, 0) = M(frame_start, k, 0)
    BY <1>3, <1>5, <2>1
  <2>3. \A e : EstimateOf(g, k, e) = EstimateOf(frame_start, k, e)
    BY <2>2 DEF EstimateOf
  <2> QED
    BY <2>2, <2>3 DEF Position
<1>6. ASSUME NEW c, NEW est, NEW e, Followed(c, frame_start, est, e), Len(c.out) <= n
      PROVE  Followed(c, g, est, e)
  <2>1. c.out \in Seq(Nat) /\ Len(c.out) \in Nat
    BY <1>6, LenProperties DEF Followed
  <2>2. \A k \in 1..Len(c.out) : k \in Nat /\ k <= n
    BY <1>2, <1>6, <2>1
  <2>3. /\ M(g, Len(c.out), 0) = M(frame_start, Len(c.out), 0)
        /\ EstimateOf(g, Len(c.out), e) = EstimateOf(frame_start, Len(c.out), e)
        /\ \A k \in 1..Len(c.out) : EstimateOf(g, k, e) = EstimateOf(frame_start, k, e)
    BY <1>5, <1>6, <2>1, <2>2
  <2> QED
    BY <1>6, <2>3 DEF Followed
<1>7. ASSUME Tracked(tracking, frame_start), Len(tracking.out) <= n
      PROVE  Tracked(tracking, g)
  <2>1. tracking.out \in Seq(Int) /\ Len(tracking.out) \in Nat
    BY <1>7, LenProperties DEF Tracked
  <2>2. \A k \in 1..Len(tracking.out) : k \in Nat /\ k <= n
    BY <1>2, <1>7, <2>1
  <2>3. /\ Position(g, Len(tracking.out)) = Position(frame_start, Len(tracking.out))
        /\ \A k \in 1..Len(tracking.out) : Position(g, k) = Position(frame_start, k)
    BY <1>5, <1>7, <2>1, <2>2
  <2> QED
    BY <1>7, <2>3 DEF Tracked
<1>8. /\ preamble.done <= n /\ Len(shift.out) <= n /\ chest.done <= n
      /\ Len(equalizer.out) <= n /\ Len(tracking.out) <= n /\ sampler.done <= n
  <2>1. /\ preamble.done <= n /\ Len(shift.out) <= n
        /\ chest.done <= Len(shift.out) /\ Len(equalizer.out) <= Len(shift.out)
        /\ Len(tracking.out) <= Len(equalizer.out) /\ sampler.done <= Len(tracking.out)
    BY DEF IndInv
  <2> QED
    BY <2>1, Lengths
<1>9. /\ Sampled(preamble, g, 0, 1) /\ Sampled(chest, g, 1, 1)
      /\ Sampled(sampler, g, frame_length - 1, frame_length)
  <2>1. 0 \in Nat /\ 1 \in Nat /\ frame_length - 1 \in Nat
    BY FrameLength
  <2> QED
    BY <1>4, <1>8, <2>1 DEF IndInv
<1>10. /\ Followed(shift, g, preamble.out, 0) /\ Followed(equalizer, g, chest.out, 1)
       /\ Tracked(tracking, g)
  BY <1>6, <1>7, <1>8 DEF IndInv
<1>11. preamble.done <= Len(g) /\ Len(shift.out) <= Len(g)
  BY <1>2, <1>8, Lengths
<1> QED
  BY <1>1, <1>2, <1>9, <1>10, <1>11 DEF IndInv

(* More estimates do not change which ones have been taken.                *)
LEMMA MoreEstimates ==
  ASSUME NEW c, NEW f, NEW est, NEW more, NEW e, Followed(c, f, est, e),
         Len(est) \in Nat, Len(more) \in Nat, Len(est) <= Len(more)
  PROVE  Followed(c, f, more, e)
<1>1. c.taken <= Len(est) /\ c.taken \in Nat
  <2>1. c.out \in Seq(Nat) /\ Len(c.out) \in Int /\ 0 \in Int
    BY LenProperties DEF Followed
  <2> QED
    BY <2>1, MarksType DEF Followed
<1>2. c.taken <= Len(more)
  BY <1>1
<1> QED
  BY <1>2 DEF Followed

LEMMA MoreSampled ==
  ASSUME NEW s, NEW t, NEW f, NEW d \in Int, s.done <= t.done,
         Sampled(s, f, d, 1), Sampled(t, f, d, 1)
  PROVE  Len(s.out) \in Nat /\ Len(t.out) \in Nat /\ Len(s.out) <= Len(t.out)
<1>1. s.done \in Nat /\ t.done \in Nat
  BY DEF Sampled
<1>2. M(f, s.done, d) \subseteq M(f, t.done, d)
  <2>1. \A k \in 1..s.done : k \in 1..t.done
    BY <1>1
  <2> QED
    BY <2>1 DEF M
<1>3. /\ IsFiniteSet(M(f, t.done, d))
      /\ Cardinality(M(f, s.done, d)) <= Cardinality(M(f, t.done, d))
  BY <1>1, <1>2, MarksType, FS_Subset
<1> QED
  BY <1>3, SingleVectors

LEMMA EstimateOffsetStep ==
  ASSUME IndInv, NEW room \in Rooms, EstimateOffset(room) PROVE IndInv'
<1> DEFINE n == Len(frame_start)
           t == Sample(preamble, n, 0, 1, room)
<1>1. /\ preamble' = t
      /\ UNCHANGED <<frame_start, shift, chest, equalizer, tracking, sampler>>
  BY DEF EstimateOffset
<1>2. n \in Nat /\ room \in Nat /\ 0 \in Int /\ 1 \in Int
  BY Lengths, FrontAssumption DEF Rooms
<1>3. Sampled(preamble, frame_start, 0, 1) /\ preamble.done <= n
  BY DEF IndInv
<1>4. Sampled(t, frame_start, 0, 1) /\ preamble.done <= t.done /\ t.done <= n
  BY <1>2, <1>3, SampleStep
<1> HIDE DEF t
<1>5. /\ Len(preamble.out) \in Nat /\ Len(t.out) \in Nat
      /\ Len(preamble.out) <= Len(t.out)
  BY <1>2, <1>3, <1>4, MoreSampled
<1>6. Followed(shift, frame_start, t.out, 0)
  BY <1>5, MoreEstimates DEF IndInv
<1> QED
  BY <1>1, <1>4, <1>6 DEF IndInv

LEMMA FrequencyShiftStep ==
  ASSUME IndInv, NEW room \in Rooms, FrequencyShift(room) PROVE IndInv'
<1> DEFINE n == Len(frame_start)
           t == Correct(shift, n, preamble.out, room)
<1>1. /\ shift' = t
      /\ UNCHANGED <<frame_start, preamble, chest, equalizer, tracking, sampler>>
  BY DEF FrequencyShift
<1>2. n \in Nat /\ room \in Nat /\ 0 \in Nat /\ preamble.done \in Int
  BY Lengths, FrontAssumption DEF Rooms
<1>3. Len(preamble.out) \in Nat /\ Estimates(preamble.out, frame_start, preamble.done, 0)
  BY Offsets DEF IndInv
<1>4. Followed(shift, frame_start, preamble.out, 0) /\ Len(shift.out) <= n
  BY DEF IndInv
<1>5. /\ Followed(t, frame_start, preamble.out, 0)
      /\ Len(shift.out) <= Len(t.out) /\ Len(t.out) <= n
  BY <1>2, <1>3, <1>4, CorrectStep
<1> HIDE DEF t
<1>6. chest.done <= Len(t.out) /\ Len(equalizer.out) <= Len(t.out)
  <2>1. Len(t.out) \in Nat
    BY <1>5, LenProperties DEF Followed
  <2>2. chest.done <= Len(shift.out) /\ Len(equalizer.out) <= Len(shift.out)
    BY DEF IndInv
  <2> QED
    BY <1>5, <2>1, <2>2, Lengths
<1> QED
  BY <1>1, <1>5, <1>6 DEF IndInv

LEMMA EstimateChannelStep ==
  ASSUME IndInv, NEW room \in Rooms, EstimateChannel(room) PROVE IndInv'
<1> DEFINE n == Len(shift.out)
           t == Sample(chest, n, 1, 1, room)
<1>1. /\ chest' = t
      /\ UNCHANGED <<frame_start, preamble, shift, equalizer, tracking, sampler>>
  BY DEF EstimateChannel
<1>2. n \in Nat /\ room \in Nat /\ 1 \in Int
  BY Lengths, FrontAssumption DEF Rooms
<1>3. Sampled(chest, frame_start, 1, 1) /\ chest.done <= n
  BY DEF IndInv
<1>4. Sampled(t, frame_start, 1, 1) /\ chest.done <= t.done /\ t.done <= n
  BY <1>2, <1>3, SampleStep
<1> HIDE DEF t
<1>5. /\ Len(chest.out) \in Nat /\ Len(t.out) \in Nat
      /\ Len(chest.out) <= Len(t.out)
  BY <1>2, <1>3, <1>4, MoreSampled
<1>6. Followed(equalizer, frame_start, t.out, 1)
  BY <1>5, MoreEstimates DEF IndInv
<1> QED
  BY <1>1, <1>4, <1>6 DEF IndInv

LEMMA EqualizeStep ==
  ASSUME IndInv, NEW room \in Rooms, Equalize(room) PROVE IndInv'
<1> DEFINE n == Len(shift.out)
           t == Correct(equalizer, n, chest.out, room)
<1>1. /\ equalizer' = t
      /\ UNCHANGED <<frame_start, preamble, shift, chest, tracking, sampler>>
  BY DEF Equalize
<1>2. n \in Nat /\ room \in Nat /\ 1 \in Nat /\ chest.done - 1 \in Int
  BY Lengths, FrontAssumption DEF Rooms
<1>3. Len(chest.out) \in Nat /\ Estimates(chest.out, frame_start, chest.done - 1, 1)
  BY Channels DEF IndInv
<1>4. Followed(equalizer, frame_start, chest.out, 1) /\ Len(equalizer.out) <= n
  BY DEF IndInv
<1>5. /\ Followed(t, frame_start, chest.out, 1)
      /\ Len(equalizer.out) <= Len(t.out) /\ Len(t.out) <= n
  BY <1>2, <1>3, <1>4, CorrectStep
<1> HIDE DEF t
<1>6. Len(tracking.out) <= Len(t.out)
  <2>1. Len(t.out) \in Nat
    BY <1>5, LenProperties DEF Followed
  <2>2. Len(tracking.out) <= Len(equalizer.out)
    BY DEF IndInv
  <2> QED
    BY <1>5, <2>1, <2>2, Lengths
<1> QED
  BY <1>1, <1>5, <1>6 DEF IndInv

LEMMA TrackPhaseStep ==
  ASSUME IndInv, NEW room \in Rooms, TrackPhase(room) PROVE IndInv'
<1> DEFINE a   == Len(tracking.out) + 1
           b   == Min({Len(equalizer.out), Len(tracking.out) + room})
           blk == PositionsFrom(tracking.d_blk, a, b)
           t   == [d_blk |-> Last(blk) + 1, out |-> tracking.out \o blk]
<1>1. /\ a <= b /\ tracking' = t
      /\ UNCHANGED <<frame_start, preamble, shift, chest, equalizer, sampler>>
  BY DEF TrackPhase
<1>2. b \in Nat /\ b <= Len(equalizer.out)
  <2> DEFINE x == Len(equalizer.out)
             y == Len(tracking.out) + room
  <2>1. x \in Nat /\ y \in Nat
    BY Lengths, FrontAssumption DEF Rooms
  <2> HIDE DEF x, y
  <2>2. Min({x, y}) = IF x <= y THEN x ELSE y
    BY <2>1, LesserOf
  <2>3. Min({x, y}) \in Nat /\ Min({x, y}) <= x
    BY <2>1, <2>2
  <2> QED
    BY <2>3 DEF x, y
<1> HIDE DEF b
<1>3. Tracked(t, frame_start) /\ Len(t.out) = b
  BY <1>1, <1>2, TrackStep DEF IndInv
<1> HIDE DEF t
<1>4. sampler.done <= Len(t.out) /\ Len(t.out) <= Len(equalizer.out)
  <2>1. sampler.done <= Len(tracking.out)
    BY DEF IndInv
  <2> QED
    BY <1>1, <1>2, <1>3, <2>1, Lengths
<1> QED
  BY <1>1, <1>3, <1>4 DEF IndInv

LEMMA SampleFrameStep ==
  ASSUME IndInv, NEW room \in Rooms, SampleFrame(room) PROVE IndInv'
<1> DEFINE n == Len(tracking.out)
           t == Sample(sampler, n, frame_length - 1, frame_length, room)
<1>1. /\ sampler' = t
      /\ UNCHANGED <<frame_start, preamble, shift, chest, equalizer, tracking>>
  BY DEF SampleFrame
<1>2. n \in Nat /\ room \in Nat /\ frame_length \in Int /\ frame_length - 1 \in Int
  BY Lengths, FrameLength, FrontAssumption DEF Rooms
<1>3. /\ Sampled(sampler, frame_start, frame_length - 1, frame_length)
      /\ sampler.done <= n
  BY DEF IndInv
<1>4. Sampled(t, frame_start, frame_length - 1, frame_length) /\ t.done <= n
  BY <1>2, <1>3, SampleStep
<1> QED
  BY <1>1, <1>4 DEF IndInv

LEMMA StepInv == IndInv /\ [Next]_vars => IndInv'
<1> SUFFICES ASSUME IndInv, [Next]_vars PROVE IndInv'
  OBVIOUS
<1>1. ASSUME NEW start \in BOOLEAN, Cut(start) PROVE IndInv'
  BY <1>1, CutStep
<1>2. ASSUME NEW room \in Rooms, EstimateOffset(room) PROVE IndInv'
  BY <1>2, EstimateOffsetStep
<1>3. ASSUME NEW room \in Rooms, FrequencyShift(room) PROVE IndInv'
  BY <1>3, FrequencyShiftStep
<1>4. ASSUME NEW room \in Rooms, EstimateChannel(room) PROVE IndInv'
  BY <1>4, EstimateChannelStep
<1>5. ASSUME NEW room \in Rooms, Equalize(room) PROVE IndInv'
  BY <1>5, EqualizeStep
<1>6. ASSUME NEW room \in Rooms, TrackPhase(room) PROVE IndInv'
  BY <1>6, TrackPhaseStep
<1>7. ASSUME NEW room \in Rooms, SampleFrame(room) PROVE IndInv'
  BY <1>7, SampleFrameStep
<1>8. ASSUME NEW room \in Rooms, FilterBlocks(room) PROVE IndInv'
  <2>1. UNCHANGED <<frame_start, preamble, shift, chest, equalizer, tracking, sampler>>
    BY <1>8 DEF FilterBlocks
  <2> QED
    BY <2>1 DEF IndInv
<1>9. CASE UNCHANGED vars
  BY <1>9 DEF vars, IndInv
<1> QED
  BY <1>1, <1>2, <1>3, <1>4, <1>5, <1>6, <1>7, <1>8, <1>9 DEF Next, Sync

-----------------------------------------------------------------------------
(* What the invariant says of the properties.                              *)

LEMMA StartIs ==
  ASSUME frame_start \in Seq(BOOLEAN), NEW k \in Nat, k <= Len(frame_start)
  PROVE  /\ StartOf(k) = EstimateOf(frame_start, k, 0)
         /\ EstimateOf(frame_start, k, 1)
              = IF StartOf(k) = 0 THEN 0 ELSE StartOf(k) + 1
<1> DEFINE T == M(frame_start, k, 0)
           U == {0} \cup T
<1>1. Len(frame_start) \in Nat /\ DOMAIN frame_start = 1..Len(frame_start)
  BY LenProperties
<1>2. T = {p \in Starts : p <= k}
  <2>1. \A p \in Int : p \in 1..k /\ p > 0 <=> p \in 1..Len(frame_start) /\ p <= k
    BY <1>1
  <2>2. \A p \in Int : p - 0 = p
    OBVIOUS
  <2> QED
    BY <1>1, <2>1, <2>2 DEF M, Starts
<1>3. StartOf(k) = Max(U)
  BY <1>2 DEF StartOf
<1>4. T \in SUBSET Nat /\ \A x \in T : x >= 1 /\ x <= k
  <2>1. k \in Int /\ 0 \in Int
    OBVIOUS
  <2> QED
    BY <2>1, MarksType
<1> HIDE DEF T
<1>5. Max(U) \in U /\ \A x \in U : Max(U) >= x
  <2>1. U \in SUBSET Nat /\ U # {} /\ \A x \in U : x <= k
    BY <1>4
  <2> HIDE DEF U
  <2> QED
    BY <2>1, Greatest
<1>6. CASE T = {}
  <2>1. Max(U) = 0
    BY <1>5, <1>6
  <2>2. EstimateOf(frame_start, k, 0) = 0 /\ EstimateOf(frame_start, k, 1) = 0
    BY <1>6 DEF EstimateOf, T
  <2> QED
    BY <1>3, <2>1, <2>2
<1>7. CASE T # {}
  <2>1. Max(T) \in T /\ \A x \in T : Max(T) >= x
    BY <1>4, <1>7, Greatest
  <2> DEFINE x == Max(U)
             y == Max(T)
  <2>2. /\ y \in T /\ y \in Nat /\ y >= 1 /\ x >= y
        /\ x \in Nat /\ (x = 0 \/ x \in T)
    <3>1. y \in T /\ y \in Nat /\ y >= 1
      BY <1>4, <2>1
    <3>2. y \in U /\ x \in U
      BY <1>5, <3>1
    <3>3. x >= y
      BY <1>5, <3>2
    <3> HIDE DEF x, y
    <3>4. x = 0 \/ x \in T
      BY <3>2
    <3>5. x \in Nat
      <4>1. \A z \in T : z \in Nat
        BY <1>4
      <4>2. 0 \in Nat
        OBVIOUS
      <4> QED
        BY <3>4, <4>1, <4>2
    <3> QED
      BY <3>1, <3>3, <3>4, <3>5
  <2>3. x \in T => y >= x
    BY <2>1
  <2> HIDE DEF x, y
  <2>4. x = y /\ x # 0
    BY <2>2, <2>3
  <2>5. EstimateOf(frame_start, k, 0) = y + 0 /\ EstimateOf(frame_start, k, 1) = y + 1
    BY <1>7 DEF EstimateOf, T, y
  <2>6. y + 0 = y
    BY <2>2
  <2> QED
    BY <1>3, <2>4, <2>5, <2>6 DEF x
<1> QED
  BY <1>6, <1>7

LEMMA InvCorrected == IndInv => CorrectedByOwnFrame
<1> SUFFICES ASSUME IndInv PROVE CorrectedByOwnFrame
  OBVIOUS
<1>1. /\ Len(shift.out) <= Len(frame_start)
      /\ Len(equalizer.out) <= Len(frame_start)
      /\ Len(tracking.out) <= Len(frame_start)
  <2>1. /\ Len(shift.out) <= Len(frame_start)
        /\ Len(equalizer.out) <= Len(shift.out)
        /\ Len(tracking.out) <= Len(equalizer.out)
    BY DEF IndInv
  <2> QED
    BY <2>1, Lengths
<1>2. /\ DOMAIN shift.out = 1..Len(shift.out)
      /\ DOMAIN equalizer.out = 1..Len(equalizer.out)
      /\ DOMAIN tracking.out = 1..Len(tracking.out)
  <2>1. /\ shift.out \in Seq(Nat) /\ equalizer.out \in Seq(Nat)
        /\ tracking.out \in Seq(Int)
    BY DEF IndInv, Followed, Tracked
  <2> QED
    BY <2>1, LenProperties
<1>3. frame_start \in Seq(BOOLEAN)
  BY DEF IndInv
<1>4. ASSUME NEW n \in Nat, n <= Len(frame_start), NEW k \in 1..n
      PROVE  k \in Nat /\ k <= Len(frame_start)
  BY <1>4, Lengths
<1>5. ASSUME NEW k \in DOMAIN shift.out PROVE shift.out[k] = StartOf(k)
  <2>1. k \in 1..Len(shift.out) /\ k \in Nat /\ k <= Len(frame_start)
    BY <1>1, <1>2, <1>4, Lengths
  <2>2. shift.out[k] = EstimateOf(frame_start, k, 0)
    BY <2>1 DEF IndInv, Followed
  <2> QED
    BY <1>3, <2>1, <2>2, StartIs
<1>6. ASSUME NEW k \in DOMAIN equalizer.out
      PROVE  equalizer.out[k] = IF StartOf(k) = 0 THEN 0 ELSE StartOf(k) + 1
  <2>1. k \in 1..Len(equalizer.out) /\ k \in Nat /\ k <= Len(frame_start)
    BY <1>1, <1>2, <1>4, Lengths
  <2>2. equalizer.out[k] = EstimateOf(frame_start, k, 1)
    BY <2>1 DEF IndInv, Followed
  <2> QED
    BY <1>3, <2>1, <2>2, StartIs
<1>7. ASSUME NEW k \in DOMAIN tracking.out
      PROVE  tracking.out[k] = k - Max({1, StartOf(k)})
  <2>1. k \in 1..Len(tracking.out) /\ k \in Nat /\ k <= Len(frame_start)
    BY <1>1, <1>2, <1>4, Lengths
  <2>2. tracking.out[k] = Position(frame_start, k)
    BY <2>1 DEF IndInv, Tracked
  <2> QED
    BY <1>3, <2>1, <2>2, StartIs DEF Position
<1> QED
  BY <1>5, <1>6, <1>7 DEF CorrectedByOwnFrame

LEMMA InvOneFrame == IndInv => OneFramePerStart
<1> SUFFICES ASSUME IndInv PROVE OneFramePerStart
  OBVIOUS
<1> DEFINE d == frame_length - 1
           S == {p \in Starts : p + frame_length - 1 <= sampler.done}
           T == M(frame_start, sampler.done, d)
<1>1. d \in Nat /\ frame_length \in Nat
  BY FrameLength
<1>2. /\ frame_start \in Seq(BOOLEAN) /\ DOMAIN frame_start = 1..Len(frame_start)
      /\ Len(frame_start) \in Nat
  BY LenProperties DEF IndInv
<1>3. sampler.done \in Nat /\ sampler.done <= Len(frame_start)
  <2>1. /\ Len(shift.out) <= Len(frame_start)
        /\ Len(equalizer.out) <= Len(shift.out)
        /\ Len(tracking.out) <= Len(equalizer.out)
        /\ sampler.done <= Len(tracking.out)
    BY DEF IndInv
  <2> QED
    BY <2>1, Lengths
<1>4. T = Moved(S, d)
  <2>1. ASSUME NEW k \in T PROVE k - d \in S /\ k = (k - d) + d
    <3>1. k \in 1..sampler.done /\ k > d /\ frame_start[k - d]
      BY DEF M
    <3> HIDE DEF T
    <3>2. /\ k - d \in 1..Len(frame_start) /\ (k - d) + frame_length - 1 <= sampler.done
          /\ k = (k - d) + d
      BY <1>1, <1>2, <1>3, <3>1
    <3> QED
      BY <1>2, <3>1, <3>2 DEF Starts
  <2>2. ASSUME NEW p \in S PROVE p + d \in T
    <3>1. /\ p \in 1..Len(frame_start) /\ frame_start[p]
          /\ p + frame_length - 1 <= sampler.done
      BY <1>2 DEF Starts
    <3> HIDE DEF S
    <3>2. p + d \in 1..sampler.done /\ p + d > d /\ (p + d) - d = p
      BY <1>1, <1>2, <1>3, <3>1
    <3> QED
      BY <3>1, <3>2 DEF M
  <2> HIDE DEF S, T, d
  <2> QED
    BY <2>1, <2>2 DEF Moved
<1>5. T \in SUBSET Nat
  BY <1>1, <1>3, MarksType
<1>6. S \in SUBSET Nat /\ IsFiniteSet(S)
  <2>1. S \in SUBSET (1..Len(frame_start))
    BY <1>2 DEF Starts
  <2>2. IsFiniteSet(1..Len(frame_start))
    BY <1>2, FS_Interval
  <2> HIDE DEF S
  <2>3. IsFiniteSet(S)
    BY <2>1, <2>2, FS_Subset
  <2>4. \A k \in 1..Len(frame_start) : k \in Nat
    OBVIOUS
  <2> QED
    BY <2>1, <2>3, <2>4
<1> HIDE DEF S, T
<1>7. Ascending(T) = [h \in 1..Cardinality(S) |-> Ascending(S)[h] + d]
  <2>1. d \in Int
    BY <1>1
  <2> QED
    BY <1>4, <1>5, <1>6, <2>1, MovedOrder
<1>8. sampler.out = Firsts(Ascending(T), frame_length)
  BY DEF IndInv, Sampled, T
<1>9. /\ Ascending(S) \in [1..Cardinality(S) -> S]
      /\ \A h \in 1..Cardinality(S) : Ascending(S)[h] \in Nat
  BY <1>6, Ascends
<1>10. \A x \in Nat : FirstOf(x + d, frame_length) = x
  BY <1>1 DEF FirstOf
<1>11. sampler.out = [h \in 1..Cardinality(S) |-> Ascending(S)[h]]
  <2> HIDE DEF d
  <2>1. DOMAIN Ascending(T) = 1..Cardinality(S)
    BY <1>7
  <2>2. \A h \in 1..Cardinality(S) : FirstOf(Ascending(T)[h], frame_length) = Ascending(S)[h]
    BY <1>7, <1>9, <1>10
  <2> QED
    BY <1>8, <2>1, <2>2 DEF Firsts
<1>12. sampler.out = Ascending(S)
  BY <1>9, <1>11
<1> QED
  BY <1>12 DEF OneFramePerStart, S

-----------------------------------------------------------------------------
(* The streams keep in step: what every block has put out is determined by *)
(* the marks it has consumed and the estimates it has taken, whichever     *)
(* threads run and however much room their buffers have.                   *)
THEOREM Invariance == Spec => []IndInv
<1>1. Init => IndInv
  BY InitInv
<1>2. IndInv /\ [Next]_vars => IndInv'
  BY StepInv
<1> QED
  BY <1>1, <1>2, PTL DEF Spec

(* Each block is corrected with the estimates of its own frame, however    *)
(* the calls of the threads fall, for every frame length, size of the      *)
(* buffers and number of blocks.                                           *)
THEOREM Corrected == Spec => []CorrectedByOwnFrame
<1>1. IndInv => CorrectedByOwnFrame
  BY InvCorrected
<1> QED
  BY <1>1, Invariance, PTL

(* The frame sampler puts out one frame for each mark, in order, and loses *)
(* none, for every frame length, size of the buffers and number of blocks. *)
THEOREM FramePerStart == Spec => []OneFramePerStart
<1>1. IndInv => OneFramePerStart
  BY InvOneFrame
<1> QED
  BY <1>1, Invariance, PTL

-----------------------------------------------------------------------------
(* pilot_block_filter.                                                     *)

(* Data blocks among the first k blocks of the frames.                     *)
DataDone(k) ==
  (k \div frame_length) * Cardinality(DataPositions)
    + Cardinality(Below(DataPositions, k % frame_length))

LEMMA Positions ==
  /\ frame_length \in Nat \ {0}
  /\ DataPositions \in SUBSET Nat /\ IsFiniteSet(DataPositions)
  /\ DataPositions \subseteq 0..(frame_length - 1)
  /\ Cardinality(DataPositions) \in Nat \ {0}
<1>1. frame_length \in Nat /\ frame_length # 0
  <2>1. 0 \in 0..(frame_length - 1)
    BY FrontAssumption
  <2> QED
    BY <2>1, FrontAssumption
<1>2. DataPositions \subseteq 0..(frame_length - 1) /\ DataPositions # {}
  BY FrontAssumption DEF DataPositions
<1>3. IsFiniteSet(0..(frame_length - 1))
  BY <1>1, FS_Interval
<1>4. IsFiniteSet(DataPositions)
  BY <1>2, <1>3, FS_Subset
<1>5. Cardinality(DataPositions) \in Nat /\ Cardinality(DataPositions) # 0
  BY <1>2, <1>4, FS_CardinalityType, FS_EmptySet
<1> QED
  BY <1>1, <1>2, <1>4, <1>5

(* How many data positions are before the next one.                        *)
LEMMA BelowNext ==
  ASSUME NEW r \in 0..(frame_length - 1)
  PROVE  /\ Cardinality(Below(DataPositions, r)) \in Nat
         /\ Cardinality(UpTo(DataPositions, r))
              = Cardinality(Below(DataPositions, r))
                  + (IF r \in DataPositions THEN 1 ELSE 0)
<1>1. Below(DataPositions, r) \in SUBSET DataPositions
  BY DEF Below
<1>2. Cardinality(Below(DataPositions, r)) \in Nat
  BY <1>1, Positions, FS_Subset, FS_CardinalityType
<1>3. CASE r \in DataPositions
  BY <1>2, <1>3, Positions, Ranks
<1>4. CASE r \notin DataPositions
  <2>1. \A x \in DataPositions : x \in Nat /\ x # r /\ r \in Nat
    BY <1>4, Positions
  <2>2. \A x \in DataPositions : x <= r <=> x < r
    BY <2>1
  <2>3. UpTo(DataPositions, r) = Below(DataPositions, r)
    BY <2>2 DEF UpTo, Below
  <2> QED
    BY <1>2, <1>4, <2>3
<1> QED
  BY <1>3, <1>4

LEMMA DataDoneStep ==
  ASSUME NEW k \in Nat
  PROVE  LET r == k % frame_length
             n == Cardinality(DataPositions)
         IN  /\ DataDone(k) \in Nat
             /\ DataDone(k + 1) = DataDone(k) + (IF r \in DataPositions THEN 1 ELSE 0)
             /\ r \in DataPositions =>
                  /\ DataDone(k) \div n = k \div frame_length
                  /\ DataDone(k) % n = Cardinality(Below(DataPositions, r))
<1> DEFINE n == Cardinality(DataPositions)
           q == k \div frame_length
           r == k % frame_length
           c == Cardinality(Below(DataPositions, r))
<1>1. n \in Nat \ {0} /\ frame_length \in Nat \ {0}
  BY Positions
<1>2. q \in Nat /\ r \in 0..(frame_length - 1)
  BY <1>1, DivMod
<1>3. c \in Nat /\ Cardinality(UpTo(DataPositions, r)) = c + (IF r \in DataPositions THEN 1 ELSE 0)
  BY <1>2, BelowNext
<1>4. DataDone(k) = q * n + c
  BY DEF DataDone
<1>5. q * n \in Nat /\ (q + 1) * n = q * n + n
  <2> HIDE DEF q, n
  <2> QED
    BY <1>1, <1>2
<1>6. DataDone(k + 1) = q * n + Cardinality(UpTo(DataPositions, r))
  <2>1. CASE r = frame_length - 1
    <3>1. (k + 1) \div frame_length = q + 1 /\ (k + 1) % frame_length = 0
      BY <1>1, <2>1, DivModSucc
    <3>2. \A x \in DataPositions : x \in Nat /\ x <= r /\ ~(x < 0)
      BY <2>1, Positions
    <3>3. Below(DataPositions, 0) = {} /\ UpTo(DataPositions, r) = DataPositions
      BY <3>2 DEF Below, UpTo
    <3>4. DataDone(k + 1) = (q + 1) * n + 0
      BY <3>1, <3>3, FS_EmptySet DEF DataDone
    <3> HIDE DEF q, n
    <3> QED
      BY <1>1, <1>5, <3>3, <3>4 DEF n
  <2>2. CASE r # frame_length - 1
    <3>1. (k + 1) \div frame_length = q /\ (k + 1) % frame_length = r + 1
      BY <1>1, <2>2, DivModSucc
    <3>2. \A x \in DataPositions : x \in Nat /\ r \in Nat
      BY <1>2, Positions
    <3>3. \A x \in DataPositions : x < r + 1 <=> x <= r
      BY <3>2
    <3>4. Below(DataPositions, r + 1) = UpTo(DataPositions, r)
      BY <3>3 DEF Below, UpTo
    <3> QED
      BY <3>1, <3>4 DEF DataDone
  <2> QED
    BY <2>1, <2>2
<1>7. ASSUME r \in DataPositions
      PROVE  DataDone(k) \div n = q /\ DataDone(k) % n = c
  <2>1. c \in 0..(n - 1)
    BY <1>7, Positions, Ranks
  <2> HIDE DEF n, q, c, r
  <2>2. DataDone(k) = n * q + c
    BY <1>1, <1>2, <1>3, <1>4
  <2> QED
    BY <1>1, <1>2, <2>1, <2>2, DivModIs
<1> HIDE DEF n, q, c, r
<1>8. DataDone(k) \in Nat
  BY <1>3, <1>4, <1>5
<1>9. DataDone(k + 1) = DataDone(k) + (IF r \in DataPositions THEN 1 ELSE 0)
  BY <1>3, <1>4, <1>5, <1>6
<1> QED
  BY <1>7, <1>8, <1>9 DEF n, q, c, r

(* What skip has let through of the frames f when it has done s.done       *)
(* blocks of them.                                                         *)
Passed(s, f) ==
  LET n       == Cardinality(DataPositions)
      offsets == Ascending(DataPositions)
  IN  /\ s \in SkipLocals
      /\ s.done <= frame_length * Len(f)
      /\ s.d_item = IF s.done = 0 THEN frame_length
                    ELSE ((s.done - 1) % frame_length) + 1
      /\ Len(s.out) = DataDone(s.done) /\ Len(s.trigger) = Len(s.out)
      /\ \A d \in 1..Len(s.out) :
           /\ (d - 1) \div n + 1 \in 1..Len(f)
           /\ s.out[d] = f[(d - 1) \div n + 1] + offsets[((d - 1) % n) + 1]
           /\ s.trigger[d] = ((d - 1) % n = 0)

(* An item is the place in the frame, whatever the count was before.       *)
LEMMA ItemIs ==
  ASSUME NEW s, NEW f, Passed(s, f)
  PROVE  /\ Item(s, s.done + 1) = s.done % frame_length
         /\ s.done \in Nat /\ s.done % frame_length \in 0..(frame_length - 1)
<1>1. s.done \in Nat /\ (s.done + 1) - 1 = s.done /\ frame_length \in Nat \ {0}
  BY Positions DEF Passed, SkipLocals
<1>2. s.done % frame_length \in 0..(frame_length - 1)
  BY <1>1, DivMod
<1>3. StaticTrigger(s.done + 1) <=> s.done % frame_length = 0
  BY <1>1 DEF StaticTrigger
<1>4. CASE s.done % frame_length = 0
  BY <1>1, <1>2, <1>3, <1>4 DEF Item
<1>5. CASE s.done % frame_length # 0
  <2> DEFINE k == s.done - 1
  <2>1. s.done # 0
    BY <1>1, <1>5
  <2>2. k \in Nat /\ k + 1 = s.done
    BY <1>1, <2>1
  <2>3. s.done % frame_length = (k % frame_length) + 1
    <3> HIDE DEF k
    <3>1. (k + 1) % frame_length # 0
      BY <1>5, <2>2
    <3>2. (k + 1) % frame_length = (k % frame_length) + 1
      BY <1>1, <2>2, <3>1, DivModSucc
    <3> QED
      BY <2>2, <3>2
  <2>4. s.d_item = (k % frame_length) + 1
    BY <2>1 DEF Passed
  <2> QED
    BY <1>1, <1>2, <1>3, <1>5, <2>3, <2>4 DEF Item
<1> QED
  BY <1>1, <1>2, <1>4, <1>5

(* The frames' first blocks are far enough from the last block.            *)
Whole(f) ==
  /\ f \in Seq(Nat)
  /\ \A k \in 1..Len(f) : f[k] + frame_length - 1 <= BlockMax

LEMMA SymbolIs ==
  ASSUME Whole(sampler.out), NEW k \in Nat, k < frame_length * Len(sampler.out)
  PROVE  /\ Symbol(k + 1) = sampler.out[k \div frame_length + 1] + (k % frame_length)
         /\ Symbol(k + 1) \in Blocks
         /\ k \div frame_length + 1 \in 1..Len(sampler.out)
<1> DEFINE q == k \div frame_length
           r == k % frame_length
           f == sampler.out
<1>1. (k + 1) - 1 = k /\ frame_length \in Nat \ {0} /\ BlockMax \in Nat
  BY Positions, FrontAssumption
<1>2. k = frame_length * q + r /\ q \in Nat /\ r \in 0..(frame_length - 1)
  BY <1>1, DivMod
<1>3. Symbol(k + 1) = f[q + 1] + r
  BY <1>1 DEF Symbol
<1>4. Len(f) \in Nat
  BY LenProperties DEF Whole
<1>5. q + 1 \in 1..Len(f)
  <2> HIDE DEF q, r, f
  <2>1. frame_length * q < frame_length * Len(f)
    BY <1>1, <1>2, <1>4 DEF f
  <2>2. q < Len(f)
    BY <1>1, <1>2, <1>4, <2>1
  <2> QED
    BY <1>2, <1>4, <2>2
<1>6. f[q + 1] \in Nat /\ f[q + 1] + frame_length - 1 <= BlockMax
  BY <1>5, ElementOfSeq DEF Whole
<1>7. f[q + 1] + r \in Blocks
  <2> HIDE DEF q, r, f
  <2> QED
    BY <1>1, <1>2, <1>6 DEF Blocks
<1> QED
  BY <1>3, <1>5, <1>7

LEMMA SkipStep ==
  ASSUME Whole(sampler.out), NEW s, Passed(s, sampler.out),
         s.done # frame_length * Len(sampler.out)
  PROVE  Passed(SkipItem(s, s.done + 1), sampler.out)
<1> DEFINE f       == sampler.out
           k       == s.done
           n       == Cardinality(DataPositions)
           offsets == Ascending(DataPositions)
           r       == k % frame_length
           t       == SkipItem(s, k + 1)
<1>1. /\ k \in Nat /\ r \in 0..(frame_length - 1) /\ Item(s, k + 1) = r
      /\ frame_length \in Nat \ {0}
  BY ItemIs, Positions
<1>2. /\ s \in SkipLocals /\ Len(f) \in Nat /\ k <= frame_length * Len(f)
      /\ Len(s.out) = DataDone(k) /\ Len(s.trigger) = Len(s.out)
  BY LenProperties DEF Passed, Whole
<1>3. k < frame_length * Len(f) /\ k + 1 <= frame_length * Len(f) /\ k + 1 \in Nat
      /\ k + 1 # 0
  <2>1. frame_length * Len(f) \in Nat
    BY <1>1, <1>2
  <2> HIDE DEF f, k
  <2> QED
    BY SMTT(30), <1>1, <1>2, <2>1 DEF f, k
<1>4. r + 1 = (((k + 1) - 1) % frame_length) + 1 /\ r + 1 \in 0..frame_length
  BY <1>1
<1>5. /\ s.out \in Seq(Blocks) /\ s.trigger \in Seq(BOOLEAN)
      /\ s.done \in Nat /\ s.d_item \in 0..frame_length
  BY <1>2 DEF SkipLocals
<1>6. ~(r >= frame_length)
  BY <1>1
<1>7. CASE r \in pilotsym_pos
  <2>1. t = [s EXCEPT !.done = k + 1, !.d_item = r + 1]
    BY <1>1, <1>2, <1>6, <1>7 DEF SkipItem, SkipLocals
  <2>2. /\ t \in SkipLocals /\ t.done = k + 1 /\ t.d_item = r + 1
        /\ t.out = s.out /\ t.trigger = s.trigger
    <3> HIDE DEF t, k, r
    <3> QED
      BY <1>2, <1>3, <1>4, <2>1 DEF SkipLocals
  <2>3. DataDone(k + 1) = DataDone(k)
    <3>1. r \notin DataPositions
      BY <1>7 DEF DataPositions
    <3>2. DataDone(k) \in Nat /\ DataDone(k + 1) = DataDone(k) + 0
      BY <1>1, <3>1, DataDoneStep
    <3> QED
      BY <3>2
  <2>4. t.d_item = IF t.done = 0 THEN frame_length
                   ELSE ((t.done - 1) % frame_length) + 1
    BY <1>3, <1>4, <2>2
  <2> HIDE DEF t
  <2>5. Passed(t, f)
    BY <1>2, <1>3, <2>2, <2>3, <2>4 DEF Passed
  <2> QED
    BY <2>5 DEF t
<1>8. CASE r \notin pilotsym_pos
  <2> DEFINE m == Len(s.out)
             c == Cardinality(Below(DataPositions, r))
             first == (r = Min(DataPositions))
  <2>1. t = [s EXCEPT !.done = k + 1, !.d_item = r + 1,
                      !.out = Append(s.out, Symbol(k + 1)),
                      !.trigger = Append(s.trigger, first)]
    BY <1>1, <1>2, <1>6, <1>8 DEF SkipItem, SkipLocals
  <2>2. /\ Symbol(k + 1) = f[k \div frame_length + 1] + r
        /\ Symbol(k + 1) \in Blocks /\ k \div frame_length + 1 \in 1..Len(f)
    BY <1>1, <1>3, SymbolIs
  <2>3. r \in DataPositions
    BY <1>1, <1>8 DEF DataPositions
  <2>4. /\ DataDone(k) \in Nat /\ DataDone(k + 1) = DataDone(k) + 1
        /\ DataDone(k) \div n = k \div frame_length /\ DataDone(k) % n = c
    BY <1>1, <2>3, DataDoneStep
  <2>5. offsets[c + 1] = r
    BY <2>3, Positions, Ascends
  <2>6. first <=> c = 0
    <3>1. DataPositions \in SUBSET Nat /\ DataPositions # {}
      BY <2>3, Positions
    <3>2. Min(DataPositions) \in DataPositions
          /\ \A y \in DataPositions : Min(DataPositions) <= y
      BY <3>1, Least
    <3>3. \A y \in DataPositions : y \in Nat
      BY <3>1
    <3>4. Below(DataPositions, r) \in SUBSET DataPositions /\ IsFiniteSet(Below(DataPositions, r))
      BY Positions, FS_Subset DEF Below
    <3>5. c = 0 <=> Below(DataPositions, r) = {}
      BY <3>4, FS_EmptySet
    <3>6. Below(DataPositions, r) = {} <=> \A y \in DataPositions : ~(y < r)
      BY DEF Below
    <3>7. CASE first
      BY <2>3, <3>2, <3>3, <3>5, <3>6, <3>7
    <3>8. CASE ~first
      <4>1. Min(DataPositions) < r
        BY <2>3, <3>2, <3>3, <3>8
      <4> QED
        BY <3>2, <3>5, <3>6, <3>8, <4>1
    <3> QED
      BY <3>7, <3>8
  <2> HIDE DEF first
  <2>7. /\ Append(s.out, Symbol(k + 1)) \in Seq(Blocks)
        /\ Len(Append(s.out, Symbol(k + 1))) = m + 1
        /\ \A d \in 1..m : Append(s.out, Symbol(k + 1))[d] = s.out[d]
        /\ Append(s.out, Symbol(k + 1))[m + 1] = Symbol(k + 1)
    <3> HIDE DEF f, k, r
    <3> QED
      BY <1>5, <2>2, AppendProperties
  <2>8. first \in BOOLEAN
    BY DEF first
  <2>9. /\ Append(s.trigger, first) \in Seq(BOOLEAN)
        /\ Len(Append(s.trigger, first)) = m + 1
        /\ \A d \in 1..m : Append(s.trigger, first)[d] = s.trigger[d]
        /\ Append(s.trigger, first)[m + 1] = first
    BY <1>2, <1>5, <2>8, AppendProperties
  <2> HIDE DEF t, k, r, c
  <2>10. /\ t \in SkipLocals /\ t.done = k + 1 /\ t.d_item = r + 1
         /\ t.out = Append(s.out, Symbol(k + 1))
         /\ t.trigger = Append(s.trigger, first)
    BY <1>2, <1>3, <1>4, <2>1, <2>7, <2>9 DEF SkipLocals
  <2>11. m \in Nat /\ m = DataDone(k)
    BY <1>2, <2>4
  <2>12. ASSUME NEW d \in 1..(m + 1)
         PROVE  /\ (d - 1) \div n + 1 \in 1..Len(f)
                /\ t.out[d] = f[(d - 1) \div n + 1] + offsets[((d - 1) % n) + 1]
                /\ t.trigger[d] = ((d - 1) % n = 0)
    <3>1. CASE d = m + 1
      <4>1. d - 1 = DataDone(k)
        BY <2>11, <3>1
      <4> HIDE DEF m, n, f, offsets
      <4>2. t.out[d] = f[(d - 1) \div n + 1] + offsets[((d - 1) % n) + 1]
        BY <2>2, <2>4, <2>5, <2>7, <2>10, <3>1, <4>1
      <4>3. t.trigger[d] = ((d - 1) % n = 0)
        BY <2>4, <2>6, <2>9, <2>10, <3>1, <4>1
      <4>4. (d - 1) \div n + 1 \in 1..Len(f)
        BY <2>2, <2>4, <4>1
      <4> QED
        BY <4>2, <4>3, <4>4
    <3>2. CASE d # m + 1
      <4>1. d \in 1..m
        BY <2>11, <3>2
      <4>2. t.out[d] = s.out[d] /\ t.trigger[d] = s.trigger[d]
        BY <2>7, <2>9, <2>10, <4>1
      <4>3. /\ (d - 1) \div n + 1 \in 1..Len(f)
            /\ s.out[d] = f[(d - 1) \div n + 1] + offsets[((d - 1) % n) + 1]
            /\ s.trigger[d] = ((d - 1) % n = 0)
        BY <4>1 DEF Passed
      <4> QED
        BY <4>2, <4>3
    <3> QED
      BY <3>1, <3>2
  <2>13. /\ Len(t.out) = DataDone(t.done) /\ Len(t.trigger) = Len(t.out)
         /\ Len(t.out) = m + 1
    BY <2>4, <2>7, <2>9, <2>10, <2>11
  <2> HIDE DEF m
  <2>14. t.d_item = IF t.done = 0 THEN frame_length
                    ELSE ((t.done - 1) % frame_length) + 1
    BY <1>3, <1>4, <2>10 DEF k, r
  <2>15. t.done <= frame_length * Len(f)
    BY <1>3, <2>10 DEF k
  <2>16. Passed(t, f)
    BY <2>10, <2>12, <2>13, <2>14, <2>15 DEF Passed
  <2> QED
    BY <2>16 DEF t, k
<1> QED
  BY <1>7, <1>8

LEMMA FilterStep ==
  ASSUME Whole(sampler.out), Passed(skip, sampler.out), NEW room \in Rooms,
         FilterBlocks(room)
  PROVE  Passed(skip', sampler.out)
<1> DEFINE f     == sampler.out
           avail == frame_length * Len(f)
           turn  == [s \in SkipLocals |->
                       IF s.done = avail \/ Len(s.out) = Len(skip.out) + room THEN s
                       ELSE SkipItem(s, s.done + 1)]
           done  == Turns(turn, skip, avail - skip.done)
           I     == {s \in SkipLocals : Passed(s, f)}
<1>1. skip' = [done EXCEPT !.trigger =
                 @ \o [n \in 1..(Len(done.out) - Len(@)) |-> FALSE]]
  BY DEF FilterBlocks
<1>2. skip \in I /\ avail - skip.done \in Nat
  <2>1. skip \in SkipLocals /\ skip.done <= avail /\ skip.done \in Nat
    BY DEF Passed, SkipLocals
  <2>2. avail \in Nat
    <3>1. frame_length \in Nat /\ Len(f) \in Nat
      BY Positions, LenProperties DEF Whole
    <3> QED
      BY <3>1
  <2> HIDE DEF avail
  <2> QED
    BY <2>1, <2>2
<1>3. ASSUME NEW s \in I PROVE turn[s] \in I
  <2>1. s \in SkipLocals /\ Passed(s, f)
    OBVIOUS
  <2>2. ASSUME s.done # avail PROVE SkipItem(s, s.done + 1) \in I
    <3>1. Passed(SkipItem(s, s.done + 1), f)
      BY <2>1, <2>2, SkipStep
    <3> QED
      BY <3>1 DEF Passed
  <2>3. turn[s] = IF s.done = avail \/ Len(s.out) = Len(skip.out) + room THEN s
                  ELSE SkipItem(s, s.done + 1)
    BY <2>1
  <2> HIDE DEF turn, I, avail
  <2> QED
    BY <2>2, <2>3
<1>4. done \in I
  <2> HIDE DEF I, turn, avail
  <2> QED
    BY <1>2, <1>3, LoopInvariant
<1>5. Passed(done, f)
  BY <1>4
<1> HIDE DEF done
<1>6. /\ done \in SkipLocals /\ Len(done.trigger) = Len(done.out)
      /\ done.trigger \in Seq(BOOLEAN) /\ Len(done.out) \in Nat
  <2>1. done \in SkipLocals /\ Len(done.trigger) = Len(done.out)
    BY <1>5 DEF Passed
  <2> QED
    BY <2>1, LenProperties DEF SkipLocals
<1>7. [n \in 1..(Len(done.out) - Len(done.trigger)) |-> FALSE] = << >>
  <2>1. Len(done.out) - Len(done.trigger) = 0 /\ 1..0 = {}
    BY <1>6
  <2>2. [n \in 1..0 |-> FALSE] = << >>
    BY <2>1
  <2> QED
    BY <2>1, <2>2
<1>8. done.trigger \o << >> = done.trigger
  BY <1>6, ConcatEmptySeq
<1>9. skip' = done
  BY <1>1, <1>6, <1>7, <1>8 DEF SkipLocals
<1> QED
  BY <1>5, <1>9

(* Frames that follow change nothing of what was passed.                   *)
LEMMA PassedMore ==
  ASSUME NEW s, NEW f \in Seq(Nat), NEW g \in Seq(Nat), Passed(s, f),
         Len(f) <= Len(g), \A k \in 1..Len(f) : g[k] = f[k]
  PROVE  Passed(s, g)
<1> DEFINE n       == Cardinality(DataPositions)
           offsets == Ascending(DataPositions)
<1>1. /\ Len(f) \in Nat /\ Len(g) \in Nat /\ frame_length \in Nat \ {0}
      /\ n \in Nat \ {0} /\ s.done \in Nat /\ s.done <= frame_length * Len(f)
  BY LenProperties, Positions DEF Passed, SkipLocals
<1>2. s.done <= frame_length * Len(g)
  <2> DEFINE x == frame_length * Len(f)
             y == frame_length * Len(g)
  <2>1. x \in Nat /\ y \in Nat /\ x <= y
    BY <1>1, TimesMonotonic
  <2>2. s.done \in Nat /\ s.done <= x
    BY <1>1
  <2> HIDE DEF x, y
  <2>3. s.done <= y
    BY <2>1, <2>2
  <2> QED
    BY <2>3 DEF y
<1>3. \A d \in 1..Len(s.out) : (d - 1) \div n + 1 \in 1..Len(f)
  BY DEF Passed
<1>4. ASSUME NEW d \in 1..Len(s.out)
      PROVE  /\ (d - 1) \div n + 1 \in 1..Len(g)
             /\ s.out[d] = g[(d - 1) \div n + 1] + offsets[((d - 1) % n) + 1]
  <2>1. g[(d - 1) \div n + 1] = f[(d - 1) \div n + 1]
    BY <1>3
  <2>2. s.out[d] = f[(d - 1) \div n + 1] + offsets[((d - 1) % n) + 1]
    BY DEF Passed
  <2>3. (d - 1) \div n + 1 \in 1..Len(g)
    <3> HIDE DEF n
    <3> QED
      BY <1>1, <1>3
  <2> QED
    BY <2>1, <2>2, <2>3
<1> QED
  BY <1>2, <1>4 DEF Passed

-----------------------------------------------------------------------------
(* What the threads keep has its shape and is within the bounds.           *)

Shapes ==
  /\ Len(frame_start) <= BlockMax
  /\ preamble = [done |-> preamble.done, out |-> preamble.out]
  /\ chest = [done |-> chest.done, out |-> chest.out]
  /\ sampler = [done |-> sampler.done, out |-> sampler.out]
  /\ shift = [need |-> shift.need, taken |-> shift.taken,
              last |-> shift.last, out |-> shift.out]
  /\ shift.need \in 0..1
  /\ equalizer = [need |-> equalizer.need, taken |-> equalizer.taken,
                  last |-> equalizer.last, out |-> equalizer.out]
  /\ equalizer.need \in 0..1
  /\ tracking = [d_blk |-> tracking.d_blk, out |-> tracking.out]

LEMMA CorrectShape ==
  ASSUME NEW c, NEW avail, NEW est, NEW room, c.need \in 0..1
  PROVE  LET t == Correct(c, avail, est, room)
         IN  /\ t = [need |-> t.need, taken |-> t.taken, last |-> t.last, out |-> t.out]
             /\ t.need \in 0..1
<1>1. \A missing, took : Need(missing, took, c.need) \in 0..1
  BY DEF Need
<1> QED
  BY <1>1 DEF Correct

LEMMA ShapesStep == ASSUME IndInv, Shapes, Next PROVE Shapes'
<1>1. ASSUME NEW start \in BOOLEAN, Cut(start) PROVE Shapes'
  <2>1. Len(frame_start) < BlockMax /\ frame_start' = Append(frame_start, start)
        /\ UNCHANGED <<preamble, shift, chest, equalizer, tracking, sampler>>
    BY <1>1 DEF Cut
  <2>2. frame_start \in Seq(BOOLEAN)
    BY DEF IndInv
  <2>3. Len(frame_start') = Len(frame_start) + 1 /\ Len(frame_start) \in Nat
    BY <2>1, <2>2, AppendProperties, LenProperties
  <2>4. Len(frame_start') <= BlockMax
    BY <2>1, <2>3, FrontAssumption
  <2> QED
    BY <2>1, <2>4 DEF Shapes
<1>2. ASSUME NEW room \in Rooms, EstimateOffset(room) PROVE Shapes'
  BY <1>2 DEF EstimateOffset, Sample, Shapes
<1>3. ASSUME NEW room \in Rooms, FrequencyShift(room) PROVE Shapes'
  <2>1. /\ shift' = Correct(shift, Len(frame_start), preamble.out, room)
        /\ UNCHANGED <<frame_start, preamble, chest, equalizer, tracking, sampler>>
    BY <1>3 DEF FrequencyShift
  <2>2. shift.need \in 0..1
    BY DEF Shapes
  <2> QED
    BY <2>1, <2>2, CorrectShape DEF Shapes
<1>4. ASSUME NEW room \in Rooms, EstimateChannel(room) PROVE Shapes'
  BY <1>4 DEF EstimateChannel, Sample, Shapes
<1>5. ASSUME NEW room \in Rooms, Equalize(room) PROVE Shapes'
  <2>1. /\ equalizer' = Correct(equalizer, Len(shift.out), chest.out, room)
        /\ UNCHANGED <<frame_start, preamble, shift, chest, tracking, sampler>>
    BY <1>5 DEF Equalize
  <2>2. equalizer.need \in 0..1
    BY DEF Shapes
  <2> QED
    BY <2>1, <2>2, CorrectShape DEF Shapes
<1>6. ASSUME NEW room \in Rooms, TrackPhase(room) PROVE Shapes'
  BY <1>6 DEF TrackPhase, Shapes
<1>7. ASSUME NEW room \in Rooms, SampleFrame(room) PROVE Shapes'
  BY <1>7 DEF SampleFrame, Sample, Shapes
<1>8. ASSUME NEW room \in Rooms, FilterBlocks(room) PROVE Shapes'
  <2>1. UNCHANGED <<frame_start, preamble, shift, chest, equalizer, tracking, sampler>>
    BY <1>8 DEF FilterBlocks
  <2> QED
    BY <2>1 DEF Shapes
<1> QED
  BY <1>1, <1>2, <1>3, <1>4, <1>5, <1>6, <1>7, <1>8 DEF Next, Sync

(* What a sampler has put out are blocks.                                  *)
LEMMA SampledType ==
  ASSUME NEW s, NEW f, NEW delay \in Nat, NEW vlen \in 1..(delay + 1),
         Sampled(s, f, delay, vlen)
  PROVE  /\ s.out \in Seq(Nat) /\ Len(s.out) \in Nat
         /\ \A h \in 1..Len(s.out) : s.out[h] >= 1 /\ s.out[h] + vlen - 1 <= s.done
<1> DEFINE m == M(f, s.done, delay)
           q == Ascending(m)
<1>1. /\ s.done \in Nat /\ s.out = Firsts(q, vlen) /\ s.done \in Int /\ delay \in Int
      /\ vlen \in Int
  BY DEF Sampled
<1>2. m \in SUBSET Nat /\ IsFiniteSet(m) /\ \A k \in m : k > delay /\ k <= s.done
  <2>1. m \in SUBSET Nat /\ IsFiniteSet(m) /\ \A k \in m : k <= s.done
    BY <1>1, MarksType
  <2>2. \A k \in m : k > delay
    BY DEF M
  <2> QED
    BY <2>1, <2>2
<1> HIDE DEF m
<1>3. q \in Seq(m) /\ q \in Seq(Nat)
  BY <1>2, Ascends, AscendingType
<1> HIDE DEF q
<1>4. /\ Firsts(q, vlen) \in Seq(Int) /\ Len(Firsts(q, vlen)) = Len(q)
      /\ Len(q) \in Nat /\ DOMAIN q = 1..Len(q)
  BY <1>1, <1>3, FirstsJoin, LenProperties
<1>5. \A h \in 1..Len(q) : Firsts(q, vlen)[h] = q[h] - vlen + 1
  BY <1>4 DEF Firsts, FirstOf
<1>6. ASSUME NEW h \in 1..Len(q)
      PROVE  /\ s.out[h] \in Nat /\ s.out[h] >= 1
             /\ s.out[h] + vlen - 1 <= s.done
  <2>1. q[h] \in m
    BY <1>3, ElementOfSeq
  <2>2. q[h] \in Nat /\ q[h] > delay /\ q[h] <= s.done
    BY <1>2, <2>1
  <2>3. s.out[h] = q[h] - vlen + 1
    BY <1>1, <1>5
  <2> QED
    BY <1>1, <2>2, <2>3
<1>7. s.out \in [1..Len(q) -> Nat]
  <2>1. s.out \in [1..Len(q) -> Int]
    BY <1>1, <1>4, LenProperties
  <2> QED
    BY <1>6, <2>1
<1>8. s.out \in Seq(Nat)
  BY SMTT(30), <1>4, <1>7
<1> QED
  BY <1>1, <1>4, <1>6, <1>8

LEMMA SampleAppends ==
  ASSUME NEW s, NEW avail \in Nat, NEW delay \in Int, NEW vlen \in Int,
         NEW room \in Nat, s.done \in Nat, s.done <= avail
  PROVE  \E q \in Seq(Int) : Sample(s, avail, delay, vlen, room).out = s.out \o q
<1> DEFINE N    == Marks(s.done + 1, avail, delay)
           hits == Ascending(N)
           l    == Min({room, Len(hits)})
           out  == SubSeq(hits, 1, l)
           q    == [h \in DOMAIN out |-> FirstOf(out[h], vlen)]
<1>1. N \in SUBSET Nat /\ IsFiniteSet(N)
  BY MarksSplit
<1> HIDE DEF N
<1>2. hits \in Seq(Nat) /\ Len(hits) \in Nat
  BY <1>1, AscendingType, LenProperties
<1> HIDE DEF hits
<1>3. l = IF room <= Len(hits) THEN room ELSE Len(hits)
  BY <1>2, LesserOf
<1> HIDE DEF l
<1>4. out \in Seq(Nat)
  <2>1. l \in Nat /\ l <= Len(hits)
    BY <1>2, <1>3
  <2>2. \A i \in 1..l : hits[i] \in Nat
    <3>1. \A i \in 1..l : i \in 1..Len(hits)
      BY <1>2, <2>1
    <3> QED
      BY <1>2, <3>1, ElementOfSeq
  <2> QED
    BY <1>2, <2>1, <2>2, SubSeqProperties
<1> HIDE DEF out
<1>5. DOMAIN out = 1..Len(out) /\ Len(out) \in Nat /\ \A i \in 1..Len(out) : out[i] \in Nat
  BY <1>4, LenProperties, ElementOfSeq
<1>6. q \in [1..Len(out) -> Int]
  <2>1. \A i \in 1..Len(out) : FirstOf(out[i], vlen) \in Int
    BY <1>5 DEF FirstOf
  <2> QED
    BY <1>5, <2>1
<1>7. q \in Seq(Int)
  <2> HIDE DEF q
  <2> QED
    BY <1>5, <1>6
<1>8. Sample(s, avail, delay, vlen, room).out = s.out \o q
  BY DEF Sample, N, hits, out, l
<1> QED
  BY <1>7, <1>8

(* The frames are whole.                                                   *)
LEMMA FramesWhole ==
  ASSUME IndInv, Shapes
  PROVE  /\ Whole(sampler.out)
         /\ sampler.done <= Len(frame_start) /\ preamble.done <= Len(frame_start)
         /\ chest.done <= Len(frame_start) /\ Len(shift.out) <= Len(frame_start)
         /\ Len(equalizer.out) <= Len(frame_start)
         /\ Len(tracking.out) <= Len(frame_start)
<1>1. /\ Len(frame_start) \in Nat /\ Len(shift.out) \in Nat
      /\ Len(equalizer.out) \in Nat /\ Len(tracking.out) \in Nat
      /\ preamble.done \in Nat /\ chest.done \in Nat /\ sampler.done \in Nat
  BY Lengths
<1>2. /\ preamble.done <= Len(frame_start) /\ Len(shift.out) <= Len(frame_start)
      /\ chest.done <= Len(shift.out) /\ Len(equalizer.out) <= Len(shift.out)
      /\ Len(tracking.out) <= Len(equalizer.out)
      /\ sampler.done <= Len(tracking.out)
  BY DEF IndInv
<1>3. /\ sampler.done <= Len(frame_start) /\ preamble.done <= Len(frame_start)
      /\ chest.done <= Len(frame_start) /\ Len(shift.out) <= Len(frame_start)
      /\ Len(equalizer.out) <= Len(frame_start)
      /\ Len(tracking.out) <= Len(frame_start)
  BY <1>1, <1>2
<1>4. frame_length - 1 \in Nat /\ frame_length \in 1..((frame_length - 1) + 1)
  <2>1. frame_length \in Nat \ {0}
    BY Positions
  <2> QED
    BY <2>1
<1>5. Sampled(sampler, frame_start, frame_length - 1, frame_length)
  BY DEF IndInv
<1>6. /\ sampler.out \in Seq(Nat)
      /\ \A h \in 1..Len(sampler.out) :
           sampler.out[h] + frame_length - 1 <= sampler.done
  BY <1>4, <1>5, SampledType
<1>7. \A h \in 1..Len(sampler.out) : sampler.out[h] \in Nat
  BY <1>6, ElementOfSeq
<1>8. \A h \in 1..Len(sampler.out) : sampler.out[h] + frame_length - 1 <= BlockMax
  <2>1. sampler.done <= BlockMax /\ BlockMax \in Nat
    BY <1>1, <1>3, FrontAssumption DEF Shapes
  <2>2. ASSUME NEW h \in 1..Len(sampler.out)
        PROVE  sampler.out[h] + frame_length - 1 <= BlockMax
    <3> DEFINE x == sampler.out[h]
    <3>1. x \in Nat /\ x + frame_length - 1 <= sampler.done /\ frame_length \in Nat
      BY <1>6, <1>7, FrameLength
    <3> HIDE DEF x
    <3>2. x + frame_length - 1 <= BlockMax
      BY <1>1, <2>1, <3>1
    <3> QED
      BY <3>2 DEF x
  <2> QED
    BY <2>2
<1> QED
  BY <1>3, <1>6, <1>8 DEF Whole

FrontInv == IndInv /\ Shapes /\ Passed(skip, sampler.out)

LEMMA FrontInit == Init => FrontInv
<1> SUFFICES ASSUME Init PROVE FrontInv
  OBVIOUS
<1>1. IndInv
  BY InitInv
<1>2. Shapes
  <2>1. Len(frame_start) = 0 /\ 0 <= BlockMax
    BY FrontAssumption DEF Init
  <2> QED
    BY <2>1 DEF Init, Shapes
<1>3. skip = [done |-> 0, d_item |-> frame_length, out |-> <<>>, trigger |-> <<>>]
  BY DEF Init
<1>4. skip \in SkipLocals
  <2>1. frame_length \in 0..frame_length
    BY Positions
  <2>2. <<>> \in Seq(Blocks) /\ <<>> \in Seq(BOOLEAN)
    BY EmptySeq
  <2> QED
    BY <1>3, <2>1, <2>2 DEF SkipLocals
<1>5. skip.done <= frame_length * Len(sampler.out)
  <2>1. sampler.out = <<>>
    BY DEF Init
  <2>2. frame_length * 0 = 0 /\ Len(<<>>) = 0
    BY Positions
  <2> QED
    BY <1>3, <2>1, <2>2
<1>6. DataDone(0) = 0
  <2>1. 0 \div frame_length = 0 /\ 0 % frame_length = 0
    <3>1. frame_length * 0 + 0 = 0 /\ 0 \in 0..(frame_length - 1)
          /\ frame_length \in Nat \ {0}
      BY Positions
    <3>2. (frame_length * 0 + 0) \div frame_length = 0
          /\ (frame_length * 0 + 0) % frame_length = 0
      BY <3>1, DivModIs
    <3> QED
      BY <3>1, <3>2
  <2>2. \A x \in DataPositions : ~(x < 0)
    BY Positions
  <2>3. Below(DataPositions, 0) = {}
    BY <2>2 DEF Below
  <2>4. 0 * Cardinality(DataPositions) = 0 /\ Cardinality({}) = 0
    BY Positions, FS_EmptySet
  <2>5. DataDone(0) = 0 * Cardinality(DataPositions) + Cardinality({})
    BY <2>1, <2>3 DEF DataDone
  <2> QED
    BY <2>4, <2>5
<1>7. Len(<<>>) = 0 /\ 1..0 = {}
  OBVIOUS
<1>8. Passed(skip, sampler.out)
  BY <1>3, <1>4, <1>5, <1>6, <1>7 DEF Passed
<1> QED
  BY <1>1, <1>2, <1>8 DEF FrontInv

LEMMA FrontStep == FrontInv /\ [Next]_vars => FrontInv'
<1> SUFFICES ASSUME FrontInv, [Next]_vars PROVE FrontInv'
  OBVIOUS
<1>1. IndInv /\ Shapes /\ Passed(skip, sampler.out) /\ Whole(sampler.out)
  BY FramesWhole DEF FrontInv
<1>2. IndInv'
  BY <1>1, StepInv
<1>3. Shapes'
  <2>1. CASE Next
    BY <1>1, <2>1, ShapesStep
  <2>2. CASE UNCHANGED vars
    BY <1>1, <2>2 DEF vars, Shapes
  <2> QED
    BY <2>1, <2>2
<1>4. ASSUME NEW room \in Rooms, FilterBlocks(room)
      PROVE  Passed(skip, sampler.out)'
  <2>1. Passed(skip', sampler.out)
    BY <1>1, <1>4, FilterStep
  <2>2. sampler' = sampler
    BY <1>4 DEF FilterBlocks
  <2> QED
    BY <2>1, <2>2
<1>5. ASSUME NEW room \in Rooms, SampleFrame(room)
      PROVE  Passed(skip, sampler.out)'
  <2> DEFINE f == sampler.out
             g == sampler'.out
  <2>1. /\ sampler' = Sample(sampler, Len(tracking.out), frame_length - 1,
                              frame_length, room)
        /\ skip' = skip
    BY <1>5 DEF SampleFrame
  <2>2. /\ Len(tracking.out) \in Nat /\ sampler.done \in Nat
        /\ sampler.done <= Len(tracking.out)
        /\ frame_length \in Int /\ frame_length - 1 \in Int /\ room \in Nat
    BY <1>1, Lengths, FrameLength, FrontAssumption DEF IndInv, Rooms
  <2> DEFINE t == Sample(sampler, Len(tracking.out), frame_length - 1,
                         frame_length, room)
  <2>0. \E q \in Seq(Int) : t.out = f \o q
    BY ZenonT(60), <2>2, SampleAppends
  <2> HIDE DEF t
  <2>3. PICK q \in Seq(Int) : g = f \o q
    BY <2>0, <2>1 DEF t
  <2>4. f \in Seq(Nat) /\ f \in Seq(Int)
    BY <1>1, SeqMonotonic DEF Whole
  <2>5. g \in Seq(Nat)
    <3>1. Sampled(sampler', frame_start', frame_length - 1, frame_length)
      BY <1>2 DEF IndInv
    <3>2. frame_length - 1 \in Nat /\ frame_length \in 1..((frame_length - 1) + 1)
      <4>1. frame_length \in Nat \ {0}
        BY Positions
      <4> QED
        BY <4>1
    <3> QED
      BY <3>1, <3>2, SampledType
  <2>6. Len(f) \in Nat /\ Len(q) \in Nat
    BY <2>3, <2>4, LenProperties
  <2> HIDE DEF f, g
  <2>7. /\ Len(g) = Len(f) + Len(q)
        /\ \A i \in 1..(Len(f) + Len(q)) : g[i] = IF i <= Len(f) THEN f[i] ELSE q[i - Len(f)]
    BY <2>3, <2>4, ConcatProperties
  <2>8. Len(f) <= Len(g) /\ \A i \in 1..Len(f) : g[i] = f[i]
    BY <2>6, <2>7
  <2>9. Passed(skip, f)
    BY <1>1 DEF f
  <2>10. Passed(skip, g)
    BY <2>4, <2>5, <2>8, <2>9, PassedMore
  <2> QED
    BY <2>1, <2>10 DEF g
<1>6. ASSUME UNCHANGED <<sampler, skip>> PROVE Passed(skip, sampler.out)'
  BY <1>1, <1>6
<1>7. Passed(skip, sampler.out)'
  BY <1>4, <1>5, <1>6
     DEF Next, Sync, Cut, EstimateOffset, FrequencyShift, EstimateChannel, Equalize,
         TrackPhase, vars
<1> QED
  BY <1>2, <1>3, <1>7 DEF FrontInv

-----------------------------------------------------------------------------
(* What the invariant says of the properties.                              *)

LEMMA InvDataBlocks == FrontInv => DataBlocksFramed
<1> SUFFICES ASSUME FrontInv PROVE DataBlocksFramed
  OBVIOUS
<1> DEFINE n       == Cardinality(DataPositions)
           offsets == Ascending(DataPositions)
<1>1. Passed(skip, sampler.out)
  BY DEF FrontInv
<1>2. Len(offsets) = n
  BY Positions, Ascends
<1>3. skip.out \in Seq(Blocks)
  BY <1>1 DEF Passed, SkipLocals
<1>4. DOMAIN skip.out = 1..Len(skip.out)
  BY <1>3, LenProperties
<1>5. /\ Len(skip.trigger) = Len(skip.out)
      /\ \A d \in 1..Len(skip.out) :
           /\ skip.out[d] = sampler.out[(d - 1) \div n + 1] + offsets[((d - 1) % n) + 1]
           /\ skip.trigger[d] = ((d - 1) % n = 0)
  BY <1>1 DEF Passed
<1> HIDE DEF n
<1> QED
  BY <1>2, <1>4, <1>5 DEF DataBlocksFramed, n

(* A sequence of naturals within bounds.                                   *)
LEMMA BlockSeq ==
  ASSUME NEW q \in Seq(Int), NEW lo \in Nat,
         \A k \in 1..Len(q) : lo <= q[k] /\ q[k] <= BlockMax
  PROVE  q \in Seq({b \in Blocks : lo <= b})
<1> DEFINE T == {b \in Blocks : lo <= b}
<1>1. Len(q) \in Nat /\ q \in [1..Len(q) -> Int]
  BY LenProperties
<1>2. \A k \in 1..Len(q) : q[k] \in T
  BY <1>1, FrontAssumption DEF Blocks
<1> HIDE DEF T
<1>3. q \in [1..Len(q) -> T]
  BY <1>1, <1>2
<1>4. q \in Seq(T)
  BY <1>1, <1>3
<1> QED
  BY <1>4 DEF T

LEMMA SamplerType ==
  ASSUME NEW s, NEW f, NEW delay \in Nat, NEW vlen \in 1..(delay + 1),
         Sampled(s, f, delay, vlen), s.done <= BlockMax,
         s = [done |-> s.done, out |-> s.out]
  PROVE  s \in Sampler
<1>1. /\ s.out \in Seq(Nat) /\ s.done \in Nat
      /\ \A h \in 1..Len(s.out) : s.out[h] >= 1 /\ s.out[h] + vlen - 1 <= s.done
  BY SampledType DEF Sampled
<1>2. ASSUME NEW h \in 1..Len(s.out) PROVE 1 <= s.out[h] /\ s.out[h] <= BlockMax
  <2>1. s.out[h] \in Nat
    BY <1>1, ElementOfSeq
  <2> DEFINE x == s.out[h]
  <2>2. x >= 1 /\ x + vlen - 1 <= s.done
    BY <1>1
  <2>3. x \in Nat /\ s.done \in Nat /\ s.done <= BlockMax /\ BlockMax \in Nat
        /\ vlen \in Nat /\ vlen >= 1
    BY <1>1, <2>1, FrontAssumption
  <2> HIDE DEF x
  <2>4. 1 <= x /\ x <= BlockMax
    BY <2>2, <2>3
  <2> QED
    BY <2>4 DEF x
<1>3. s.out \in Seq(Int)
  BY <1>1, SeqMonotonic
<1>4. s.out \in Seq({b \in Blocks : 1 <= b})
  BY <1>2, <1>3, BlockSeq
<1>5. {b \in Blocks : 1 <= b} \subseteq Blocks \ {0}
  OBVIOUS
<1>6. s.out \in Seq(Blocks \ {0})
  BY <1>4, <1>5, SeqMonotonic
<1>7. s.done \in Blocks
  BY <1>1, FrontAssumption DEF Blocks
<1> QED
  BY <1>6, <1>7 DEF Sampler

(* The estimate of a mark that has been taken is one of those made.        *)
LEMMA EstimateBound ==
  ASSUME NEW f, NEW est, NEW b \in Int, NEW e \in Nat, NEW k \in Nat, NEW m \in Nat,
         k <= m, Estimates(est, f, b, e), Cardinality(M(f, m, 0)) <= Len(est),
         \A h \in 1..Len(est) : est[h] <= BlockMax, Len(est) \in Nat
  PROVE  EstimateOf(f, k, e) \in Blocks
<1>1. EstimateOf(f, k, e) \in Nat
  BY EstimateType
<1>2. CASE M(f, k, 0) = {}
  <2>1. EstimateOf(f, k, e) = 0
    BY <1>2 DEF EstimateOf
  <2> QED
    BY <2>1, FrontAssumption DEF Blocks
<1>3. CASE M(f, k, 0) # {}
  <2>1. M(f, k, 0) \subseteq M(f, m, 0)
    <3>1. \A j \in 1..k : j \in 1..m
      OBVIOUS
    <3> QED
      BY <3>1 DEF M
  <2>2. /\ IsFiniteSet(M(f, m, 0)) /\ Cardinality(M(f, m, 0)) \in Nat
        /\ Cardinality(M(f, k, 0)) \in Nat /\ IsFiniteSet(M(f, k, 0))
    BY MarksType
  <2>3. Cardinality(M(f, k, 0)) <= Cardinality(M(f, m, 0))
    BY <2>1, <2>2, FS_Subset
  <2>4. Cardinality(M(f, k, 0)) # 0
    BY <1>3, <2>2, FS_EmptySet
  <2>5. Cardinality(M(f, k, 0)) \in 1..Len(est)
    BY <2>2, <2>3, <2>4
  <2>6. est[Cardinality(M(f, k, 0))] = EstimateOf(f, k, e)
    BY <1>3, <2>5, EstimateAt
  <2>7. EstimateOf(f, k, e) <= BlockMax
    BY <2>5, <2>6
  <2> QED
    BY <1>1, <2>7, FrontAssumption DEF Blocks
<1> QED
  BY <1>2, <1>3

LEMMA CorrectionType ==
  ASSUME NEW c, NEW f, NEW est, NEW b \in Int, NEW e \in Nat,
         Followed(c, f, est, e), Estimates(est, f, b, e), Len(est) \in Nat,
         \A h \in 1..Len(est) : est[h] <= BlockMax, Len(c.out) <= BlockMax,
         c = [need |-> c.need, taken |-> c.taken, last |-> c.last, out |-> c.out],
         c.need \in 0..1
  PROVE  c \in Correction
<1> DEFINE m == Len(c.out)
<1>1. c.out \in Seq(Nat) /\ m \in Nat
  BY LenProperties DEF Followed
<1>2. Cardinality(M(f, m, 0)) <= Len(est)
  BY DEF Followed
<1>3. \A k \in Nat : k <= m => EstimateOf(f, k, e) \in Blocks
  <2> HIDE DEF m
  <2> QED
    BY <1>1, <1>2, EstimateBound
<1>4. c.last \in Blocks
  BY <1>1, <1>3 DEF Followed
<1>5. c.taken \in Blocks
  <2>1. c.taken = Cardinality(M(f, m, 0))
    BY DEF Followed
  <2>1a. IsFiniteSet(1..m) /\ Cardinality(1..m) = m
    <3>1. m \in Nat
      BY <1>1
    <3>2. m \in Int /\ 1 \in Int
      BY <3>1
    <3> HIDE DEF m
    <3>3. IsFiniteSet(1..m) /\ Cardinality(1..m) = IF 1 > m THEN 0 ELSE m - 1 + 1
      BY <3>2, FS_Interval
    <3> QED
      BY <3>1, <3>3
  <2>2. M(f, m, 0) \subseteq 1..m
    BY DEF M
  <2>3. c.taken \in Nat /\ c.taken <= m
    BY <1>1, <2>1, <2>1a, <2>2, FS_Subset, FS_CardinalityType
  <2> QED
    BY <1>1, <2>3, FrontAssumption DEF Blocks
<1>6. c.out \in Seq(Blocks)
  <2>1. \A k \in 1..m : c.out[k] \in Blocks
    BY <1>1, <1>3 DEF Followed
  <2>2. c.out \in [1..m -> Nat]
    BY <1>1, LenProperties
  <2> HIDE DEF m
  <2>3. c.out \in [1..m -> Blocks]
    BY <2>1, <2>2
  <2> QED
    BY <1>1, <2>3
<1> QED
  BY <1>4, <1>5, <1>6 DEF Correction

LEMMA TrackingType ==
  ASSUME NEW t, NEW f, Tracked(t, f), Len(t.out) <= BlockMax,
         t = [d_blk |-> t.d_blk, out |-> t.out]
  PROVE  t \in [d_blk : Blocks, out : Seq(Blocks)]
<1> DEFINE m == Len(t.out)
<1>1. t.out \in Seq(Int) /\ m \in Nat
  BY LenProperties DEF Tracked
<1>2. ASSUME NEW k \in Nat, k <= m
      PROVE  Position(f, k) <= k - 1 /\ Position(f, k) >= -1 /\ Position(f, k) \in Int
             /\ (k > 0 => Position(f, k) >= 0)
  <2> DEFINE x == EstimateOf(f, k, 0)
  <2>1. x \in Nat /\ Position(f, k) = k - (IF 1 >= x THEN 1 ELSE x)
    BY PositionIs
  <2>2. x <= k
    <3>1. CASE M(f, k, 0) = {}
      BY <3>1 DEF EstimateOf
    <3>2. CASE M(f, k, 0) # {}
      <4>1. M(f, k, 0) \in SUBSET Nat /\ \A y \in M(f, k, 0) : y <= k
        BY MarksType
      <4>2. Max(M(f, k, 0)) \in M(f, k, 0)
        BY <3>2, <4>1, Greatest
      <4>3. Max(M(f, k, 0)) \in Nat /\ Max(M(f, k, 0)) <= k
        BY <4>1, <4>2
      <4>4. x = Max(M(f, k, 0)) + 0
        BY <3>2 DEF EstimateOf
      <4> QED
        BY <4>3, <4>4
    <3> QED
      BY <3>1, <3>2
  <2> HIDE DEF x
  <2> QED
    BY <2>1, <2>2
<1>3. t.d_blk \in Blocks
  <2>1. t.d_blk = Position(f, m) + 1
    BY DEF Tracked
  <2>2. Position(f, m) <= m - 1 /\ Position(f, m) >= -1 /\ Position(f, m) \in Int
    BY <1>1, <1>2
  <2> HIDE DEF m
  <2>3. Position(f, m) + 1 \in Nat /\ Position(f, m) + 1 <= m
    BY <1>1, <2>2
  <2> QED
    BY <1>1, <2>1, <2>3, FrontAssumption DEF Blocks, m
<1>4. t.out \in Seq(Blocks)
  <2>1. ASSUME NEW k \in 1..m PROVE t.out[k] \in Blocks
    <3>1. t.out[k] = Position(f, k)
      BY DEF Tracked
    <3>2. Position(f, k) \in Int /\ Position(f, k) >= 0 /\ Position(f, k) <= k - 1
      BY <1>1, <1>2
    <3> QED
      BY <1>1, <3>1, <3>2, FrontAssumption DEF Blocks
  <2>2. t.out \in [1..m -> Int]
    BY <1>1, LenProperties
  <2> HIDE DEF m
  <2>3. t.out \in [1..m -> Blocks]
    BY <2>1, <2>2
  <2> QED
    BY <1>1, <2>3
<1> QED
  BY <1>3, <1>4

LEMMA InvTypes == FrontInv => TypeOK
<1> SUFFICES ASSUME FrontInv PROVE TypeOK
  OBVIOUS
<1>1. IndInv /\ Shapes /\ Passed(skip, sampler.out)
  BY DEF FrontInv
<1>2. /\ Len(frame_start) \in Nat /\ Len(shift.out) \in Nat
      /\ Len(equalizer.out) \in Nat /\ Len(tracking.out) \in Nat
      /\ preamble.done \in Nat /\ chest.done \in Nat /\ sampler.done \in Nat
      /\ Len(frame_start) <= BlockMax /\ BlockMax \in Nat
  BY <1>1, Lengths, FrontAssumption DEF Shapes
<1>3. /\ sampler.done <= BlockMax /\ preamble.done <= BlockMax
      /\ chest.done <= BlockMax /\ Len(shift.out) <= BlockMax
      /\ Len(equalizer.out) <= BlockMax /\ Len(tracking.out) <= BlockMax
  BY <1>1, <1>2, FramesWhole
<1>4. /\ Sampled(preamble, frame_start, 0, 1) /\ Sampled(chest, frame_start, 1, 1)
      /\ Sampled(sampler, frame_start, frame_length - 1, frame_length)
  BY <1>1 DEF IndInv
<1>5. /\ 0 \in Nat /\ 1 \in Nat /\ 1 \in 1..(0 + 1) /\ 1 \in 1..(1 + 1)
      /\ frame_length - 1 \in Nat /\ frame_length \in 1..((frame_length - 1) + 1)
  BY Positions
<1>6. preamble \in Sampler
  BY <1>1, <1>3, <1>4, <1>5, SamplerType DEF Shapes
<1>7. chest \in Sampler
  BY <1>1, <1>3, <1>4, <1>5, SamplerType DEF Shapes
<1>8. sampler \in Sampler
  BY <1>1, <1>3, <1>4, <1>5, SamplerType DEF Shapes
<1>9. \A s \in Sampler : \A h \in 1..Len(s.out) : s.out[h] <= BlockMax
  <2>1. ASSUME NEW s \in Sampler, NEW h \in 1..Len(s.out) PROVE s.out[h] <= BlockMax
    <3>1. s.out \in Seq(Blocks \ {0})
      BY DEF Sampler
    <3>2. s.out[h] \in Blocks \ {0}
      BY <3>1, ElementOfSeq
    <3> QED
      BY <3>2, FrontAssumption DEF Blocks
  <2> QED
    BY <2>1
<1>10. shift \in Correction
  <2>1. Len(preamble.out) \in Nat /\ Estimates(preamble.out, frame_start, preamble.done, 0)
    BY <1>4, Offsets
  <2>2. Followed(shift, frame_start, preamble.out, 0)
    BY <1>1 DEF IndInv
  <2>3. /\ shift = [need |-> shift.need, taken |-> shift.taken,
                    last |-> shift.last, out |-> shift.out]
        /\ shift.need \in 0..1
    BY <1>1 DEF Shapes
  <2>4. \A h \in 1..Len(preamble.out) : preamble.out[h] <= BlockMax
    BY <1>6, <1>9
  <2>5. preamble.done \in Int
    BY <1>2
  <2> QED
    BY <1>3, <1>5, <2>1, <2>2, <2>3, <2>4, <2>5, CorrectionType
<1>11. equalizer \in Correction
  <2>1. Len(chest.out) \in Nat /\ Estimates(chest.out, frame_start, chest.done - 1, 1)
    BY <1>4, Channels
  <2>2. Followed(equalizer, frame_start, chest.out, 1)
    BY <1>1 DEF IndInv
  <2>3. /\ equalizer = [need |-> equalizer.need, taken |-> equalizer.taken,
                        last |-> equalizer.last, out |-> equalizer.out]
        /\ equalizer.need \in 0..1
    BY <1>1 DEF Shapes
  <2>4. \A h \in 1..Len(chest.out) : chest.out[h] <= BlockMax
    BY <1>7, <1>9
  <2>5. chest.done - 1 \in Int
    BY <1>2
  <2> QED
    BY <1>3, <1>5, <2>1, <2>2, <2>3, <2>4, <2>5, CorrectionType
<1>12. tracking \in [d_blk : Blocks, out : Seq(Blocks)]
  <2>1. Tracked(tracking, frame_start)
        /\ tracking = [d_blk |-> tracking.d_blk, out |-> tracking.out]
    BY <1>1 DEF IndInv, Shapes
  <2> QED
    BY <1>3, <2>1, TrackingType
<1>13. skip \in SkipLocals
  BY <1>1 DEF Passed
<1>14. frame_start \in Seq(BOOLEAN) /\ Len(frame_start) \in Blocks
  BY <1>1, <1>2 DEF IndInv, Blocks
<1> QED
  BY <1>6, <1>7, <1>8, <1>10, <1>11, <1>12, <1>13, <1>14 DEF TypeOK

LEMMA FrontInvariance == Spec => []FrontInv
<1>1. Init => FrontInv
  BY FrontInit
<1>2. FrontInv /\ [Next]_vars => FrontInv'
  BY FrontStep
<1> QED
  BY <1>1, <1>2, PTL DEF Spec

(* The receiver front end is type correct for every frame length, buffer   *)
(* size and room: no estimate is of a block that has not been cut, and the *)
(* count of the pilot block filter stays within the frame.                 *)
THEOREM FrontTypes == Spec => []TypeOK
<1>1. FrontInv => TypeOK
  BY InvTypes
<1> QED
  BY <1>1, FrontInvariance, PTL

(* The pilot block filter hands on the data blocks of the frames, in       *)
(* order, with the mark on the first of each frame, for every frame        *)
(* length, every position of the preambles and every division into calls.  *)
THEOREM DataBlocks == Spec => []DataBlocksFramed
<1>1. FrontInv => DataBlocksFramed
  BY InvDataBlocks
<1> QED
  BY <1>1, FrontInvariance, PTL
=============================================================================
