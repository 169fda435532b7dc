----------------------------- MODULE BasicLemmas -----------------------------
(***************************************************************************)
(* Facts that the proofs of several components rest on: division with      *)
(* remainder, least and greatest elements, what a loop computes and what   *)
(* sequences joined to one contain, which is proved by the least turn that *)
(* would be the first to violate it.                                       *)
(***************************************************************************)
EXTENDS Loops, SequencesExt, SequenceTheorems, FiniteSetTheorems,
        WellFoundedInduction, TLAPS

(* Division with remainder, as C++ does it on non-negative operands.       *)
LEMMA DivMod ==
  ASSUME NEW N \in Nat \ {0}, NEW n \in Nat
  PROVE  /\ n = N * (n \div N) + (n % N)
         /\ n % N \in 0..(N - 1)
         /\ n \div N \in Nat
  OBVIOUS

(* The quotient and the remainder are the only ones.                       *)
LEMMA DivModUnique ==
  ASSUME NEW N \in Nat \ {0}, NEW q \in Int, NEW p \in Int,
         NEW r \in 0..(N - 1), NEW s \in 0..(N - 1),
         N * q + r = N * p + s
  PROVE  q = p /\ r = s
<1>1. q = p
  OBVIOUS
<1> QED
  BY <1>1

(* Numbers less than N apart with the same remainder are equal: N ids tell *)
(* N consecutive frames apart.                                             *)
LEMMA ModUnique ==
  ASSUME NEW N \in Nat \ {0}, NEW m \in Nat, NEW n \in Nat,
         m % N = n % N, m <= n, n - m < N
  PROVE  m = n
<1> DEFINE q == n \div N
           p == m \div N
<1>1. /\ n = N * q + (n % N) /\ q \in Nat
      /\ m = N * p + (n % N) /\ p \in Nat
  BY DivMod
<1> HIDE DEF q, p
<1>2. N * q - N * p < N /\ N * p <= N * q
  BY <1>1
<1>3. N * q - N * p = N * (q - p)
  BY <1>1
<1>4. N * (q - p) < N /\ N * (q - p) >= 0
  BY <1>1, <1>2, <1>3
<1>5. q - p < 1 /\ q - p >= 0
  BY <1>1, <1>4
<1>6. q = p
  BY <1>1, <1>5
<1> QED
  BY <1>1, <1>6

LEMMA DivModIs ==
  ASSUME NEW N \in Nat \ {0}, NEW q \in Nat, NEW r \in 0..(N - 1)
  PROVE  (N * q + r) \div N = q /\ (N * q + r) % N = r
<1> DEFINE n == N * q + r
           p == n \div N
           t == n % N
<1>1. n \in Nat
  OBVIOUS
<1> HIDE DEF n
<1>2. n = N * p + t /\ t \in 0..(N - 1) /\ p \in Int
  BY <1>1, DivMod
<1>3. N * p + t = N * q + r /\ q \in Int
  BY <1>2 DEF n
<1> HIDE DEF p, t
<1>4. p = q /\ t = r
  BY <1>2, <1>3, DivModUnique
<1> QED
  BY <1>4 DEF p, t, n

LEMMA TimesMonotonic ==
  ASSUME NEW a \in Nat, NEW b \in Nat, NEW c \in Nat, a <= b
  PROVE  c * a \in Nat /\ c * b \in Nat /\ c * a <= c * b
<1>1. c * b = c * a + c * (b - a) /\ c * (b - a) \in Nat /\ c * a \in Nat
  OBVIOUS
<1> QED
  BY <1>1

LEMMA TimesCancel ==
  ASSUME NEW a \in Int, NEW b \in Int, NEW c \in Nat \ {0}, c * a < c * b
  PROVE  a < b
<1>1. SUFFICES ASSUME b <= a PROVE FALSE
  OBVIOUS
<1>2. c * a = c * b + c * (a - b) /\ c * (a - b) >= 0
  BY <1>1
<1> QED
  BY <1>2

(* From one number to the next.                                            *)
LEMMA DivModSucc ==
  ASSUME NEW N \in Nat \ {0}, NEW n \in Nat
  PROVE  IF n % N = N - 1
         THEN (n + 1) \div N = (n \div N) + 1 /\ (n + 1) % N = 0
         ELSE (n + 1) \div N = n \div N /\ (n + 1) % N = (n % N) + 1
<1> DEFINE q == n \div N
           r == n % N
<1>1. n = N * q + r /\ q \in Nat /\ r \in 0..(N - 1)
  BY DivMod
<1> HIDE DEF q, r
<1>2. CASE r = N - 1
  <2>1. n + 1 = N * (q + 1) + 0 /\ q + 1 \in Nat /\ 0 \in 0..(N - 1)
    BY <1>1, <1>2
  <2>2. (N * (q + 1) + 0) \div N = q + 1 /\ (N * (q + 1) + 0) % N = 0
    BY <2>1, DivModIs
  <2>3. (n + 1) \div N = q + 1 /\ (n + 1) % N = 0
    BY <2>1, <2>2
  <2> QED
    BY <1>2, <2>3 DEF q, r
<1>3. CASE r # N - 1
  <2>1. n + 1 = N * q + (r + 1) /\ r + 1 \in 0..(N - 1)
    BY <1>1, <1>3
  <2>2. (N * q + (r + 1)) \div N = q /\ (N * q + (r + 1)) % N = r + 1
    BY <1>1, <2>1, DivModIs
  <2>3. (n + 1) \div N = q /\ (n + 1) % N = r + 1
    BY <2>1, <2>2
  <2> QED
    BY <1>3, <2>3 DEF q, r
<1> QED
  BY <1>2, <1>3 DEF r

(* Counting modulo N step by step is counting and reducing.                *)
LEMMA ModSucc ==
  ASSUME NEW N \in Nat \ {0}, NEW n \in Nat
  PROVE  ((n % N) + 1) % N = (n + 1) % N
<1>1. n % N \in 0..(N - 1)
  BY DivMod
<1>2. CASE n % N = N - 1
  <2>1. (n % N) + 1 = N * 1 + 0 /\ 0 \in 0..(N - 1)
    BY <1>1, <1>2
  <2>2. (N * 1 + 0) % N = 0
    BY <2>1, DivModIs
  <2> QED
    BY <1>2, <2>1, <2>2, DivModSucc
<1>3. CASE n % N # N - 1
  <2>1. (n % N) + 1 = N * 0 + ((n % N) + 1) /\ (n % N) + 1 \in 0..(N - 1)
    BY <1>1, <1>3
  <2>2. (N * 0 + ((n % N) + 1)) % N = (n % N) + 1
    BY <2>1, DivModIs
  <2> QED
    BY <1>3, <2>1, <2>2, DivModSucc
<1> QED
  BY <1>2, <1>3

-----------------------------------------------------------------------------
(* Least and greatest elements.                                            *)

LEMMA Least ==
  ASSUME NEW T \in SUBSET Nat, T # {}
  PROVE  Min(T) \in T /\ \A y \in T : Min(T) <= y
<1>1. IsWellFoundedOn(OpToRel(<, Nat), Nat)
  BY NatLessThanWellFounded
<1>2. \E x \in T : \A y \in T : <<y, x>> \notin OpToRel(<, Nat)
  BY <1>1, WFMin
<1>3. \A x, y \in Nat : y < x => <<y, x>> \in OpToRel(<, Nat)
  BY DEF OpToRel
<1>4. \A x, y \in Nat : ~(y < x) => x <= y
  OBVIOUS
<1>5. \E x \in T : \A y \in T : x <= y
  BY <1>2, <1>3, <1>4
<1> QED
  BY <1>5 DEF Min

LEMMA Greatest ==
  ASSUME NEW T \in SUBSET Nat, T # {}, NEW b \in Nat, \A x \in T : x <= b
  PROVE  Max(T) \in T /\ \A x \in T : Max(T) >= x
<1> DEFINE D == {c \in Nat : \A x \in T : x <= c}
<1>1. D \in SUBSET Nat /\ D # {}
  OBVIOUS
<1>2. PICK c \in D : \A y \in D : c <= y
  BY <1>1, Least
<1>3. c \in T
  <2>1. SUFFICES ASSUME c \notin T PROVE FALSE
    OBVIOUS
  <2>2. \A x \in T : x <= c - 1
    BY <2>1
  <2>3. c - 1 \in Nat
    <3>1. PICK x \in T : TRUE
      OBVIOUS
    <3>2. x \in Nat /\ c \in Nat /\ x <= c - 1
      BY <2>2, <3>1
    <3> QED
      BY <3>2
  <2>4. c - 1 \in D
    BY <2>2, <2>3
  <2> QED
    BY <1>2, <2>4
<1>4. \E x \in T : \A y \in T : x >= y
  BY <1>3
<1> QED
  BY <1>4 DEF Max

LEMMA MaxOfTwo ==
  ASSUME NEW a \in Int, NEW b \in Int
  PROVE  Max({a, b}) = (IF a >= b THEN a ELSE b)
<1> DEFINE T == {a, b}
           m == IF a >= b THEN a ELSE b
<1>1. m \in T /\ \A x \in T : m >= x
  OBVIOUS
<1>2. \A y \in T : (\A x \in T : y >= x) => y = m
  OBVIOUS
<1> HIDE DEF T, m
<1>3. Max(T) = m
  BY <1>1, <1>2 DEF Max
<1> QED
  BY <1>3 DEF T, m

LEMMA MinOfTwo ==
  ASSUME NEW a \in Int, NEW b \in Int
  PROVE  Min({a, b}) = (IF a <= b THEN a ELSE b)
<1> DEFINE T == {a, b}
           m == IF a <= b THEN a ELSE b
<1>1. m \in T /\ \A x \in T : m <= x
  OBVIOUS
<1>2. \A y \in T : (\A x \in T : y <= x) => y = m
  OBVIOUS
<1> HIDE DEF T, m
<1>3. Min(T) = m
  BY <1>1, <1>2 DEF Min
<1> QED
  BY <1>3 DEF T, m

(* Of the turns up to n none is in T unless one is the first.              *)
LEMMA NoFirst ==
  ASSUME NEW n \in Nat, NEW T \in SUBSET (0..n),
         0 \notin T, \A k \in 0..(n - 1) : k \notin T => k + 1 \notin T
  PROVE  T = {}
<1> SUFFICES ASSUME T # {} PROVE FALSE
  OBVIOUS
<1>0. T \in SUBSET Nat
  OBVIOUS
<1>1. PICK m \in T : \A y \in T : m <= y
  BY <1>0, Least
<1>2. m \in 1..n
  BY <1>1
<1>3. m - 1 \in 0..(n - 1) /\ ~(m <= m - 1) /\ (m - 1) + 1 = m
  BY <1>2
<1>4. m - 1 \notin T
  BY <1>1, <1>3
<1> QED
  BY <1>1, <1>3, <1>4

-----------------------------------------------------------------------------
(* Loops.                                                                  *)

IsRun(r, turn, locals, n) ==
  r = [k \in 0..n |-> IF k = 0 THEN locals ELSE turn[r[k - 1]]]

LEMMA RunExists ==
  ASSUME NEW turn, NEW locals, NEW n \in Nat
  PROVE  \E r : IsRun(r, turn, locals, n)
<1> DEFINE T == {m \in 0..n : ~ \E r : IsRun(r, turn, locals, m)}
<1>1. 0 \notin T
  <2>1. IsRun([k \in 0..0 |-> locals], turn, locals, 0)
    BY DEF IsRun
  <2> QED
    BY <2>1
<1>2. ASSUME NEW m \in 0..(n - 1), m \notin T PROVE m + 1 \notin T
  <2>0. m \in Nat
    OBVIOUS
  <2>1. PICK r : IsRun(r, turn, locals, m)
    BY <1>2
  <2> DEFINE s == [k \in 0..(m + 1) |-> IF k = m + 1 THEN turn[r[m]] ELSE r[k]]
  <2>2. \A k \in 0..(m + 1) : s[k] = IF k = 0 THEN locals ELSE turn[s[k - 1]]
    <3> TAKE k \in 0..(m + 1)
    <3>1. CASE k = m + 1
      <4>1. k - 1 \in 0..(m + 1) /\ k - 1 = m /\ k - 1 # m + 1 /\ k # 0
        BY <2>0, <3>1
      <4>2. s[k - 1] = r[m] /\ s[k] = turn[r[m]]
        BY <3>1, <4>1
      <4> QED
        BY <4>1, <4>2
    <3>2. CASE k # m + 1
      <4>1. k \in 0..m /\ (k # 0 => k - 1 \in 0..(m + 1) /\ k - 1 # m + 1)
        BY <2>0, <3>2
      <4>2. s[k] = r[k] /\ (k # 0 => s[k - 1] = r[k - 1])
        BY <3>2, <4>1
      <4>3. r[k] = IF k = 0 THEN locals ELSE turn[r[k - 1]]
        BY <2>1, <4>1 DEF IsRun
      <4> QED
        BY <4>2, <4>3
    <3> QED
      BY <3>1, <3>2
  <2>3. IsRun(s, turn, locals, m + 1)
    <3> HIDE DEF s
    <3>1. s = [k \in 0..(m + 1) |-> s[k]]
      BY DEF s
    <3> QED
      BY <2>2, <3>1 DEF IsRun
  <2> QED
    BY <2>3
<1> HIDE DEF T
<1>3. T = {}
  <2>1. T \in SUBSET (0..n)
    BY DEF T
  <2> QED
    BY <1>1, <1>2, <2>1, NoFirst
<1> QED
  BY <1>3 DEF T

(* The locals after each turn, from the first to the last.                 *)
LEMMA Loop ==
  ASSUME NEW turn, NEW locals, NEW n \in Nat
  PROVE  \E r : /\ r[0] = locals
                /\ \A k \in 0..(n - 1) : r[k + 1] = turn[r[k]]
                /\ r[n] = Turns(turn, locals, n)
<1> DEFINE r == CHOOSE q : IsRun(q, turn, locals, n)
<1>1. Turns(turn, locals, n) = r[n]
  BY DEF Turns, IsRun
<1> HIDE DEF r
<1>2. IsRun(r, turn, locals, n)
  BY RunExists DEF r
<1>3. \A k \in 0..n : r[k] = IF k = 0 THEN locals ELSE turn[r[k - 1]]
  BY <1>2 DEF IsRun
<1>4. r[0] = locals
  BY <1>3
<1>5. ASSUME NEW k \in 0..(n - 1) PROVE r[k + 1] = turn[r[k]]
  <2>1. k + 1 \in 0..n /\ k + 1 # 0 /\ (k + 1) - 1 = k
    OBVIOUS
  <2> QED
    BY <1>3, <2>1
<1> QED
  BY <1>1, <1>4, <1>5

(* What the locals satisfy at first and each turn preserves, they satisfy  *)
(* after the loop.                                                         *)
LEMMA LoopInvariant ==
  ASSUME NEW I, NEW turn, NEW locals \in I, NEW n \in Nat,
         \A s \in I : turn[s] \in I
  PROVE  Turns(turn, locals, n) \in I
<1>1. PICK r : /\ r[0] = locals
               /\ \A k \in 0..(n - 1) : r[k + 1] = turn[r[k]]
               /\ r[n] = Turns(turn, locals, n)
  BY Loop
<1> DEFINE T == {k \in 0..n : r[k] \notin I}
<1>2. T \in SUBSET (0..n) /\ 0 \notin T
  BY <1>1
<1>3. \A k \in 0..(n - 1) : k \notin T => k + 1 \notin T
  BY <1>1
<1>4. T = {}
  <2> HIDE DEF T
  <2> QED
    BY <1>2, <1>3, NoFirst
<1>5. n \in 0..n
  OBVIOUS
<1> QED
  BY <1>1, <1>4, <1>5

(* The same for what holds after the k-th turn.                            *)
LEMMA LoopStages ==
  ASSUME NEW I, NEW turn, NEW n \in Nat, NEW locals \in I[0],
         \A k \in 0..(n - 1) : \A s \in I[k] : turn[s] \in I[k + 1]
  PROVE  Turns(turn, locals, n) \in I[n]
<1>1. PICK r : /\ r[0] = locals
               /\ \A k \in 0..(n - 1) : r[k + 1] = turn[r[k]]
               /\ r[n] = Turns(turn, locals, n)
  BY Loop
<1> DEFINE T == {k \in 0..n : r[k] \notin I[k]}
<1>2. T \in SUBSET (0..n) /\ 0 \notin T
  BY <1>1
<1>3. ASSUME NEW k \in 0..(n - 1), k \notin T PROVE k + 1 \notin T
  <2>1. r[k] \in I[k] /\ r[k + 1] = turn[r[k]]
    BY <1>1, <1>3
  <2>2. r[k + 1] \in I[k + 1]
    BY <2>1
  <2> QED
    BY <2>2
<1>4. T = {}
  <2> HIDE DEF T
  <2> QED
    BY <1>2, <1>3, NoFirst
<1>5. n \in 0..n
  OBVIOUS
<1> QED
  BY <1>1, <1>4, <1>5

-----------------------------------------------------------------------------
(* Sequences joined to one.                                                *)

IsJoin(f, seqs, n) ==
  f = [i \in 1..n |-> IF i = 1 THEN seqs[i] ELSE f[i - 1] \o seqs[i]]

LEMMA JoinExists ==
  ASSUME NEW seqs, NEW n \in Nat
  PROVE  \E f : IsJoin(f, seqs, n)
<1> DEFINE T == {m \in 0..n : ~ \E f : IsJoin(f, seqs, m)}
<1>1. 0 \notin T
  <2>1. IsJoin([i \in 1..0 |-> seqs[i]], seqs, 0)
    <3>1. 1..0 = {}
      OBVIOUS
    <3> QED
      BY <3>1 DEF IsJoin
  <2> QED
    BY <2>1
<1>2. ASSUME NEW m \in 0..(n - 1), m \notin T PROVE m + 1 \notin T
  <2>0. m \in Nat
    OBVIOUS
  <2>1. PICK f : IsJoin(f, seqs, m)
    BY <1>2
  <2> DEFINE g == [i \in 1..(m + 1) |->
                     IF i \in 1..m THEN f[i]
                     ELSE IF i = 1 THEN seqs[i] ELSE f[i - 1] \o seqs[i]]
  <2>2. \A i \in 1..(m + 1) : g[i] = IF i = 1 THEN seqs[i] ELSE g[i - 1] \o seqs[i]
    <3> TAKE i \in 1..(m + 1)
    <3>1. i # 1 => i - 1 \in 1..m /\ i - 1 \in 1..(m + 1)
      BY <2>0
    <3>2. i # 1 => g[i - 1] = f[i - 1]
      BY <3>1
    <3>3. CASE i \in 1..m
      <4>1. f[i] = IF i = 1 THEN seqs[i] ELSE f[i - 1] \o seqs[i]
        BY <2>1, <3>3 DEF IsJoin
      <4> QED
        BY <3>2, <3>3, <4>1
    <3>4. CASE i \notin 1..m
      BY <3>2, <3>4
    <3> QED
      BY <3>3, <3>4
  <2>3. IsJoin(g, seqs, m + 1)
    <3> HIDE DEF g
    <3>1. g = [i \in 1..(m + 1) |-> g[i]]
      BY DEF g
    <3> QED
      BY <2>2, <3>1 DEF IsJoin
  <2> QED
    BY <2>3
<1> HIDE DEF T
<1>3. T = {}
  <2>1. T \in SUBSET (0..n)
    BY DEF T
  <2> QED
    BY <1>1, <1>2, <2>1, NoFirst
<1> QED
  BY <1>3 DEF T

(* The join of the first sequences, for each number of them.               *)
LEMMA Flattening ==
  ASSUME NEW S, NEW n \in Nat, NEW seqs \in [1..n -> Seq(S)]
  PROVE  \E r : /\ r[0] = << >>
                /\ \A k \in 0..n : r[k] \in Seq(S)
                /\ \A k \in 0..(n - 1) : r[k + 1] = r[k] \o seqs[k + 1]
                /\ r[n] = FlattenSeq(seqs)
<1>0. Len(seqs) = n
  OBVIOUS
<1> DEFINE f == CHOOSE g : IsJoin(g, seqs, n)
           r == [k \in 0..n |-> IF k = 0 THEN << >> ELSE f[k]]
<1>1. FlattenSeq(seqs) = IF n = 0 THEN seqs ELSE f[n]
  BY <1>0 DEF FlattenSeq, IsJoin
<1> HIDE DEF f
<1>2. IsJoin(f, seqs, n)
  BY JoinExists DEF f
<1>3. \A i \in 1..n : f[i] = IF i = 1 THEN seqs[i] ELSE f[i - 1] \o seqs[i]
  BY <1>2 DEF IsJoin
<1>4. r[0] = << >> /\ \A k \in 1..n : r[k] = f[k]
  OBVIOUS
<1>5. r[n] = FlattenSeq(seqs)
  <2>1. CASE n = 0
    <3>1. seqs = << >>
      <4>1. seqs \in Seq(Seq(S))
        OBVIOUS
      <4> QED
        BY <1>0, <2>1, <4>1, EmptySeq
    <3> QED
      BY <1>1, <1>4, <2>1, <3>1
  <2>2. CASE n # 0
    BY <1>1, <1>4, <2>2
  <2> QED
    BY <2>1, <2>2
<1> HIDE DEF r
<1>6. \A k \in 0..(n - 1) : r[k + 1] = r[k] \o seqs[k + 1]
  <2>1. SUFFICES ASSUME NEW k \in 0..(n - 1)
                 PROVE  r[k + 1] = r[k] \o seqs[k + 1]
    OBVIOUS
  <2>2. k + 1 \in 1..n /\ (k + 1) - 1 = k /\ (k + 1 = 1 <=> k = 0)
        /\ (k # 0 => k \in 1..n)
    OBVIOUS
  <2>3. r[k + 1] = IF k = 0 THEN seqs[k + 1] ELSE f[k] \o seqs[k + 1]
    BY <1>3, <1>4, <2>2
  <2>4. seqs[k + 1] \in Seq(S)
    BY <2>2
  <2>5. << >> \o seqs[k + 1] = seqs[k + 1]
    BY <2>4, ConcatEmptySeq
  <2> QED
    BY <1>4, <2>2, <2>3, <2>5
<1>7. \A k \in 0..n : r[k] \in Seq(S)
  <2> DEFINE T == {k \in 0..n : r[k] \notin Seq(S)}
  <2>1. 0 \notin T
    BY <1>4, EmptySeq
  <2>2. ASSUME NEW k \in 0..(n - 1), k \notin T PROVE k + 1 \notin T
    <3>1. r[k] \in Seq(S) /\ seqs[k + 1] \in Seq(S)
      BY <2>2
    <3>2. r[k] \o seqs[k + 1] \in Seq(S)
      BY <3>1, ConcatProperties
    <3> QED
      BY <1>6, <3>2
  <2>3. T = {}
    <3>1. T \in SUBSET (0..n)
      OBVIOUS
    <3> HIDE DEF T
    <3> QED
      BY <2>1, <2>2, <3>1, NoFirst
  <2> QED
    BY <2>3
<1> QED
  BY <1>4, <1>5, <1>6, <1>7

(* What joins n + 1 sequences joins n and the last.                        *)
LEMMA FlattenLast ==
  ASSUME NEW S, NEW n \in Nat, NEW seqs \in [1..(n + 1) -> Seq(S)],
         NEW front \in [1..n -> Seq(S)],
         \A k \in 1..n : front[k] = seqs[k]
  PROVE  /\ FlattenSeq(front) \in Seq(S)
         /\ FlattenSeq(seqs) = FlattenSeq(front) \o seqs[n + 1]
<1>1. PICK r : /\ r[0] = << >>
               /\ \A k \in 0..n : r[k] \in Seq(S)
               /\ \A k \in 0..(n - 1) : r[k + 1] = r[k] \o front[k + 1]
               /\ r[n] = FlattenSeq(front)
  BY Flattening
<1>2. n + 1 \in Nat
  OBVIOUS
<1>3. \E q : /\ q[0] = << >>
             /\ \A k \in 0..(n + 1) : q[k] \in Seq(S)
             /\ \A k \in 0..((n + 1) - 1) : q[k + 1] = q[k] \o seqs[k + 1]
             /\ q[n + 1] = FlattenSeq(seqs)
  BY <1>2, Flattening
<1>4. PICK q : /\ q[0] = << >>
               /\ \A k \in 0..((n + 1) - 1) : q[k + 1] = q[k] \o seqs[k + 1]
               /\ q[n + 1] = FlattenSeq(seqs)
  BY <1>3
<1>5. \A k \in 0..n : q[k + 1] = q[k] \o seqs[k + 1]
  <2>1. (n + 1) - 1 = n
    OBVIOUS
  <2> QED
    BY <1>4, <2>1
<1> DEFINE T == {k \in 0..n : q[k] # r[k]}
<1>6. 0 \notin T
  BY <1>1, <1>4
<1>7. ASSUME NEW k \in 0..(n - 1), k \notin T PROVE k + 1 \notin T
  <2>1. k + 1 \in 1..n /\ k \in 0..n
    OBVIOUS
  <2>2. q[k] = r[k] /\ front[k + 1] = seqs[k + 1]
    BY <1>7, <2>1
  <2> QED
    BY <1>1, <1>5, <2>1, <2>2
<1>8. T = {}
  <2>1. T \in SUBSET (0..n)
    OBVIOUS
  <2> HIDE DEF T
  <2> QED
    BY <1>6, <1>7, <2>1, NoFirst
<1>9. n \in 0..n
  OBVIOUS
<1> QED
  BY <1>1, <1>4, <1>5, <1>8, <1>9

(* The items of the first f of the sequences s, and how many they are.     *)
Joined(s, f) == FlattenSeq([g \in 1..f |-> s[g]])

End(s, f) == Len(Joined(s, f))

LEMMA JoinedNone ==
  ASSUME NEW s
  PROVE  Joined(s, 0) = << >> /\ End(s, 0) = 0
<1>1. [g \in 1..0 |-> s[g]] = << >> /\ Len(<< >>) = 0
  <2>1. [g \in 1..0 |-> s[g]] \in Seq(Nat) /\ Len([g \in 1..0 |-> s[g]]) = 0
    OBVIOUS
  <2> QED
    BY <2>1, EmptySeq
<1> QED
  BY <1>1 DEF Joined, End, FlattenSeq

LEMMA JoinedSucc ==
  ASSUME NEW S, NEW n \in Nat, NEW s \in [1..n -> Seq(S)], NEW f \in 0..(n - 1)
  PROVE  /\ Joined(s, f) \in Seq(S) /\ End(s, f) \in Nat
         /\ Joined(s, f + 1) = Joined(s, f) \o s[f + 1]
         /\ Joined(s, f + 1) \in Seq(S)
         /\ s[f + 1] \in Seq(S) /\ Len(s[f + 1]) \in Nat
         /\ End(s, f + 1) = End(s, f) + Len(s[f + 1])
<1> DEFINE u == [g \in 1..(f + 1) |-> s[g]]
           v == [g \in 1..f |-> s[g]]
<1>1. f \in Nat /\ f + 1 \in 1..n /\ f + 1 \in 1..(f + 1)
  OBVIOUS
<1>2. u \in [1..(f + 1) -> Seq(S)] /\ v \in [1..f -> Seq(S)]
      /\ (\A k \in 1..f : v[k] = u[k]) /\ u[f + 1] = s[f + 1]
  BY <1>1
<1>3. Joined(s, f + 1) = FlattenSeq(u) /\ Joined(s, f) = FlattenSeq(v)
  BY DEF Joined
<1> HIDE DEF u, v
<1>4. /\ FlattenSeq(v) \in Seq(S)
      /\ FlattenSeq(u) = FlattenSeq(v) \o u[f + 1]
  BY ZenonT(60), <1>1, <1>2, FlattenLast
<1>5. s[f + 1] \in Seq(S)
  BY <1>1
<1>6. /\ FlattenSeq(v) \o s[f + 1] \in Seq(S)
      /\ Len(FlattenSeq(v) \o s[f + 1]) = Len(FlattenSeq(v)) + Len(s[f + 1])
  BY <1>4, <1>5, ConcatProperties
<1> QED
  BY <1>2, <1>3, <1>4, <1>5, <1>6, LenProperties DEF End

IsConcat(x, p, q) == x = p \o q

LEMMA JoinedStep ==
  ASSUME NEW S, NEW m \in Nat, NEW s \in [1..m -> Seq(S)], NEW f \in 0..(m - 1)
  PROVE  /\ Joined(s, f) \in Seq(S) /\ End(s, f) \in Nat
         /\ s[f + 1] \in Seq(S) /\ Len(s[f + 1]) \in Nat
         /\ IsConcat(Joined(s, f + 1), Joined(s, f), s[f + 1])
         /\ End(s, f + 1) = End(s, f) + Len(s[f + 1])
  BY ZenonT(60), JoinedSucc DEF IsConcat

LEMMA JoinedType ==
  ASSUME NEW S, NEW n \in Nat, NEW s \in [1..n -> Seq(S)], NEW f \in 0..n
  PROVE  Joined(s, f) \in Seq(S) /\ End(s, f) \in Nat
<1>1. CASE f = 0
  <2>1. Joined(s, f) = << >> /\ End(s, f) = 0
    BY <1>1, JoinedNone
  <2>2. << >> \in Seq(S)
    BY EmptySeq
  <2> QED
    BY <2>1, <2>2
<1>2. CASE f # 0
  <2>1. f - 1 \in 0..(n - 1) /\ (f - 1) + 1 = f
    BY <1>2
  <2> DEFINE e == f - 1
  <2> HIDE DEF e
  <2>2. e \in 0..(n - 1) /\ e + 1 = f
    BY <2>1 DEF e
  <2>3. Joined(s, e + 1) \in Seq(S)
    BY <2>2, JoinedSucc
  <2> QED
    BY <2>2, <2>3, LenProperties DEF End
<1> QED
  BY <1>1, <1>2

(* More sequences have the same items and then more.                       *)
LEMMA JoinedPrefix ==
  ASSUME NEW S, NEW n \in Nat, NEW s \in [1..n -> Seq(S)],
         NEW f \in 0..n, NEW g \in f..n
  PROVE  /\ End(s, f) <= End(s, g)
         /\ \A k \in 1..End(s, f) : Joined(s, g)[k] = Joined(s, f)[k]
<1>0. ASSUME NEW h \in 0..(n - 1)
      PROVE  /\ Joined(s, h) \in Seq(S) /\ End(s, h) \in Nat
             /\ s[h + 1] \in Seq(S) /\ Len(s[h + 1]) \in Nat
             /\ IsConcat(Joined(s, h + 1), Joined(s, h), s[h + 1])
             /\ End(s, h + 1) = End(s, h) + Len(s[h + 1])
  BY ZenonT(60), JoinedStep
<1> DEFINE Same(h) ==
             /\ End(s, f) <= End(s, h)
             /\ \A k \in 1..End(s, f) : Joined(s, h)[k] = Joined(s, f)[k]
           T == {d \in 0..(n - f) : ~ Same(f + d)}
<1>1. 0 \notin T
  <2>1. f + 0 = f /\ End(s, f) \in Nat
    BY JoinedType
  <2> QED
    BY <2>1
<1>2. ASSUME NEW d \in 0..((n - f) - 1), d \notin T PROVE d + 1 \notin T
  <2> DEFINE h == f + d
  <2>1. h \in 0..(n - 1) /\ f + (d + 1) = h + 1 /\ Same(h)
    BY <1>2
  <2> HIDE DEF h
  <2>2. /\ Joined(s, h) \in Seq(S) /\ End(s, h) \in Nat
        /\ Joined(s, h + 1) = Joined(s, h) \o s[h + 1]
        /\ s[h + 1] \in Seq(S) /\ Len(s[h + 1]) \in Nat
        /\ End(s, h + 1) = End(s, h) + Len(s[h + 1])
    <3>1. h \in 0..(n - 1)
      BY <2>1
    <3> QED
      BY <1>0, <3>1 DEF IsConcat
  <2>3. End(s, f) \in Nat
    BY JoinedType
  <2>4. \A k \in 1..End(s, h) : Joined(s, h + 1)[k] = Joined(s, h)[k]
    <3>1. SUFFICES ASSUME NEW k \in 1..End(s, h)
                   PROVE  Joined(s, h + 1)[k] = Joined(s, h)[k]
      OBVIOUS
    <3>2. k \in 1..(Len(Joined(s, h)) + Len(s[h + 1])) /\ k <= Len(Joined(s, h))
      BY <2>2 DEF End
    <3> QED
      BY <2>2, <3>2, ConcatProperties
  <2>5. Same(h + 1)
    <3>1. End(s, f) <= End(s, h + 1)
      BY <2>1, <2>2, <2>3
    <3>2. \A k \in 1..End(s, f) : k \in 1..End(s, h)
      BY <2>1, <2>2, <2>3
    <3> QED
      BY <2>1, <2>4, <3>1, <3>2
  <2> QED
    BY <2>1, <2>5
<1>3. T \in SUBSET (0..(n - f)) /\ n - f \in Nat
  OBVIOUS
<1>4. T = {}
  <2> HIDE DEF T
  <2> QED
    BY <1>1, <1>2, <1>3, NoFirst
<1>5. g - f \in 0..(n - f) /\ f + (g - f) = g
  OBVIOUS
<1>6. Same(g)
  BY <1>4, <1>5
<1> QED
  BY <1>6

SameFirst(p, q, n) == \A k \in 1..n : p[k] = q[k]

LEMMA JoinedSameFirst ==
  ASSUME NEW S, NEW n \in Nat, NEW s \in [1..n -> Seq(S)],
         NEW f \in 0..n, NEW g \in f..n
  PROVE  SameFirst(Joined(s, g), Joined(s, f), End(s, f))
<1> SUFFICES ASSUME NEW k \in 1..End(s, f) PROVE Joined(s, g)[k] = Joined(s, f)[k]
  BY DEF SameFirst
<1> QED
  BY ZenonT(60), JoinedPrefix

(* Where the items of one of them are.                                     *)
LEMMA JoinedAt ==
  ASSUME NEW S, NEW n \in Nat, NEW s \in [1..n -> Seq(S)],
         NEW f \in 0..(n - 1), NEW g \in (f + 1)..n,
         NEW b \in 1..Len(s[f + 1])
  PROVE  /\ Joined(s, g)[End(s, f) + b] = s[f + 1][b]
         /\ End(s, f) + b \in 1..End(s, g)
<1>1. /\ Joined(s, f) \in Seq(S) /\ End(s, f) \in Nat
      /\ Joined(s, f + 1) = Joined(s, f) \o s[f + 1]
      /\ s[f + 1] \in Seq(S) /\ Len(s[f + 1]) \in Nat
      /\ End(s, f + 1) = End(s, f) + Len(s[f + 1])
  BY ZenonT(60), JoinedSucc
<1>2. End(s, f) + b \in 1..End(s, f + 1) /\ ~(End(s, f) + b <= End(s, f))
      /\ (End(s, f) + b) - End(s, f) = b
  BY <1>1
<1>3. Joined(s, f + 1)[End(s, f) + b] = s[f + 1][b]
  <2> DEFINE p == Joined(s, f)
             q == s[f + 1]
             e == End(s, f)
  <2>1. p \in Seq(S) /\ q \in Seq(S) /\ e = Len(p)
    BY <1>1 DEF End
  <2>2. e + b \in 1..(Len(p) + Len(q)) /\ ~(e + b <= Len(p)) /\ (e + b) - Len(p) = b
    BY <1>1, <1>2, <2>1
  <2> HIDE DEF p, q, e
  <2>3. (p \o q)[e + b] = q[b]
    BY <2>1, <2>2, ConcatProperties
  <2> QED
    BY <1>1, <2>3 DEF p, q, e
<1>4. f + 1 \in 0..n /\ g \in (f + 1)..n
  OBVIOUS
<1>5. /\ End(s, f + 1) <= End(s, g)
      /\ \A k \in 1..End(s, f + 1) : Joined(s, g)[k] = Joined(s, f + 1)[k]
  BY <1>4, JoinedPrefix
<1>6. g \in 0..n
  OBVIOUS
<1>7. End(s, g) \in Nat
  BY <1>6, JoinedType
<1>8. Joined(s, g)[End(s, f) + b] = s[f + 1][b]
  BY <1>2, <1>3, <1>5
<1>9. End(s, f) + b \in 1..End(s, g)
  <2> DEFINE e == End(s, f)
             x == End(s, f + 1)
             y == End(s, g)
  <2>1. e + b \in 1..x /\ x <= y /\ y \in Nat
    BY <1>2, <1>5, <1>7
  <2>2. e \in Nat /\ x \in Nat /\ b \in Nat
    BY <1>1
  <2> HIDE DEF e, x, y
  <2>3. e + b \in 1..y
    BY <2>1, <2>2
  <2> QED
    BY <2>3 DEF e, y
<1> QED
  BY <1>8, <1>9

LEMMA JoinedSame ==
  ASSUME NEW s, NEW u, NEW f, \A g \in 1..f : s[g] = u[g]
  PROVE  Joined(s, f) = Joined(u, f) /\ End(s, f) = End(u, f)
<1>1. [g \in 1..f |-> s[g]] = [g \in 1..f |-> u[g]]
  OBVIOUS
<1> QED
  BY <1>1 DEF Joined, End

(* The items of n sequences after the first t.                             *)
Continue(u, s, t, n) == \A k \in 1..n : u[k] = s[t + k]

LEMMA JoinedFrom ==
  ASSUME NEW S, NEW m \in Nat, NEW s \in [1..m -> Seq(S)],
         NEW t \in Nat, NEW n \in Nat, t + n <= m,
         NEW u \in [1..n -> Seq(S)], Continue(u, s, t, n)
  PROVE  /\ FlattenSeq(u) \in Seq(S)
         /\ IsConcat(Joined(s, t + n), Joined(s, t), FlattenSeq(u))
<1> USE DEF Continue, IsConcat
<1>0. \A h \in 0..(m - 1) : Joined(s, h + 1) = Joined(s, h) \o s[h + 1]
  BY ZenonT(60), JoinedSucc
<1>1. [k \in 1..n |-> u[k]] = u
  OBVIOUS
<1>2. Joined(u, n) = FlattenSeq(u) /\ Joined(u, n) \in Seq(S)
  <2>1. n \in 0..n
    OBVIOUS
  <2>2. Joined(u, n) \in Seq(S)
    BY <2>1, JoinedType
  <2> QED
    BY <1>1, <2>2 DEF Joined
<1>3. t \in 0..m /\ Joined(s, t) \in Seq(S)
  BY JoinedType
<1> DEFINE Agree(j) == Joined(s, t + j) = Joined(s, t) \o Joined(u, j)
           T == {j \in 0..n : ~ Agree(j)}
<1>4. 0 \notin T
  BY <1>3, JoinedNone, ConcatEmptySeq
<1>5. ASSUME NEW j \in 0..(n - 1), j \notin T PROVE j + 1 \notin T
  <2> DEFINE h == t + j
  <2>1. h \in 0..(m - 1) /\ t + (j + 1) = h + 1 /\ j + 1 \in 1..n /\ Agree(j)
    BY <1>5
  <2>2. u[j + 1] = s[h + 1]
    <3>1. u[j + 1] = s[t + (j + 1)]
      BY <2>1
    <3> QED
      BY <2>1, <3>1
  <2>3. Joined(u, j) \in Seq(S) /\ Joined(u, j + 1) = Joined(u, j) \o u[j + 1]
        /\ u[j + 1] \in Seq(S)
    BY ZenonT(60), JoinedSucc
  <2> HIDE DEF h
  <2>4. Joined(s, h + 1) = Joined(s, h) \o s[h + 1]
    <3>1. h \in 0..(m - 1)
      BY <2>1
    <3> QED
      BY <1>0, <3>1
  <2>5. Joined(s, h) = Joined(s, t) \o Joined(u, j)
    BY <2>1 DEF h
  <2>6. (Joined(s, t) \o Joined(u, j)) \o u[j + 1]
          = Joined(s, t) \o (Joined(u, j) \o u[j + 1])
    <3> DEFINE p == Joined(s, t)
               v == Joined(u, j)
               w == u[j + 1]
    <3>1. p \in Seq(S) /\ v \in Seq(S) /\ w \in Seq(S)
      BY <1>3, <2>3
    <3> HIDE DEF p, v, w
    <3>2. (p \o v) \o w = p \o (v \o w)
      BY SMTT(30), <3>1, ConcatAssociative
    <3> QED
      BY <3>2 DEF p, v, w
  <2>7. Joined(s, h + 1) = Joined(s, t) \o Joined(u, j + 1)
    BY <2>2, <2>3, <2>4, <2>5, <2>6
  <2>8. Agree(j + 1)
    BY <2>1, <2>7
  <2> QED
    BY <2>8
<1>6. T = {}
  <2>1. T \in SUBSET (0..n)
    OBVIOUS
  <2> HIDE DEF T
  <2> QED
    BY <1>4, <1>5, <2>1, NoFirst
<1>7. Agree(n)
  <2>1. n \in 0..n
    OBVIOUS
  <2> QED
    BY <1>6, <2>1
<1> QED
  BY <1>2, <1>7

(* They follow the items of the first t where all m are joined.            *)
Follows(z, s, m, t, n) ==
  /\ Len(z) \in Nat
  /\ End(s, t) \in Nat /\ End(s, t + n) = End(s, t) + Len(z)
  /\ \A k \in 1..Len(z) : z[k] = Joined(s, m)[End(s, t) + k]

LEMMA JoinedNext ==
  ASSUME NEW S, NEW m \in Nat, NEW s \in [1..m -> Seq(S)],
         NEW t \in Nat, NEW n \in Nat, t + n <= m,
         NEW u \in [1..n -> Seq(S)], Continue(u, s, t, n),
         NEW z, z = FlattenSeq(u)
  PROVE  z \in Seq(S) /\ Follows(z, s, m, t, n)
<1> DEFINE f == t + n
           x == Joined(s, t)
<1>1. z \in Seq(S) /\ Joined(s, t + n) = Joined(s, t) \o z
  <2>1. FlattenSeq(u) \in Seq(S)
        /\ IsConcat(Joined(s, t + n), Joined(s, t), FlattenSeq(u))
    BY JoinedFrom
  <2> QED
    BY <2>1 DEF IsConcat
<1>2. t \in 0..m /\ f \in 0..m /\ m \in f..m
  OBVIOUS
<1>3. x \in Seq(S)
  BY <1>2, JoinedType
<1>4. Joined(s, f) = x \o z
  BY <1>1
<1> HIDE DEF x, f
<1>5. /\ Len(x \o z) = Len(x) + Len(z)
      /\ Len(z) \in Nat /\ Len(x) \in Nat
      /\ \A i \in 1..(Len(x) + Len(z)) :
           (x \o z)[i] = IF i <= Len(x) THEN x[i] ELSE z[i - Len(x)]
  BY <1>1, <1>3, ConcatProperties, LenProperties
<1>6. End(s, t) = Len(x) /\ End(s, f) = Len(x) + Len(z)
  BY <1>4, <1>5 DEF End, x
<1>7. \A k \in 1..End(s, f) : Joined(s, m)[k] = Joined(s, f)[k]
  <2>1. SameFirst(Joined(s, m), Joined(s, f), End(s, f))
    BY <1>2, JoinedSameFirst
  <2> QED
    BY <2>1 DEF SameFirst
<1>8. ASSUME NEW k \in 1..Len(z) PROVE z[k] = Joined(s, m)[End(s, t) + k]
  <2> DEFINE a == Len(x)
             i == a + k
  <2>1. i \in 1..(a + Len(z)) /\ ~(i <= a) /\ i - a = k
    BY <1>5
  <2>2. (x \o z)[i] = z[k]
    BY <1>5, <2>1
  <2>3. i \in 1..End(s, f)
    BY <1>6, <2>1
  <2>4. Joined(s, m)[i] = z[k]
    BY <1>4, <1>7, <2>2, <2>3
  <2> QED
    BY <1>6, <2>4
<1> QED
  BY <1>1, <1>5, <1>6, <1>8 DEF f, Follows

(* Sequences of the images are joined to the images.                       *)
Image(q, p, h, n) == \A k \in 1..n : q[k] = h[p[k]]

LEMMA JoinedImage ==
  ASSUME NEW S, NEW R, NEW n \in Nat, NEW s \in [1..n -> Seq(S)],
         NEW u \in [1..n -> Seq(R)], NEW h,
         \A g \in 1..n : Len(u[g]) = Len(s[g]) /\ Image(u[g], s[g], h, Len(s[g])),
         NEW f \in 0..n
  PROVE  /\ End(u, f) = End(s, f)
         /\ Image(Joined(u, f), Joined(s, f), h, End(s, f))
<1>a. ASSUME NEW j \in 0..(n - 1)
      PROVE  /\ Joined(s, j) \in Seq(S) /\ End(s, j) \in Nat
             /\ s[j + 1] \in Seq(S) /\ Len(s[j + 1]) \in Nat
             /\ IsConcat(Joined(s, j + 1), Joined(s, j), s[j + 1])
             /\ End(s, j + 1) = End(s, j) + Len(s[j + 1])
  BY ZenonT(60), JoinedStep
<1>b. ASSUME NEW j \in 0..(n - 1)
      PROVE  /\ Joined(u, j) \in Seq(R) /\ End(u, j) \in Nat
             /\ u[j + 1] \in Seq(R) /\ Len(u[j + 1]) \in Nat
             /\ IsConcat(Joined(u, j + 1), Joined(u, j), u[j + 1])
             /\ End(u, j + 1) = End(u, j) + Len(u[j + 1])
  BY ZenonT(60), JoinedStep
<1> USE DEF Image
<1> DEFINE OK(j) == /\ End(u, j) = End(s, j)
                    /\ Image(Joined(u, j), Joined(s, j), h, End(s, j))
           T == {j \in 0..n : ~OK(j)}
<1>1. 0 \notin T
  <2>1. End(u, 0) = 0 /\ End(s, 0) = 0
    BY JoinedNone
  <2> QED
    BY <2>1
<1>2. ASSUME NEW j \in 0..(n - 1), j \notin T PROVE j + 1 \notin T
  <2> DEFINE p == Joined(s, j)
             q == Joined(u, j)
             x == s[j + 1]
             y == u[j + 1]
  <2>1. j \in 0..n /\ j + 1 \in 1..n /\ OK(j)
    BY <1>2
  <2>2. /\ p \in Seq(S) /\ x \in Seq(S) /\ Joined(s, j + 1) = p \o x
        /\ End(s, j + 1) = Len(p) + Len(x) /\ Len(p) \in Nat /\ Len(x) \in Nat
    <3>1. j \in 0..(n - 1)
      BY <1>2
    <3>2. /\ Joined(s, j) \in Seq(S) /\ End(s, j) \in Nat
          /\ IsConcat(Joined(s, j + 1), Joined(s, j), s[j + 1])
          /\ s[j + 1] \in Seq(S) /\ Len(s[j + 1]) \in Nat
          /\ End(s, j + 1) = End(s, j) + Len(s[j + 1])
      BY <3>1, <1>a
    <3> QED
      BY <3>2 DEF End, IsConcat
  <2>3. /\ q \in Seq(R) /\ y \in Seq(R) /\ Joined(u, j + 1) = q \o y
        /\ End(u, j + 1) = Len(q) + Len(y)
    <3>1. j \in 0..(n - 1)
      BY <1>2
    <3>2. /\ Joined(u, j) \in Seq(R)
          /\ IsConcat(Joined(u, j + 1), Joined(u, j), u[j + 1])
          /\ u[j + 1] \in Seq(R)
          /\ End(u, j + 1) = End(u, j) + Len(u[j + 1])
      BY <3>1, <1>b
    <3> QED
      BY <3>2 DEF End, IsConcat
  <2>4. /\ Len(q) = Len(p) /\ Len(y) = Len(x)
        /\ \A k \in 1..Len(p) : q[k] = h[p[k]]
        /\ \A b \in 1..Len(x) : y[b] = h[x[b]]
    BY <2>1 DEF End
  <2> HIDE DEF p, q, x, y
  <2>5. ASSUME NEW k \in 1..(Len(p) + Len(x)) PROVE (q \o y)[k] = h[(p \o x)[k]]
    <3>1. /\ (p \o x)[k] = IF k <= Len(p) THEN p[k] ELSE x[k - Len(p)]
          /\ (q \o y)[k] = IF k <= Len(p) THEN q[k] ELSE y[k - Len(p)]
      BY SMTT(30), <2>2, <2>3, <2>4, ConcatProperties
    <3>2. CASE k <= Len(p)
      <4>1. k \in 1..Len(p)
        BY <2>2, <3>2
      <4> QED
        BY <2>4, <3>1, <3>2, <4>1
    <3>3. CASE ~(k <= Len(p))
      <4>1. k - Len(p) \in 1..Len(x)
        BY <2>2, <3>3
      <4> QED
        BY <2>4, <3>1, <3>3, <4>1
    <3> QED
      BY <3>2, <3>3
  <2>6. OK(j + 1)
    BY <2>2, <2>3, <2>4, <2>5
  <2> QED
    BY <2>6
<1>3. T = {}
  <2>1. T \in SUBSET (0..n)
    OBVIOUS
  <2> HIDE DEF T
  <2> QED
    BY <1>1, <1>2, <2>1, NoFirst
<1> QED
  BY <1>3

LEMMA SequenceOf ==
  ASSUME NEW S, NEW n \in Nat, NEW q, q = [k \in 1..n |-> q[k]],
         \A k \in 1..n : q[k] \in S
  PROVE  q \in Seq(S) /\ Len(q) = n
<1>1. q \in [1..n -> S]
  OBVIOUS
<1> QED
  BY <1>1

-----------------------------------------------------------------------------
(* Streams.  q holds the items of the stream g from the one after the m-th *)
(* on.                                                                     *)
Segment(q, g, m) == \A k \in 1..Len(q) : q[k] = g[m + k]

LEMMA SegmentConcat ==
  ASSUME NEW S, NEW q \in Seq(S), NEW p \in Seq(S), NEW m \in Int, NEW g,
         Segment(q, g, m), Segment(p, g, m + Len(q))
  PROVE  Segment(q \o p, g, m)
<1>1. Len(q) \in Nat /\ Len(p) \in Nat
  BY LenProperties
<1>2. SUFFICES ASSUME NEW k \in 1..(Len(q) + Len(p))
               PROVE  (q \o p)[k] = g[m + k]
  BY ConcatProperties DEF Segment
<1>3. (q \o p)[k] = IF k <= Len(q) THEN q[k] ELSE p[k - Len(q)]
  BY ConcatProperties
<1>4. CASE k <= Len(q)
  <2>1. k \in 1..Len(q)
    BY <1>1, <1>4
  <2> QED
    BY <1>3, <1>4, <2>1 DEF Segment
<1>5. CASE ~(k <= Len(q))
  <2>1. k - Len(q) \in 1..Len(p) /\ (m + Len(q)) + (k - Len(q)) = m + k
    BY <1>1, <1>5
  <2> QED
    BY <1>3, <1>5, <2>1 DEF Segment
<1> QED
  BY <1>4, <1>5

LEMMA SegmentDrop ==
  ASSUME NEW S, NEW q \in Seq(S), NEW m \in Int, NEW g, NEW n \in 0..Len(q),
         Segment(q, g, m)
  PROVE  /\ SubSeq(q, n + 1, Len(q)) \in Seq(S)
         /\ Len(SubSeq(q, n + 1, Len(q))) = Len(q) - n
         /\ Segment(SubSeq(q, n + 1, Len(q)), g, m + n)
<1>1. Len(q) \in Nat /\ n \in Nat /\ n <= Len(q)
  BY LenProperties
<1> DEFINE e == Len(q)
           a == n + 1
           t == SubSeq(q, a, e)
<1>2. \A i \in a..e : i \in 1..Len(q)
  BY <1>1
<1>3. \A i \in a..e : q[i] \in S
  BY <1>2, ElementOfSeq
<1>4. a \in Int /\ e \in Int
  BY <1>1
<1>5. e - a + 1 = e - n /\ (a <= e <=> n < e) /\ e - n \in Nat
  BY <1>1
<1> HIDE DEF a
<1>6. /\ t \in Seq(S)
      /\ Len(t) = IF a <= e THEN e - a + 1 ELSE 0
      /\ \A i \in 1..(e - a + 1) : t[i] = q[a + i - 1]
  BY <1>3, <1>4, SubSeqProperties
<1> HIDE DEF t
<1>7. Len(t) = e - n
  BY <1>1, <1>5, <1>6
<1>8. Segment(t, g, m + n)
  <2>1. SUFFICES ASSUME NEW i \in 1..Len(t) PROVE t[i] = g[(m + n) + i]
    BY DEF Segment
  <2>2. t[i] = q[a + i - 1]
    BY <1>5, <1>6, <1>7
  <2>3. a + i - 1 = n + i /\ n + i \in 1..Len(q) /\ (m + n) + i = m + (n + i)
    BY <1>1, <1>7 DEF a, e
  <2> QED
    BY <2>2, <2>3 DEF Segment
<1> QED
  BY <1>6, <1>7, <1>8 DEF t, a, e

LEMMA SegmentTail ==
  ASSUME NEW S, NEW q \in Seq(S), q # << >>, NEW m \in Int, NEW g,
         Segment(q, g, m)
  PROVE  /\ Head(q) = g[m + 1] /\ Head(q) \in S /\ Head(q) = q[1]
         /\ Tail(q) \in Seq(S) /\ Len(q) \in Nat \ {0}
         /\ Len(Tail(q)) = Len(q) - 1
         /\ Segment(Tail(q), g, m + 1)
<1>1. Len(q) \in Nat \ {0}
  BY EmptySeq
<1>2. /\ Tail(q) \in Seq(S) /\ Head(q) \in S
      /\ Len(Tail(q)) = Len(q) - 1
      /\ \A i \in 1..Len(Tail(q)) : Tail(q)[i] = q[i + 1]
  BY HeadTailProperties
<1>3. Head(q) = q[1] /\ 1 \in 1..Len(q)
  BY <1>1
<1>4. Segment(Tail(q), g, m + 1)
  <2>1. SUFFICES ASSUME NEW i \in 1..Len(Tail(q))
                 PROVE  Tail(q)[i] = g[(m + 1) + i]
    BY DEF Segment
  <2>2. i + 1 \in 1..Len(q) /\ (m + 1) + i = m + (i + 1)
    BY <1>1, <1>2
  <2> QED
    BY <1>2, <2>2 DEF Segment
<1> QED
  BY <1>1, <1>2, <1>3, <1>4 DEF Segment

LEMMA SegmentAppend ==
  ASSUME NEW S, NEW q \in Seq(S), NEW x \in S, NEW m \in Int, NEW g,
         Segment(q, g, m), x = g[m + Len(q) + 1]
  PROVE  /\ Append(q, x) \in Seq(S) /\ Len(q) \in Nat
         /\ Len(Append(q, x)) = Len(q) + 1
         /\ Segment(Append(q, x), g, m)
<1>1. /\ Append(q, x) \in Seq(S) /\ Len(q) \in Nat
      /\ Len(Append(q, x)) = Len(q) + 1
      /\ \A k \in 1..Len(q) : Append(q, x)[k] = q[k]
      /\ Append(q, x)[Len(q) + 1] = x
  BY AppendProperties, LenProperties
<1>2. ASSUME NEW k \in 1..(Len(q) + 1) PROVE Append(q, x)[k] = g[m + k]
  <2>1. CASE k \in 1..Len(q)
    BY <1>1, <2>1 DEF Segment
  <2>2. CASE k = Len(q) + 1
    <3>1. m + k = m + Len(q) + 1
      BY <1>1, <2>2
    <3> QED
      BY <1>1, <2>2, <3>1
  <2> QED
    BY <1>1, <2>1, <2>2
<1> QED
  BY <1>1, <1>2 DEF Segment

LEMMA SegmentSame ==
  ASSUME NEW q, NEW g, NEW h, NEW m, Segment(q, g, m),
         \A k \in 1..Len(q) : g[m + k] = h[m + k]
  PROVE  Segment(q, h, m)
BY DEF Segment

-----------------------------------------------------------------------------
(* How many items of n each are needed for b items.                        *)
LEMMA CeilDiv ==
  ASSUME NEW n \in Nat \ {0}, NEW b \in Nat \ {0}
  PROVE  /\ (b + n - 1) \div n = ((b - 1) \div n) + 1
         /\ (b - 1) \div n \in Nat
         /\ ((b - 1) \div n) * n < b
         /\ b <= (((b - 1) \div n) + 1) * n
<1> DEFINE c == b - 1
           q == c \div n
           r == c % n
<1>0. c \in Nat /\ c = b - 1
  OBVIOUS
<1> HIDE DEF c
<1>1. c = n * q + r /\ q \in Nat /\ r \in 0..(n - 1)
  BY <1>0, DivMod
<1> HIDE DEF q, r
<1>2. b + n - 1 = n * (q + 1) + r /\ q + 1 \in Nat
  BY <1>0, <1>1
<1>3. (n * (q + 1) + r) \div n = q + 1
  BY <1>1, <1>2, DivModIs
<1>4. (b + n - 1) \div n = q + 1
  BY <1>2, <1>3
<1>5. n * (q + 1) = n * q + n /\ q * n = n * q /\ (q + 1) * n = n * (q + 1)
      /\ n * q \in Nat
  BY <1>1
<1>6. q * n < b /\ b <= (q + 1) * n
  <2> DEFINE x == n * q
  <2>1. b = x + r + 1 /\ x \in Nat
    BY <1>0, <1>1, <1>5
  <2>2. q * n = x /\ (q + 1) * n = x + n
    BY <1>5
  <2> HIDE DEF x
  <2> QED
    BY <1>1, <2>1, <2>2
<1> QED
  BY <1>1, <1>4, <1>6 DEF q, c

-----------------------------------------------------------------------------
(* Streams whose items are numbered frames.                                *)
FrameAt == [n \in Nat |-> n]

(* The frame of the n-th item of a stream with F for each frame.           *)
FrameNumber(F, n) == ((n - 1) \div F) + 1

(* What is taken for n such items of a stream with one for each frame, the *)
(* last that was taken being held for some more.                           *)
Vectors(F, power, n, powers) ==
  LET done  == Min({n, power.counter + Len(powers) * F})
      begun == done - power.counter
      taken == IF begun <= 0 THEN 0 ELSE (begun + F - 1) \div F
      used(j) == IF j <= power.counter THEN power.hold
                 ELSE powers[1 + (j - power.counter - 1) \div F]
  IN  [done  |-> done,
       taken |-> taken,
       used  |-> [j \in 1..done |-> used(j)],
       next  |-> [hold    |-> IF done = 0 THEN power.hold ELSE used(done),
                  counter |-> power.counter + taken * F - done]]

(* Item n is item r, from 0, of frame q + 1.                               *)
IsItem(F, n, q, r) ==
  /\ FrameNumber(F, n) = q + 1
  /\ (n - 1) % F = r
  /\ (n - 1) \div F = q

LEMMA FrameNumberIs ==
  ASSUME NEW F \in Nat \ {0}, NEW q \in Nat, NEW r \in 0..(F - 1),
         NEW n \in Nat \ {0}, NEW x, x = q * F, n - 1 = x + r
  PROVE  IsItem(F, n, q, r)
<1>1. n - 1 = F * q + r
  OBVIOUS
<1>2. (F * q + r) \div F = q /\ (F * q + r) % F = r
  BY <1>1, DivModIs
<1> QED
  BY <1>1, <1>2 DEF FrameNumber, IsItem

(* p is what is done when hold vectors and c symbols were taken before and *)
(* n symbols and k vectors are there.                                      *)
InStep(F, p, hold, c, n, k) ==
  /\ p.done \in 0..n
  /\ p.taken \in 0..k
  /\ p.next.hold = hold + p.taken
  /\ p.next.counter \in 0..(F - 1)
  /\ c + p.done = (hold + p.taken) * F - p.next.counter
  /\ \A j \in 1..p.done : p.used[j] = FrameNumber(F, c + j)
  /\ p.next = [hold |-> p.next.hold, counter |-> p.next.counter]

(* What is taken are the items of the frames that are begun.               *)
LEMMA VectorsTaken ==
  ASSUME NEW F \in Nat \ {0}, NEW hold \in Nat, NEW counter \in 0..(F - 1), NEW n \in Nat,
         NEW powers \in Seq(Nat), Segment(powers, FrameAt, hold),
         NEW c \in Nat, c = hold * F - counter,
         NEW s, s.hold = hold, s.counter = counter,
         NEW p, p = Vectors(F, s, n, powers)
  PROVE  InStep(F, p, hold, c, n, Len(powers))
<1> USE DEF InStep
<1> DEFINE k     == Len(powers)
           done  == Min({n, counter + k * F})
           begun == done - counter
           taken == IF begun <= 0 THEN 0 ELSE (begun + F - 1) \div F
           used(j) == IF j <= counter THEN hold
                      ELSE powers[1 + ((j - counter - 1) \div F)]
<1>1. F \in Nat \ {0} /\ F \in Nat /\ k \in Nat /\ counter \in Nat /\ k * F \in Nat
  BY LenProperties
<1>2. /\ p.done = done /\ p.taken = taken
      /\ p.used = [j \in 1..done |-> used(j)]
      /\ p.next = [hold |-> IF done = 0 THEN hold ELSE used(done),
                   counter |-> counter + taken * F - done]
  BY DEF Vectors
<1>3. done \in Nat /\ done <= n /\ done <= counter + k * F
  <2> DEFINE T == {n, counter + k * F}
  <2>1. T \in SUBSET Nat /\ T # {}
    BY <1>1
  <2>2. n \in T /\ counter + k * F \in T
    OBVIOUS
  <2> HIDE DEF T
  <2>3. Min(T) \in T /\ \A y \in T : Min(T) <= y
    BY <2>1, Least
  <2> QED
    BY <2>1, <2>2, <2>3 DEF T
<1> HIDE DEF done
<1> DEFINE w == hold * F
<1>4. w \in Nat /\ c = w - counter
  BY <1>1
<1>5. ASSUME NEW j \in 1..done
      PROVE  /\ used(j) = FrameNumber(F, c + j)
             /\ j > counter => ((j - counter - 1) \div F) + 1 \in 1..k
                               /\ used(j) = hold + ((j - counter - 1) \div F) + 1
  <2>1. CASE j <= counter
    <3>1. hold >= 1
      <4>1. CASE hold = 0
        <5>1. w = 0
          BY <1>1, <4>1
        <5> HIDE DEF w
        <5> QED
          BY <1>1, <1>3, <1>4, <2>1, <5>1
      <4> QED
        BY <4>1
    <3> DEFINE q == hold - 1
               r == F - counter + j - 1
               v == q * F
    <3>2. q \in Nat /\ hold = q + 1
      BY <3>1
    <3>3. r \in 0..(F - 1)
      BY <1>1, <1>3, <2>1
    <3>4. w = v + F /\ v \in Nat
      <4> HIDE DEF q
      <4> QED
        BY <1>1, <3>2
    <3>5. (c + j) - 1 = v + r /\ c + j \in Nat \ {0}
      <4> HIDE DEF w, v
      <4> QED
        BY <1>1, <1>3, <1>4, <3>4
    <3> HIDE DEF q, r
    <3>6. FrameNumber(F, c + j) = q + 1
      <4> DEFINE m == c + j
      <4>1. m \in Nat \ {0} /\ m - 1 = v + r /\ v = q * F
        BY <3>5
      <4> HIDE DEF m, v
      <4>2. IsItem(F, m, q, r)
        BY <3>2, <3>3, <4>1, FrameNumberIs
      <4> QED
        BY <4>2 DEF IsItem, m
    <3> QED
      BY <2>1, <3>2, <3>6
  <2>2. CASE j > counter
    <3> DEFINE b == j - counter - 1
               q == b \div F
               r == b % F
    <3>1. b \in Nat /\ j = counter + 1 + b /\ b < k * F
      <4> DEFINE z == k * F
      <4>1. z \in Nat /\ done <= counter + z
        BY <1>1, <1>3
      <4> HIDE DEF z
      <4>2. j - counter - 1 \in Nat /\ j = counter + 1 + (j - counter - 1)
            /\ j - counter - 1 < z
        BY <1>1, <1>3, <2>2, <4>1
      <4> QED
        BY <4>2 DEF z
    <3> HIDE DEF b
    <3>2. b = F * q + r /\ q \in Nat /\ r \in 0..(F - 1)
      BY <1>1, <3>1, DivMod
    <3> HIDE DEF q, r
    <3>3. q < k
      <4>1. F * q < F * k
        <5>1. F * k = k * F /\ F * q \in Nat
          BY <1>1, <3>2
        <5> DEFINE y == F * q
                   z == F * k
        <5>2. y \in Nat /\ b = y + r /\ b < z /\ z \in Nat
          BY <1>1, <3>1, <3>2, <5>1
        <5> HIDE DEF y, z
        <5>3. y < z
          BY <3>2, <5>2
        <5> QED
          BY <5>3 DEF y, z
      <4> QED
        BY <1>1, <3>2, <4>1, TimesCancel
    <3>4. q + 1 \in 1..k /\ 1 + q = q + 1 /\ hold + (q + 1) \in Nat
      BY <1>1, <3>2, <3>3
    <3>5. powers[q + 1] = hold + (q + 1)
      BY <3>4 DEF Segment, FrameAt
    <3>6. used(j) = hold + q + 1
      <4>1. used(j) = powers[1 + q]
        BY <2>2, <1>1 DEF q, b
      <4> QED
        BY <3>2, <3>4, <3>5, <4>1
    <3>7. FrameNumber(F, c + j) = (hold + q) + 1
      <4> DEFINE h == hold + q
                 x == F * q
      <4>1. h \in Nat /\ h * F = w + x /\ x \in Nat
        BY <1>1, <3>2
      <4>2. b = x + r
        BY <3>2
      <4> DEFINE y == h * F
      <4>3. y = w + x
        BY <4>1
      <4> HIDE DEF h, x, w, y
      <4>4. (c + j) - 1 = y + r /\ c + j \in Nat \ {0}
        BY <1>1, <1>3, <1>4, <3>1, <3>2, <4>1, <4>2, <4>3
      <4>5. y = h * F
        BY DEF y
      <4>6. FrameNumber(F, c + j) = h + 1
        <5> DEFINE m == c + j
        <5>1. m \in Nat \ {0} /\ m - 1 = y + r
          BY <4>4
        <5> HIDE DEF m
        <5>2. IsItem(F, m, h, r)
          BY <3>2, <4>1, <4>5, <5>1, FrameNumberIs
        <5> QED
          BY <5>2 DEF IsItem, m
      <4> QED
        BY <4>6 DEF h
    <3>8. used(j) = FrameNumber(F, c + j)
      BY <3>2, <3>6, <3>7
    <3>9. ((j - counter - 1) \div F) + 1 \in 1..k
          /\ used(j) = hold + ((j - counter - 1) \div F) + 1
      BY <3>4, <3>6 DEF q, b
    <3> QED
      BY <3>8, <3>9
  <2> QED
    BY <1>1, <1>3, <2>1, <2>2
<1>6. CASE begun <= 0
  <2>1. taken = 0 /\ done <= counter /\ counter + taken * F - done = counter - done
    BY <1>1, <1>3, <1>6
  <2>2. counter - done \in 0..(F - 1)
    BY <1>1, <1>3, <2>1
  <2>3. (IF done = 0 THEN hold ELSE used(done)) = hold
    BY <2>1
  <2>4. c + done = (hold + 0) * F - (counter - done)
    <3>1. hold + 0 = hold
      OBVIOUS
    <3> HIDE DEF w
    <3>2. c + done = w - (counter - done)
      BY <1>1, <1>3, <1>4
    <3> QED
      BY <3>1, <3>2 DEF w
  <2> HIDE DEF used, taken
  <2> QED
    BY <1>1, <1>2, <1>3, <1>5, <2>1, <2>2, <2>3, <2>4
<1>7. CASE ~(begun <= 0)
  <2>1. begun \in Nat \ {0} /\ done = counter + begun /\ done > counter
        /\ done \in 1..done
    BY <1>1, <1>3, <1>7
  <2> DEFINE t == (begun - 1) \div F
  <2>2. taken = t + 1 /\ t \in Nat /\ t * F < begun /\ begun <= (t + 1) * F
    <3>1. taken = (begun + F - 1) \div F
      BY <1>7
    <3> HIDE DEF begun
    <3>2. /\ (begun + F - 1) \div F = ((begun - 1) \div F) + 1
          /\ (begun - 1) \div F \in Nat
          /\ ((begun - 1) \div F) * F < begun
          /\ begun <= (((begun - 1) \div F) + 1) * F
      BY <1>1, <2>1, CeilDiv
    <3> QED
      BY <3>1, <3>2
  <2>3. used(done) = hold + taken /\ taken \in 1..k
    <3>1. ((done - counter - 1) \div F) + 1 \in 1..k
          /\ used(done) = hold + ((done - counter - 1) \div F) + 1
      BY <1>5, <2>1
    <3>2. t = (done - counter - 1) \div F
      OBVIOUS
    <3> HIDE DEF used
    <3> QED
      BY SMTT(30), <2>2, <3>1, <3>2
  <2> HIDE DEF t, taken, begun
  <2> DEFINE y == t * F
             z == taken * F
  <2>4. z = y + F /\ y \in Nat /\ y < begun /\ begun <= z
    BY <1>1, <2>2
  <2> HIDE DEF y
  <2>5. z - begun \in 0..(F - 1) /\ counter + z - done = z - begun
    <3> HIDE DEF z
    <3> QED
      BY <1>1, <1>3, <2>1, <2>4
  <2>6. c + done = (hold + taken) * F - (z - begun)
    <3>1. (hold + taken) * F = w + z /\ z \in Nat
      BY <1>1, <2>3
    <3> HIDE DEF w, z
    <3>2. c + done = (w + z) - (z - begun)
      BY <1>1, <1>3, <1>4, <2>1, <3>1
    <3> QED
      BY <3>1, <3>2
  <2>7. done # 0
    BY <1>1, <1>3, <2>1
  <2> HIDE DEF used
  <2>8. p.next.hold = hold + taken /\ p.next.counter = counter + z - done
    BY <1>2, <2>3, <2>7
  <2>9. taken \in 0..k
    BY <1>1, <2>3
  <2> HIDE DEF z, k, w
  <2>10. p.next.counter = z - begun
    BY <2>5, <2>8
  <2>11. \A j \in 1..p.done : p.used[j] = FrameNumber(F, c + j)
    BY <1>2, <1>5
  <2> QED
    BY <1>2, <1>3, <2>5, <2>6, <2>8, <2>9, <2>10, <2>11 DEF k
<1> QED
  BY <1>6, <1>7

-----------------------------------------------------------------------------
(* Counting the items of a sequence.                                       *)

CountOf(x, v, n) == Cardinality({j \in 1..n : x[j] = v})

LEMMA CountNone == \A x, v : CountOf(x, v, 0) = 0
<1> SUFFICES ASSUME NEW x, NEW v PROVE CountOf(x, v, 0) = 0
  OBVIOUS
<1>1. {j \in 1..0 : x[j] = v} = {}
  OBVIOUS
<1> QED
  BY <1>1, FS_EmptySet DEF CountOf

LEMMA CountSucc ==
  ASSUME NEW x, NEW v, NEW n \in Nat
  PROVE  /\ CountOf(x, v, n) \in Nat
         /\ CountOf(x, v, n) <= n
         /\ CountOf(x, v, n + 1)
              = CountOf(x, v, n) + (IF x[n + 1] = v THEN 1 ELSE 0)
<1> DEFINE A == {j \in 1..n : x[j] = v}
           C == {j \in 1..(n + 1) : x[j] = v}
           y == n + 1
<1>1. IsFiniteSet(1..n) /\ Cardinality(1..n) = n
  <2>1. 1 \in Int /\ n \in Int
    OBVIOUS
  <2>2. IsFiniteSet(1..n) /\ Cardinality(1..n) = IF 1 > n THEN 0 ELSE n - 1 + 1
    BY <2>1, FS_Interval
  <2> QED
    BY <2>2
<1>2. A \in SUBSET (1..n)
  OBVIOUS
<1>3. y \notin A /\ C = (IF x[y] = v THEN A \cup {y} ELSE A)
  <2>1. 1..(n + 1) = (1..n) \cup {y} /\ y \notin 1..n
    OBVIOUS
  <2>2. C = {j \in (1..n) \cup {y} : x[j] = v}
    BY <2>1
  <2> HIDE DEF y, C
  <2> QED
    BY <2>1, <2>2
<1>4. CountOf(x, v, n) = Cardinality(A) /\ CountOf(x, v, n + 1) = Cardinality(C)
  BY DEF CountOf
<1> HIDE DEF A, C, y
<1>5. IsFiniteSet(A) /\ Cardinality(A) <= n
  BY <1>1, <1>2, FS_Subset
<1>6. Cardinality(A) \in Nat
  BY <1>5, FS_CardinalityType
<1>7. Cardinality(C) = Cardinality(A) + (IF x[y] = v THEN 1 ELSE 0)
  <2>1. Cardinality(A \cup {y}) = Cardinality(A) + 1
    BY <1>3, <1>5, FS_AddElement
  <2> QED
    BY <1>3, <1>6, <2>1
<1> QED
  BY <1>4, <1>5, <1>6, <1>7 DEF y

(* Items that are all the same.                                            *)
IsRunOf(x, w, a, n) == \A j \in 1..n : x[a + j] = w

RunCounts(x, v, w, a, n) ==
  \A k \in 0..n :
    CountOf(x, v, a + k) = CountOf(x, v, a) + (IF v = w THEN k ELSE 0)

LEMMA CountRun ==
  ASSUME NEW x, NEW w, NEW a \in Nat, NEW n \in Nat, IsRunOf(x, w, a, n), NEW v
  PROVE  RunCounts(x, v, w, a, n)
<1>0. \A j \in 1..n : x[a + j] = w
  BY DEF IsRunOf
<1> DEFINE T == {j \in 0..n : CountOf(x, v, a + j)
                                # CountOf(x, v, a) + (IF v = w THEN j ELSE 0)}
<1>1. CountOf(x, v, a) \in Nat /\ a + 0 = a
  BY CountSucc
<1>2. 0 \notin T
  BY <1>1
<1>3. ASSUME NEW j \in 0..(n - 1), j \notin T PROVE j + 1 \notin T
  <2>1. a + j \in Nat /\ a + (j + 1) = (a + j) + 1 /\ j + 1 \in 1..n /\ j \in 0..n
    OBVIOUS
  <2>2. CountOf(x, v, (a + j) + 1)
          = CountOf(x, v, a + j) + (IF x[(a + j) + 1] = v THEN 1 ELSE 0)
    BY <2>1, CountSucc
  <2>3. x[a + (j + 1)] = w
    BY <1>0, <2>1
  <2>4. CountOf(x, v, a + j) = CountOf(x, v, a) + (IF v = w THEN j ELSE 0)
    BY <1>3, <2>1
  <2>5. CountOf(x, v, a + (j + 1)) = CountOf(x, v, a) + (IF v = w THEN j + 1 ELSE 0)
    BY <1>1, <2>1, <2>2, <2>3, <2>4
  <2> QED
    BY <2>5
<1>4. T = {}
  <2>1. T \in SUBSET (0..n)
    OBVIOUS
  <2> HIDE DEF T
  <2> QED
    BY <1>2, <1>3, <2>1, NoFirst
<1> QED
  BY <1>4 DEF RunCounts

(* What is counted in a segment is added to what was counted before it.    *)
SegmentCounts(x, v, a, q, k) ==
  /\ CountOf(x, v, a + k) = CountOf(x, v, a) + CountOf(q, v, k)
  /\ CountOf(x, v, a) \in Nat /\ CountOf(q, v, k) \in Nat

LEMMA CountSegment ==
  ASSUME NEW x, NEW v, NEW a \in Nat, NEW q, Len(q) \in Nat, Segment(q, x, a),
         NEW k \in 0..Len(q)
  PROVE  SegmentCounts(x, v, a, q, k)
<1> DEFINE n == Len(q)
           T == {j \in 0..n : CountOf(x, v, a + j)
                                # CountOf(x, v, a) + CountOf(q, v, j)}
<1>0. n \in Nat /\ \A j \in 1..n : q[j] = x[a + j]
  BY DEF Segment
<1> HIDE DEF n
<1>1. CountOf(x, v, a) \in Nat /\ a + 0 = a /\ CountOf(q, v, 0) = 0
  BY SMTT(30), CountSucc, CountNone
<1>2. 0 \notin T
  BY <1>1
<1>3. ASSUME NEW j \in 0..(n - 1), j \notin T PROVE j + 1 \notin T
  <2>1. a + j \in Nat /\ a + (j + 1) = (a + j) + 1 /\ j + 1 \in 1..n /\ j \in 0..n
        /\ j \in Nat
    BY <1>0
  <2>2. CountOf(x, v, (a + j) + 1)
          = CountOf(x, v, a + j) + (IF x[(a + j) + 1] = v THEN 1 ELSE 0)
    <3> DEFINE b == a + j
    <3>1. b \in Nat
      BY <2>1
    <3> HIDE DEF b
    <3>2. CountOf(x, v, b + 1) = CountOf(x, v, b) + (IF x[b + 1] = v THEN 1 ELSE 0)
      BY SMTT(30), <3>1, CountSucc
    <3> QED
      BY <3>2 DEF b
  <2>3. /\ CountOf(q, v, j + 1) = CountOf(q, v, j) + (IF q[j + 1] = v THEN 1 ELSE 0)
        /\ CountOf(q, v, j) \in Nat
    BY <2>1, CountSucc
  <2>4. q[j + 1] = x[(a + j) + 1]
    BY <1>0, <2>1
  <2>5. CountOf(x, v, a + j) = CountOf(x, v, a) + CountOf(q, v, j)
    BY <1>3, <2>1
  <2>6. CountOf(x, v, a + (j + 1)) = CountOf(x, v, a) + CountOf(q, v, j + 1)
    BY <1>1, <2>1, <2>2, <2>3, <2>4, <2>5
  <2> QED
    BY <2>6
<1>4. T = {}
  <2>1. T \in SUBSET (0..n)
    OBVIOUS
  <2> HIDE DEF T
  <2> QED
    BY <1>0, <1>2, <1>3, <2>1, NoFirst
<1>5. k \in 0..n /\ k \in Nat
  BY <1>0 DEF n
<1> QED
  BY <1>1, <1>4, <1>5, CountSucc DEF SegmentCounts

(* The more items, the more are counted, and the last of them if it is one *)
(* of those.                                                               *)
LEMMA CountMonotonic ==
  ASSUME NEW x, NEW v, NEW n \in Nat, NEW k \in 0..n
  PROVE  /\ CountOf(x, v, k) \in Nat
         /\ CountOf(x, v, k) <= CountOf(x, v, n)
         /\ k # 0 /\ x[k] = v => CountOf(x, v, k) >= 1
<1> DEFINE T == {j \in 0..(n - k) : ~(CountOf(x, v, k) <= CountOf(x, v, k + j))}
<1>1. CountOf(x, v, k) \in Nat /\ k + 0 = k /\ n - k \in Nat /\ k \in Nat
  BY CountSucc
<1>2. 0 \notin T
  BY <1>1
<1>3. ASSUME NEW j \in 0..((n - k) - 1), j \notin T PROVE j + 1 \notin T
  <2>1. k + j \in Nat /\ k + (j + 1) = (k + j) + 1 /\ j \in 0..(n - k)
    BY <1>1
  <2>2. /\ CountOf(x, v, k + j) \in Nat
        /\ CountOf(x, v, (k + j) + 1)
             = CountOf(x, v, k + j) + (IF x[(k + j) + 1] = v THEN 1 ELSE 0)
    BY <2>1, CountSucc
  <2>3. CountOf(x, v, k) <= CountOf(x, v, k + j)
    BY <1>3, <2>1
  <2>4. CountOf(x, v, k) <= CountOf(x, v, k + (j + 1))
    BY <1>1, <2>1, <2>2, <2>3
  <2> QED
    BY <2>4
<1>4. T = {}
  <2>1. T \in SUBSET (0..(n - k))
    OBVIOUS
  <2> HIDE DEF T
  <2> QED
    BY <1>1, <1>2, <1>3, <2>1, NoFirst
<1>5. CountOf(x, v, k) <= CountOf(x, v, n)
  <2>1. n - k \in 0..(n - k) /\ k + (n - k) = n
    BY <1>1
  <2> QED
    BY <1>4, <2>1
<1>6. ASSUME k # 0, x[k] = v PROVE CountOf(x, v, k) >= 1
  <2> DEFINE j == k - 1
  <2>1. j \in Nat /\ j + 1 = k
    BY <1>1, <1>6
  <2> HIDE DEF j
  <2>2. CountOf(x, v, j) \in Nat
        /\ CountOf(x, v, j + 1) = CountOf(x, v, j) + (IF x[j + 1] = v THEN 1 ELSE 0)
    BY <2>1, CountSucc
  <2> QED
    BY <1>6, <2>1, <2>2
<1> QED
  BY <1>1, <1>5, <1>6
=============================================================================
