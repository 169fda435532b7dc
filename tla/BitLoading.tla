----------------------------- MODULE BitLoading -----------------------------
(***************************************************************************)
(* The Levin-Campello bit loading of the water-filling resource manager    *)
(* (python/ofdm/rm_singleuser_waterfilling4.py).  It starts from the       *)
(* loading in use, makes it efficient, and then adds or removes bits until *)
(* the energy, or the number of bits, is the one asked for.                *)
(*                                                                         *)
(* A weight stands for gamma/g of a subcarrier: what noise and channel     *)
(* make of the energy of a bit.                                            *)
(***************************************************************************)
EXTENDS Loops, FiniteSets

CONSTANTS
  N,           \* number of subcarriers
  max_nbits,   \* bits of a subcarrier, at most (8)
  Increment    \* energy of each further bit, at weight 1

(* The tables of SNR_diff make every further bit dearer.                   *)
ASSUME LoadingAssumption ==
  /\ N \in Nat \ {0}
  /\ max_nbits \in Nat \ {0}
  /\ Increment \in [1..max_nbits -> Nat \ {0}]
  /\ \A i, j \in 1..max_nbits : i < j => Increment[i] < Increment[j]

Subcarriers == 1..N
Bits == 0..max_nbits
Loadings == [Subcarriers -> Bits]

(* prepare_table: the energy of a subcarrier's bit, the first one is 1.    *)
gn(w, bit, n) == IF bit = 0 THEN 0 ELSE w[n] * Increment[bit]

(* sum(): of the first n values of f.                                      *)
Total(f, n) ==
  LET t[k \in 0..n] == IF k = 0 THEN 0 ELSE t[k - 1] + f[k]
  IN  t[n]

energy(w, n, bits) == Total([bit \in 1..max_nbits |-> gn(w, bit, n)], bits)

Energy(w, b) == Total([n \in Subcarriers |-> energy(w, n, b[n])], N)

Rate(b) == Total(b, N)

Used(b) == Cardinality({n \in Subcarriers : b[n] > 0})

-----------------------------------------------------------------------------
(* Where the next bit is cheapest, and where the last one is dearest; of   *)
(* several, the first.  A full subcarrier takes no bit.                    *)

NotFull(b) == {n \in Subcarriers : b[n] < max_nbits}

min_c(w, b) ==
  CHOOSE n \in NotFull(b) : \A k \in NotFull(b) :
    \/ gn(w, b[n] + 1, n) < gn(w, b[k] + 1, k)
    \/ gn(w, b[n] + 1, n) = gn(w, b[k] + 1, k) /\ n <= k

max_c(w, b) ==
  CHOOSE n \in Subcarriers : \A k \in Subcarriers :
    \/ gn(w, b[n], n) > gn(w, b[k], k)
    \/ gn(w, b[n], n) = gn(w, b[k], k) /\ n <= k

NextBit(w, b) == gn(w, b[min_c(w, b)] + 1, min_c(w, b))
LastBit(w, b) == gn(w, b[max_c(w, b)], max_c(w, b))

AddBit(w, b) == [b EXCEPT ![min_c(w, b)] = @ + 1]
RemoveBit(w, b) == [b EXCEPT ![max_c(w, b)] = @ - 1]

MoveBit(w, b) == [b EXCEPT ![min_c(w, b)] = @ + 1, ![max_c(w, b)] = @ - 1]

-----------------------------------------------------------------------------
(* Defects.                                                                *)

(* Efficiency is taken for granted.                                        *)
NoSwap(w, loading) == loading

(* Bits are added, none is removed.                                        *)
ETOnlyUp(w, K, loading) ==
  LET turn == [b \in Loadings |->
                 IF NotFull(b) # {} /\ K - Energy(w, b) >= NextBit(w, b)
                 THEN AddBit(w, b) ELSE b]
  IN  Turns(turn, loading, N * max_nbits)

-----------------------------------------------------------------------------
(* The loops.  As many turns are made as a loop may need; once it has      *)
(* ended the others change nothing.                                        *)

(* Efficient: no bit is cheaper elsewhere.  No bit is moved twice.         *)
EF(w, loading) ==
  LET turn == [b \in Loadings |->
                 IF NotFull(b) # {} /\ NextBit(w, b) < LastBit(w, b)
                 THEN MoveBit(w, b) ELSE b]
  IN  Turns(turn, loading, Rate(loading))

(* Tight: within energy K, with no room for another bit.  An efficient     *)
(* loading takes bits or gives bits, and never both.                       *)
ET(w, K, loading) ==
  LET turn == [b \in Loadings |->
                 IF Energy(w, b) > K THEN RemoveBit(w, b)
                 ELSE IF NotFull(b) # {} /\ K - Energy(w, b) >= NextBit(w, b)
                      THEN AddBit(w, b)
                 ELSE b]
  IN  Turns(turn, loading, N * max_nbits)

(* K bits.                                                                 *)
BT(w, K, loading) ==
  LET missing == IF Rate(loading) > K THEN Rate(loading) - K
                 ELSE K - Rate(loading)
      turn == [b \in Loadings |->
                 IF Rate(b) > K THEN RemoveBit(w, b)
                 ELSE IF Rate(b) < K THEN AddBit(w, b)
                 ELSE b]
  IN  Turns(turn, loading, missing)

levin_campello(w, K, b) == ET(w, K, EF(w, b))

levin_campello_margin(w, K, b) == BT(w, K, EF(w, b))

-----------------------------------------------------------------------------
(* What is promised of them.                                               *)

(* As many bits as energy K allows, and no cheaper way to have them.       *)
BestRate(w, K, b) ==
  /\ Energy(w, b) <= K
  /\ \A x \in Loadings : Energy(w, x) <= K =>
       \/ Rate(x) < Rate(b)
       \/ Rate(x) = Rate(b) /\ Energy(w, x) >= Energy(w, b)

(* K bits, and no cheaper way to have them.                                *)
BestMargin(w, K, b) ==
  /\ Rate(b) = K
  /\ \A x \in Loadings : Rate(x) = K => Energy(w, x) >= Energy(w, b)
=============================================================================
