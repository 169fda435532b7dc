---------------------------- MODULE AllocationLink ----------------------------
(***************************************************************************)
(* What the adaptive link promises its users: frames are demapped in the   *)
(* order they were sent, each exactly once, and each with the settings of  *)
(* a frame of the same id that is not newer, or with the initial ones.     *)
(* Which of these it is depends on what the announcement channel lost.     *)
(***************************************************************************)
EXTENDS Naturals, Sequences

CONSTANTS Period, Initial

VARIABLES sent, received

Init == sent = << >> /\ received = << >>

(* Any settings may be sent next.                                          *)
Send ==
  /\ Len(sent') = Len(sent) + 1
  /\ SubSeq(sent', 1, Len(sent)) = sent

SameId(k) == {m \in 1..k : m % Period = k % Period}

Receive ==
  /\ Len(received) < Len(sent)
  /\ \E x \in {Initial} \cup {sent[m] : m \in SameId(Len(received) + 1)} :
       received' = Append(received, x)

Next ==
  \/ Send /\ UNCHANGED received
  \/ Receive /\ UNCHANGED sent

Spec == Init /\ [][Next]_<<sent, received>>
=============================================================================
