-------------------------------- MODULE Loops --------------------------------
(***************************************************************************)
(* Loops of the program that are modelled as one step of their thread.     *)
(***************************************************************************)
EXTENDS Integers

(* The locals of a call after n turns of its loop; turn is the function    *)
(* from the locals before a turn to those after it, and leaves them alone  *)
(* once the loop has ended.                                                *)
Turns(turn, locals, n) ==
  LET run[k \in 0..n] == IF k = 0 THEN locals ELSE turn[run[k - 1]]
  IN  run[n]
=============================================================================
