----------------------------- MODULE MCTimeSync -----------------------------
(* Time synchronisation with blocks of four samples and a prefix of two.   *)
EXTENDS TimeSync
=============================================================================
