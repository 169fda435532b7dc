----------------------------- MODULE MCTxFraming -----------------------------
(* Small instances of TxFraming. *)
EXTENDS TxFraming
=============================================================================
