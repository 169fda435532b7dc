--------------------------- MODULE MCReceiverFront ---------------------------
(* Frames of two preambles and three data blocks.                            *)
EXTENDS ReceiverFront

const_Pilots == {0, 1}
=============================================================================
