-------------------------- MODULE MCResourceBlocks --------------------------
(* Small instances of ResourceBlocks. *)
EXTENDS ResourceBlocks
=============================================================================
