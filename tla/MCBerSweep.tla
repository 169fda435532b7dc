----------------------------- MODULE MCBerSweep -----------------------------
(* Small instances of BerSweep.                                            *)
EXTENDS BerSweep
=============================================================================
