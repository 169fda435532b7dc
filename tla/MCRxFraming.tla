----------------------------- MODULE MCRxFraming -----------------------------
(* Small instances of RxFraming.  Errors in the first and in the last bits *)
(* of frames, so that the window opens and closes on them.                 *)
EXTENDS RxFraming

MCWrong == {<<1, 1>>, <<1, 2>>, <<2, 2>>, <<2, 4>>, <<3, 1>>}
=============================================================================
