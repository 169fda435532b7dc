------------------------- MODULE MCAdaptiveManager -------------------------
(* Small instances of AdaptiveManager.                                     *)
EXTENDS AdaptiveManager

const_Increment == <<1, 4>>
const_Channels == {<<5, 6>>, <<1, 9>>}
=============================================================================
