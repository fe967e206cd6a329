--------------------------- MODULE MCFruityControl ---------------------------
(* FruityControl with a few devices and providers. *)
EXTENDS FruityControl
=============================================================================
