--------------------------- MODULE MCFrameManager ---------------------------
(* FrameManager for TLC: the constants come from the cfg. *)
EXTENDS FrameManager
=============================================================================
