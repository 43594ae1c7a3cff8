--------------------------- MODULE MCFrameWriter ----------------------------
(* FrameWriter for TLC: a frame of one full burst and one partial burst. *)
EXTENDS FrameWriter
=============================================================================
