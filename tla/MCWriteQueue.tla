---------------------------- MODULE MCWriteQueue ----------------------------
(* WriteQueue for TLC: more sectors than slots, so that the queue fills, evicts *)
(* its oldest sector and wraps.                                                 *)
EXTENDS WriteQueue
=============================================================================
