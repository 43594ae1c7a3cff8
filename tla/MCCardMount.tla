---------------------------- MODULE MCCardMount ----------------------------
(* CardMount for TLC: a small folder, a larger image, an image that can only *)
(* be read, and a path that does not open.                                   *)
EXTENDS CardMount

Media == [folder |-> [kind |-> "folder", secs |-> 1, rw |-> FALSE],
          image  |-> [kind |-> "image",  secs |-> 3, rw |-> TRUE],
          locked |-> [kind |-> "image",  secs |-> 2, rw |-> FALSE],
          gone   |-> NoVolume]

Handlers == {"off", "on", "zc", "eject", "write", "mount", "profile", "other", "file", "reload"}
=============================================================================
