---------------------------- MODULE MCCardSystem ----------------------------
(* CardSystem for TLC: frames and blocks of two bytes, three sectors of which *)
(* the volume has two, and the driver's commands as each run asks.            *)
EXTENDS CardSystem

Commands == {"CMD17", "CMD18", "CMD24", "CMD25"}
AllReads == {"CMD9"} \cup Commands
Stream   == {"CMD18"}
=============================================================================
