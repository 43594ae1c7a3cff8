------------------------------ MODULE MCFloppy ------------------------------
(* Floppy for TLC: two drives; a writable image of a block and a half, and a  *)
(* packed one.  For the violations: a single image, and two for one drive.    *)
EXTENDS Floppy

Sizes  == <<3, 4>>
Placed == {<<0, 1>>, <<1, 2>>}
Packed == <<<<>>, <<1, 255, 3>>>>

OneImage  == {<<0, 1>>}
TwoImages == {<<0, 1>>, <<0, 2>>}
Plain     == <<2, 2>>
Single    == <<2>>
Both      == {<<0, 1>>, <<1, 2>>}
=============================================================================
