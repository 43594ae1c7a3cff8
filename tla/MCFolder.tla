------------------------------ MODULE MCFolder ------------------------------
(* Folder for TLC: a folder with a file in it, and a file of two sectors. *)
EXTENDS Folder

File(p, x) == [path |-> p, dir |-> FALSE, data |-> x]
Fold(p)    == [path |-> p, dir |-> TRUE, data |-> <<>>]
Small == <<Fold(<<"D">>), File(<<"D", "A">>, <<1>>), File(<<"B">>, <<2, 3>>)>>
Letters == <<"A", "B", "D">>
=============================================================================
