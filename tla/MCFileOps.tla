----------------------------- MODULE MCFileOps -----------------------------
(* FileOps for TLC: the folder w holds a file of two chunks and a folder with *)
(* one file; the folder t holds nothing, or older, shorter or foreign files   *)
(* of the same names.                                                         *)
EXTENDS FileOps

Folder == [dir |-> TRUE, data |-> <<>>, date |-> 0]
File(d, t) == [dir |-> FALSE, data |-> d, date |-> t]

W == <<"w">>
T == <<"t">>
Base == (<<>> :> Folder) @@ (W :> Folder) @@ (W \o <<"a">> :> File(<<"a1", "a2">>, 1))
        @@ (W \o <<"d">> :> Folder) @@ (W \o <<"d", "b">> :> File(<<"b1">>, 1))

Fresh == Base
Begun == (T :> Folder) @@ (T \o <<"a">> :> File(<<"a1">>, 0)) @@ Base
Older == (T :> Folder) @@ (T \o <<"d">> :> Folder)
         @@ (T \o <<"d", "b">> :> File(<<"x">>, 0)) @@ Base
Newer == (T :> Folder) @@ (T \o <<"a">> :> File(<<"x">>, 2)) @@ (W \o <<"n">> :> File(<<"n1">>, 1))
         @@ (T \o <<"d">> :> File(<<"y">>, 2)) @@ Base
Cards == {Fresh, Begun, Older, Newer}

Op(k, s, n, f, a, m, v) == [kind |-> k, single |-> s, names |-> n, folder |-> f, as |-> a,
                            mode |-> m, verify |-> v]
Groups == {<<"a">>, <<"d">>, <<"d", "a">>}
Plain  == {Op(k, FALSE, n, T, "", m, FALSE) : k \in {"copy", "move"}, n \in Groups, m \in Modes}
Safe   == {Op("move", s, <<n>>, T, "", "overwrite", TRUE) : s \in BOOLEAN, n \in {"a", "d"}}
Names_ == {Op("rename", TRUE, <<n>>, W, "n", m, FALSE) : n \in {"a", "d"}, m \in {"ask", "overwrite"}}
          \cup {Op("recase", TRUE, <<n>>, W, "A", "ask", FALSE) : n \in {"a", "d"}}
Rest   == {Op("delete", FALSE, n, W, "", "ask", FALSE) : n \in Groups}
          \cup {Op("copy", FALSE, <<"a">>, W, as, "overwrite", FALSE) : as \in {"", "n"}}
          \cup {Op("move", TRUE, <<"a">>, T, "n", m, FALSE) : m \in {"ask", "resume"}}
          \cup {Op("copy", FALSE, <<"a">>, T \o <<"d">>, "", "ask", FALSE),
                Op("move", FALSE, <<"d">>, <<>>, "w", "overwrite", FALSE)}
All    == Plain \cup Safe \cup Names_ \cup Rest
Sparing  == {Op("copy", FALSE, n, T, "", m, FALSE) : n \in Groups, m \in {"skip", "append", "resume", "refresh"}}
Skipping == {Op("move", FALSE, n, T, "", "skip", FALSE) : n \in Groups}
AllCalls == {"mkdir", "unlink", "opendir", "readdir", "open", "read", "write", "close", "rename",
             "stat"}

\* A folder with an old copy of the one it lies in, copied to the root.
Inner == <<"w", "d", "w">>
Backup == (<<>> :> Folder) @@ (W :> Folder) @@ (W \o <<"d">> :> Folder)
          @@ (Inner :> Folder) @@ (Inner \o <<"y">> :> File(<<"y1">>, 1))
          @@ (Inner \o <<"d">> :> Folder) @@ (Inner \o <<"d", "w">> :> Folder)
          @@ (Inner \o <<"d", "w", "y">> :> File(<<"y0">>, 0))
Backups == {Backup}
InnerHere == <<"w", "d">>
Restore == {Op("copy", FALSE, <<"w">>, <<>>, "", "overwrite", FALSE)}
=============================================================================
