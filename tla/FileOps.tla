------------------------------ MODULE FileOps ------------------------------
(***************************************************************************)
(* The navigator's file operations: copy, move, rename and delete of the   *)
(* tagged entries of the current folder (group_copy_move, rename_selected, *)
(* delete_selected and the recursive workers below them), on a card that   *)
(* may fail at any call, under a user who may cancel at any moment, and    *)
(* with a power supply that may go.                                        *)
(*                                                                         *)
(* The card is a function from paths to nodes; a path is a sequence of     *)
(* names, a file's data the sequence of its chunks (one turn of the copy   *)
(* loop each).  FatFs is external: what an open file has been given        *)
(* reaches the card when it is closed.                                     *)
(***************************************************************************)
EXTENDS Integers, Sequences, SequencesExt, Functions, TLC

CONSTANTS Volumes,      \* what may be on the card to begin with
          Here,         \* curpath, the folder of the tagged entries
          TmpName,      \* "_BLBTMP_"
          Ops,          \* the operations the user may ask for
          Faults,       \* the FatFs calls that may fail
          MaxFaults,    \* bound on such failures
          MaxOps,       \* bound on operations
          PowerFails

Kinds == {"copy", "move", "delete", "rename", "recase"}
Modes == {"overwrite", "append", "resume", "skip", "refresh", "ask"}

Name  == STRING
Chunk == STRING
Path  == Seq(Name)

\* single: one entry moved by F6 (copy_move_run), not a group.
OpType == [kind : Kinds, single : BOOLEAN, names : Seq(Name), folder : Path,
           as : Name, mode : Modes, verify : BOOLEAN]

\* A card: every folder a path leads through is there.
Node == [dir : BOOLEAN, data : Seq(Chunk), date : Nat]
IsVolume(v) ==
    /\ \A p \in DOMAIN v : p \in Path /\ v[p] \in Node
    /\ \A p \in DOMAIN v : \A n \in 0 .. Len(p) - 1 :
            SubSeq(p, 1, n) \in DOMAIN v /\ v[SubSeq(p, 1, n)].dir

ASSUME FileOpsAssumption ==
    /\ \A v \in Volumes : IsVolume(v)
    /\ Here \in Path /\ TmpName \in Name
    /\ \A o \in Ops : /\ o \in OpType /\ IsInjective(o.names) /\ o.names # <<>>
                      /\ o.kind \in {"rename", "recase"} => o.folder = Here /\ Len(o.names) = 1
                      /\ o.single \/ o.as # "" => Len(o.names) = 1
                      \* a folder is never copied into itself
                      /\ \A i \in DOMAIN o.names : ~IsPrefix(Append(Here, o.names[i]), o.folder)
    /\ MaxFaults \in Nat /\ MaxOps \in Nat /\ PowerFails \in BOOLEAN

NOW == 2                \* the date a file written now gets
Dir == [dir |-> TRUE, data |-> <<>>, date |-> NOW]
Written(d) == [dir |-> FALSE, data |-> d, date |-> NOW]
NoFile == [open |-> FALSE, data |-> <<>>]
NoOp == [kind |-> "delete", single |-> FALSE, names |-> <<>>, folder |-> Here,
         as |-> "", mode |-> "ask", verify |-> FALSE]

VARIABLES vol,          \* the card
          op, todo,     \* the operation, the entries of its snapshot still to do
          pc,
          item,         \* src and dst of the entry in hand, as named in the snapshot
          walk,         \* copy_entry's, rmdir_recursive's recursion: one frame a folder
          cur,          \* src and dst of the file or folder in hand
          phase,        \* "copy" or "remove"
          how,          \* copy_file_pg's mode
          fd, pos,      \* its open target, chunks of the source read
          rc,           \* result of the last worker: 1, 2 skipped, 0 failed, -1 aborted
          askall,       \* g_copy_askall, "ask" when unset
          abort,        \* g_pg_abort
          faults, nops, \* counted against the bounds
          before,       \* ghost: the card as the operation found it
          copied,       \* ghost: files copy_file_pg reported as copied
          skipped,      \* ghost: files it skipped
          unnoticed     \* ghost: what a failure nobody looks at has cut short, or
                        \* hidden from copy_file_pg

place == <<item, walk, cur, phase>>
file  == <<how, fd, pos>>
ghost == <<before, copied, skipped, unnoticed>>
vars  == <<vol, op, todo, pc, place, file, rc, askall, abort, faults, nops, ghost>>

-----------------------------------------------------------------------------
(* FatFs. *)
IsDir(v, p)    == p \in DOMAIN v /\ v[p].dir
Children(v, p) == {q \in DOMAIN v : q # <<>> /\ Front(q) = p}
Under(p, q)    == IsPrefix(p, q)
With(v, p, n)  == [q \in DOMAIN v \cup {p} |-> IF q = p THEN n ELSE v[q]]
Without(v, p)  == Restrict(v, DOMAIN v \ {p})

\* f_rename takes a folder's contents along.
Moved(p, a, b) == IF Under(a, p) THEN b \o SubSeq(p, Len(a) + 1, Len(p)) ELSE p
Renamed(v, a, b) ==
    [q \in {Moved(p, a, b) : p \in DOMAIN v} |->
        v[CHOOSE p \in DOMAIN v : Moved(p, a, b) = q]]

\* A file can be opened for writing where a folder is, and no folder in its place.
Creatable(v, p) == IsDir(v, Front(p)) /\ ~IsDir(v, p)
Removable(v, p) == p \in DOMAIN v /\ Children(v, p) = {}

Fault(call) == call \in Faults /\ faults < MaxFaults /\ faults' = faults + 1
Fine        == faults' = faults

\* f_mkdir: every failure is ignored.
f_mkdir(p) ==
    \/ /\ vol' = (IF p \notin DOMAIN vol /\ IsDir(vol, Front(p)) THEN With(vol, p, Dir) ELSE vol)
       /\ Fine
    \/ Fault("mkdir") /\ vol' = vol

\* mkdir_path: every missing folder of a path, from the top; behind one that
\* fails, or a file in the way, the others fail too.
Upto(p, n) == SubSeq(p, 1, n)
MadePath(v, p, n) ==
    [q \in DOMAIN v \cup {Upto(p, k) : k \in 1 .. n} |-> IF q \in DOMAIN v THEN v[q] ELSE Dir]
mkdir_path(p) ==
    \E n \in 0 .. Len(p) :
        /\ \A k \in 1 .. n : Upto(p, k) \in DOMAIN vol => vol[Upto(p, k)].dir
        /\ vol' = MadePath(vol, p, n)
        /\ \/ (n < Len(p) => Upto(p, n + 1) \in DOMAIN vol /\ ~vol[Upto(p, n + 1)].dir) /\ Fine
           \/ n < Len(p) /\ Upto(p, n + 1) \notin DOMAIN vol /\ Fault("mkdir")

\* f_unlink: a file, or an empty folder.
f_unlink(p) ==
    \/ /\ Fine
       /\ IF Removable(vol, p) THEN vol' = Without(vol, p) /\ rc' = 1
                                ELSE UNCHANGED vol /\ rc' = 0
    \/ Fault("unlink") /\ rc' = 0 /\ UNCHANGED vol

-----------------------------------------------------------------------------
Init ==
    /\ vol \in Volumes
    /\ op = NoOp /\ todo = <<>> /\ pc = "idle"
    /\ item = [src |-> Here, dst |-> Here] /\ walk = <<>> /\ cur = item /\ phase = "copy"
    /\ how = "ask" /\ fd = NoFile /\ pos = 0 /\ rc = 1
    /\ askall = "ask" /\ abort = FALSE /\ faults = 0 /\ nops = 0
    /\ before = vol /\ copied = {} /\ skipped = {} /\ unnoticed = {}

\* The dialog is confirmed: snapshot, mkdir_path of the folder.
Begin(o) ==
    /\ pc = "idle" /\ nops < MaxOps
    /\ \A i \in DOMAIN o.names : Append(Here, o.names[i]) \in DOMAIN vol   \* flist
    /\ op' = o /\ todo' = o.names /\ nops' = nops + 1
    /\ before' = vol /\ copied' = {} /\ skipped' = {} /\ unnoticed' = {}
    /\ askall' = "ask" /\ abort' = FALSE
    /\ IF o.kind \in {"copy", "move"} THEN mkdir_path(o.folder) ELSE Fine /\ UNCHANGED vol
    /\ pc' = "next"
    /\ UNCHANGED <<place, file, rc>>

ItemOf(name) == [src |-> Append(Here, name),
                 dst |-> Append(op.folder, IF op.as = "" THEN name ELSE op.as)]

\* The next entry of the snapshot; one that would be copied onto itself is passed over.
NextItem ==
    /\ pc = "next" /\ todo # <<>>
    /\ todo' = Tail(todo)
    /\ item' = ItemOf(Head(todo)) /\ cur' = item'
    /\ phase' = (IF op.kind = "delete" THEN "remove" ELSE "copy")
    /\ pc' = (IF op.kind \in {"rename", "recase"} THEN op.kind
              ELSE IF op.kind # "delete" /\ item'.src = item'.dst THEN "next" ELSE "entry")
    /\ UNCHANGED <<vol, op, walk, file, rc, askall, abort, faults, nops, ghost>>

Finish ==
    /\ pc = "next" /\ todo = <<>> /\ pc' = "idle"
    /\ UNCHANGED <<vol, op, todo, place, file, rc, askall, abort, faults, nops, ghost>>

\* Esc, seen by the next pg_tick.
Cancel ==
    /\ pc # "idle" /\ ~abort /\ abort' = TRUE
    /\ UNCHANGED <<vol, op, todo, pc, place, file, rc, askall, faults, nops, ghost>>

-----------------------------------------------------------------------------
(* copy_entry and rmdir_recursive: the walk over a tree. *)
top == Last(walk)
Frame(c) == [src |-> c.src, dst |-> c.dst, seen |-> {}]

\* A folder: f_mkdir of the target, when copying, then f_opendir.
EnterFolder ==
    /\ pc = "entry" /\ IsDir(vol, cur.src)
    /\ IF phase = "copy" THEN f_mkdir(cur.dst) ELSE Fine /\ UNCHANGED vol
    /\ walk' = Append(walk, Frame(cur)) /\ pc' = "list"
    /\ UNCHANGED <<op, todo, item, cur, phase, file, rc, askall, abort, nops, ghost>>

EnterFails ==
    /\ pc = "entry" /\ IsDir(vol, cur.src)
    /\ Fault("opendir")
    /\ vol' = (IF phase = "copy" /\ cur.dst \notin DOMAIN vol /\ IsDir(vol, Front(cur.dst))
               THEN With(vol, cur.dst, Dir) ELSE vol)
    /\ rc' = 0 /\ pc' = "back"
    /\ UNCHANGED <<op, todo, place, file, askall, abort, nops, ghost>>

\* f_readdir gives the next child; a removal looks at the Cancel key first.
Descend ==
    /\ pc = "list" /\ Fine
    /\ \E q \in Children(vol, top.src) \ top.seen :
        IF phase = "remove" /\ abort
        THEN rc' = -1 /\ walk' = <<>> /\ pc' = "back" /\ UNCHANGED cur
        ELSE /\ walk' = [walk EXCEPT ![Len(walk)].seen = @ \cup {q}]
             /\ cur' = [src |-> q, dst |-> Append(top.dst, Last(q))]
             /\ pc' = "entry" /\ UNCHANGED rc
    /\ UNCHANGED <<vol, op, todo, item, phase, file, askall, abort, nops, ghost>>

\* The listing ends; one that breaks off with an error ends just the same.
ListEnd ==
    /\ pc = "list"
    /\ \/ Children(vol, top.src) \subseteq top.seen /\ UNCHANGED unnoticed /\ rc' = 1 /\ Fine
       \/ Fault("readdir") /\ rc' = 1 /\ unnoticed' = unnoticed \cup {top.src}
    /\ pc' = (IF phase = "copy" THEN "leave" ELSE "rmdir")
    /\ UNCHANGED <<vol, op, todo, place, file, askall, abort, nops, before, copied, skipped>>

\* f_closedir; the folder is done, with the result of its last entry.
LeaveFolder ==
    /\ pc = "leave"
    /\ walk' = Front(walk) /\ pc' = "back"
    /\ UNCHANGED <<vol, op, todo, item, cur, phase, file, rc, askall, abort, faults, nops, ghost>>

\* The folder is empty now: it goes too.
RemoveFolder ==
    /\ pc = "rmdir"
    /\ f_unlink(top.src)
    /\ walk' = Front(walk) /\ pc' = "back"
    /\ UNCHANGED <<op, todo, item, cur, phase, file, askall, abort, nops, ghost>>

RemoveFile ==
    /\ pc = "entry" /\ phase = "remove" /\ ~IsDir(vol, cur.src)
    /\ f_unlink(cur.src) /\ pc' = "back"
    /\ UNCHANGED <<op, todo, place, file, askall, abort, nops, ghost>>

\* Back in the folder above: a failed entry ends it, a skipped one does not.
Return ==
    /\ pc = "back" /\ walk # <<>>
    /\ IF rc <= 0 THEN walk' = Front(walk) /\ pc' = "back"
                  ELSE UNCHANGED walk /\ pc' = "list"
    /\ UNCHANGED <<vol, op, todo, item, cur, phase, file, rc, askall, abort, faults, nops, ghost>>

-----------------------------------------------------------------------------
(* copy_file_pg: one file. *)
Copying == pc = "entry" /\ phase = "copy" /\ ~IsDir(vol, cur.src)
Clash   == cur.dst \in DOMAIN vol
Asks    == Clash /\ op.mode = "ask" /\ askall = "ask"

\* copy_ask_conflict: the user decides for this file, or for all that follow.
Answer(a, forall) ==
    /\ Copying /\ Asks
    /\ IF a = "cancel" THEN rc' = -1 /\ pc' = "back" /\ UNCHANGED <<how, askall>>
       ELSE /\ how' = a /\ pc' = "open" /\ UNCHANGED rc
            /\ askall' = (IF forall THEN a ELSE askall)
    /\ UNCHANGED <<vol, op, todo, place, fd, pos, abort, faults, nops, ghost>>

Decide ==
    /\ Copying /\ ~Asks /\ Fine
    /\ how' = (IF ~Clash THEN "overwrite" ELSE IF op.mode = "ask" THEN askall ELSE op.mode)
    /\ pc' = "open"
    /\ UNCHANGED <<vol, op, todo, place, fd, pos, rc, askall, abort, nops, ghost>>

\* f_stat fails: a target that cannot be looked at is taken for none, one whose
\* source cannot be looked at for older.
Misjudge ==
    /\ Copying /\ Clash /\ Fault("stat")
    /\ how' = "overwrite" /\ pc' = "open"
    /\ unnoticed' = (IF vol[cur.dst].dir THEN unnoticed ELSE unnoticed \cup {cur.dst})
    /\ UNCHANGED <<vol, op, todo, place, fd, pos, rc, askall, abort, nops, before, copied, skipped>>

\* The target stays as it is: told to, as new as the source, or complete.
Spared ==
    \/ how = "skip"
    \/ how = "refresh" /\ vol[cur.src].date <= vol[cur.dst].date
    \/ how = "resume" /\ Len(vol[cur.dst].data) >= Len(vol[cur.src].data)

Skip ==
    /\ pc = "open" /\ Spared
    /\ rc' = 2 /\ pc' = "back" /\ skipped' = skipped \cup {cur.src}
    /\ UNCHANGED <<vol, op, todo, place, file, askall, abort, faults, nops,
                   before, copied, unnoticed>>

StartAtNought == 0

\* f_lseek of the source: a resumed copy goes on where the target ends.
StartAt == IF how = "resume" THEN Len(vol[cur.dst].data) ELSE 0

\* f_open of both: appended to, or created anew, which empties the target.
Openable == cur.src \in DOMAIN vol /\ ~vol[cur.src].dir /\ Creatable(vol, cur.dst)
Open ==
    /\ pc = "open" /\ ~Spared
    /\ \/ /\ Openable /\ Fine
          /\ IF how \in {"append", "resume"}
             THEN fd' = [open |-> TRUE, data |-> vol[cur.dst].data] /\ UNCHANGED vol
             ELSE fd' = [open |-> TRUE, data |-> <<>>] /\ vol' = With(vol, cur.dst, Written(<<>>))
          /\ pos' = StartAt /\ pc' = "loop" /\ UNCHANGED rc
       \/ /\ (~Openable /\ Fine) \/ Fault("open")
          /\ rc' = 0 /\ pc' = "back" /\ UNCHANGED <<fd, vol, pos>>
    /\ UNCHANGED <<op, todo, place, how, askall, abort, nops, ghost>>

\* One turn of the loop: Cancel, f_read, the end, f_write.
Loop ==
    /\ pc = "loop"
    /\ \/ abort /\ rc' = -1 /\ pc' = "close" /\ Fine /\ UNCHANGED <<fd, pos>>
       \/ ~abort /\ (Fault("read") \/ Fault("write"))
          /\ rc' = 0 /\ pc' = "close" /\ UNCHANGED <<fd, pos>>
       \/ ~abort /\ pos = Len(vol[cur.src].data)
          /\ rc' = 1 /\ pc' = "close" /\ Fine /\ UNCHANGED <<fd, pos>>
       \/ ~abort /\ pos < Len(vol[cur.src].data)
          /\ pos' = pos + 1 /\ fd' = [fd EXCEPT !.data = Append(@, vol[cur.src].data[pos + 1])]
          /\ pc' = "loop" /\ Fine /\ UNCHANGED rc
    /\ UNCHANGED <<vol, op, todo, place, how, askall, abort, nops, ghost>>

Full == how \notin {"append", "resume"}
Checked == rc = 1 /\ Full /\ op.verify
Report == [src |-> cur.src, dst |-> cur.dst, how |-> how]

\* f_close of both; its result is not looked at.
Close ==
    /\ pc = "close" /\ fd' = NoFile
    /\ \/ vol' = With(vol, cur.dst, Written(fd.data)) /\ Fine /\ UNCHANGED unnoticed
       \/ /\ Fault("close") /\ UNCHANGED vol
          /\ unnoticed' = (IF Checked THEN unnoticed ELSE unnoticed \cup {cur.src})
    /\ IF Checked THEN pc' = "verify" /\ UNCHANGED copied
       ELSE pc' = "back" /\ copied' = (IF rc = 1 THEN copied \cup {Report} ELSE copied)
    /\ UNCHANGED <<op, todo, place, how, pos, rc, askall, abort, nops, before, skipped>>

\* copy_verify: both read again and compared.
Verify ==
    /\ pc = "verify" /\ pc' = "back"
    /\ LET same == vol[cur.dst].data = vol[cur.src].data IN
        \/ /\ Len(vol[cur.dst].data) = Len(vol[cur.src].data) /\ abort
           /\ rc' = -1 /\ Fine /\ UNCHANGED copied
        \/ ~same /\ rc' = 0 /\ Fine /\ UNCHANGED copied
        \/ Fault("read") /\ rc' = 0 /\ UNCHANGED copied
        \/ same /\ ~abort /\ rc' = 1 /\ Fine /\ copied' = copied \cup {Report}
    /\ UNCHANGED <<vol, op, todo, place, file, askall, abort, nops, before, skipped, unnoticed>>

-----------------------------------------------------------------------------
(* The operation, entry by entry. *)
Top == pc = "back" /\ walk = <<>>

AfterCopyOnceDone ==
    /\ Top /\ phase = "copy"
    /\ IF op.kind = "move" /\ rc \in {0, 1}
       THEN phase' = "remove" /\ cur' = item /\ pc' = "entry" /\ UNCHANGED todo
       ELSE /\ pc' = (IF rc < 0 \/ op.single THEN "idle" ELSE "next")
            /\ todo' = (IF rc < 0 \/ op.single THEN <<>> ELSE todo) /\ UNCHANGED <<phase, cur>>
    /\ UNCHANGED <<vol, op, item, walk, file, rc, askall, abort, faults, nops, ghost>>

\* group_copy_move, copy_move_run: a move removes what was copied; Cancel ends
\* the group, a failure does not.
AfterCopy ==
    /\ Top /\ phase = "copy"
    /\ IF op.kind = "move" /\ rc = 1
       THEN phase' = "remove" /\ cur' = item /\ pc' = "entry" /\ UNCHANGED todo
       ELSE /\ pc' = (IF rc < 0 \/ op.single THEN "idle" ELSE "next")
            /\ todo' = (IF rc < 0 \/ op.single THEN <<>> ELSE todo) /\ UNCHANGED <<phase, cur>>
    /\ UNCHANGED <<vol, op, item, walk, file, rc, askall, abort, faults, nops, ghost>>

\* The removal's result is dropped by a group move; a group delete ends on Cancel.
AfterRemove ==
    /\ Top /\ phase = "remove"
    /\ pc' = (IF op.single \/ (op.kind = "delete" /\ (rc < 0 \/ abort)) THEN "idle" ELSE "next")
    /\ todo' = (IF pc' = "idle" THEN <<>> ELSE todo)
    /\ UNCHANGED <<vol, op, place, file, rc, askall, abort, faults, nops, ghost>>

\* f_rename; an existing target refuses it, and in Overwrite mode is then deleted.
Rename ==
    /\ pc \in {"rename", "again"}
    /\ IF item.dst \in DOMAIN vol /\ item.src # item.dst
       THEN IF pc = "rename" /\ op.mode = "overwrite"
            THEN f_unlink(item.dst) /\ pc' = "again"
            ELSE rc' = 0 /\ pc' = "next" /\ Fine /\ UNCHANGED vol
       ELSE /\ pc' = "next"
            /\ \/ vol' = Renamed(vol, item.src, item.dst) /\ rc' = 1 /\ Fine
               \/ Fault("rename") /\ rc' = 0 /\ UNCHANGED vol
    /\ UNCHANGED <<op, todo, place, file, askall, abort, nops, ghost>>

Tmp == Append(Here, TmpName)

\* A change of case only: by way of a temporary name.
Recase ==
    /\ pc \in {"recase", "recase2"}
    /\ LET from == IF pc = "recase" THEN item.src ELSE Tmp
           to   == IF pc = "recase" THEN Tmp ELSE item.dst
       IN  \/ /\ to \notin DOMAIN vol
              /\ vol' = Renamed(vol, from, to) /\ rc' = 1 /\ Fine
              /\ pc' = (IF pc = "recase" THEN "recase2" ELSE "next")
           \/ /\ (to \in DOMAIN vol /\ Fine) \/ Fault("rename")
              /\ rc' = 0 /\ pc' = "next" /\ UNCHANGED vol
    /\ UNCHANGED <<op, todo, place, file, askall, abort, nops, ghost>>

\* The power goes: what was not closed never reached the card's directory.
PowerCut ==
    /\ PowerFails /\ pc # "idle"
    /\ pc' = "idle" /\ todo' = <<>> /\ walk' = <<>> /\ fd' = NoFile
    /\ UNCHANGED <<vol, op, item, cur, phase, how, pos, rc, askall, abort, faults, nops, ghost>>

Next ==
    \/ \E o \in Ops : Begin(o)
    \/ NextItem \/ Finish \/ Cancel
    \/ EnterFolder \/ EnterFails \/ Descend \/ ListEnd \/ LeaveFolder
    \/ RemoveFolder \/ RemoveFile \/ Return
    \/ \E a \in {"overwrite", "skip", "cancel"}, forall \in BOOLEAN : Answer(a, forall)
    \/ Decide \/ Misjudge \/ Skip \/ Open \/ Loop \/ Close \/ Verify
    \/ AfterCopy \/ AfterRemove \/ Rename \/ Recase
    \/ PowerCut

Spec == Init /\ [][Next]_vars

-----------------------------------------------------------------------------
Busy == {"next", "entry", "list", "leave", "rmdir", "back", "open", "loop", "close",
         "verify", "rename", "again", "recase", "recase2"}

\* What a target holds once a file with data d was copied over one with data old.
Result(mode, old, d) ==
    CASE mode = "append" -> old \o d
      [] mode = "resume" -> old \o SubSeq(d, Len(old) + 1, Len(d))
      [] OTHER -> d

DataBefore(p) == IF p \in DOMAIN before THEN before[p].data ELSE <<>>
Holds(p, d) == p \in DOMAIN vol /\ ~vol[p].dir /\ vol[p].data = d

\* No entry goes to the place of a folder it lies in.  The code does not see to
\* it; SourceStays is about an operation for which it is not so.
Separate ==
    op.kind \in {"copy", "move"} =>
        \A i \in DOMAIN op.names : ~Under(ItemOf(op.names[i]).dst, Here)

\* A file reported as copied holds what the chosen mode promises: the source,
\* the old contents followed by the source, or by the part of it that was
\* missing.  Excepted are the failures the code does not look at, and operations
\* that copy an entry to the place of a folder it lies in.
CopiedTrue ==
    Separate => \A c \in copied :
        c.src \notin unnoticed =>
            Holds(c.dst, Result(IF c.dst \in DOMAIN before THEN c.how ELSE "overwrite",
                                DataBefore(c.dst), DataBefore(c.src)))

Selected(p) == \E i \in DOMAIN op.names : Under(Append(Here, op.names[i]), p)
TargetOf(p) ==
    LET name == p[Len(Here) + 1]
    IN  Append(op.folder, IF op.as = "" THEN name ELSE op.as)
            \o SubSeq(p, Len(Here) + 2, Len(p))
Targeted(p) == \E i \in DOMAIN op.names : Under(ItemOf(op.names[i]).dst, p)

\* Where the contents of a selected file may be found during and after the
\* operation, however it was broken off.
Kept(p) ==
    \/ Holds(p, before[p].data)
    \/ /\ op.kind \in {"move", "rename"}
       /\ \/ Holds(TargetOf(p), before[p].data)
          \/ /\ TargetOf(p) \in DOMAIN before
             /\ Holds(TargetOf(p), Result(op.mode, DataBefore(TargetOf(p)), before[p].data))
    \/ /\ op.kind = "recase"
       /\ \/ Holds(TargetOf(p), before[p].data)
          \/ Holds(Moved(p, Append(Here, op.names[1]), Tmp), before[p].data)

\* What a file in a target's place may have become: replaced where the mode
\* says so or asks, lengthened where it says so, and otherwise as it was.
Replaceable(p) ==
    \/ op.kind = "rename" /\ op.mode = "overwrite"
    \/ /\ op.kind \in {"copy", "move"} /\ op.mode # "skip"
       /\ op.mode \in {"append", "resume"} =>
              p \in DOMAIN vol /\ IsPrefix(before[p].data, vol[p].data)

\* Whatever fails and whenever the user or the power breaks it off, an operation
\* loses no file: one it moves is whole in its old place or in the new one, one
\* it copies stays as it was, one in a target's place is replaced or lengthened
\* only as the chosen mode says, and no other is touched.  Excepted are files
\* the user had skipped, those behind a failure the code does not look at, and
\* operations that copy an entry to the place of a folder it lies in
\* (NeverOnASkip, ModeHonoured and SourceStays say what is wrong with these).
NothingLost ==
    Separate => \A p \in DOMAIN before :
        \/ before[p].dir
        \/ Selected(p) /\ (op.kind = "delete" \/ Kept(p) \/ p \in skipped)
        \/ Targeted(p) /\ Replaceable(p)
        \/ Holds(p, before[p].data)
        \/ \E u \in unnoticed : Under(u, p)

\* A move does not remove the source of a file it skipped (copy_move_run's
\* "never on a skip").
NeverOnASkip ==
    \A p \in skipped : p \in DOMAIN vol

\* A target that exists is dealt with as the mode says (copy_file_pg "honours
\* g_copy_mode"): left alone when skipping, lengthened at most when appending or
\* resuming, left alone by an older or equally old file when refreshing.  With
\* f_stat failing it is emptied and overwritten.
ModeHonoured ==
    \A p \in DOMAIN before :
        op.kind \in {"copy", "move"} /\ Targeted(p) /\ ~before[p].dir =>
            /\ op.mode = "skip" => Holds(p, before[p].data)
            /\ op.mode \in {"append", "resume"} =>
                  p \in DOMAIN vol /\ IsPrefix(before[p].data, vol[p].data)
            /\ op.mode = "refresh" =>
                  \A q \in DOMAIN before :
                      Selected(q) /\ TargetOf(q) = p /\ before[q].date <= before[p].date =>
                          Holds(p, before[p].data)

\* A copy does not touch what it copies: only a move deletes the source
\* (copy_move_run's "if removesrc, delete the source after (= move)").  A folder
\* copied over one it lies in may be copied into itself.
SourceStays ==
    op.kind = "copy" =>
        \A p \in DOMAIN before : Selected(p) /\ ~before[p].dir => Holds(p, before[p].data)
=============================================================================
