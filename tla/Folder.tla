------------------------------- MODULE Folder -------------------------------
(***************************************************************************)
(* A folder of the card shown to the machine as a FAT16 volume             *)
(* (divmmc_fs.c).  Nothing of the volume is stored: a sector the machine's *)
(* driver reads is made up from a tree of nodes, and from a sector it      *)
(* writes the firmware works out what the driver meant and does it to the  *)
(* real folder.  The driver is a cache: an operation on files changes its  *)
(* view of the volume at once, and the sectors it changed come down one by *)
(* one.                                                                    *)
(*                                                                         *)
(* A cluster is one sector, and so is a directory; sizes are in sectors.   *)
(* Names are short ones, without regard to case.  Out of the model: long   *)
(* names, the limits of the tables (nodes, runs, deferred values, spool),  *)
(* FAT32, failures of the medium, the cache of open files, data read as     *)
(* entries and folders that change place.  FatFs and the driver are        *)
(* external.                                                               *)
(***************************************************************************)
EXTENDS Naturals, FiniteSets, SequencesExt, FiniteSetsExt

CONSTANTS Tree,      \* the folder when it is mounted, in the order of the card:
                     \* [path, dir, data]
          Alphabet,  \* the names, in order
          Space,     \* the number of clusters
          Slots,     \* the number of entries of a directory
          MaxOps     \* bound on its operations

ASSUME FolderAssumption == Space \in Nat \ {0} /\ Slots \in Nat \ {0} /\ MaxOps \in Nat

VARIABLES v,       \* the firmware: nodes, fatd, spool, cond, lock, disk, rc
          view,    \* the driver's volume: fat, root, data
          dirty,   \* the sectors it has yet to write
          grown,   \* the sectors put behind a file's end: [data, entry]
          touched, \* the paths the operations under way are about
          beyond,  \* what has happened that the firmware takes wrong: "move",
                   \* "recut", "early", "overlap"
          ops

vars == <<v, view, dirty, grown, touched, beyond, ops>>

Clusters == 2 .. Space + 1
FREE == 0
EOC  == 65535
Root == 1

\* A directory entry, and the contents of a sector: data, or entries.
Entry(nm, d, c, n, t) == [name |-> nm, dir |-> d, clus |-> c, size |-> n, stamp |-> t]
Gone   == Entry("", FALSE, 0, 0, 0)
NoEnts == [s \in 1 .. Slots |-> Gone]
Bytes(x) == [data |-> x, ents |-> NoEnts]
Dots(x)  == [data |-> 9998, ents |-> x]
Zeros == Bytes(0)
Junk  == Bytes(9999)

-----------------------------------------------------------------------------
(* The card: paths and what is there *)

Dir(p, k) == p \in DOMAIN k /\ k[p].dir
Parent(p) == SubSeq(p, 1, Len(p) - 1)
Writable(k, p) == Dir(Parent(p), k) /\ ~Dir(p, k)
DataAt(k, p) == IF p \in DOMAIN k THEN k[p].data ELSE <<>>
TheDir == [dir |-> TRUE, data |-> <<>>]
FileWith(x) == [dir |-> FALSE, data |-> x]

\* A write past the end leaves what happens to be there in between.
bk_write(k, p, off, x) ==
    LET old == DataAt(k, p)
        at(j) == IF j = off + 1 THEN x ELSE IF j <= Len(old) THEN old[j] ELSE Junk
    IN  (p :> FileWith([j \in 1 .. Max({Len(old), off + 1}) |-> at(j)])) @@ k

bk_setsize(k, p, n) ==
    LET old == DataAt(k, p)
    IN  (p :> FileWith([j \in 1 .. n |-> IF j <= Len(old) THEN old[j] ELSE Zeros])) @@ k

bk_read(k, p, off) ==
    IF off < Len(DataAt(k, p)) THEN DataAt(k, p)[off + 1] ELSE Zeros

Under(k, p) == {q \in DOMAIN k : IsPrefix(p, q)}

\* f_unlink takes a file or an empty folder.
bk_unlink(k, p) ==
    IF Under(k, p) = {p} THEN [q \in DOMAIN k \ {p} |-> k[q]] ELSE k

\* f_rename replaces nothing.
CanRename(k, p, q) == p \in DOMAIN k /\ q \notin DOMAIN k /\ Dir(Parent(q), k)

bk_rename(k, p, q) ==
    LET moved == {q \o SubSeq(x, Len(p) + 1, Len(x)) : x \in Under(k, p)}
    IN  [x \in (DOMAIN k \ Under(k, p)) \cup moved |->
            IF x \in moved THEN k[p \o SubSeq(x, Len(q) + 1, Len(x))] ELSE k[x]]

-----------------------------------------------------------------------------
(* Nodes, their chains, and the file allocation table *)

Node(nm, up, d, n, s, t) ==
    [name |-> nm, up |-> up, dir |-> d, size |-> n, ent |-> s, stamp |-> t,
     chain |-> <<>>, nclus |-> 0, listed |-> TRUE, dead |-> FALSE, mat |-> FALSE]

RECURSIVE PathOf(_, _)
PathOf(nodes, i) ==
    IF i = Root THEN <<>> ELSE Append(PathOf(nodes, nodes[i].up), nodes[i].name)

node_path(w, i) == PathOf(w.nodes, i)

\* The runs of a node, one cluster at a time, each with its place in the file.
Owned(w, i) == {w.nodes[i].chain[j].c : j \in DOMAIN w.nodes[i].chain}
ext_by_cluster(w, c) ==
    LET by == {i \in DOMAIN w.nodes : c \in Owned(w, i)} IN IF by = {} THEN 0 ELSE Min(by)
Index(w, i, c) == CHOOSE j \in DOMAIN w.nodes[i].chain : w.nodes[i].chain[j].c = c
ext_ordinal(w, i, c) == w.nodes[i].chain[Index(w, i, c)].ord
node_clus(w, i) == IF w.nodes[i].chain = <<>> THEN 0 ELSE w.nodes[i].chain[1].c

fat_value(w, c) ==
    LET i == ext_by_cluster(w, c)
        j == Index(w, i, c)
    IN  IF i = 0 THEN FREE
        ELSE IF j < Len(w.nodes[i].chain) THEN w.nodes[i].chain[j + 1].c ELSE EOC

fat_get(w, c) == IF c \in DOMAIN w.fatd THEN w.fatd[c] ELSE fat_value(w, c)

fatd_del(w, c) == [w EXCEPT !.fatd = [x \in DOMAIN @ \ {c} |-> @[x]]]
fatd_put(w, c, x) == [w EXCEPT !.fatd = (c :> x) @@ @]
fatd_set(w, c, x) == IF x = fat_value(w, c) THEN fatd_del(w, c) ELSE fatd_put(w, c, x)

ext_attach(w, i, c, o) ==
    [w EXCEPT !.nodes[i].chain = Append(@, [c |-> c, ord |-> o]), !.nodes[i].nclus = @ + 1]

\* Mutant: a node keeps the clusters it was to give up.
ext_free_allNot(w, i) == w

ext_free_all(w, i) == [w EXCEPT !.nodes[i].chain = <<>>, !.nodes[i].nclus = 0]

ext_detach(w, i, c) ==
    [w EXCEPT !.nodes[i].chain = SelectSeq(@, LAMBDA x : x.c # c),
              !.nodes[i].nclus = IF @ = 0 THEN 0 ELSE @ - 1]

ext_truncate_after(w, i, c) ==
    [w EXCEPT !.nodes[i].chain = SubSeq(@, 1, Index(w, i, c)),
              !.nodes[i].nclus = ext_ordinal(w, i, c) + 1]

\* The node lets its clusters go, and their links become deferred values.
\* Mutant: the links of a disowned chain are dropped, not deferred.
chain_disownForgetsLinks(w, i) == IF i = Root THEN w ELSE ext_free_all(w, i)

chain_disown(w, i) ==
    IF i = Root THEN w
    ELSE ext_free_all([w EXCEPT !.fatd = [c \in Owned(w, i) |-> fat_value(w, c)] @@ @], i)

\* The node takes the clusters from c on, whoever had them.
RECURSIVE Attach(_, _, _, _)
Attach(w, i, c, o) ==
    LET nx   == fat_get(w, c)
        x    == ext_by_cluster(w, c)
        free == IF x \in {0, i} THEN w ELSE chain_disown(w, x)
        mine == IF x = i THEN w ELSE fatd_del(ext_attach(free, i, c, o), c)
    IN  IF c \notin Clusters \/ o > Space THEN w
        ELSE IF nx \in Clusters THEN Attach(mine, i, nx, o + 1) ELSE mine

chain_attach(w, i, first) ==
    Attach(IF node_clus(w, i) # first THEN chain_disown(w, i) ELSE w, i, first, 0)

-----------------------------------------------------------------------------
(* Removal: a node whose entry is gone is condemned, and purged when the   *)
(* next sector is written or any is read, unless it turns up elsewhere     *)

Refuse(w, r) == [w EXCEPT !.rc = IF @ = "ok" THEN r ELSE @]

ListedIn(w, d) == {i \in DOMAIN w.nodes : i # Root /\ w.nodes[i].listed /\ w.nodes[i].up = d}

RECURSIVE purge_node(_, _)
purge_node(w, i) ==
    LET u == FoldSet(LAMBDA j, acc : purge_node(acc, j), w, ListedIn(w, i))
    IN  [ext_free_all(u, i) EXCEPT
            !.disk = IF u.nodes[i].mat THEN bk_unlink(@, node_path(u, i)) ELSE @,
            !.nodes[i].dead = TRUE, !.nodes[i].mat = FALSE, !.nodes[i].size = 0]

cond_drop(w, k) == [w EXCEPT !.cond = RemoveAt(@, k)]

cond_settle(w) ==
    FoldLeft(LAMBDA acc, x : purge_node(acc, x.node), [w EXCEPT !.cond = <<>>], w.cond)

CondWith(w, P(_)) ==
    LET hit == {k \in DOMAIN w.cond : P(w.cond[k])} IN IF hit = {} THEN 0 ELSE Min(hit)

cond_free_name(w, d, nm) ==
    LET k == CondWith(w, LAMBDA x : w.nodes[x.node].up = d /\ w.nodes[x.node].name = nm)
    IN  IF k = 0 THEN w ELSE cond_drop(purge_node(w, w.cond[k].node), k)

cond_match(w, e) ==
    IF e.clus = 0 THEN 0
    ELSE CondWith(w, LAMBDA x : x.clus = e.clus /\ x.size = e.size
                                /\ w.nodes[x.node].dir = e.dir)

\* Mutant: what loses its entry is removed at once.
condemn_nodeAtOnce(w, i) == [purge_node(w, i) EXCEPT !.nodes[i].listed = FALSE]

condemn_node(w, i) ==
    [chain_disown(w, i) EXCEPT
        !.nodes[i].listed = FALSE, !.nodes[i].dead = TRUE,
        !.cond = Append(@, [node |-> i, clus |-> node_clus(w, i), size |-> w.nodes[i].size])]

-----------------------------------------------------------------------------
(* What a sector says *)

slot_owner(w, d, s) ==
    LET at == {i \in ListedIn(w, d) : w.nodes[i].ent = s /\ ~w.nodes[i].dead}
    IN  IF at = {} THEN 0 ELSE Min(at)

dir_sector(w, d) ==
    [s \in 1 .. Slots |->
        LET i == slot_owner(w, d, s)
            n == w.nodes[i]
        IN  IF i = 0 THEN Gone ELSE Entry(n.name, n.dir, node_clus(w, i), n.size, n.stamp)]

ReadData(w, c) ==
    LET i == ext_by_cluster(w, c)
        o == ext_ordinal(w, i, c)
    IN  IF i = 0 THEN (IF c \in DOMAIN w.spool THEN w.spool[c] ELSE Zeros)
        ELSE IF w.nodes[i].dir THEN Dots(dir_sector(w, i))
        ELSE IF o >= w.nodes[i].size THEN Zeros
        ELSE bk_read(w.disk, node_path(w, i), o)

\* What the driver gets when it reads everything: divmmc_fs_read.
Volume(w) ==
    LET u == cond_settle(w)
    IN  [fat |-> [c \in Clusters |-> fat_get(u, c)], root |-> dir_sector(u, Root),
         data |-> [c \in Clusters |-> ReadData(u, c)]]

-----------------------------------------------------------------------------
(* Writing.  Held data goes to its file or folder as soon as the cluster   *)
(* has an owner, so a sector of entries may bring on another.              *)

RECURSIVE wr_dir(_, _, _)

\* Mutant: data that came before its owner is never taken to it.
drain_clusterNot(w, i, c, o) == w

drain_cluster(w, i, c, o) ==
    LET p     == node_path(w, i)
        taken == [w EXCEPT !.spool = [x \in DOMAIN @ \ {c} |-> @[x]]]
    IN  IF c \notin DOMAIN w.spool THEN w
        ELSE IF w.nodes[i].dir THEN [wr_dir(taken, i, w.spool[c].ents) EXCEPT !.rc = w.rc]
        ELSE IF o < w.nodes[i].size /\ Writable(w.disk, p)
             THEN [taken EXCEPT !.disk = bk_write(@, p, o, w.spool[c])]
        ELSE taken

drain_spool(w, i) ==
    FoldLeft(LAMBDA acc, x : drain_cluster(acc, i, x.c, x.ord), w, w.nodes[i].chain)

\* The file or folder of a node comes to be, with the node's size.
materialize(w, i) ==
    LET p    == node_path(w, i)
        dir  == w.nodes[i].dir
        had  == w.nodes[i].mat \/ p \in DOMAIN w.disk
        fits == IF dir THEN had \/ Dir(Parent(p), w.disk) ELSE Writable(w.disk, p)
        with == IF ~dir THEN bk_setsize(w.disk, p, w.nodes[i].size)
                ELSE IF had THEN w.disk ELSE (p :> TheDir) @@ w.disk
    IN  IF fits THEN drain_spool([w EXCEPT !.nodes[i].mat = TRUE, !.disk = with], i)
        ELSE Refuse(w, "media")

\* A node that is there already: its entry has changed, or has moved here.  The
\* code compares folders after it has moved the node, so only a new name makes it
\* rename the file.
UpdateNode(w, i, d, s, e) ==
    LET from  == node_path(w, i)
        put   == [w EXCEPT !.nodes[i].up = d, !.nodes[i].ent = s, !.nodes[i].name = e.name]
        to    == node_path(put, i)
        named == w.nodes[i].name # e.name /\ from # to
        room  == IF named THEN cond_free_name(put, d, e.name) ELSE put
        here  == [room EXCEPT
                    !.disk = IF named /\ w.nodes[i].mat THEN bk_rename(@, from, to) ELSE @,
                    !.nodes[i].size = IF e.dir THEN @ ELSE e.size, !.nodes[i].stamp = e.stamp]
    IN  IF named /\ w.nodes[i].mat /\ ~CanRename(room.disk, from, to) THEN Refuse(room, "media")
        ELSE materialize(IF e.clus = 0 THEN ext_free_all(here, i)
                         ELSE chain_attach(here, i, e.clus), i)

\* A new node; one condemned in this very sector, with the same first cluster
\* and size, gives it its file.
NewNode(w, d, s, e) ==
    LET i     == Len(w.nodes) + 1
        k     == cond_match(w, e)
        old   == w.cond[k].node
        born  == [w EXCEPT !.nodes = Append(@, Node(e.name, d, e.dir, e.size, s, e.stamp))]
        room  == cond_free_name(IF k = 0 THEN born ELSE cond_drop(born, k), d, e.name)
        from  == node_path(w, old)
        to    == node_path(room, i)
        taken == k # 0 /\ w.nodes[old].mat /\ from # to
        given == IF k = 0 THEN room
                 ELSE [room EXCEPT !.disk = IF taken THEN bk_rename(@, from, to) ELSE @,
                                   !.nodes[old].mat = FALSE, !.nodes[i].mat = TRUE]
    IN  IF taken /\ ~CanRename(room.disk, from, to) THEN Refuse(room, "media")
        ELSE materialize(IF e.clus = 0 THEN given ELSE chain_attach(given, i, e.clus), i)

\* An entry is of the node that owns its first cluster, whatever its slot.
handle_dirent(w, d, s, e) ==
    LET own  == slot_owner(w, d, s)
        x    == IF e.clus = 0 THEN 0 ELSE ext_by_cluster(w, e.clus)
        src  == IF x # 0 /\ ~w.nodes[x].dead /\ w.nodes[x].dir = e.dir THEN x ELSE own
    IN  IF e = Gone THEN (IF own = 0 THEN w ELSE condemn_node(w, own))
        ELSE IF src # 0 THEN UpdateNode(IF own \in {0, src} THEN w ELSE condemn_node(w, own),
                                        src, d, s, e)
        ELSE NewNode(w, d, s, e)

\* Removals first, whatever their slots.
wr_dir(w, d, new) ==
    LET gen  == dir_sector(w, d)
        gone == SelectSeq([s \in 1 .. Slots |-> s], LAMBDA s : new[s] = Gone)
        rest == SelectSeq([s \in 1 .. Slots |-> s], LAMBDA s : new[s] # Gone)
    IN  FoldLeft(LAMBDA acc, s : IF new[s] = gen[s] THEN acc ELSE handle_dirent(acc, d, s, new[s]),
                 w, gone \o rest)

\* A cell of the table: freed, the end of a chain, an append, or a new cut of
\* the whole whose owners the entries will tell.
apply_fat(w, c, x) ==
    LET i == ext_by_cluster(w, c)
        j == ext_by_cluster(w, x)
        o == w.nodes[i].nclus
        appended == fatd_del(ext_attach(w, i, x, o), x)
        cut == IF i = 0 THEN w ELSE chain_disown(w, i)
        both == IF ext_by_cluster(cut, x) = 0 THEN cut ELSE chain_disown(cut, j)
    IN  IF x = FREE THEN fatd_del(IF i = 0 THEN w ELSE ext_detach(w, i, c), c)
        ELSE IF x = EOC THEN fatd_set(IF i = 0 THEN w ELSE ext_truncate_after(w, i, c), c, x)
        ELSE IF x \notin Clusters THEN Refuse(w, "dirent")
        ELSE IF i # 0 /\ j = 0 /\ Last(w.nodes[i].chain).c = c
             THEN IF w.nodes[i].mat THEN drain_cluster(appended, i, x, o) ELSE appended
        ELSE fatd_set(both, c, x)

wr_fat(w, new) ==
    FoldLeft(LAMBDA acc, c : IF new[c] = fat_get(acc, c) THEN acc ELSE apply_fat(acc, c, new[c]),
             w, [k \in 1 .. Space |-> k + 1])

file_write(w, i, o, x) ==
    LET p == node_path(w, i)
    IN  IF w.rc # "ok" THEN w
        ELSE IF Writable(w.disk, p) THEN [w EXCEPT !.disk = bk_write(@, p, o, x)]
        ELSE Refuse(w, "media")

wr_data(w, c, x) ==
    LET i == ext_by_cluster(w, c)
    IN  IF i = 0 THEN [w EXCEPT !.spool = (c :> x) @@ @]
        ELSE IF w.nodes[i].dir THEN wr_dir(w, i, x.ents)
        ELSE IF w.nodes[i].dead THEN Refuse(w, "data")
        ELSE file_write(IF w.nodes[i].mat THEN w ELSE materialize(w, i), i, ext_ordinal(w, i, c), x)

lock_volume(w) == Refuse([w EXCEPT !.lock = TRUE], "format")

Sectors == {<<"boot", 0>>, <<"fat", 1>>, <<"fat", 2>>, <<"root", 0>>}
               \cup {<<"data", c>> : c \in Clusters}

\* Mutant: only the table stays closed.
refuse_lockedTable(w, sec) == w.lock /\ sec[1] = "fat"

refuse_locked(w, sec) == w.lock

\* One sector of the volume u comes down; a wiped table is a format, too.
divmmc_fs_write(w, sec, u, wiped) ==
    LET x == cond_settle([w EXCEPT !.rc = "ok"])
    IN  IF sec[1] = "boot" \/ (sec[1] = "fat" /\ wiped /\ ~x.lock) THEN lock_volume(x)
        ELSE IF refuse_locked(x, sec) THEN Refuse(x, "format")
        ELSE CASE sec[1] = "fat"  -> wr_fat(x, u.fat)
               [] sec[1] = "root" -> wr_dir(x, Root, u.root)
               [] sec[1] = "data" -> wr_data(x, sec[2], u.data[sec[2]])

-----------------------------------------------------------------------------
(* The folder becomes a volume: slots by the alphabet, clusters in a row.  *)

Letter(nm) == CHOOSE k \in DOMAIN Alphabet : Alphabet[k] = nm

SlotFor(p) == 1 + Quantify(DOMAIN Tree, LAMBDA k :
    Parent(Tree[k].path) = Parent(p) /\ Letter(Last(Tree[k].path)) < Letter(Last(p)))

Scanned(nodes, x) ==
    LET up   == CHOOSE i \in DOMAIN nodes : PathOf(nodes, i) = Parent(x.path)
        next == 2 + Cardinality(UNION {Owned([nodes |-> nodes], i) : i \in DOMAIN nodes})
        need == IF x.dir THEN 1 ELSE Len(x.data)
    IN  Append(nodes, [Node(Last(x.path), up, x.dir, Len(x.data), SlotFor(x.path), 0) EXCEPT
                          !.chain = [j \in 1 .. need |-> [c |-> next + j - 1, ord |-> j - 1]],
                          !.nclus = need, !.mat = TRUE])

divmmc_fs_build ==
    [nodes |-> FoldLeft(Scanned, <<[Node("", 0, TRUE, 0, 0, 0) EXCEPT !.mat = TRUE]>>, Tree),
     disk  |-> [p \in {<<>>} \cup {Tree[k].path : k \in DOMAIN Tree} |->
                  IF p = <<>> THEN TheDir
                  ELSE LET x == Tree[CHOOSE k \in DOMAIN Tree : Tree[k].path = p]
                       IN  [dir |-> x.dir, data |-> [j \in DOMAIN x.data |-> Bytes(x.data[j])]]],
     fatd |-> <<>>, spool |-> <<>>, cond |-> <<>>, lock |-> FALSE, rc |-> "ok"]

Init ==
    /\ v = divmmc_fs_build /\ view = Volume(v)
    /\ dirty = {} /\ grown = {} /\ touched = {} /\ beyond = {} /\ ops = 0

-----------------------------------------------------------------------------
(* The driver *)

EntriesOf(u, d) == IF d = 0 THEN u.root ELSE u.data[d].ents
EntrySector(d) == IF d = 0 THEN <<"root", 0>> ELSE <<"data", d>>
SetEntry(u, d, s, e) ==
    IF d = 0 THEN [u EXCEPT !.root[s] = e] ELSE [u EXCEPT !.data[d].ents[s] = e]

Folders(u) == {0} \cup {u.root[s].clus : s \in {x \in 1 .. Slots : u.root[x].dir}}
InUse(u, d, nm) == \E s \in 1 .. Slots : EntriesOf(u, d)[s].name = nm
Unused(u) == {c \in Clusters : u.fat[c] = FREE}

RECURSIVE Chain(_, _)
Chain(u, c) == IF c \in Clusters THEN <<c>> \o Chain(u, u.fat[c]) ELSE <<>>

HasRoom(d) == \E s \in 1 .. Slots : EntriesOf(view, d)[s] = Gone
FirstFree(d) == Min({s \in 1 .. Slots : EntriesOf(view, d)[s] = Gone})

Present(u, d) == {s \in 1 .. Slots : EntriesOf(u, d)[s] # Gone}

\* The tree the volume describes.
What(u, e) ==
    IF e.dir THEN TheDir
    ELSE FileWith([j \in 1 .. e.size |-> u.data[Chain(u, e.clus)[j]]])

Described(u) ==
    LET top == {<<u.root[s].name>> : s \in Present(u, 0)}
        in(s) == {<<u.root[s].name, u.data[u.root[s].clus].ents[t].name>> :
                     t \in Present(u, u.root[s].clus)}
        entry(d, nm) == EntriesOf(u, d)[CHOOSE s \in 1 .. Slots : EntriesOf(u, d)[s].name = nm]
    IN  [p \in {<<>>} \cup top \cup UNION {in(s) : s \in {x \in 1 .. Slots : u.root[x].dir}} |->
            IF p = <<>> THEN TheDir
            ELSE IF Len(p) = 1 THEN What(u, entry(0, p[1]))
            ELSE What(u, entry(entry(0, p[1]).clus, p[2]))]

SectorOf(u, sec) ==
    CASE sec[1] = "fat" -> u.fat [] sec[1] = "root" -> u.root
      [] sec[1] = "data" -> u.data[sec[2]] [] OTHER -> <<>>

Changed(a, b) ==
    {p \in DOMAIN a \cup DOMAIN b : p \notin DOMAIN a \cap DOMAIN b \/ a[p] # b[p]}

\* An operation changes the driver's volume to u and puts the sectors new behind
\* a file; it may begin before the last one is written.
Begin(u, new, hard) ==
    /\ hard # {} => dirty = {}
    /\ view' = u /\ ops' = ops + 1
    /\ dirty' = dirty \cup {sec \in Sectors : SectorOf(u, sec) # SectorOf(view, sec)}
    /\ beyond' = hard \cup IF dirty = {} THEN {} ELSE {"overlap"}
    /\ touched' = (IF dirty = {} THEN {} ELSE touched) \cup Changed(Described(view), Described(u))
    /\ grown' = new \cup IF dirty = {} THEN {} ELSE grown
    /\ UNCHANGED v

\* The file at s has the chain ch from now on, and new data behind its sector k.
WithFile(d, s, nm, ch, k) ==
    LET old  == Chain(view, EntriesOf(view, d)[s].clus)
        link(c) == LET j == CHOOSE i \in DOMAIN ch : ch[i] = c
                   IN  IF j = Len(ch) THEN EOC ELSE ch[j + 1]
        fat  == [c \in Clusters |-> IF c \in Range(ch) THEN link(c)
                                    ELSE IF c \in Range(old) THEN FREE ELSE view.fat[c]]
        data == [c \in Clusters |->
                   IF \E j \in k + 1 .. Len(ch) : ch[j] = c
                   THEN Bytes(10 * (ops + 1) + CHOOSE j \in DOMAIN ch : ch[j] = c)
                   ELSE view.data[c]]
    IN  SetEntry([view EXCEPT !.fat = fat, !.data = data], d, s,
                 Entry(nm, FALSE, IF ch = <<>> THEN 0 ELSE ch[1], Len(ch), ops + 1))

\* Chains of up to n clusters out of S.
Cuts(S, n) == {ch \in UNION {[1 .. k -> S] : k \in 0 .. n} : IsInjective(ch)}

FileAt(d, s) == ~EntriesOf(view, d)[s].dir
ChainAt(d, s) == Chain(view, EntriesOf(view, d)[s].clus)

Create(d, nm, ch) ==
    /\ HasRoom(d) /\ ~InUse(view, d, nm)
    /\ Begin(WithFile(d, FirstFree(d), nm, ch, 0), {}, {})

Extend(d, s, ch) ==
    /\ FileAt(d, s) /\ ch # <<>>
    /\ Begin(WithFile(d, s, EntriesOf(view, d)[s].name, ChainAt(d, s) \o ch, Len(ChainAt(d, s))),
             IF ChainAt(d, s) = <<>> THEN {}
             ELSE {[data |-> <<"data", c>>, entry |-> EntrySector(d)] : c \in Range(ch)}, {})

\* In place, from the sector behind k on.
Overwrite(d, s, k) ==
    /\ FileAt(d, s) /\ k < Len(ChainAt(d, s))
    /\ Begin(WithFile(d, s, EntriesOf(view, d)[s].name, ChainAt(d, s), k), {}, {})

Shorten(d, s, k) ==
    /\ FileAt(d, s) /\ k < Len(ChainAt(d, s))
    /\ Begin(WithFile(d, s, EntriesOf(view, d)[s].name, SubSeq(ChainAt(d, s), 1, k), k),
             {}, {})

\* Emptied and written anew, perhaps into clusters it had.
Rewrite(d, s, ch) ==
    /\ FileAt(d, s) /\ ch # <<>>
    /\ Begin(WithFile(d, s, EntriesOf(view, d)[s].name, ch, 0),
             {}, IF Range(ch) \cap Range(ChainAt(d, s)) = {} THEN {} ELSE {"recut"})

\* A file, or an empty folder.
Delete(d, s) ==
    LET e == EntriesOf(view, d)[s]
        freed == [view EXCEPT !.fat = [c \in Clusters |->
                                          IF c \in Range(ChainAt(d, s)) THEN FREE ELSE @[c]]]
    IN  /\ e.dir => Present(view, e.clus) = {}
        /\ Begin(SetEntry(freed, d, s, Gone), {}, {})

\* In place; or, a file, by a new entry in another slot or another folder.
Rename(d, s, f, t, nm) ==
    LET e == EntriesOf(view, d)[s]
    IN  /\ <<f, t>> = <<d, s>> \/ (~e.dir /\ EntriesOf(view, f)[t] = Gone)
        /\ ~InUse(view, f, nm)
        /\ Begin(SetEntry(SetEntry(view, d, s, Gone), f, t, [e EXCEPT !.name = nm]),
                 {}, IF f = d THEN {} ELSE {"move"})

Mkdir(nm, c) ==
    /\ HasRoom(0) /\ ~InUse(view, 0, nm)
    /\ Begin([view EXCEPT !.root[FirstFree(0)] = Entry(nm, TRUE, c, 0, ops + 1), !.fat[c] = EOC,
                          !.data[c] = Dots(NoEnts)], {}, {})

Operation ==
    /\ ops < MaxOps /\ ~v.lock /\ beyond = {}
    /\ \/ \E nm \in Range(Alphabet), c \in Unused(view) : Mkdir(nm, c)
       \/ \E d \in Folders(view) :
            \/ \E nm \in Range(Alphabet), ch \in Cuts(Unused(view), 2) : Create(d, nm, ch)
            \/ \E s \in Present(view, d) :
                \/ \E ch \in Cuts(Unused(view), 2) : Extend(d, s, ch)
                \/ \E ch \in Cuts(Unused(view) \cup Range(ChainAt(d, s)), 2) : Rewrite(d, s, ch)
                \/ \E k \in 0 .. Space : Overwrite(d, s, k) \/ Shorten(d, s, k)
                \/ Delete(d, s)
                \/ \E f \in Folders(view), t \in 1 .. Slots, nm \in Range(Alphabet) :
                        Rename(d, s, f, t, nm)

\* In any order, but the first copy of the table before the second.
Due(sec) == sec \in dirty /\ (sec = <<"fat", 2>> => <<"fat", 1>> \notin dirty)

\* A copy of the table grows a file whose new data is there already and whose
\* entry is not.  The second one matters, too: the cells are gone through upwards,
\* so a chain that goes down is grown by one cluster of it only.
Early(sec) ==
    sec[1] = "fat" /\ \E x \in grown : x.data \notin dirty /\ x.entry \in dirty

Flush(sec) ==
    /\ Due(sec) /\ ~v.lock
    /\ v' = divmmc_fs_write(v, sec, view, FALSE) /\ dirty' = dirty \ {sec}
    /\ beyond' = beyond \cup IF Early(sec) THEN {"early"} ELSE {}
    /\ UNCHANGED <<view, grown, touched, ops>>

\* divmmc_fs_read, divmmc_fs_flush
Settle ==
    /\ v.cond # <<>> /\ v' = cond_settle(v)
    /\ UNCHANGED <<view, dirty, grown, touched, beyond, ops>>

Blank == [fat |-> [c \in Clusters |-> FREE], root |-> NoEnts, data |-> [c \in Clusters |-> Zeros]]

\* A format begins with the boot sector or the table, and goes on with anything.
Format(sec) ==
    /\ (v.lock \/ sec[1] \in {"boot", "fat"})
    /\ v' = divmmc_fs_write(v, sec, Blank, TRUE)
    /\ UNCHANGED <<view, dirty, grown, touched, beyond, ops>>

Next == Operation \/ (\E sec \in Sectors : Flush(sec) \/ Format(sec)) \/ Settle

Spec == Init /\ [][Next]_vars

-----------------------------------------------------------------------------

(***************************************************************************)
(* What the comments of divmmc_fs.c promise.                               *)
(***************************************************************************)

\* Nothing is left to write, and nothing but what is in wrong has gone beyond.
Done(wrong) == dirty = {} /\ ~v.lock /\ beyond \subseteq wrong

Matches == cond_settle(v).disk = Described(view)

\* Once the driver has written all of an operation, the folder on the card is
\* the tree its volume describes, in whatever order its sectors came in, but for
\* one: files of the right data, none lost, none left over.  The order excepted is
\* in OrderFree, the operations excepted are in MoveFollows and RewriteFollows.
FolderMatches == Done({}) => Matches

\* The header of divmmc_fs.c promises that for every order (32 to 47: data that
\* comes before its name is held and written later).  The code breaks it: the
\* table, coming after the data a file grows by and before its entry, takes the
\* held sector out and drops it, for it lies beyond the old size.
OrderFree == Done({"early"}) => Matches

\* It is to repeat the meaning of the sectors on the real folder (22 to 25).  The
\* code does not when a file moves to another folder.  If the old entry goes first,
\* the next sector purges its node, and the new entry makes a file of zeros; if the
\* new entry comes first, the folders are compared once the node is in the new one,
\* and the file on the card stays where it was.
MoveFollows == Done({"move"}) => Matches

\* Nor when a file is written anew into clusters it had, at other places in it: a
\* cluster the node still owns keeps its old place.
RewriteFollows == Done({"recut"}) => Matches

ReadsBack(u) ==
    /\ u.fat = view.fat /\ u.root = view.root
    /\ \A c \in Clusters \ Unused(view) : u.data[c] = view.data[c]

\* And the volume, were the driver to read it again, is the one it has: the
\* table and the entries made up from nodes and deferred links are those written.
VolumeMatches == Done({}) => ReadsBack(Volume(v))

Holds(k, t) == \A p \in DOMAIN t \ touched : p \in DOMAIN k /\ k[p] = t[p]

\* At no moment, half-written operations, moves between folders, rewriting into
\* clusters of its own and overlapping operations included, is a file harmed that
\* no operation under way is about.
OthersIntact == ~v.lock => Holds(v.disk, Described(view))

\* Short of a format, no sector of an operation by itself is refused: there is
\* always a node, a name and a folder for what it says.
NeverRefused == v.lock \/ beyond # {} \/ v.rc = "ok"

\* From the first sign of a format on, nothing the driver writes reaches the folder.
FormatHarmless == [][v.lock => v'.disk = v.disk]_vars
=============================================================================
