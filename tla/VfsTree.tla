------------------------------- MODULE VfsTree -------------------------------
(***************************************************************************)
(* fs/vfs.c: the tree of nodes, as operators on a state                    *)
(*     v = [nodes, pipes]                                                  *)
(* where a tree node is an index of `nodes` (1 is the root), a pipe an     *)
(* index of `pipes`, and a pipe's value the number of unread bytes.        *)
(* kfree frees nothing, so removed nodes stay readable.  A path is the     *)
(* sequence of its parts.                                                  *)
(*                                                                         *)
(* A reference to a node is [id, ent]: a node of the tree (ent = NoEntry)  *)
(* or, with id = 0, the node fat_seek makes for a directory entry.  Such a *)
(* node is made again by every search, so what is done to it is lost.      *)
(***************************************************************************)
EXTENDS FatDisk

NoNode == [id |-> 0, ent |-> NoEntry]
Root == [id |-> 1, ent |-> NoEntry]
Tree(n) == [id |-> n, ent |-> NoEntry]
OnDisk(e) == [id |-> 0, ent |-> e]

IsTree(r) == r.id # 0
IsDisk(r) == r.ent # NoEntry

\* allocate_fs_node and vfs_create's fields: fs is the driver of fsid; the
\* inode is a pipe, the target of a link, or a directory entry.
NewNode(name, parent) ==
    [name |-> name, parent |-> parent, childs |-> <<>>, fs |-> "vfs",
     mountpoint |-> FALSE, link |-> FALSE, pipe |-> 0, to |-> NoNode, ent |-> NoEntry]

-----------------------------------------------------------------------------
(* Searching.                                                              *)

\* Where the list of n's children has the first of that name, 0 if nowhere.
FirstChild(v, n, name) == SelectInSeq(v.nodes[n].childs, LAMBDA c : v.nodes[c].name = name)

\* vfs_seek: the first child of that name; a null parent means the root.
ChildAt(v, n, i) == IF i = 0 THEN NoNode ELSE Tree(v.nodes[n].childs[i])
vfs_seek(v, r, name) ==
    LET n == IF r = NoNode THEN 1 ELSE r.id
    IN  IF n = 0 THEN NoNode ELSE ChildAt(v, n, FirstChild(v, n, name))

\* The directory entry behind a node of the FAT driver.
EntryOf(v, r) == IF IsTree(r) THEN v.nodes[r.id].ent ELSE r.ent
IsFat(v, r) == IF IsTree(r) THEN v.nodes[r.id].fs = "fat" ELSE IsDisk(r)

\* Only the FAT driver has a seek of its own that is used here.
DriverSeek(v, r, name) == OnDisk(fat_seek(name, EntryOf(v, r)))

\* One round of kseek's loop: the virtual children first, then the driver's
\* seek; without one the search ends there.
ElseDriver(v, r, name, child) ==
    IF child # NoNode THEN child ELSE IF IsFat(v, r) THEN DriverSeek(v, r, name) ELSE NoNode
SeekPart(v, r, name) == ElseDriver(v, r, name, vfs_seek(v, r, name))
Ends(v, r, name) == vfs_seek(v, r, name) = NoNode /\ ~IsFat(v, r)

\* Where the loop stands after each part of the path.  A driver that finds
\* nothing leaves a null node and the loop goes on, so the next part is looked
\* for in the root.
Walk(v, path) ==
    LET at[i \in 0..Len(path)] == IF i = 0 THEN Root ELSE SeekPart(v, at[i-1], path[i])
    IN  at

\* kseek: what the walk `at` of that path comes to, nothing if it ended before.
WalkEnd(v, path, at) ==
    IF \E i \in 1..Len(path) : Ends(v, at[i-1], path[i]) THEN NoNode ELSE at[Len(path)]
kseek(v, path) == WalkEnd(v, path, Walk(v, path))

-----------------------------------------------------------------------------
(* Creating.  Each operator returns [v, node].                             *)

\* vfs_create: a new last child; names are not compared.
vfs_create(v, name, r) ==
    LET n == Len(v.nodes) + 1
        w == [v EXCEPT !.nodes = Append(@, NewNode(name, r))]
    IN  [v    |-> IF IsTree(r) THEN [w EXCEPT !.nodes[r.id].childs = Append(@, n)] ELSE w,
         node |-> Tree(n)]

\* Faulty: a missing directory is made, but the node goes under the root.
CreateInRoot(v, path) ==
    LET par == kseek(v, Front(path))
    IN  IF par # NoNode THEN vfs_create(v, Last(path), par)
        ELSE vfs_create(vfs_create(v, path[1], Root).v, Last(path), Root)

\* The parts of the longest path before the last part that leads somewhere.
Deepest(v, path) == Max({i \in 0..Len(path)-1 : kseek(v, SubSeq(path, 1, i)) # NoNode})

\* kcreate calls itself for a directory that kseek does not find, so what is
\* missing is created from there on, each in the one before.  No driver but vfs
\* itself has a create.
CreateFrom(v, path, k) ==
    LET made[i \in k..Len(path)] ==
            IF i = k THEN [v |-> v, node |-> kseek(v, SubSeq(path, 1, k))]
            ELSE vfs_create(made[i-1].v, path[i], made[i-1].node)
    IN  made[Len(path)]
kcreate(v, path) == CreateFrom(v, path, Deepest(v, path))

\* The node that kseek found at a path, made if it found none.
Reached(v, path, at) == IF at = NoNode THEN kcreate(v, path) ELSE [v |-> v, node |-> at]

\* kmount of the pipe driver with pipe_create's buffer: a mountpoint or a link
\* is refused (NoNode), any other node of that path becomes the pipe.
MountPipe(c) ==
    LET w == [c.v EXCEPT !.pipes = Append(@, 0)]
    IN  IF IsDisk(c.node) THEN [v |-> w, node |-> c.node]
        ELSE [v |-> [w EXCEPT !.nodes[c.node.id].fs = "pipe",
                              !.nodes[c.node.id].mountpoint = TRUE,
                              !.nodes[c.node.id].pipe = Len(w.pipes),
                              !.nodes[c.node.id].ent = NoEntry],
              node |-> c.node]
PipeAt(v, path, at) ==
    IF IsTree(at) /\ (v.nodes[at.id].mountpoint \/ v.nodes[at.id].link)
    THEN [v |-> v, node |-> NoNode] ELSE MountPipe(Reached(v, path, at))
pipe_create(v, path) == PipeAt(v, path, kseek(v, path))

\* klink: the link's inode is the node it names, whatever the node was before.
SetLink(c, to) ==
    IF IsDisk(c.node) THEN c.v
    ELSE [c.v EXCEPT !.nodes[c.node.id].link = TRUE, !.nodes[c.node.id].to = to]
klink(v, path, link) ==
    LET to == kseek(v, path)
    IN  IF to = NoNode THEN v ELSE SetLink(Reached(v, link, kseek(v, link)), to)

-----------------------------------------------------------------------------
(* Using and removing.                                                     *)

\* kread and kwrite follow one link; a pipe has all of its data read at once.
Behind(v, r) == IF IsTree(r) /\ v.nodes[r.id].link THEN v.nodes[r.id].to ELSE r
PipeOf(v, r) ==
    LET b == Behind(v, r)
    IN  IF IsTree(b) /\ v.nodes[b.id].fs = "pipe" THEN v.nodes[b.id].pipe ELSE 0

\* Faulty: moves the later children up but does not shorten the list.
RemoveWithoutCount(v, n) ==
    LET p  == v.nodes[n].parent
        cs == v.nodes[p.id].childs
        i  == FirstChild(v, p.id, v.nodes[n].name)
    IN  [v EXCEPT !.nodes[p.id].childs = IF i = Len(cs) THEN Front(cs) ELSE Append(RemoveAt(@, i), Last(cs))]

\* vfs_remove: the parent loses its first child of the node's name; if it has
\* none, zero_idx is still -1 and the last child is lost.  What the code does to
\* the node's own children is left out: no search gets there afterwards.
vfs_remove(v, n) ==
    LET p == v.nodes[n].parent
        i == FirstChild(v, p.id, v.nodes[n].name)
    IN  [v EXCEPT !.nodes[p.id].childs = IF i = 0 THEN Front(@) ELSE RemoveAt(@, i)]

\* Faulty: a mountpoint stays where it is.
MountpointStays(v, n) == IF v.nodes[n].mountpoint THEN v ELSE vfs_remove(v, n)

\* kremove: only nodes that are not of the vfs driver leave the tree.  kumount
\* frees the pipe's buffer and computes, but does not store, a cleared flag.
kremove(v, n) == IF v.nodes[n].fs = "vfs" THEN v ELSE vfs_remove(v, n)
=============================================================================
