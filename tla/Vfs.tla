--------------------------------- MODULE Vfs ---------------------------------
(***************************************************************************)
(* The file system as processes use it: the calls that search, create,     *)
(* link and use nodes (syscall.c), and the directories /proc/<pid> that    *)
(* create_process fills and clean_process empties (proc.c).  A handler is  *)
(* one step.                                                               *)
(*                                                                         *)
(* One more program, the observer, opens any path and reads or writes what *)
(* it got; it keeps its copy of a node whatever happens to the node.       *)
(***************************************************************************)
EXTENDS VfsTree

CONSTANTS
    Pid,          \* the pids, numbers from 1
    Stream,       \* stdout, stderr, stdin: names, listed in StreamOrder
    StreamOrder,
    Cap,          \* bound: the bytes a pipe takes
    Proc, Dev,    \* the names of the directories made at boot
    PidName,      \* pid -> its name under /proc
    Devices,      \* the names of the drivers' pipes under /dev
    Paths,        \* the paths the observer opens
    Searches,     \* paths that are only looked for
    Links,        \* pairs of paths given to sys_link
    Pipes,        \* paths given to sys_pipe
    ReadSizes,    \* the sizes given to fread
    Execs,        \* paths given to sys_exec
    MaxNodes      \* bound: tree nodes ever made

\* Paths have only real names, every pid has a name of its own, and the streams
\* are listed in the order in which create_process makes them.
ASSUME VfsAssumption ==
    /\ Paths \cup Searches \cup Pipes \cup Execs \subseteq Seq(Name)
    /\ Links \subseteq Seq(Name) \X Seq(Name)
    /\ Proc \in Name /\ Dev \in Name /\ Proc # Dev /\ Devices \in Seq(Name)
    /\ Pid \subseteq Nat \ {0} /\ PidName \in [Pid -> Name]
    /\ \A m, n \in Pid : PidName[m] = PidName[n] => m = n
    /\ Stream \subseteq Name /\ StreamOrder \in Seq(Stream)
    /\ Cap \in Nat /\ ReadSizes \subseteq Nat \ {0}

VARIABLES
    v,       \* the tree and the pipes
    procs,   \* the pid table: [life, image, fds]
    fd,      \* the observer's descriptor and the last fread through it
    streams  \* auxiliary: the pipes that the paths of the streams lead to

vars == <<v, procs, fd, streams>>

\* `path` was opened; `made` is the node if sys_open created it, else `copy` is
\* kopen's copy of what the path named.
Closed == [path |-> <<>>, made |-> 0, copy |-> NewNode(NoName, NoNode),
           offset |-> 0, from |-> 0, size |-> 0, count |-> 0, data |-> <<>>]
NoProcess == [life |-> "free", image |-> <<>>, fds |-> [s \in Stream |-> 0]]

\* modules_load makes the drivers' pipes, kernel_main mounts the disk on the
\* root and makes /proc.
Boot ==
    LET blank == [nodes |-> <<NewNode(NoName, NoNode)>>, pipes |-> <<>>]
        with[i \in 0..Len(Devices)] ==
            IF i = 0 THEN blank ELSE pipe_create(with[i-1], <<Dev, Devices[i]>>).v
        disk  == [with[Len(Devices)] EXCEPT !.nodes[1].fs = "fat", !.nodes[1].mountpoint = TRUE,
                                         !.nodes[1].ent = RootEntry]
    IN  kcreate(disk, <<Proc>>).v

ProcPath(n) == <<Proc, PidName[n]>>
StreamPath(n, s) == <<Proc, PidName[n], s>>
StreamPipes(w) == [n \in Pid |-> [s \in Stream |-> PipeOf(w, kseek(w, StreamPath(n, s)))]]

Init ==
    /\ v = Boot
    /\ procs = [n \in Pid |-> NoProcess]
    /\ fd = Closed
    /\ streams = StreamPipes(v)

Free == {n \in Pid : procs[n].life = "free"}

-----------------------------------------------------------------------------
(* Processes.                                                              *)

\* create_process: the directory is created without a look at what is there.
WithProcDir(w, n) ==
    LET with[i \in 0..Len(StreamOrder)] ==
            IF i = 0 THEN kcreate(w, ProcPath(n)).v
            ELSE pipe_create(with[i-1], StreamPath(n, StreamOrder[i])).v
    IN  with[Len(StreamOrder)]

\* execute reads the whole file in one call.
Image(e) == fat_read(e, 0, e.size)

\* sys_exec: a file of which nothing was read makes no process; one that the
\* ELF loader refuses makes a dead one.
sys_exec(path, loads) ==
    LET r == kseek(v, path)
    IN  /\ Free # {} /\ Len(v.nodes) + 1 + Len(StreamOrder) <= MaxNodes
        /\ IsDisk(r) /\ Image(r.ent).count # 0
        /\ v' = WithProcDir(v, Min(Free))
        /\ procs' = [procs EXCEPT ![Min(Free)] =
                        [NoProcess EXCEPT !.life = IF loads THEN "alive" ELSE "dead",
                                          !.image = Image(r.ent).data]]
        /\ UNCHANGED fd

\* libc_init opens the process's own streams by their paths.
libc_init(n) ==
    /\ procs[n].life = "alive" /\ procs[n].fds = NoProcess.fds
    /\ procs' = [procs EXCEPT ![n].fds = [s \in Stream |-> PipeOf(v, kseek(v, StreamPath(n, s)))]]
    /\ UNCHANGED <<v, fd>>

\* A process writes to or reads from a stream of its own.
sys_write(n, s) ==
    LET d == procs[n].fds[s]
    IN  /\ procs[n].life = "alive" /\ d # 0 /\ v.pipes[d] < Cap
        /\ v' = [v EXCEPT !.pipes[d] = @ + 1]
        /\ UNCHANGED <<procs, fd>>

proc_exit(n) ==
    /\ procs[n].life = "alive"
    /\ procs' = [procs EXCEPT ![n].life = "dead"]
    /\ UNCHANGED <<v, fd>>

\* kread of a node with the node's own size, which only a pipe's node has: the
\* node of a new link has none and reads nothing.
Unread(w, c) ==
    IF w.nodes[c].fs = "pipe" /\ PipeOf(w, Tree(c)) # 0 THEN w.pipes[PipeOf(w, Tree(c))] ELSE 0

\* A read of n bytes, and a write of n, of which the pipe takes what fits.
Taken(w, d, n) == [w EXCEPT !.pipes[d] = @ - n]
Put(w, d, n) == [w EXCEPT !.pipes[d] = Min({Cap, @ + n})]

\* Faulty: what was read of a stream to test it is not written back.
TestLosing(w, c) ==
    LET d == PipeOf(w, Tree(c))
        n == Unread(w, c)
    IN  IF n = 0 THEN [v |-> kremove(w, c), stopped |-> FALSE]
        ELSE [v |-> Taken(w, d, n), stopped |-> TRUE]

\* One child of the directory: all of its bytes are read; if there were any they
\* are written back, as the node is of the pipe driver (fsid 1), and cleaning
\* stops; else it is removed.
TestAndRemove(w, c) ==
    LET d == PipeOf(w, Tree(c))
        n == Unread(w, c)
    IN  IF n = 0 THEN [v |-> kremove(w, c), stopped |-> FALSE]
        ELSE [v |-> Put(Taken(w, d, n), d, n), stopped |-> TRUE]

\* The loop of clean_process over the nodes that kreaddir listed.
RemoveStreams(w, n) ==
    LET childs == w.nodes[kseek(w, ProcPath(n)).id].childs
        after[i \in 0..Len(childs)] ==
            IF i = 0 THEN [v |-> w, stopped |-> FALSE]
            ELSE IF after[i-1].stopped THEN after[i-1] ELSE TestAndRemove(after[i-1].v, childs[i])
    IN  after[Len(childs)]

\* clean_process; the directory itself is of the vfs driver and stays.
clean_process(n) ==
    LET r == RemoveStreams(v, n)
    IN  /\ procs[n].life = "dead"
        /\ v' = r.v
        /\ procs' = IF r.stopped THEN procs ELSE [procs EXCEPT ![n] = NoProcess]
        /\ UNCHANGED fd

-----------------------------------------------------------------------------
(* The observer.                                                           *)

Opened == fd # Closed

\* kopen copies the node: its inode, flags and driver, as they are now.
Copy(r) ==
    IF IsTree(r) THEN [v.nodes[r.id] EXCEPT !.parent = NoNode, !.childs = <<>>]
    ELSE [NewNode(r.ent.short, NoNode) EXCEPT !.fs = "fat", !.ent = r.ent]

\* sys_open of fopen's modes: only "r+" creates.
sys_open(path, create) ==
    LET r == kseek(v, path)
        c == kcreate(v, path)
    IN  /\ ~Opened
        /\ \/ /\ r # NoNode
              /\ fd' = [Closed EXCEPT !.path = path, !.copy = Copy(r)]
              /\ UNCHANGED v
           \/ /\ r = NoNode /\ create
              /\ Len(c.v.nodes) <= MaxNodes
              /\ v' = c.v
              /\ fd' = [Closed EXCEPT !.path = path, !.made = c.node.id]
        /\ UNCHANGED procs

Node == IF fd.made # 0 THEN v.nodes[fd.made] ELSE fd.copy

\* The pipe that kread and kwrite get to from the descriptor, 0 if none.
FdPipe == IF Node.link THEN (IF IsTree(Node.to) THEN v.nodes[Node.to.id].pipe ELSE 0)
          ELSE IF Node.fs = "pipe" THEN Node.pipe ELSE 0

\* sys_read of a pipe.
read_pipe ==
    /\ Opened /\ FdPipe # 0
    /\ v' = [v EXCEPT !.pipes[FdPipe] = 0]
    /\ UNCHANGED <<procs, fd>>

write_pipe ==
    /\ Opened /\ FdPipe # 0 /\ v.pipes[FdPipe] < Cap
    /\ v' = [v EXCEPT !.pipes[FdPipe] = @ + 1]
    /\ UNCHANGED <<procs, fd>>

\* fread of n bytes of a disk file; at its end eof stops further reads.
fread(n) ==
    LET r == fat_read(Node.ent, fd.offset, n)
    IN  /\ Opened /\ ~Node.link /\ Node.fs = "fat" /\ Node.ent.kind = "file"
        /\ fd.offset < Node.ent.size
        /\ fd' = [fd EXCEPT !.offset = @ + r.count, !.from = fd.offset, !.size = n,
                            !.count = r.count, !.data = r.data]
        /\ UNCHANGED <<v, procs>>

fclose ==
    /\ Opened
    /\ fd' = Closed
    /\ UNCHANGED <<v, procs>>

\* Bound: no link is made to a link, whose bytes would be read as data.
sys_link(path, link) ==
    LET to == kseek(v, path)
    IN  /\ to # NoNode /\ ~(IsTree(to) /\ v.nodes[to.id].link)
        /\ Len(klink(v, path, link).nodes) <= MaxNodes
        /\ v' = klink(v, path, link)
        /\ UNCHANGED <<procs, fd>>

sys_pipe(path) ==
    LET c == pipe_create(v, path)
    IN  /\ c.node # NoNode /\ Len(c.v.nodes) <= MaxNodes
        /\ v' = c.v
        /\ UNCHANGED <<procs, fd>>

Resolved == streams' = StreamPipes(v')

Next ==
    \/ \E path \in Execs, loads \in BOOLEAN : sys_exec(path, loads) /\ Resolved
    \/ \E n \in Pid : libc_init(n) /\ Resolved
    \/ \E n \in Pid, s \in Stream : sys_write(n, s) /\ Resolved
    \/ \E n \in Pid : proc_exit(n) /\ Resolved
    \/ \E n \in Pid : clean_process(n) /\ Resolved
    \/ \E path \in Paths, create \in BOOLEAN : sys_open(path, create) /\ Resolved
    \/ read_pipe /\ Resolved
    \/ write_pipe /\ Resolved
    \/ fclose /\ Resolved
    \/ \E n \in ReadSizes : fread(n) /\ Resolved
    \/ \E l \in Links : sys_link(l[1], l[2]) /\ Resolved
    \/ \E path \in Pipes : sys_pipe(path) /\ Resolved

Spec == Init /\ [][Next]_vars

-----------------------------------------------------------------------------
\* Type correctness.
TypeOK ==
    /\ \A i \in DOMAIN v.nodes : LET n == v.nodes[i] IN
          /\ n.parent.id \in 0..i-1
          /\ ToSet(n.childs) \subseteq i+1..Len(v.nodes)
          /\ n.fs \in {"vfs", "pipe", "fat"} /\ n.pipe \in 0..Len(v.pipes)
          /\ n.to.id \in 0..Len(v.nodes)
    /\ v.pipes \in Seq(0..Cap)
    /\ \A n \in Pid : /\ procs[n].life \in {"free", "alive", "dead"}
                      /\ procs[n].fds \in [Stream -> 0..Len(v.pipes)]
    /\ fd.made \in 0..Len(v.nodes) /\ fd.offset \in Nat

\* vfs_create and vfs_remove keep a tree whatever is created, mounted, linked,
\* and cleaned: a directory lists only nodes that name it as their parent, each
\* once, and two of one name only where create_process made /proc/<pid> again.
TreeSound ==
    /\ TypeOK
    /\ \A i \in DOMAIN v.nodes : LET cs == v.nodes[i].childs IN
        \A a, b \in DOMAIN cs :
            /\ v.nodes[cs[a]].parent = Tree(i)
            /\ cs[a] = cs[b] => a = b
            /\ v.nodes[cs[a]].name = v.nodes[cs[b]].name =>
                 a = b \/ (Tree(i) = kseek(v, <<Proc>>) /\ \E n \in Pid : v.nodes[cs[a]].name = PidName[n])

\* What a directory holds: the long name of a file is in the entry right before
\* the file's own, in whatever cluster that is.
Before(d, i, j) ==
    IF j > 1 THEN Entries[Chain(d)[i]][j-1]
    ELSE IF i > 1 /\ Entries[Chain(d)[i-1]] # <<>> THEN Last(Entries[Chain(d)[i-1]]) ELSE NoEntry
LongOf(e) == IF e.kind = "long" THEN e.long ELSE NoName
EntryAt(d, i, j) == [Entries[Chain(d)[i]][j] EXCEPT !.long = LongOf(Before(d, i, j))]
IsListed(c, j) == Entries[c][j].kind \in {"file", "dir"}
EntriesOf(d) ==
    UNION {{EntryAt(d, i, j) : j \in {j \in DOMAIN Entries[Chain(d)[i]] : IsListed(Chain(d)[i], j)}}
              : i \in DOMAIN Chain(d)}

\* The long names with which fat_parse_cluster goes wrong: one whose file is
\* deleted goes on to the next file, one that ends a cluster is forgotten.
Stray(c, j) == Entries[c][j].kind = "long" /\ (j = Len(Entries[c]) \/ Entries[c][j+1].kind = "deleted")
StrayNames == UNION {{Entries[c][j].long : j \in {j \in DOMAIN Entries[c] : Stray(c, j)}}
                        : c \in DOMAIN Entries}

DiskSeek(path) ==
    LET at[i \in 0..Len(path)] == IF i = 0 THEN RootEntry ELSE fat_seek(path[i], at[i-1])
    IN  at[Len(path)]

\* A directory of the disk has one entry of each name, and what is executed is
\* on the disk, by names that are not stray, below a directory that is not one
\* of those made at boot.
ASSUME NamesAssumption ==
    /\ \A d \in {RootEntry} \cup UNION {ToSet(Entries[c]) : c \in DOMAIN Entries} :
          d.kind = "dir" =>
            \A name \in Name : \A e1, e2 \in EntriesOf(d.cluster) :
                Named(e1, name) /\ Named(e2, name) => e1 = e2
    /\ \A path \in Execs :
          /\ path # <<>> /\ path[1] \notin {Proc, Dev} /\ DiskSeek(path) # NoEntry
          /\ ToSet(path) \cap StrayNames = {}

\* What a search should find: at each part the child of that name made first,
\* else the entry of the disk's directory with that name.
Step(r, name) ==
    LET cs == IF IsTree(r) THEN {c \in ToSet(v.nodes[r.id].childs) : v.nodes[c].name = name} ELSE {}
        e  == EntryOf(v, r)
        es == IF e.kind # "dir" THEN {} ELSE {x \in EntriesOf(e.cluster) : Named(x, name)}
    IN  IF cs # {} THEN Tree(Min(cs)) ELSE IF es # {} THEN OnDisk(CHOOSE x \in es : TRUE) ELSE NoNode

Lookup(path) ==
    LET found[i \in 0..Len(path)] ==
            IF i = 0 THEN Root ELSE IF found[i-1] = NoNode THEN NoNode ELSE Step(found[i-1], path[i])
    IN  found[Len(path)]

\* The same node, or the same entry of the disk, whatever long name came with it.
Same(r, s) == [r EXCEPT !.ent.long = NoName] = [s EXCEPT !.ent.long = NoName]

\* kseek agrees with that search on every path whose directories exist and that
\* has no stray name, through virtual directories, the disk's and the one mounted
\* on the root; where a directory is missing, kseek may find something else (it
\* restarts at the root).
LookupExact ==
    \A path \in Paths \cup Searches :
        ToSet(path) \cap StrayNames = {} /\ Lookup(Front(path)) # NoNode =>
            Same(kseek(v, path), Lookup(path))

\* kcreate makes what was asked for: a node that sys_open created is found
\* under its path, unless the path goes through a directory of the disk, whose
\* node is made again by each search and forgets its virtual children.
CreatedIsFound ==
    [][ fd'.made # 0 /\ fd'.made # fd.made =>
          \/ kseek(v', fd'.path) = Tree(fd'.made)
          \/ \E i \in 1..Len(fd'.path)-1 : IsDisk(kseek(v, SubSeq(fd'.path, 1, i))) ]_vars

\* Reads cut in pieces at cluster boundaries put every byte in its place:
\* execute's image is its file's bytes; what an fread that stays inside the file
\* stores is the bytes at the offset, and its count what was asked for, if it
\* does not cross a cluster; a crossing read is right in what it stores if it
\* starts in the first cluster.
ReadsExact ==
    /\ \A n \in Pid : procs[n].life # "free" =>
          \E path \in Execs : procs[n].image = Bytes(Lookup(path).ent)
    /\ Opened /\ fd.size # 0 /\ fd.from + fd.size <= Node.ent.size =>
          LET crosses == (fd.from % ClusterSize) + fd.size > ClusterSize
              right   == fd.data = SubSeq(Bytes(Node.ent), fd.from + 1, fd.from + fd.size)
          IN  /\ ~crosses => right /\ fd.count = fd.size
              /\ fd.from < ClusterSize => right

\* "Restore pipe values": bytes leave a pipe only when somebody reads it;
\* clean_process, which takes all bytes out of the streams of a dead process to
\* see whether they are empty, puts back as many as it took, as often as it is
\* called, also where a stream is full.
OutputKept ==
    [][ \A d \in DOMAIN v.pipes : v'.pipes[d] < v.pipes[d] => Opened /\ d = FdPipe ]_vars

\* /proc/<pid> gives each process its own streams and loses nothing of them:
\* the streams found by path implement ProcStreams, whatever pids are used
\* again, however far cleaning got, and whatever old descriptors do.
Streams == INSTANCE ProcStreams WITH
    life <- [n \in Pid |-> procs[n].life],
    unread <- [n \in Pid |-> [s \in Stream |-> IF streams[n][s] = 0 THEN 0 ELSE v.pipes[streams[n][s]]]]

IsProcStreams == Streams!Spec
=============================================================================
