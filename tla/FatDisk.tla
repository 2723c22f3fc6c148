------------------------------- MODULE FatDisk -------------------------------
(***************************************************************************)
(* The FAT driver (modules/ramdisk_modules/fat/main.c) as operators on a   *)
(* disk that nobody writes.  A directory's cluster is a sequence of        *)
(* entries; a shorter sequence than others stands for the end mark, which  *)
(* ends that cluster only.  Names are model values: `short` is the 8.3     *)
(* name as dirent2str writes it, `long` what lfe2str makes of one long     *)
(* name entry.                                                             *)
(***************************************************************************)
EXTENDS Integers, Sequences, FiniteSets, SequencesExt, FiniteSetsExt

CONSTANTS
    Name,          \* the names that entries, nodes and parts of paths may have
    NextCluster,   \* the FAT: cluster -> next cluster, 0 at the end of a chain
    Entries,       \* cluster of a directory -> its entries
    Content,       \* cluster of a file -> its bytes, a whole cluster of them
    RootCluster,   \* root_cluster of the boot sector
    ClusterSize,   \* sectors_per_cluster * bytes_per_sector
    NoName         \* the name of nothing

\* The node of nothing; entries and nodes of the disk have this shape.
NoEntry == [kind |-> "none", short |-> NoName, long |-> NoName, cluster |-> 0, size |-> 0]
RootEntry == [NoEntry EXCEPT !.kind = "dir", !.cluster = RootCluster]
Entry == [kind : {"file", "dir", "long", "deleted"}, short : Name \cup {NoName},
          long : Name \cup {NoName}, cluster : Nat, size : Nat]

-----------------------------------------------------------------------------
(* Directories.                                                            *)

\* Faulty: of a long name in several pieces the first entry is kept.
ParsedKeepingFirst(cluster) ==
    LET es == Entries[cluster]
        after[j \in 0..Len(es)] ==
            IF j = 0 THEN [lfe |-> NoName, found |-> <<>>]
            ELSE LET s == after[j-1] IN
                 IF es[j].kind = "deleted" \/ (es[j].kind = "long" /\ s.lfe # NoName) THEN s
                 ELSE IF es[j].kind = "long" THEN [lfe |-> es[j].long, found |-> s.found]
                 ELSE [lfe |-> NoName, found |-> Append(s.found, [es[j] EXCEPT !.long = s.lfe])]
    IN  after[Len(es)].found

\* fat_parse_cluster: each file or directory of one cluster, with the last
\* long name entry before it; a deleted entry keeps that name pending.
fat_parse_cluster(cluster) ==
    LET es == Entries[cluster]
        after[j \in 0..Len(es)] ==
            IF j = 0 THEN [lfe |-> NoName, found |-> <<>>]
            ELSE LET s == after[j-1] IN
                 IF es[j].kind = "deleted" THEN s
                 ELSE IF es[j].kind = "long" THEN [lfe |-> es[j].long, found |-> s.found]
                 ELSE [lfe |-> NoName, found |-> Append(s.found, [es[j] EXCEPT !.long = s.lfe])]
    IN  after[Len(es)].found

Named(e, name) == name \in {e.short, e.long}

\* The clusters from c on.
Chain(c) ==
    LET chain[d \in DOMAIN NextCluster] ==
          IF NextCluster[d] = 0 THEN <<d>> ELSE <<d>> \o chain[NextCluster[d]]
    IN  chain[c]

\* A sound disk: every chain ends, a directory has entries in its clusters, and a
\* file has clusters for its bytes.
ASSUME DiskAssumption ==
    /\ NoName \notin Name /\ ClusterSize \in Nat \ {0} /\ RootCluster \in Nat
    /\ \A c \in DOMAIN Entries : Entries[c] \in Seq(Entry)
    /\ 0 \notin DOMAIN NextCluster
    /\ \A c \in DOMAIN NextCluster : NextCluster[c] \in DOMAIN NextCluster \cup {0}
    /\ \A S \in SUBSET (DOMAIN NextCluster) : S # {} => \E c \in S : NextCluster[c] \notin S
    /\ \A e \in {RootEntry} \cup UNION {ToSet(Entries[c]) : c \in DOMAIN Entries} :
          /\ e.kind = "dir" => /\ e.cluster \in DOMAIN NextCluster
                               /\ ToSet(Chain(e.cluster)) \subseteq DOMAIN Entries
          /\ e.kind = "file" => /\ e.cluster \in DOMAIN NextCluster
                                /\ e.size <= ClusterSize * Len(Chain(e.cluster))

\* Where a cluster has its first entry of that name, and which clusters have one.
FirstNamed(name, es) == SelectInSeq(es, LAMBDA e : Named(e, name))
ClustersWith(name, clusters) ==
    {i \in DOMAIN clusters : FirstNamed(name, fat_parse_cluster(clusters[i])) # 0}

\* fat_seek: cluster by cluster, by short or long name; a file has no entries.
EntryNamed(name, es) == es[FirstNamed(name, es)]
FirstHit(name, clusters, hits) ==
    IF hits = {} THEN NoEntry ELSE EntryNamed(name, fat_parse_cluster(clusters[Min(hits)]))
fat_seek(name, dir) ==
    IF dir.kind # "dir" THEN NoEntry
    ELSE FirstHit(name, Chain(dir.cluster), ClustersWith(name, Chain(dir.cluster)))

-----------------------------------------------------------------------------
(* Files.                                                                  *)

\* The bytes of a file as its size and chain define them.
Bytes(e) == [k \in 1..e.size |->
    Content[Chain(e.cluster)[((k-1) \div ClusterSize) + 1]][((k-1) % ClusterSize) + 1]]

\* Faulty: takes the bytes from the start of the cluster.
ClusterFromStart(e, offset, size) ==
    SubSeq(Content[Chain(e.cluster)[offset \div ClusterSize + 1]], 1, size)

\* fat_read of at most the rest of one cluster: that cluster is read whole.
InCluster(e, offset, size) ==
    SubSeq(Content[Chain(e.cluster)[offset \div ClusterSize + 1]],
           (offset % ClusterSize) + 1, (offset % ClusterSize) + size)

\* A longer read is cut at cluster boundaries and read by calls to itself.
Pieces(offset, size) ==
    LET first == ClusterSize - offset
        rest  == size - first
        whole == rest \div ClusterSize
    IN  <<[at |-> offset, n |-> first]>>
        \o [i \in 1..whole |-> [at |-> offset + first + (i - 1) * ClusterSize, n |-> ClusterSize]]
        \o IF rest % ClusterSize = 0 THEN <<>>
           ELSE <<[at |-> offset + first + whole * ClusterSize, n |-> rest % ClusterSize]>>

NothingRead == [count |-> 0, data |-> <<>>]

\* fat_read: nothing is read past the end of the file.  The clusters before
\* the offset are skipped and the offset is reduced by them; a read that
\* crosses a cluster passes the reduced offset on to the calls for its pieces,
\* and returns what is left of size after the pieces that were subtracted.
fat_read(e, offset, size) ==
    IF e.kind = "dir" \/ offset + size > e.size THEN NothingRead
    ELSE IF offset \div ClusterSize >= Len(Chain(e.cluster)) THEN NothingRead
    ELSE LET rest == offset % ClusterSize
             all  == Pieces(rest, size)
         IN  IF rest + size <= ClusterSize
             THEN [count |-> size, data |-> InCluster(e, offset, size)]
             ELSE [count |-> (size - (ClusterSize - rest)) % ClusterSize,
                   data  |-> FlattenSeq([i \in 1..Len(all) |->
                                            InCluster(e, all[i].at, all[i].n)])]
=============================================================================
