------------------------------ MODULE VfsProofs ------------------------------
(***************************************************************************)
(* Proofs about the file system, for any disk, names, paths, pids, streams *)
(* and bounds.  First the disk: chains, directories, lookups and reads;    *)
(* then the tree of nodes as kseek walks and kcreate grows it; then the    *)
(* invariants of the steps.                                                *)
(***************************************************************************)
EXTENDS Vfs, TLAPS, WellFoundedInduction, SequenceTheorems

-----------------------------------------------------------------------------
(* Numbers.                                                                *)

\* A nonempty set of naturals has a least element.
LEMMA LeastNat ==
  ASSUME NEW S, S \subseteq Nat, S # {}
  PROVE  \E m \in S : \A n \in S : m <= n
  <1> DEFINE R == OpToRel(<, Nat)
  <1>1. IsWellFoundedOn(R, Nat)
    BY NatLessThanWellFounded
  <1>2. \A m, n \in Nat : <<n, m>> \in R <=> n < m
    BY DEF OpToRel
  <1> HIDE DEF R
  <1>3. PICK m \in S : \A n \in S : <<n, m>> \notin R
    BY <1>1, WFMin
  <1>4. \A n \in S : ~(n < m)
    BY <1>2, <1>3
  <1>5. \A n \in S : m <= n
    BY <1>4
  <1> QED BY <1>5

\* Induction along a loop from k to n, with the rounds that go well as a set.
LEMMA LoopInduction ==
  ASSUME NEW k \in Nat, NEW n \in Nat, NEW S, k \in S,
         \A i \in k+1..n : i - 1 \in S => i \in S
  PROVE  \A i \in k..n : i \in S
  <1> DEFINE Bad == {i \in k..n : i \notin S}
  <1> SUFFICES ASSUME Bad # {} PROVE FALSE
    OBVIOUS
  <1>1. Bad \subseteq Nat
    OBVIOUS
  <1>2. PICK m \in Bad : \A i \in Bad : m <= i
    <2> HIDE DEF Bad
    <2> QED BY <1>1, LeastNat
  <1>3. m \in k+1..n /\ m - 1 \in k..n
    BY <1>2
  <1>4. m - 1 \in S
    BY <1>2, <1>3
  <1> QED BY <1>2, <1>3, <1>4

\* The least of some naturals.
LEMMA MinIs ==
  ASSUME NEW S, S \subseteq Nat, S # {}
  PROVE  Min(S) \in S /\ \A n \in S : Min(S) <= n
  BY LeastNat DEF Min

\* The greatest of some naturals that are bounded.
LEMMA MaxIs ==
  ASSUME NEW n \in Nat, NEW S, S \subseteq 0..n, S # {}
  PROVE  Max(S) \in S /\ \A i \in S : i <= Max(S)
  <1> DEFINE T == {n - i : i \in S}
  <1>0. \A i \in S : i \in Nat /\ i <= n /\ n - i \in Nat
    OBVIOUS
  <1>1. T \subseteq Nat /\ T # {}
    BY <1>0
  <1>2. PICK t \in T : \A u \in T : t <= u
    <2> HIDE DEF T
    <2> QED BY <1>1, LeastNat
  <1>3. PICK m \in S : t = n - m
    BY <1>2
  <1>4. \A i \in S : n - i \in T
    OBVIOUS
  <1>5. \A i \in S : i <= m
    <2> HIDE DEF T
    <2> QED BY <1>0, <1>2, <1>3, <1>4
  <1> QED BY <1>5 DEF Max

\* What a sequence has after one more element.
LEMMA ToSetAppend ==
  ASSUME NEW S, NEW s \in Seq(S), NEW e \in S
  PROVE  Append(s, e) \in Seq(S) /\ ToSet(Append(s, e)) = ToSet(s) \cup {e}
  <1> DEFINE t == Append(s, e)
  <1>1. /\ t \in Seq(S) /\ Len(t) = Len(s) + 1 /\ t[Len(s) + 1] = e
        /\ \A i \in 1..Len(s) : t[i] = s[i]
    OBVIOUS
  <1>2. Len(s) \in Nat /\ DOMAIN s = 1..Len(s) /\ DOMAIN t = 1..Len(s)+1
    BY <1>1
  <1> HIDE DEF t
  <1>3. \A i : i \in 1..Len(s)+1 <=> i \in 1..Len(s) \/ i = Len(s) + 1
    BY <1>2
  <1> QED BY <1>1, <1>2, <1>3 DEF ToSet, t

-----------------------------------------------------------------------------
(* Directories of the disk.                                                *)

\* One round of fat_parse_cluster's loop, and its state after each entry.
ParseRound(s, e) ==
  IF e.kind = "deleted" THEN s
  ELSE IF e.kind = "long" THEN [lfe |-> e.long, found |-> s.found]
  ELSE [lfe |-> NoName, found |-> Append(s.found, [e EXCEPT !.long = s.lfe])]
ParseStart == [lfe |-> NoName, found |-> <<>>]
IsParse(f, c, n) ==
  f = [j \in 0..n |-> IF j = 0 THEN ParseStart ELSE ParseRound(f[j-1], Entries[c][j])]
Parse(c) == CHOOSE f : IsParse(f, c, Len(Entries[c]))

\* fat_parse_cluster is that loop.
LEMMA ParseIs ==
  ASSUME NEW c \in DOMAIN Entries
  PROVE  /\ fat_parse_cluster(c) = Parse(c)[Len(Entries[c])].found
         /\ IsParse(Parse(c), c, Len(Entries[c]))
  <1> DEFINE N == Len(Entries[c])
             S == {n \in 0..N : \E f : IsParse(f, c, n)}
  <1>0. N \in Nat
    BY DiskAssumption
  <1> HIDE DEF N
  <1>1. IsParse([j \in 0..0 |-> ParseStart], c, 0)
    BY DEF IsParse
  <1>2. ASSUME NEW m \in 0+1..N, m - 1 \in S PROVE m \in S
    <2>1. PICK f : IsParse(f, c, m - 1)
      BY <1>2
    <2> DEFINE R(g, j) == IF j = 0 THEN ParseStart ELSE ParseRound(g[j-1], Entries[c][j])
               g == [j \in 0..m |-> R(f, j)]
    <2>2. \A j \in 0..m-1 : g[j] = f[j]
      BY <1>2, <2>1 DEF IsParse
    <2>3. \A j \in 0..m : R(g, j) = R(f, j)
      <3>1. \A j \in 0..m : j = 0 \/ j - 1 \in 0..m-1
        BY <1>2
      <3> HIDE DEF g
      <3> QED BY <2>2, <3>1
    <2>4. g = [j \in 0..m |-> R(g, j)]
      <3> HIDE DEF R
      <3> QED BY <2>3
    <2> HIDE DEF g
    <2> QED BY <1>2, <2>4 DEF IsParse
  <1>3. N \in S
    <2>1. 0 \in S
      BY <1>0, <1>1
    <2> HIDE DEF S
    <2> QED BY <1>0, <1>2, <2>1, LoopInduction
  <1>4. IsParse(Parse(c), c, N)
    BY <1>3 DEF Parse, N
  <1>5. fat_parse_cluster(c) = Parse(c)[N].found
    BY DEF fat_parse_cluster, Parse, IsParse, ParseRound, ParseStart, N
  <1> QED BY <1>4, <1>5 DEF N

\* The long name that is pending after j entries, and an entry as the code has it.
Pending(c, j) ==
  {k \in 1..j : Entries[c][k].kind = "long" /\
     \A l \in k+1..j : Entries[c][l].kind \notin {"file", "dir", "long"}}
PendingName(c, j) == IF Pending(c, j) = {} THEN NoName ELSE Entries[c][Min(Pending(c, j))].long
ParsedAt(c, j) == [Entries[c][j] EXCEPT !.long = PendingName(c, j - 1)]
ListedBy(c, j) == {ParsedAt(c, k) : k \in {k \in 1..j : IsListed(c, k)}}

\* What an entry does to the pending name.
LEMMA PendingStep ==
  ASSUME NEW c \in DOMAIN Entries, NEW j \in 1..Len(Entries[c])
  PROVE  /\ Entries[c][j] \in Entry
         /\ PendingName(c, j) = IF Entries[c][j].kind = "deleted" THEN PendingName(c, j - 1)
                                ELSE IF Entries[c][j].kind = "long" THEN Entries[c][j].long
                                ELSE NoName
         /\ ParsedAt(c, j) = [Entries[c][j] EXCEPT !.long = PendingName(c, j - 1)]
  <1> DEFINE es == Entries[c]
  <1>1. es \in Seq(Entry) /\ j \in Nat /\ j >= 1
    BY DiskAssumption
  <1>2. es[j] \in Entry /\ es[j].kind \in {"file", "dir", "long", "deleted"}
    <2>1. es[j] \in Entry
      BY <1>1, ElementOfSeq
    <2> QED BY <2>1 DEF Entry
  <1>3. \A k \in 1..j : k = j \/ k \in 1..j-1
    BY <1>1
  <1>4. \A k \in 1..j-1 : j \in k+1..j /\ \A l \in k+1..j : l = j \/ l \in k+1..j-1
    BY <1>1
  <1>5. \A k \in 1..j-1 : k \in 1..j /\ \A l \in k+1..j-1 : l \in k+1..j
    BY <1>1
  <1>6. ASSUME es[j].kind = "deleted" PROVE Pending(c, j) = Pending(c, j - 1)
    BY <1>3, <1>4, <1>5, <1>6 DEF Pending
  <1>7. ASSUME es[j].kind = "long" PROVE Pending(c, j) = {j}
    <2>1. \A l \in j+1..j : FALSE
      BY <1>1
    <2> QED BY <1>1, <1>3, <1>4, <1>7, <2>1 DEF Pending
  <1>8. ASSUME es[j].kind \in {"file", "dir"} PROVE Pending(c, j) = {}
    BY <1>3, <1>4, <1>8 DEF Pending
  <1>9. Min({j}) = j
    BY DEF Min
  <1>10. ParsedAt(c, j) = [es[j] EXCEPT !.long = PendingName(c, j - 1)]
    BY DEF ParsedAt
  <1> QED BY <1>2, <1>6, <1>7, <1>8, <1>9, <1>10 DEF PendingName

\* A pending name is a name.
LEMMA PendingIsName ==
  ASSUME NEW c \in DOMAIN Entries, NEW j \in 0..Len(Entries[c])
  PROVE  PendingName(c, j) \in Name \cup {NoName}
  <1> DEFINE es == Entries[c]
  <1>1. es \in Seq(Entry) /\ Len(es) \in Nat
    BY DiskAssumption
  <1>2. CASE Pending(c, j) # {}
    <2>1. Pending(c, j) \subseteq 1..j /\ Pending(c, j) \subseteq Nat
      BY DEF Pending
    <2>2. Min(Pending(c, j)) \in 1..j
      BY <1>2, <2>1, MinIs
    <2>3. es[Min(Pending(c, j))] \in Entry
      BY <1>1, <2>2
    <2> QED BY <2>3 DEF PendingName, Entry
  <1> QED BY <1>2 DEF PendingName

\* The files and directories of a cluster, each with the long name that the
\* entries before it leave pending, are what fat_parse_cluster finds.
LEMMA ParseFinds ==
  ASSUME NEW c \in DOMAIN Entries
  PROVE  /\ fat_parse_cluster(c) \in Seq(Entry)
         /\ ToSet(fat_parse_cluster(c)) = ListedBy(c, Len(Entries[c]))
         /\ \A e \in ListedBy(c, Len(Entries[c])) : e \in Entry /\ e.kind \in {"file", "dir"}
  <1> DEFINE N == Len(Entries[c])
             f == Parse(c)
             S == {j \in 0..N : /\ f[j].lfe = PendingName(c, j)
                                /\ f[j].found \in Seq(Entry)
                                /\ ToSet(f[j].found) = ListedBy(c, j)
                                /\ \A e \in ListedBy(c, j) : e \in Entry /\ e.kind \in {"file", "dir"}}
  <1>1. Entries[c] \in Seq(Entry) /\ N \in Nat
    BY DiskAssumption
  <1>2. IsParse(f, c, N) /\ fat_parse_cluster(c) = f[N].found
    BY ParseIs
  <1> HIDE DEF f, N
  <1>3. 0 \in S
    <2>1. f[0] = ParseStart
      BY <1>1, <1>2 DEF IsParse
    <2>2. Pending(c, 0) = {} /\ ListedBy(c, 0) = {}
      BY DEF Pending, ListedBy
    <2>3. f[0].lfe = NoName /\ f[0].found = <<>>
      BY <2>1 DEF ParseStart
    <2>4. f[0].found \in Seq(Entry) /\ ToSet(f[0].found) = {}
      BY <2>3 DEF ToSet
    <2>5. PendingName(c, 0) = NoName
      BY <2>2 DEF PendingName
    <2>6. \A e \in ListedBy(c, 0) : FALSE
      BY <2>2
    <2>7. 0 \in 0..N
      BY <1>1
    <2> QED BY <2>2, <2>3, <2>4, <2>5, <2>6, <2>7
  <1>4. ASSUME NEW j \in 0+1..N, j - 1 \in S PROVE j \in S
    <2> DEFINE e == Entries[c][j]
               p == PendingName(c, j - 1)
    <2>1. j \in 1..N /\ j - 1 \in 0..N /\ j \in 0..N /\ j - 1 \in 0..Len(Entries[c])
      BY <1>1 DEF N
    <2>2. /\ e \in Entry /\ ParsedAt(c, j) = [e EXCEPT !.long = p]
          /\ PendingName(c, j) = IF e.kind = "deleted" THEN p
                                 ELSE IF e.kind = "long" THEN e.long ELSE NoName
      BY <2>1, PendingStep DEF N
    <2>3. p \in Name \cup {NoName}
      BY <2>1, PendingIsName
    <2>4. f[j] = ParseRound(f[j-1], e)
      BY <1>2, <2>1 DEF IsParse
    <2>5. f[j-1].lfe = p /\ f[j-1].found \in Seq(Entry) /\ ToSet(f[j-1].found) = ListedBy(c, j - 1)
      BY <1>4
    <2>6. ListedBy(c, j) = ListedBy(c, j - 1) \cup (IF IsListed(c, j) THEN {ParsedAt(c, j)} ELSE {})
      <3>1. \A k : k \in 1..j <=> k = j \/ k \in 1..j-1
        BY <2>1
      <3> QED BY <3>1 DEF ListedBy
    <2> HIDE DEF p, e
    <2>7. ParsedAt(c, j) \in Entry /\ ParsedAt(c, j).kind = e.kind
      BY <2>2, <2>3 DEF Entry
    <2>8. CASE e.kind = "deleted"
      <3>1. f[j] = f[j-1] /\ ~IsListed(c, j)
        BY <2>4, <2>8 DEF ParseRound, IsListed, e
      <3> QED BY <1>4, <2>1, <2>2, <2>5, <2>6, <2>8, <3>1
    <2>9. CASE e.kind = "long"
      <3>1. f[j].lfe = e.long /\ f[j].found = f[j-1].found /\ ~IsListed(c, j)
        BY <2>4, <2>9 DEF ParseRound, IsListed, e
      <3> QED BY <1>4, <2>1, <2>2, <2>5, <2>6, <2>9, <3>1
    <2>10. CASE e.kind \in {"file", "dir"}
      <3>1. f[j].lfe = NoName /\ f[j].found = Append(f[j-1].found, ParsedAt(c, j)) /\ IsListed(c, j)
        BY <2>2, <2>4, <2>5, <2>10 DEF ParseRound, IsListed, e
      <3>2. f[j].found \in Seq(Entry) /\ ToSet(f[j].found) = ToSet(f[j-1].found) \cup {ParsedAt(c, j)}
        BY <2>5, <2>7, <3>1, ToSetAppend
      <3> QED BY <1>4, <2>1, <2>2, <2>5, <2>6, <2>7, <2>10, <3>1, <3>2
    <2> QED BY <2>2, <2>8, <2>9, <2>10 DEF Entry
  <1>5. N \in S
    <2> HIDE DEF S
    <2>1. 0 \in Nat /\ N \in 0..N
      BY <1>1
    <2>2. \A i \in 0..N : i \in S
      BY <1>1, <1>3, <1>4, <2>1, LoopInduction
    <2> QED BY <2>1, <2>2
  <1> QED BY <1>2, <1>5 DEF N

-----------------------------------------------------------------------------
(* Chains.                                                                 *)

\* The clusters from d on, given those from the next one on.
ChainRound(f, d) == IF NextCluster[d] = 0 THEN <<d>> ELSE <<d>> \o f[NextCluster[d]]
\* f has the chains from the clusters of S, which leads nowhere else.
ChainPart(S, f) ==
  /\ S \subseteq DOMAIN NextCluster
  /\ \A d \in S : NextCluster[d] \in S \cup {0}
  /\ f = [d \in S |-> ChainRound(f, d)]

\* Two such functions agree.
LEMMA ChainPartsAgree ==
  ASSUME NEW S, NEW f, ChainPart(S, f), NEW T, NEW g, ChainPart(T, g), NEW c \in S \cap T
  PROVE  f[c] = g[c]
  <1> DEFINE Bad == {d \in S \cap T : f[d] # g[d]}
  <1> SUFFICES ASSUME Bad # {} PROVE FALSE
    OBVIOUS
  <1>1. Bad \in SUBSET (DOMAIN NextCluster)
    BY DEF ChainPart
  <1>2. PICK d \in Bad : NextCluster[d] \notin Bad
    <2> HIDE DEF Bad
    <2> QED BY <1>1, DiskAssumption
  <1>3. f[d] = ChainRound(f, d) /\ g[d] = ChainRound(g, d) /\ f[d] # g[d]
    BY <1>2 DEF ChainPart
  <1>4. NextCluster[d] = 0 \/ NextCluster[d] \in S \cap T
    BY <1>2, DiskAssumption DEF ChainPart
  <1>5. NextCluster[d] = 0 \/ f[NextCluster[d]] = g[NextCluster[d]]
    BY <1>2, <1>4
  <1> QED BY <1>3, <1>5 DEF ChainRound

\* There is one for each cluster.
LEMMA ChainPartExists ==
  ASSUME NEW c \in DOMAIN NextCluster
  PROVE  \E S, f : ChainPart(S, f) /\ c \in S
  <1> DEFINE Bad == {d \in DOMAIN NextCluster : ~\E S, f : ChainPart(S, f) /\ d \in S}
  <1> SUFFICES ASSUME Bad # {} PROVE FALSE
    OBVIOUS
  <1>1. Bad \in SUBSET (DOMAIN NextCluster)
    OBVIOUS
  <1>2. PICK d \in Bad : NextCluster[d] \notin Bad
    <2> HIDE DEF Bad
    <2> QED BY <1>1, DiskAssumption
  <1>3. d \in DOMAIN NextCluster /\ ~\E S, f : ChainPart(S, f) /\ d \in S
    BY <1>2
  <1>4. \E S, f : ChainPart(S, f) /\ NextCluster[d] \in S \cup {0}
    <2>1. CASE NextCluster[d] = 0
      <3> DEFINE f == [e \in {} |-> ChainRound(<<>>, e)]
      <3>1. ChainPart({}, f)
        BY DEF ChainPart
      <3> QED BY <2>1, <3>1
    <2>2. CASE NextCluster[d] # 0
      BY <1>2, <2>2, DiskAssumption
    <2> QED BY <2>1, <2>2
  <1>5. PICK S, f : ChainPart(S, f) /\ NextCluster[d] \in S \cup {0}
    BY <1>4
  <1> DEFINE T == S \cup {d}
             g == [e \in T |-> ChainRound(f, e)]
  <1>6. \A e \in S : g[e] = f[e]
    BY <1>5 DEF ChainPart
  <1>7. T \subseteq DOMAIN NextCluster /\ \A e \in T : NextCluster[e] \in S \cup {0}
    BY <1>3, <1>5 DEF ChainPart
  <1>8. \A e \in T : ChainRound(g, e) = ChainRound(f, e)
    <2> HIDE DEF g
    <2> QED BY <1>6, <1>7 DEF ChainRound
  <1>9. g = [e \in T |-> ChainRound(g, e)]
    <2>1. g = [e \in T |-> ChainRound(f, e)]
      OBVIOUS
    <2> HIDE DEF g
    <2> QED BY <1>8, <2>1
  <1>10. ChainPart(T, g)
    <2> HIDE DEF g
    <2> QED BY <1>7, <1>9 DEF ChainPart
  <1> QED BY <1>3, <1>10

\* The chain of a cluster is that cluster and the chain of the next.
LEMMA ChainIs ==
  ASSUME NEW c \in DOMAIN NextCluster
  PROVE  Chain(c) = IF NextCluster[c] = 0 THEN <<c>> ELSE <<c>> \o Chain(NextCluster[c])
  <1> DEFINE D == DOMAIN NextCluster
             V(d) == CHOOSE x : \E S, f : ChainPart(S, f) /\ d \in S /\ x = f[d]
             h == [d \in D |-> V(d)]
             F == CHOOSE f : f = [d \in D |-> ChainRound(f, d)]
  <1>1. ASSUME NEW S, NEW f, ChainPart(S, f), NEW d \in S PROVE h[d] = f[d]
    <2>1. d \in D
      BY <1>1 DEF ChainPart
    <2>2. \E x : \E T, g : ChainPart(T, g) /\ d \in T /\ x = g[d]
      BY <1>1
    <2>3. PICK T, g : ChainPart(T, g) /\ d \in T /\ V(d) = g[d]
      BY <2>2
    <2> QED BY <1>1, <2>1, <2>3, ChainPartsAgree
  <1> HIDE DEF V
  <1>2. ASSUME NEW d \in D PROVE h[d] = ChainRound(h, d)
    <2>1. PICK S, f : ChainPart(S, f) /\ d \in S
      BY ChainPartExists
    <2>2. h[d] = f[d] /\ f[d] = ChainRound(f, d) /\ NextCluster[d] \in S \cup {0}
      <3>1. f[d] = ChainRound(f, d) /\ NextCluster[d] \in S \cup {0}
        BY <2>1 DEF ChainPart
      <3> HIDE DEF h
      <3> QED BY <1>1, <2>1, <3>1
    <2>3. NextCluster[d] = 0 \/ h[NextCluster[d]] = f[NextCluster[d]]
      <3> HIDE DEF h
      <3> QED BY <1>1, <2>1, <2>2
    <2> HIDE DEF h
    <2> QED BY <2>2, <2>3 DEF ChainRound
  <1>3. h = [d \in D |-> ChainRound(h, d)]
    <2>1. h = [d \in D |-> h[d]]
      OBVIOUS
    <2> HIDE DEF h
    <2> QED BY <1>2, <2>1
  <1>4. F = [d \in D |-> ChainRound(F, d)]
    <2> HIDE DEF h
    <2> QED BY <1>3
  <1>5. \A d : Chain(d) = F[d]
    BY DEF Chain, ChainRound
  <1> HIDE DEF F
  <1>6. F[c] = ChainRound(F, c)
    BY <1>4
  <1> QED BY <1>5, <1>6 DEF ChainRound

\* Every chain is a sequence of clusters.
LEMMA ChainIsSeq ==
  ASSUME NEW c \in DOMAIN NextCluster
  PROVE  Chain(c) \in Seq(DOMAIN NextCluster)
  <1> DEFINE D == DOMAIN NextCluster
             Bad == {d \in D : Chain(d) \notin Seq(D)}
  <1> SUFFICES ASSUME Bad # {} PROVE FALSE
    OBVIOUS
  <1>1. Bad \in SUBSET D
    OBVIOUS
  <1>2. PICK d \in Bad : NextCluster[d] \notin Bad
    <2> HIDE DEF Bad
    <2> QED BY <1>1, DiskAssumption
  <1>3. d \in D /\ <<d>> \in Seq(D)
    BY <1>2
  <1>4. NextCluster[d] = 0 \/ Chain(NextCluster[d]) \in Seq(D)
    BY <1>2, DiskAssumption
  <1>5. Chain(d) \in Seq(D)
    BY <1>3, <1>4, ChainIs, ConcatProperties
  <1> QED BY <1>2, <1>5

-----------------------------------------------------------------------------
(* Searching a directory of the disk.                                      *)

\* What nodes can be made of: nothing, the root, and what the directories list.
Listed == UNION {ListedBy(c, Len(Entries[c])) : c \in DOMAIN Entries}
KnownEntries == {NoEntry, RootEntry} \cup Listed

\* An entry of a directory is a file or a directory as its cluster has it.
LEMMA ListedIs ==
  ASSUME NEW e \in Listed
  PROVE  /\ e \in Entry /\ e.kind \in {"file", "dir"}
         /\ \E c \in DOMAIN Entries : \E x \in ToSet(Entries[c]) :
              e.kind = x.kind /\ e.cluster = x.cluster /\ e.size = x.size
  <1>1. PICK c \in DOMAIN Entries : e \in ListedBy(c, Len(Entries[c]))
    BY DEF Listed
  <1>2. e \in Entry /\ e.kind \in {"file", "dir"}
    BY <1>1, ParseFinds
  <1>3. PICK j \in 1..Len(Entries[c]) : e = ParsedAt(c, j)
    BY <1>1 DEF ListedBy
  <1> DEFINE x == Entries[c][j]
  <1>4. x \in Entry /\ e = [x EXCEPT !.long = PendingName(c, j - 1)]
    BY <1>3, PendingStep
  <1>5. x \in ToSet(Entries[c])
    <2>1. Entries[c] \in Seq(Entry)
      BY DiskAssumption
    <2>2. j \in DOMAIN Entries[c]
      BY <2>1
    <2> QED BY <2>2 DEF ToSet
  <1> HIDE DEF x
  <1>6. e.kind = x.kind /\ e.cluster = x.cluster /\ e.size = x.size
    BY <1>4 DEF Entry
  <1> QED BY <1>2, <1>5, <1>6

\* The fields of a known entry; a directory's clusters hold entries.
LEMMA KnownIs ==
  ASSUME NEW e \in KnownEntries
  PROVE  /\ e = NoEntry \/ e \in Entry
         /\ e # NoEntry <=> e.kind \in {"file", "dir"}
         /\ e.kind = "dir" => /\ e.cluster \in DOMAIN NextCluster
                              /\ Chain(e.cluster) \in Seq(DOMAIN Entries)
  <1>1. NoEntry.kind = "none"
    BY DEF NoEntry
  <1>2. RootEntry \in Entry /\ RootEntry.kind = "dir"
    BY DiskAssumption DEF RootEntry, NoEntry, Entry
  <1>3. e = NoEntry \/ (e \in Entry /\ e.kind \in {"file", "dir"})
    BY <1>2, ListedIs DEF KnownEntries
  <1>4. ASSUME e.kind = "dir"
        PROVE  e.cluster \in DOMAIN NextCluster /\ ToSet(Chain(e.cluster)) \subseteq DOMAIN Entries
    <2>1. CASE e = RootEntry
      BY <2>1, <1>4, DiskAssumption
    <2>2. CASE e \in Listed
      <3>1. PICK c \in DOMAIN Entries, x \in UNION {ToSet(Entries[d]) : d \in DOMAIN Entries} :
              e.kind = x.kind /\ e.cluster = x.cluster
        BY <2>2, ListedIs
      <3> QED BY <1>4, <3>1, DiskAssumption
    <2> QED BY <1>1, <1>4, <2>1, <2>2 DEF KnownEntries
  <1>5. ASSUME e.kind = "dir" PROVE Chain(e.cluster) \in Seq(DOMAIN Entries)
    <2>1. Chain(e.cluster) \in Seq(DOMAIN NextCluster)
      BY <1>4, <1>5, ChainIsSeq
    <2>2. \A i \in 1..Len(Chain(e.cluster)) : Chain(e.cluster)[i] \in DOMAIN Entries
      BY <1>4, <1>5, <2>1 DEF ToSet
    <2> QED BY <2>1, <2>2
  <1> QED BY <1>1, <1>3, <1>4, <1>5

\* What the code finds in a directory.
ParsedOf(d) ==
  UNION {{ParsedAt(c, j) : j \in {j \in DOMAIN Entries[c] : IsListed(c, j)}} : c \in ToSet(Chain(d))}

\* The entries of a directory as the code finds them.
LEMMA EntriesAre ==
  ASSUME NEW e \in KnownEntries, e.kind = "dir"
  PROVE  /\ ParsedOf(e.cluster) =
              UNION {ToSet(fat_parse_cluster(Chain(e.cluster)[i])) : i \in DOMAIN Chain(e.cluster)}
         /\ ParsedOf(e.cluster) \subseteq Listed
  <1> DEFINE chain == Chain(e.cluster)
  <1>1. chain \in Seq(DOMAIN Entries)
    BY KnownIs
  <1>2. ASSUME NEW c \in DOMAIN Entries
        PROVE  /\ {ParsedAt(c, j) : j \in {j \in DOMAIN Entries[c] : IsListed(c, j)}}
                    = ToSet(fat_parse_cluster(c))
               /\ ToSet(fat_parse_cluster(c)) \subseteq Listed
    <2>1. DOMAIN Entries[c] = 1..Len(Entries[c])
      BY DiskAssumption
    <2>2. ToSet(fat_parse_cluster(c)) = ListedBy(c, Len(Entries[c]))
      BY ParseFinds
    <2> QED BY <2>1, <2>2 DEF ListedBy, Listed
  <1>3. \A c \in ToSet(chain) : c \in DOMAIN Entries
    BY <1>1 DEF ToSet
  <1>4. ParsedOf(e.cluster) = UNION {ToSet(fat_parse_cluster(c)) : c \in ToSet(chain)}
    BY <1>2, <1>3 DEF ParsedOf
  <1>5. ToSet(chain) = {chain[i] : i \in DOMAIN chain}
    BY DEF ToSet
  <1>6. ParsedOf(e.cluster) \subseteq Listed
    BY <1>2, <1>3, <1>4
  <1> QED BY <1>4, <1>5, <1>6

\* fat_seek finds an entry of that name if the directory has one.
LEMMA FatSeekIs ==
  ASSUME NEW name, NEW dir \in KnownEntries
  PROVE  /\ fat_seek(name, dir) \in {NoEntry} \cup Listed
         /\ fat_seek(name, dir) # NoEntry =>
              /\ dir.kind = "dir"
              /\ fat_seek(name, dir) \in ParsedOf(dir.cluster) /\ Named(fat_seek(name, dir), name)
         /\ fat_seek(name, dir) = NoEntry =>
              dir.kind # "dir" \/ \A x \in ParsedOf(dir.cluster) : ~Named(x, name)
  <1> DEFINE chain == Chain(dir.cluster)
             In(i) == fat_parse_cluster(chain[i])
             Hits(i) == {j \in 1..Len(In(i)) : Named(In(i)[j], name)}
             At(i) == IF Hits(i) # {} THEN Min(Hits(i)) ELSE 0
             hits == {i \in DOMAIN chain : At(i) # 0}
  <1>1. CASE dir.kind # "dir"
    BY <1>1 DEF fat_seek, FirstHit, ClustersWith, EntryNamed, FirstNamed
  <1>2. CASE dir.kind = "dir"
    <2>1. chain \in Seq(DOMAIN Entries)
      BY <1>2, KnownIs
    <2>2. /\ ParsedOf(dir.cluster) = UNION {ToSet(In(i)) : i \in DOMAIN chain}
          /\ ParsedOf(dir.cluster) \subseteq Listed
      BY <1>2, EntriesAre
    <2>3. fat_seek(name, dir) = IF hits = {} THEN NoEntry ELSE In(Min(hits))[At(Min(hits))]
      BY <1>2 DEF fat_seek, FirstHit, ClustersWith, EntryNamed, FirstNamed, SelectInSeq
    <2>4. ASSUME NEW i \in DOMAIN chain
          PROVE  /\ DOMAIN In(i) = 1..Len(In(i))
                 /\ At(i) = 0 => \A j \in DOMAIN In(i) : ~Named(In(i)[j], name)
                 /\ At(i) # 0 => At(i) \in DOMAIN In(i) /\ Named(In(i)[At(i)], name)
      <3>1. chain[i] \in DOMAIN Entries
        BY <2>1
      <3>2. In(i) \in Seq(Entry)
        BY <3>1, ParseFinds
      <3> HIDE DEF In
      <3>3. DOMAIN In(i) = 1..Len(In(i)) /\ Hits(i) \subseteq Nat
        BY <3>2
      <3>4. Hits(i) # {} => Min(Hits(i)) \in Hits(i)
        <4> HIDE DEF Hits
        <4> QED BY <3>3, MinIs
      <3>5. \A j \in 1..Len(In(i)) : j # 0
        OBVIOUS
      <3> QED BY <3>3, <3>4, <3>5
    <2> HIDE DEF At
    <2>5. CASE hits = {}
      <3>1. \A x \in ParsedOf(dir.cluster) : ~Named(x, name)
        <4> SUFFICES ASSUME NEW x \in ParsedOf(dir.cluster) PROVE ~Named(x, name)
          OBVIOUS
        <4>1. PICK i \in DOMAIN chain : x \in ToSet(In(i))
          BY <2>2
        <4>2. PICK j \in DOMAIN In(i) : x = In(i)[j]
          BY <4>1 DEF ToSet
        <4> QED BY <2>4, <2>5, <4>1, <4>2
      <3> QED BY <2>3, <2>5, <3>1
    <2>6. CASE hits # {}
      <3> DEFINE i == Min(hits)
      <3>1. hits \subseteq Nat
        BY <2>1
      <3>2. i \in hits
        <4> HIDE DEF hits
        <4> QED BY <2>6, <3>1, MinIs
      <3> HIDE DEF i
      <3>3. In(i)[At(i)] \in ToSet(In(i)) /\ Named(In(i)[At(i)], name)
        <4> HIDE DEF In
        <4> QED BY <2>4, <3>2 DEF ToSet
      <3>4. fat_seek(name, dir) = In(i)[At(i)]
        BY <2>3, <2>6 DEF i
      <3>5. In(i)[At(i)] \in ParsedOf(dir.cluster)
        <4> HIDE DEF In
        <4> QED BY <2>2, <3>2, <3>3
      <3>6. In(i)[At(i)] # NoEntry
        <4>1. NoEntry.kind = "none"
          BY DEF NoEntry
        <4> HIDE DEF In
        <4> QED BY <2>2, <3>5, <4>1, ListedIs
      <3> QED BY <1>2, <2>2, <3>3, <3>4, <3>5, <3>6
    <2> QED BY <2>5, <2>6
  <1> QED BY <1>1, <1>2

-----------------------------------------------------------------------------
(* Reading a file.                                                         *)

\* Division by the size of a cluster.
LEMMA DivMod ==
  ASSUME NEW x \in Nat
  PROVE  /\ x \div ClusterSize \in Nat /\ x % ClusterSize \in 0..ClusterSize-1
         /\ x = ClusterSize * (x \div ClusterSize) + (x % ClusterSize)
  BY DiskAssumption

\* Quotient and remainder are unique.
LEMMA DivModUnique ==
  ASSUME NEW q \in Nat, NEW r \in 0..ClusterSize-1
  PROVE  /\ (ClusterSize * q + r) \div ClusterSize = q
         /\ (ClusterSize * q + r) % ClusterSize = r
  BY DiskAssumption

\* A remainder that stays within the cluster.
LEMMA DivModAdd ==
  ASSUME NEW x \in Nat, NEW i \in Nat, (x % ClusterSize) + i < ClusterSize
  PROVE  /\ (x + i) \div ClusterSize = x \div ClusterSize
         /\ (x + i) % ClusterSize = (x % ClusterSize) + i
  <1> DEFINE q == x \div ClusterSize
             r == x % ClusterSize
  <1>1. q \in Nat /\ r \in Nat /\ x = ClusterSize * q + r
    BY DivMod
  <1>0. ClusterSize \in Nat
    BY DiskAssumption
  <1> HIDE DEF q, r
  <1>2. r + i \in 0..ClusterSize-1
    BY <1>0, <1>1 DEF r
  <1>3. x + i = ClusterSize * q + (r + i)
    BY <1>0, <1>1
  <1>4. (x + i) \div ClusterSize = q /\ (x + i) % ClusterSize = r + i
    BY <1>0, <1>1, <1>2, <1>3, DivModUnique
  <1> QED BY <1>4 DEF q, r

\* Byte k of a file, counted from 0, and n of its bytes from a on.
Byte(e, k) == Content[Chain(e.cluster)[(k \div ClusterSize) + 1]][(k % ClusterSize) + 1]
Run(e, a, n) == [k \in 1..n |-> Byte(e, a + k - 1)]

\* A subsequence as a function.
LEMMA SubSeqIs ==
  ASSUME NEW s, NEW m \in Nat, NEW n \in Nat
  PROVE  SubSeq(s, m + 1, m + n) = [k \in 1..n |-> s[m + k]]
  <1> DEFINE S == {s[i] : i \in Int}
             t == SubSeq(s, m + 1, m + n)
  <1>1. m + 1 \in Int /\ m + n \in Int /\ \A i \in m+1..m+n : i \in Int
    OBVIOUS
  <1>2. \A i \in m+1..m+n : s[i] \in S
    BY <1>1
  <1>3. /\ t \in Seq(S) /\ Len(t) = IF m+1 <= m+n THEN (m+n) - (m+1) + 1 ELSE 0
        /\ \A k \in 1..(m+n)-(m+1)+1 : t[k] = s[(m+1) + k - 1]
    <2> HIDE DEF S
    <2> QED BY <1>1, <1>2, SubSeqProperties
  <1> HIDE DEF t, S
  <1>4. Len(t) = n /\ (m+n)-(m+1)+1 = n
    BY <1>3
  <1>5. \A k \in 1..n : (m+1) + k - 1 = m + k
    OBVIOUS
  <1>6. \A k \in 1..n : t[k] = s[m + k]
    BY <1>3, <1>4, <1>5
  <1>7. t = [k \in 1..n |-> t[k]]
    BY <1>3, <1>4
  <1> QED BY <1>6, <1>7 DEF t

\* The bytes from an offset on are a run.
LEMMA BytesRun ==
  ASSUME NEW e, e.size \in Nat, NEW a \in Nat, NEW n \in Nat, a + n <= e.size
  PROVE  /\ SubSeq(Bytes(e), a + 1, a + n) = Run(e, a, n)
         /\ Bytes(e) = Run(e, 0, e.size)
  <1>1. \A k \in 1..e.size : Bytes(e)[k] = Byte(e, k - 1)
    BY DEF Bytes, Byte
  <1>2. SubSeq(Bytes(e), a + 1, a + n) = [k \in 1..n |-> Bytes(e)[a + k]]
    BY SubSeqIs
  <1>3. \A k \in 1..n : a + k \in 1..e.size /\ a + k - 1 = (a + k) - 1
    OBVIOUS
  <1>4. [k \in 1..n |-> Bytes(e)[a + k]] = Run(e, a, n)
    BY <1>1, <1>3 DEF Run
  <1>5. Bytes(e) = Run(e, 0, e.size)
    <2>1. \A k \in 1..e.size : 0 + k - 1 = k - 1
      OBVIOUS
    <2> QED BY <2>1 DEF Bytes, Run, Byte
  <1> QED BY <1>2, <1>4, <1>5

\* What is read inside one cluster.
LEMMA InClusterRun ==
  ASSUME NEW e, NEW a \in Nat, NEW n \in Nat, (a % ClusterSize) + n <= ClusterSize
  PROVE  InCluster(e, a, n) = Run(e, a, n)
  <1> DEFINE c == Content[Chain(e.cluster)[(a \div ClusterSize) + 1]]
             r == a % ClusterSize
  <1>1. r \in Nat /\ ClusterSize \in Nat
    BY DivMod, DiskAssumption
  <1>2. InCluster(e, a, n) = [k \in 1..n |-> c[r + k]]
    <2>1. InCluster(e, a, n) = SubSeq(c, r + 1, r + n)
      BY DEF InCluster
    <2> HIDE DEF r, c
    <2> QED BY <1>1, <2>1, SubSeqIs
  <1>3. ASSUME NEW k \in 1..n PROVE c[r + k] = Byte(e, a + k - 1)
    <2>1. k - 1 \in Nat /\ a + k - 1 = a + (k - 1) /\ r + (k - 1) < ClusterSize
      BY <1>1
    <2>2. (a + k - 1) \div ClusterSize = a \div ClusterSize /\ (a + k - 1) % ClusterSize = r + (k - 1)
      BY <2>1, DivModAdd
    <2>3. r + (k - 1) + 1 = r + k
      BY <1>1
    <2> QED BY <2>2, <2>3 DEF Byte
  <1> HIDE DEF c, r
  <1> QED BY <1>2, <1>3 DEF Run

\* Two runs, one behind the other.
LEMMA RunConcat ==
  ASSUME NEW e, NEW a \in Nat, NEW m \in Nat, NEW n \in Nat
  PROVE  Run(e, a, m) \o Run(e, a + m, n) = Run(e, a, m + n)
  <1> DEFINE s == Run(e, a, m)
             t == Run(e, a + m, n)
             S == {Byte(e, k) : k \in Nat}
  <1>1. /\ s \in Seq(S) /\ Len(s) = m /\ \A k \in 1..m : s[k] = Byte(e, a + k - 1)
        /\ t \in Seq(S) /\ Len(t) = n /\ \A k \in 1..n : t[k] = Byte(e, a + m + k - 1)
    <2>1. \A k \in 1..m : a + k - 1 \in Nat
      OBVIOUS
    <2>2. \A k \in 1..n : a + m + k - 1 \in Nat
      OBVIOUS
    <2> HIDE DEF S
    <2>3. (\A k \in 1..m : Byte(e, a + k - 1) \in S) /\ \A k \in 1..n : Byte(e, a + m + k - 1) \in S
      BY <2>1, <2>2 DEF S
    <2> QED BY <2>3 DEF Run
  <1> HIDE DEF s, t, S
  <1>2. /\ s \o t \in Seq(S) /\ Len(s \o t) = m + n /\ DOMAIN (s \o t) = 1..m+n
        /\ \A k \in 1..m+n : (s \o t)[k] = IF k <= m THEN s[k] ELSE t[k - m]
    <2>1. /\ s \o t \in Seq(S) /\ Len(s \o t) = Len(s) + Len(t)
          /\ \A k \in 1..Len(s)+Len(t) : (s \o t)[k] = IF k <= Len(s) THEN s[k] ELSE t[k - Len(s)]
      BY <1>1, ConcatProperties
    <2>2. DOMAIN (s \o t) = 1..Len(s \o t)
      BY <2>1
    <2> QED BY <1>1, <2>1, <2>2
  <1>3. \A k \in 1..m+n : (s \o t)[k] = Byte(e, a + k - 1)
    <2> SUFFICES ASSUME NEW k \in 1..m+n PROVE (s \o t)[k] = Byte(e, a + k - 1)
      OBVIOUS
    <2>1. CASE k <= m
      BY <1>1, <1>2, <2>1
    <2>2. CASE k > m
      <3>1. k - m \in 1..n /\ a + m + (k - m) - 1 = a + k - 1 /\ ~(k <= m)
        BY <2>2
      <3> DEFINE i == k - m
      <3>2. t[i] = Byte(e, a + m + i - 1) /\ a + m + i - 1 = a + k - 1
        <4>1. i \in 1..n /\ a + m + i - 1 = a + k - 1
          BY <3>1
        <4> HIDE DEF i
        <4> QED BY <1>1, <4>1
      <3>3. (s \o t)[k] = t[i]
        BY <1>2, <3>1
      <3>4. Byte(e, a + m + i - 1) = Byte(e, a + k - 1)
        BY <3>2
      <3> HIDE DEF i
      <3> QED BY <3>2, <3>3, <3>4
    <2>3. k <= m \/ k > m
      OBVIOUS
    <2> QED BY <2>1, <2>2, <2>3
  <1>4. s \o t = [k \in 1..m+n |-> (s \o t)[k]]
    <2> DEFINE u == s \o t
    <2>1. u \in Seq(S) /\ DOMAIN u = 1..m+n
      BY <1>2
    <2> HIDE DEF u
    <2>2. u = [k \in 1..m+n |-> u[k]]
      BY <2>1
    <2> QED BY <2>2 DEF u
  <1> QED BY <1>3, <1>4 DEF Run, s, t

\* The loop of FlattenSeq over n parts.
Joined(g, seqs, i) == IF i = 1 THEN seqs[i] ELSE g[i-1] \o seqs[i]
IsFlatten(f, seqs, n) == f = [i \in 1..n |-> Joined(f, seqs, i)]

\* FlattenSeq joins its parts from the first to the last.
LEMMA FlattenIs ==
  ASSUME NEW S, NEW seqs \in Seq(S), Len(seqs) > 0
  PROVE  \E f : /\ FlattenSeq(seqs) = f[Len(seqs)]
                /\ f[1] = seqs[1]
                /\ \A i \in 2..Len(seqs) : f[i] = f[i-1] \o seqs[i]
  <1> DEFINE N == Len(seqs)
             T == {n \in 1..N : \E f : IsFlatten(f, seqs, n)}
             F == CHOOSE f : IsFlatten(f, seqs, N)
  <1>1. N \in Nat /\ N >= 1
    OBVIOUS
  <1>2. FlattenSeq(seqs) = F[N]
    BY DEF FlattenSeq, IsFlatten, Joined
  <1> HIDE DEF N
  <1>3. 1 \in T
    <2>1. IsFlatten([i \in 1..1 |-> seqs[i]], seqs, 1)
      BY DEF IsFlatten, Joined
    <2> QED BY <1>1, <2>1
  <1>4. ASSUME NEW m \in 1+1..N, m - 1 \in T PROVE m \in T
    <2>1. PICK f : IsFlatten(f, seqs, m - 1)
      BY <1>4
    <2> DEFINE g == [i \in 1..m |-> Joined(f, seqs, i)]
    <2>2. \A i \in 1..m-1 : g[i] = f[i]
      BY <1>4, <2>1 DEF IsFlatten
    <2>3. \A i \in 1..m : Joined(g, seqs, i) = Joined(f, seqs, i)
      <3>1. \A i \in 1..m : i = 1 \/ i - 1 \in 1..m-1
        BY <1>4
      <3> HIDE DEF g
      <3> QED BY <2>2, <3>1 DEF Joined
    <2>4. g = [i \in 1..m |-> Joined(g, seqs, i)]
      BY <2>3
    <2> HIDE DEF g
    <2> QED BY <1>4, <2>4 DEF IsFlatten
  <1>5. N \in T
    <2> HIDE DEF T
    <2>1. 1 \in Nat /\ N \in 1..N
      BY <1>1
    <2>2. \A i \in 1..N : i \in T
      BY <1>1, <1>3, <1>4, <2>1, LoopInduction
    <2> QED BY <2>1, <2>2
  <1>6. IsFlatten(F, seqs, N)
    BY <1>5
  <1> HIDE DEF F
  <1>7. \A i \in 1..N : F[i] = Joined(F, seqs, i)
    BY <1>6 DEF IsFlatten
  <1>8. F[1] = seqs[1]
    BY <1>1, <1>7 DEF Joined
  <1>9. ASSUME NEW i \in 2..N PROVE F[i] = F[i-1] \o seqs[i]
    <2>1. i \in 1..N /\ i # 1
      BY <1>1
    <2>2. F[i] = Joined(F, seqs, i)
      BY <1>7, <2>1
    <2> QED BY <2>1, <2>2 DEF Joined
  <1> QED BY <1>2, <1>8, <1>9 DEF N

\* The pieces of a read that crosses clusters lie one behind the other, none of
\* them crosses a cluster, and together they are what is to be read.
LEMMA PiecesAre ==
  ASSUME NEW a \in 0..ClusterSize-1, NEW size \in Nat, a + size > ClusterSize
  PROVE  /\ Pieces(a, size) \in Seq([at : Nat, n : Nat]) /\ Len(Pieces(a, size)) >= 1
         /\ Pieces(a, size)[1].at = a
         /\ \A i \in 1..Len(Pieces(a, size)) :
              (Pieces(a, size)[i].at % ClusterSize) + Pieces(a, size)[i].n <= ClusterSize
         /\ \A i \in 2..Len(Pieces(a, size)) :
              Pieces(a, size)[i].at = Pieces(a, size)[i-1].at + Pieces(a, size)[i-1].n
         /\ Pieces(a, size)[Len(Pieces(a, size))].at + Pieces(a, size)[Len(Pieces(a, size))].n = a + size
  <1> DEFINE CS == ClusterSize
             S == [at : Nat, n : Nat]
             first == CS - a
             rest == size - first
             whole == rest \div CS
             last == rest % CS
             x == <<[at |-> a, n |-> first]>>
             y == [i \in 1..whole |-> [at |-> a + first + (i - 1) * CS, n |-> CS]]
             z == IF last = 0 THEN <<>> ELSE <<[at |-> a + first + whole * CS, n |-> last]>>
             all == Pieces(a, size)
             At(i) == IF i = 1 THEN a ELSE CS * (i - 1)
             N(i) == IF i = 1 THEN first ELSE IF i <= whole + 1 THEN CS ELSE last
             L == IF last = 0 THEN whole + 1 ELSE whole + 2
  <1>1. CS \in Nat /\ CS > 0 /\ a \in Nat /\ a < CS
    BY DiskAssumption
  <1>2. all = x \o y \o z
    BY DEF Pieces
  <1>3. first \in Nat /\ first > 0 /\ rest \in Nat /\ rest > 0 /\ a + first = CS
    BY <1>1
  <1>4. whole \in Nat /\ last \in 0..CS-1 /\ rest = CS * whole + last
    <2> HIDE DEF rest
    <2> QED BY <1>3, DivMod
  <1>5. x \in Seq(S) /\ Len(x) = 1 /\ x[1] = [at |-> a, n |-> first]
    BY <1>1, <1>3
  <1>6. \A i \in 1..whole : a + first + (i - 1) * CS = CS * i /\ CS * i \in Nat
    BY <1>1, <1>3, <1>4
  <1> HIDE DEF first, rest, whole, last
  <1>7. y \in Seq(S) /\ Len(y) = whole /\ \A i \in 1..whole : y[i] = [at |-> CS * i, n |-> CS]
    <2>1. y = [i \in 1..whole |-> [at |-> CS * i, n |-> CS]]
      BY <1>6
    <2>2. \A i \in 1..whole : [at |-> CS * i, n |-> CS] \in S
      BY <1>1, <1>6
    <2> HIDE DEF y, S
    <2> QED BY <1>4, <2>1, <2>2
  <1>8. a + first + whole * CS = CS * (whole + 1) /\ CS * (whole + 1) \in Nat
    BY <1>1, <1>3, <1>4
  <1>9. /\ z \in Seq(S) /\ Len(z) = IF last = 0 THEN 0 ELSE 1
        /\ last # 0 => z[1] = [at |-> CS * (whole + 1), n |-> last]
    <2>1. CASE last = 0
      BY <2>1
    <2>2. CASE last # 0
      <3>1. z = <<[at |-> CS * (whole + 1), n |-> last]>>
        BY <1>8, <2>2
      <3>2. [at |-> CS * (whole + 1), n |-> last] \in S
        BY <1>1, <1>4, <1>8
      <3> HIDE DEF z, S
      <3> QED BY <2>2, <3>1, <3>2
    <2> QED BY <2>1, <2>2
  <1> HIDE DEF x, y, z, S, CS, all
  <1>10. /\ x \o y \in Seq(S) /\ Len(x \o y) = whole + 1
         /\ \A i \in 1..whole+1 : (x \o y)[i] = IF i <= 1 THEN x[i] ELSE y[i - 1]
    <2>1. /\ x \o y \in Seq(S) /\ Len(x \o y) = Len(x) + Len(y)
          /\ \A i \in 1..Len(x)+Len(y) : (x \o y)[i] = IF i <= Len(x) THEN x[i] ELSE y[i - Len(x)]
      BY <1>5, <1>7, ConcatProperties
    <2> QED BY <1>4, <1>5, <1>7, <2>1
  <1>11. /\ all \in Seq(S) /\ Len(all) = L /\ DOMAIN all = 1..L
         /\ \A i \in 1..L : all[i] = IF i <= whole + 1 THEN (x \o y)[i] ELSE z[i - (whole + 1)]
    <2> DEFINE w == x \o y
    <2>0. w \in Seq(S) /\ Len(w) = whole + 1
      BY <1>10
    <2> HIDE DEF w
    <2>1. /\ w \o z \in Seq(S) /\ Len(w \o z) = Len(w) + Len(z)
          /\ \A i \in 1..Len(w)+Len(z) : (w \o z)[i] = IF i <= Len(w) THEN w[i] ELSE z[i - Len(w)]
      BY <2>0, <1>9, ConcatProperties
    <2>2. Len(w) + Len(z) = L /\ L \in Nat
      BY <2>0, <1>4, <1>9
    <2>3. all = w \o z
      BY <1>2 DEF w
    <2> HIDE DEF L
    <2> QED BY <2>0, <2>1, <2>2, <2>3 DEF w
  <1>12. ASSUME NEW i \in 1..L PROVE all[i] = [at |-> At(i), n |-> N(i)]
    <2>1. CASE i = 1
      <3> DEFINE u == x \o y
      <3>1. 1 \in 1..whole+1 /\ 1 <= whole + 1 /\ 1 \in 1..L
        BY <1>4
      <3> HIDE DEF u, L
      <3>2. u[1] = x[1]
        <4>1. \A j \in 1..whole+1 : u[j] = IF j <= 1 THEN x[j] ELSE y[j - 1]
          BY <1>10 DEF u
        <4> QED BY <3>1, <4>1
      <3>3. all[1] = u[1]
        <4>1. \A j \in 1..L : all[j] = IF j <= whole + 1 THEN u[j] ELSE z[j - (whole + 1)]
          BY <1>11 DEF u
        <4> QED BY <3>1, <4>1
      <3> QED BY <1>5, <2>1, <3>2, <3>3
    <2>2. CASE i # 1 /\ i <= whole + 1
      <3>1. i \in 1..whole+1 /\ ~(i <= 1) /\ i - 1 \in 1..whole
        BY <1>4, <2>2
      <3>2. all[i] = y[i - 1]
        BY <1>10, <1>11, <2>2, <3>1
      <3> QED BY <1>7, <2>2, <3>1, <3>2
    <2>3. CASE i # 1 /\ ~(i <= whole + 1)
      <3>1. i = whole + 2 /\ last # 0 /\ i - (whole + 1) = 1 /\ i - 1 = whole + 1
        BY <1>4, <2>3
      <3>2. all[i] = z[1]
        BY <1>11, <2>3, <3>1
      <3> QED BY <1>9, <2>3, <3>1, <3>2
    <2> QED BY <2>1, <2>2, <2>3
  <1>13. ASSUME NEW i \in 1..L PROVE all[i].at = At(i) /\ all[i].n = N(i)
    <2> DEFINE at == At(i)
               n == N(i)
    <2>1. all[i] = [at |-> at, n |-> n]
      BY <1>12
    <2> HIDE DEF at, n
    <2>2. all[i].at = at /\ all[i].n = n
      BY <2>1
    <2> QED BY <2>2 DEF at, n
  <1>14. L \in Nat /\ L >= 1
    BY <1>4
  <1>15. ASSUME NEW i \in 1..L PROVE (At(i) % CS) + N(i) <= CS
    <2>1. CASE i = 1
      <3>1. a % CS = a
        BY <1>1
      <3> QED BY <1>1, <1>3, <2>1, <3>1
    <2>2. CASE i # 1
      <3>1. i - 1 \in Nat /\ CS * (i - 1) + 0 = CS * (i - 1)
        BY <1>1, <1>14, <2>2
      <3>2. (CS * (i - 1) + 0) % CS = 0
        BY <1>1, <3>1, DivModUnique DEF CS
      <3> QED BY <1>1, <1>4, <2>2, <3>1, <3>2
    <2> QED BY <2>1, <2>2
  <1>16. ASSUME NEW i \in 2..L PROVE At(i) = At(i - 1) + N(i - 1)
    <2>0. i - 1 \in 1..L /\ i # 1 /\ i - 1 <= whole + 1
      BY <1>4
    <2>1. CASE i = 2
      BY <1>1, <1>3, <2>1
    <2>2. CASE i # 2
      <3>1. At(i - 1) = CS * (i - 2) /\ N(i - 1) = CS
        BY <1>4, <2>0, <2>2
      <3>2. CS * (i - 2) + CS = CS * (i - 1)
        BY <1>1, <1>14
      <3> QED BY <2>0, <3>1, <3>2
    <2> QED BY <2>1, <2>2
  <1>17. At(L) + N(L) = a + size
    <2>1. rest = size - first /\ size = rest + first
      BY <1>3 DEF rest
    <2>2. CASE last = 0 /\ whole = 0
      BY <1>1, <1>3, <1>4, <2>1, <2>2
    <2>3. CASE last = 0 /\ whole # 0
      <3>1. L = whole + 1 /\ At(L) = CS * whole /\ N(L) = CS
        BY <1>4, <2>3
      <3>2. rest = CS * whole
        BY <1>1, <1>4, <2>3
      <3> QED BY <1>1, <1>3, <2>1, <3>1, <3>2
    <2>4. CASE last # 0
      <3>1. L = whole + 2 /\ At(L) = CS * (whole + 1) /\ N(L) = last
        BY <1>4, <2>4
      <3>2. CS * (whole + 1) = CS * whole + CS /\ CS * whole \in Nat
        BY <1>1, <1>4
      <3> HIDE DEF At, N, L
      <3> QED BY <1>1, <1>3, <1>4, <2>1, <3>1, <3>2
    <2> QED BY <2>2, <2>3, <2>4
  <1>18. \A i \in 2..L : i - 1 \in 1..L
    BY <1>14
  <1>19. At(1) = a
    OBVIOUS
  <1> HIDE DEF At, N, L
  <1>20. /\ all \in Seq(S) /\ Len(all) >= 1 /\ all[1].at = a
         /\ \A i \in 1..Len(all) : (all[i].at % CS) + all[i].n <= CS
         /\ \A i \in 2..Len(all) : all[i].at = all[i-1].at + all[i-1].n
         /\ all[Len(all)].at + all[Len(all)].n = a + size
    <2>1. 1 \in 1..L /\ L \in 1..L
      BY <1>14
    <2> QED BY <1>11, <1>13, <1>14, <1>15, <1>16, <1>17, <1>18, <1>19, <2>1
  <1> QED BY <1>20 DEF all, CS, S

\* The pieces of a crossing read that starts in a file's first cluster bring
\* the bytes from the offset on.
LEMMA PiecesRead ==
  ASSUME NEW e, NEW a \in 0..ClusterSize-1, NEW n \in Nat, a + n > ClusterSize
  PROVE  FlattenSeq([i \in 1..Len(Pieces(a, n)) |->
                       InCluster(e, Pieces(a, n)[i].at, Pieces(a, n)[i].n)]) = Run(e, a, n)
  <1> DEFINE all == Pieces(a, n)
             parts == [i \in 1..Len(all) |-> InCluster(e, all[i].at, all[i].n)]
             End(i) == all[i].at + all[i].n
  <1>2. a \in Nat /\ ClusterSize \in Nat
    BY DiskAssumption
  <1>3. /\ all \in Seq([at : Nat, n : Nat]) /\ Len(all) >= 1 /\ all[1].at = a
        /\ \A i \in 1..Len(all) : (all[i].at % ClusterSize) + all[i].n <= ClusterSize
        /\ \A i \in 2..Len(all) : all[i].at = End(i - 1)
        /\ End(Len(all)) = a + n
    BY PiecesAre
  <1> HIDE DEF all
  <1>4. \A i \in 1..Len(all) : all[i].at \in Nat /\ all[i].n \in Nat /\ End(i) \in Nat
    <2> SUFFICES ASSUME NEW i \in 1..Len(all) PROVE all[i].at \in Nat /\ all[i].n \in Nat /\ End(i) \in Nat
      OBVIOUS
    <2>1. all[i] \in [at : Nat, n : Nat]
      <3>1. all \in Seq([at : Nat, n : Nat])
        BY <1>3
      <3> QED BY <3>1, ElementOfSeq, Zenon
    <2> QED BY <2>1
  <1>5. \A i \in 1..Len(all) : parts[i] = Run(e, all[i].at, all[i].n)
    BY <1>3, <1>4, InClusterRun
  <1> DEFINE P == {parts[i] : i \in 1..Len(all)}
  <1>6. parts \in Seq(P) /\ Len(parts) = Len(all)
    <2> DEFINE n0 == Len(all)
    <2>1. n0 \in Nat /\ parts = [i \in 1..n0 |-> parts[i]] /\ \A i \in 1..n0 : parts[i] \in P
      BY <1>3
    <2> HIDE DEF parts, P, n0
    <2> QED BY <2>1 DEF n0
  <1> HIDE DEF parts, P
  <1>7. PICK f : /\ FlattenSeq(parts) = f[Len(all)] /\ f[1] = parts[1]
                 /\ \A i \in 2..Len(all) : f[i] = f[i-1] \o parts[i]
    <2>1. Len(parts) > 0
      BY <1>3, <1>6
    <2>2. \E f : /\ FlattenSeq(parts) = f[Len(parts)] /\ f[1] = parts[1]
                 /\ \A i \in 2..Len(parts) : f[i] = f[i-1] \o parts[i]
      BY <1>6, <2>1, FlattenIs
    <2> QED BY <1>6, <2>2
  <1> DEFINE T == {i \in 1..Len(all) : End(i) >= a /\ f[i] = Run(e, a, End(i) - a)}
  <1>8. 1 \in T
    <2>1. 1 \in 1..Len(all)
      BY <1>3
    <2>3. all[1].at = a /\ all[1].n \in Nat
      BY <1>3, <1>4, <2>1
    <2>2. End(1) >= a /\ End(1) - a = all[1].n
      BY <1>2, <2>3
    <2> QED BY <1>3, <1>5, <1>7, <2>1, <2>2
  <1>1. \A d, k \in Nat : Run(e, a, d) \o Run(e, a + d, k) = Run(e, a, d + k)
    BY <1>2, RunConcat
  <1>9. ASSUME NEW i \in 1+1..Len(all), i - 1 \in T PROVE i \in T
    <2>1. i \in 1..Len(all) /\ i \in 2..Len(all) /\ i - 1 \in 1..Len(all)
      BY <1>3
    <2> DEFINE b == End(i - 1)
               k == all[i].n
    <2>2. b \in Nat /\ k \in Nat /\ b >= a /\ f[i-1] = Run(e, a, b - a) /\ all[i].at = b
      BY <1>3, <1>4, <1>9, <2>1
    <2>3. f[i] = Run(e, a, b - a) \o Run(e, b, k)
      BY <1>5, <1>7, <2>1, <2>2
    <2>4. End(i) = b + k
      BY <2>2
    <2> HIDE DEF b, k, End, T
    <2>5. b - a \in Nat /\ a + (b - a) = b /\ (b - a) + k = (b + k) - a /\ b + k >= a
      BY <2>2
    <2>6. Run(e, a, b - a) \o Run(e, a + (b - a), k) = Run(e, a, (b - a) + k)
      <3> DEFINE d == b - a
      <3>1. d \in Nat
        BY <2>5
      <3> HIDE DEF d
      <3>2. Run(e, a, d) \o Run(e, a + d, k) = Run(e, a, d + k)
        BY <1>1, <2>2, <3>1
      <3> QED BY <3>2 DEF d
    <2>7. f[i] = Run(e, a, End(i) - a) /\ End(i) >= a
      BY <2>3, <2>4, <2>5, <2>6
    <2> QED BY <2>1, <2>7 DEF T
  <1>10. Len(all) \in T
    <2>1. Len(all) \in Nat /\ 1 \in Nat /\ Len(all) \in 1..Len(all)
      BY <1>3
    <2> HIDE DEF T
    <2> QED BY <1>8, <1>9, <2>1, LoopInduction
  <1>11. f[Len(all)] = Run(e, a, n)
    <2>1. f[Len(all)] = Run(e, a, (a + n) - a) /\ (a + n) - a = n
      BY <1>3, <1>10
    <2> QED BY <2>1
  <1> QED BY <1>7, <1>11 DEF parts, all

\* What fat_read stores: right if the read stays in one cluster, or starts in
\* the file's first one.
LEMMA FatReadIs ==
  ASSUME NEW e \in Listed, e.kind = "file", NEW a \in Nat, NEW n \in Nat \ {0}, a + n <= e.size
  PROVE  /\ (a % ClusterSize) + n <= ClusterSize => fat_read(e, a, n) = [count |-> n, data |-> Run(e, a, n)]
         /\ a < ClusterSize => fat_read(e, a, n).data = Run(e, a, n)
  <1> DEFINE CS == ClusterSize
             L == Len(Chain(e.cluster))
             q == a \div CS
             r == a % CS
  <1>1. CS \in Nat /\ CS > 0
    BY DiskAssumption
  <1>2. e \in Entry /\ e.size \in Nat
    BY ListedIs DEF Entry
  <1>3. L \in Nat /\ e.size <= CS * L
    <2>1. PICK c \in DOMAIN Entries, x \in UNION {ToSet(Entries[d]) : d \in DOMAIN Entries} :
            e.kind = x.kind /\ e.cluster = x.cluster /\ e.size = x.size
      BY ListedIs
    <2>2. e.cluster \in DOMAIN NextCluster /\ e.size <= CS * L
      BY <2>1, DiskAssumption
    <2> QED BY <2>2, ChainIsSeq
  <1>4. q \in Nat /\ r \in 0..CS-1 /\ a = CS * q + r
    BY DivMod
  <1>5. fat_read(e, a, n) =
          IF q >= L THEN NothingRead
          ELSE IF r + n <= CS THEN [count |-> n, data |-> InCluster(e, a, n)]
               ELSE [count |-> (n - (CS - r)) % CS,
                     data |-> FlattenSeq([i \in 1..Len(Pieces(r, n)) |->
                                InCluster(e, Pieces(r, n)[i].at, Pieces(r, n)[i].n)])]
    <2>1. ~(e.kind = "dir" \/ a + n > e.size)
      BY <1>2
    <2> QED BY <2>1 DEF fat_read
  <1> HIDE DEF CS, L, q, r
  <1>6. ~(q >= L)
    <2> SUFFICES ASSUME q >= L PROVE FALSE
      OBVIOUS
    <2>1. PICK d \in Nat : q = L + d
      <3>1. q - L \in Nat /\ q = L + (q - L)
        BY <1>3, <1>4
      <3> QED BY <3>1
    <2>2. CS * q = CS * L + CS * d /\ CS * d \in Nat /\ CS * L \in Nat
      BY <1>1, <1>3, <2>1
    <2> QED BY <1>1, <1>2, <1>3, <1>4, <2>2
  <1>7. ASSUME r + n <= CS PROVE fat_read(e, a, n) = [count |-> n, data |-> Run(e, a, n)]
    <2>1. InCluster(e, a, n) = Run(e, a, n)
      BY <1>7, InClusterRun DEF r, CS
    <2> QED BY <1>5, <1>6, <1>7, <2>1
  <1>8. ASSUME a < CS, ~(r + n <= CS) PROVE fat_read(e, a, n).data = Run(e, a, n)
    <2>1. r = a
      BY <1>1, <1>8 DEF r
    <2>2. a \in 0..ClusterSize-1 /\ a + n > ClusterSize
      BY <1>1, <1>8, <2>1 DEF CS
    <2> QED BY <1>5, <1>6, <1>8, <2>1, <2>2, PiecesRead
  <1> QED BY <1>7, <1>8 DEF CS, r

\* execute's image is the bytes of the file, if any were read.
LEMMA ImageIs ==
  ASSUME NEW e \in Listed, Image(e).count # 0
  PROVE  Image(e).data = Bytes(e)
  <1>1. e \in Entry /\ e.size \in Nat /\ e.kind \in {"file", "dir"}
    BY ListedIs DEF Entry
  <1>2. e.kind = "file"
    BY <1>1 DEF Image, fat_read, NothingRead
  <1>3. ClusterSize \in Nat /\ ClusterSize > 0 /\ 0 % ClusterSize = 0
    BY DiskAssumption
  <1>4. e.size # 0
    <2> SUFFICES ASSUME e.size = 0 PROVE FALSE
      OBVIOUS
    <2>1. 0 + 0 > 0 <=> FALSE
      OBVIOUS
    <2>2. 0 + 0 <= ClusterSize
      BY <1>3
    <2> QED BY <1>2, <1>3, <2>1, <2>2 DEF Image, fat_read, NothingRead
  <1>5. fat_read(e, 0, e.size).data = Run(e, 0, e.size)
    BY <1>1, <1>2, <1>3, <1>4, FatReadIs
  <1>6. Bytes(e) = Run(e, 0, e.size)
    BY <1>1, BytesRun
  <1> QED BY <1>5, <1>6 DEF Image

-----------------------------------------------------------------------------
(* The tree of nodes.                                                      *)

\* References to nodes, and nodes.
Refs == {r \in [id : Nat, ent : {NoEntry} \cup Listed] : r.id = 0 \/ r.ent = NoEntry}
Nodes == [name : Name \cup {NoName}, parent : Refs, childs : Seq(Nat), fs : {"vfs", "pipe", "fat"},
          mountpoint : BOOLEAN, link : BOOLEAN, pipe : Nat, to : Refs, ent : {NoEntry, RootEntry}]
Typed(w) == w \in [nodes : Seq(Nodes), pipes : Seq(Nat)] /\ Len(w.nodes) >= 1

\* A node's parent was made before it; only the root is of the disk.
Fields(w, i) ==
  /\ w.nodes[i].parent.id < i
  /\ w.nodes[i].pipe <= Len(w.pipes)
  /\ w.nodes[i].to.id <= Len(w.nodes)
  /\ w.nodes[i].fs = "fat" => i = 1 /\ w.nodes[i].mountpoint
  /\ w.nodes[i].ent = IF w.nodes[i].fs = "fat" THEN RootEntry ELSE NoEntry

\* A directory lists nodes that name it as their parent, in the order in which
\* they were made.
Lists(w, i) ==
  LET cs == w.nodes[i].childs IN
  /\ \A a \in 1..Len(cs) : cs[a] \in i+1..Len(w.nodes) /\ w.nodes[cs[a]].parent = Tree(i)
  /\ \A a, b \in 1..Len(cs) : a < b => cs[a] < cs[b]

\* No two of one name, but for the directories of pids in the directory p.
Unique(w, p, i) ==
  LET cs == w.nodes[i].childs IN
  \A a, b \in 1..Len(cs) : w.nodes[cs[a]].name = w.nodes[cs[b]].name =>
     a = b \/ (i = p /\ \E n \in Pid : w.nodes[cs[a]].name = PidName[n])

\* What is in the root hides nothing of the disk, but for what is made at boot.
Hides(w) ==
  LET cs == w.nodes[1].childs IN
  \A a \in 1..Len(cs) : w.nodes[cs[a]].name \in {Dev, Proc} \/ fat_seek(w.nodes[cs[a]].name, RootEntry) = NoEntry

Sound(w, p) ==
  /\ Typed(w) /\ Hides(w)
  /\ \A i \in 1..Len(w.nodes) : Fields(w, i) /\ Lists(w, i) /\ Unique(w, p, i)

IsRef(w, r) == r \in Refs /\ r.id <= Len(w.nodes)

\* References are told apart by their fields.
LEMMA RefsAre ==
  /\ NoNode \in Refs /\ NoNode.id = 0 /\ NoNode.ent = NoEntry
  /\ \A n \in Nat : Tree(n) \in Refs /\ Tree(n).id = n /\ Tree(n).ent = NoEntry
  /\ \A e \in {NoEntry} \cup Listed : OnDisk(e) \in Refs /\ OnDisk(e).id = 0 /\ OnDisk(e).ent = e
  /\ OnDisk(NoEntry) = NoNode /\ Root = Tree(1)
  /\ \A r \in Refs : (r.id # 0 => r = Tree(r.id)) /\ (r.id = 0 => r = OnDisk(r.ent))
  /\ \A r \in Refs : r = NoNode <=> r.id = 0 /\ r.ent = NoEntry
  BY DEF Refs, NoNode, Tree, OnDisk, Root

\* A node of a sound tree.
LEMMA NodeIs ==
  ASSUME NEW w, Typed(w), NEW i \in 1..Len(w.nodes)
  PROVE  /\ w.nodes[i] \in Nodes /\ w.nodes[i].childs \in Seq(Nat)
         /\ Len(w.nodes) \in Nat /\ w.nodes \in Seq(Nodes) /\ w.pipes \in Seq(Nat)
  <1>1. w.nodes \in Seq(Nodes) /\ w.pipes \in Seq(Nat)
    BY DEF Typed
  <1>2. w.nodes[i] \in Nodes
    BY <1>1, ElementOfSeq
  <1> QED BY <1>1, <1>2 DEF Nodes

\* FirstChild is where the name first stands in the list.
LEMMA FirstChildIs ==
  ASSUME NEW w, Typed(w), NEW i \in 1..Len(w.nodes), NEW name
  PROVE  LET cs == w.nodes[i].childs
             f  == FirstChild(w, i, name)
         IN  /\ cs \in Seq(Nat)
             /\ f = 0 => \A a \in 1..Len(cs) : w.nodes[cs[a]].name # name
             /\ f # 0 => /\ f \in 1..Len(cs) /\ w.nodes[cs[f]].name = name
                         /\ \A a \in 1..Len(cs) : w.nodes[cs[a]].name = name => f <= a
  <1> DEFINE cs == w.nodes[i].childs
             f == FirstChild(w, i, name)
             I == {a \in 1..Len(cs) : w.nodes[cs[a]].name = name}
  <1>1. cs \in Seq(Nat)
    BY NodeIs
  <1>2. f = IF I # {} THEN Min(I) ELSE 0
    BY DEF FirstChild, SelectInSeq
  <1> HIDE DEF cs, f
  <1>3. I \subseteq Nat
    OBVIOUS
  <1>4. I # {} => Min(I) \in I /\ \A a \in I : Min(I) <= a
    <2> HIDE DEF I
    <2> QED BY <1>3, MinIs
  <1>5. \A a \in 1..Len(cs) : a # 0
    OBVIOUS
  <1> QED BY <1>1, <1>2, <1>4, <1>5 DEF cs, f

\* c is the first child of that name in the directory n, if there is one.
Seeks(w, n, name, c) ==
  LET cs == w.nodes[n].childs IN
  /\ c = NoNode => n = 0 \/ \A a \in 1..Len(cs) : w.nodes[cs[a]].name # name
  /\ c # NoNode => /\ n # 0
                   /\ \E a \in 1..Len(cs) :
                        /\ c = Tree(cs[a]) /\ w.nodes[cs[a]].name = name
                        /\ \A b \in 1..Len(cs) : w.nodes[cs[b]].name = name => a <= b

\* A search of a directory finds its first child of that name, if it has one.
LEMMA VfsSeekIs ==
  ASSUME NEW w, NEW p, Sound(w, p), NEW r, IsRef(w, r), NEW name
  PROVE  LET n == IF r = NoNode THEN 1 ELSE r.id
         IN  n \in 0..Len(w.nodes) /\ Seeks(w, n, name, vfs_seek(w, r, name))
  <1> DEFINE n == IF r = NoNode THEN 1 ELSE r.id
             cs == w.nodes[n].childs
             f == FirstChild(w, n, name)
  <1>1. Typed(w) /\ Len(w.nodes) \in Nat /\ Len(w.nodes) >= 1
    BY DEF Sound, Typed
  <1>2. n \in 0..Len(w.nodes)
    BY <1>1 DEF IsRef, Refs
  <1>3. vfs_seek(w, r, name) = IF n = 0 THEN NoNode ELSE IF f = 0 THEN NoNode ELSE Tree(cs[f])
    BY DEF vfs_seek, ChildAt
  <1> HIDE DEF n
  <1>4. ASSUME n # 0
        PROVE  /\ cs \in Seq(Nat)
               /\ f = 0 => \A a \in 1..Len(cs) : w.nodes[cs[a]].name # name
               /\ f # 0 => /\ f \in 1..Len(cs) /\ w.nodes[cs[f]].name = name
                           /\ \A a \in 1..Len(cs) : w.nodes[cs[a]].name = name => f <= a
    <2>1. n \in 1..Len(w.nodes)
      BY <1>1, <1>2, <1>4
    <2> QED BY <1>1, <2>1, FirstChildIs
  <1> HIDE DEF f, cs
  <1>5. ASSUME n # 0, f # 0 PROVE Tree(cs[f]) # NoNode
    <2>1. n \in 1..Len(w.nodes)
      BY <1>1, <1>2, <1>5
    <2>2. f \in 1..Len(cs)
      BY <1>4, <1>5
    <2>3. cs[f] \in n+1..Len(w.nodes)
      BY <2>1, <2>2 DEF Sound, Lists, cs
    <2>4. cs[f] # 0 /\ cs[f] \in Nat
      BY <1>1, <2>1, <2>3
    <2> QED BY <2>4, RefsAre
  <1>6. ASSUME vfs_seek(w, r, name) = NoNode
        PROVE  n = 0 \/ \A a \in 1..Len(cs) : w.nodes[cs[a]].name # name
    BY <1>3, <1>4, <1>5, <1>6
  <1>7. ASSUME vfs_seek(w, r, name) # NoNode
        PROVE  /\ n # 0
               /\ \E a \in 1..Len(cs) :
                    /\ vfs_seek(w, r, name) = Tree(cs[a]) /\ w.nodes[cs[a]].name = name
                    /\ \A b \in 1..Len(cs) : w.nodes[cs[b]].name = name => a <= b
    <2>1. n # 0 /\ f # 0
      BY <1>3, <1>7
    <2> QED BY <1>3, <1>4, <2>1
  <1>8. Seeks(w, n, name, vfs_seek(w, r, name))
    BY <1>6, <1>7 DEF Seeks, cs
  <1> QED BY <1>2, <1>8 DEF n

\* The same of a node that is there.
LEMMA LeastChild ==
  ASSUME NEW w, NEW p, Sound(w, p), NEW r, IsRef(w, r), r # NoNode, NEW name
  PROVE  r.id \in 0..Len(w.nodes) /\ Seeks(w, r.id, name, vfs_seek(w, r, name))
  <1> DEFINE n == IF r = NoNode THEN 1 ELSE r.id
             c == vfs_seek(w, r, name)
  <1>1. n \in 0..Len(w.nodes) /\ Seeks(w, n, name, c)
    BY VfsSeekIs
  <1>2. n = r.id
    OBVIOUS
  <1> HIDE DEF n, c
  <1>3. r.id \in 0..Len(w.nodes) /\ Seeks(w, r.id, name, c)
    BY <1>1, <1>2, Zenon
  <1> QED BY <1>3 DEF c

\* The same of a node of the tree.
LEMMA TreeSeekIs ==
  ASSUME NEW w, NEW p, Sound(w, p), NEW i \in 1..Len(w.nodes), NEW name
  PROVE  Seeks(w, i, name, vfs_seek(w, Tree(i), name))
  <1> DEFINE r == Tree(i)
  <1>1. IsRef(w, r) /\ r # NoNode /\ r.id = i
    <2>1. i \in Nat /\ i # 0 /\ i <= Len(w.nodes)
      BY DEF Sound, Typed
    <2> QED BY <2>1, RefsAre DEF IsRef
  <1> HIDE DEF r
  <1>2. Seeks(w, r.id, name, vfs_seek(w, r, name))
    BY <1>1, LeastChild
  <1> QED BY <1>1, <1>2 DEF r

\* The entry behind a node is a known one; the node is the driver's if there is one.
LEMMA EntryOfIs ==
  ASSUME NEW w, NEW p, Sound(w, p), NEW r, IsRef(w, r)
  PROVE  /\ EntryOf(w, r) \in KnownEntries
         /\ IsFat(w, r) <=> EntryOf(w, r) # NoEntry
         /\ r = NoNode => ~IsFat(w, r)
         /\ r.id > 1 => ~IsFat(w, r)
  <1>0. r.id \in Nat /\ (r.id # 0 => r.id \in 1..Len(w.nodes)) /\ r.ent \in KnownEntries
    <2>1. r \in Refs /\ r.id <= Len(w.nodes) /\ Len(w.nodes) \in Nat
      BY DEF IsRef, Sound, Typed
    <2> QED BY <2>1 DEF Refs, KnownEntries
  <1>1. CASE r.id # 0
    <2>1. Fields(w, r.id)
      BY <1>0, <1>1 DEF Sound
    <2>2. RootEntry # NoEntry
      BY DEF RootEntry, NoEntry
    <2>3. r # NoNode
      BY <1>1 DEF NoNode
    <2> QED BY <1>0, <1>1, <2>1, <2>2, <2>3 DEF Fields, EntryOf, IsFat, IsTree, KnownEntries
  <1>2. CASE r.id = 0
    <2>1. r = NoNode <=> r.ent = NoEntry
      BY <1>2, RefsAre DEF IsRef
    <2> QED BY <1>0, <1>2, <2>1 DEF EntryOf, IsFat, IsTree, IsDisk
  <1> QED BY <1>1, <1>2

\* A round of kseek leads to a child of that name, to an entry, or nowhere; never
\* back to the root.
LEMMA SeekPartIs ==
  ASSUME NEW w, NEW p, Sound(w, p), NEW r, IsRef(w, r), NEW name
  PROVE  /\ IsRef(w, SeekPart(w, r, name)) /\ SeekPart(w, r, name).id # 1
         /\ SeekPart(w, r, name).id # 0 => /\ SeekPart(w, r, name) = vfs_seek(w, r, name)
                                           /\ w.nodes[SeekPart(w, r, name).id].name = name
         /\ Ends(w, r, name) => SeekPart(w, r, name) = NoNode
  <1> DEFINE n == IF r = NoNode THEN 1 ELSE r.id
             cs == w.nodes[n].childs
             c == vfs_seek(w, r, name)
  <1>0. n \in 0..Len(w.nodes) /\ Seeks(w, n, name, c)
    BY VfsSeekIs
  <1> HIDE DEF c
  <1>1. CASE c # NoNode
    <2> HIDE DEF n
    <2>1. n \in 0..Len(w.nodes) /\ n # 0
      BY <1>0, <1>1 DEF Seeks
    <2>2. PICK a \in 1..Len(cs) : c = Tree(cs[a]) /\ w.nodes[cs[a]].name = name
      BY <1>0, <1>1 DEF Seeks
    <2>3. n \in 1..Len(w.nodes) /\ Len(w.nodes) \in Nat
      BY <2>1 DEF Sound, Typed
    <2> HIDE DEF n
    <2>4. cs[a] \in n+1..Len(w.nodes)
      BY <2>2, <2>3 DEF Sound, Lists
    <2>5. cs[a] \in Nat /\ cs[a] > 1 /\ cs[a] <= Len(w.nodes)
      BY <2>3, <2>4
    <2>6. c \in Refs /\ c.id = cs[a]
      BY <2>2, <2>5, RefsAre
    <2>7. SeekPart(w, r, name) = c /\ ~Ends(w, r, name)
      BY <1>1 DEF SeekPart, ElseDriver, Ends, c
    <2> HIDE DEF cs
    <2>8. IsRef(w, c) /\ c.id # 1 /\ w.nodes[c.id].name = name
      BY <2>2, <2>5, <2>6 DEF IsRef
    <2> QED BY <2>7, <2>8 DEF c
  <1>2. CASE c = NoNode
    <2>1. SeekPart(w, r, name) = IF IsFat(w, r) THEN OnDisk(fat_seek(name, EntryOf(w, r))) ELSE NoNode
      BY <1>2 DEF SeekPart, ElseDriver, DriverSeek, c
    <2>2. fat_seek(name, EntryOf(w, r)) \in {NoEntry} \cup Listed
      BY EntryOfIs, FatSeekIs
    <2>3. SeekPart(w, r, name) \in Refs /\ SeekPart(w, r, name).id = 0
      BY <2>1, <2>2, RefsAre
    <2>4. Len(w.nodes) \in Nat
      BY DEF Sound, Typed
    <2>5. Ends(w, r, name) => SeekPart(w, r, name) = NoNode
      BY <2>1 DEF Ends
    <2> QED BY <2>3, <2>4, <2>5 DEF IsRef
  <1> QED BY <1>1, <1>2

-----------------------------------------------------------------------------
(* The way of kseek along a path.                                          *)

\* The first n rounds of kseek's loop.
WalkRound(w, path, f, i) == IF i = 0 THEN Root ELSE SeekPart(w, f[i-1], path[i])
IsWalk(f, w, path, n) == f = [i \in 0..n |-> WalkRound(w, path, f, i)]

\* Walk goes from the root part by part.
LEMMA WalkIs ==
  ASSUME NEW w, NEW path, Len(path) \in Nat
  PROVE  IsWalk(Walk(w, path), w, path, Len(path))
  <1> DEFINE N == Len(path)
             S == {n \in 0..N : \E f : IsWalk(f, w, path, n)}
             F == CHOOSE f : IsWalk(f, w, path, N)
  <1>1. Walk(w, path) = F
    BY DEF Walk, IsWalk, WalkRound
  <1>0. N \in Nat
    OBVIOUS
  <1> HIDE DEF N
  <1>2. 0 \in S
    <2>1. IsWalk([i \in 0..0 |-> Root], w, path, 0)
      BY DEF IsWalk, WalkRound
    <2> QED BY <1>0, <2>1
  <1>3. ASSUME NEW m \in 0+1..N, m - 1 \in S PROVE m \in S
    <2>1. PICK f : IsWalk(f, w, path, m - 1)
      BY <1>3
    <2> DEFINE g == [i \in 0..m |-> WalkRound(w, path, f, i)]
    <2>2. \A i \in 0..m-1 : g[i] = f[i]
      BY <1>3, <2>1 DEF IsWalk
    <2>3. \A i \in 0..m : WalkRound(w, path, g, i) = WalkRound(w, path, f, i)
      <3>1. \A i \in 0..m : i = 0 \/ i - 1 \in 0..m-1
        BY <1>3
      <3> HIDE DEF g
      <3> QED BY <2>2, <3>1 DEF WalkRound
    <2>4. g = [i \in 0..m |-> WalkRound(w, path, g, i)]
      BY <2>3
    <2> HIDE DEF g
    <2> QED BY <1>3, <2>4 DEF IsWalk
  <1>4. N \in S
    <2> HIDE DEF S, F
    <2>1. \A i \in 0..N : i \in S
      BY <1>0, <1>2, <1>3, LoopInduction
    <2> QED BY <1>0, <2>1
  <1>5. IsWalk(F, w, path, N)
    BY <1>4
  <1> QED BY <1>1, <1>5 DEF N

\* Every round leads to a reference, and none but the start to the root.
LEMMA WalkStep ==
  ASSUME NEW w, NEW p, Sound(w, p), NEW path \in Seq(Name)
  PROVE  /\ Walk(w, path)[0] = Root
         /\ \A i \in 1..Len(path) : Walk(w, path)[i] = SeekPart(w, Walk(w, path)[i-1], path[i])
         /\ \A i \in 0..Len(path) : IsRef(w, Walk(w, path)[i]) /\ (i # 0 => Walk(w, path)[i].id # 1)
  <1> DEFINE at == Walk(w, path)
             N == Len(path)
             S == {i \in 0..N : IsRef(w, at[i]) /\ (i # 0 => at[i].id # 1)}
  <1>1. N \in Nat
    OBVIOUS
  <1>2. at = [i \in 0..N |-> WalkRound(w, path, at, i)]
    BY <1>1, WalkIs DEF IsWalk
  <1> HIDE DEF at, N
  <1>3. at[0] = Root
    BY <1>1, <1>2 DEF WalkRound
  <1>4. ASSUME NEW i \in 1..N PROVE at[i] = SeekPart(w, at[i-1], path[i])
    <2>1. i \in 0..N /\ i # 0
      BY <1>1
    <2>2. at[i] = WalkRound(w, path, at, i)
      BY <1>2, <2>1
    <2> QED BY <2>1, <2>2 DEF WalkRound
  <1>5. 0 \in S
    <2>1. Root \in Refs /\ Root.id = 1 /\ Len(w.nodes) \in Nat /\ Len(w.nodes) >= 1
      BY RefsAre DEF Sound, Typed
    <2> QED BY <1>1, <1>3, <2>1 DEF IsRef
  <1>6. ASSUME NEW i \in 0+1..N, i - 1 \in S PROVE i \in S
    <2>1. i \in 1..N /\ i \in 0..N /\ i # 0
      BY <1>1
    <2>2. IsRef(w, at[i-1])
      BY <1>6
    <2> QED BY <1>4, <2>1, <2>2, SeekPartIs
  <1>7. \A i \in 0..N : i \in S
    <2> HIDE DEF S
    <2> QED BY <1>1, <1>5, <1>6, LoopInduction
  <1> QED BY <1>3, <1>4, <1>7 DEF at, N

\* What goes the same rounds goes the same way.
LEMMA WalkOnly ==
  ASSUME NEW w, NEW p, Sound(w, p), NEW path \in Seq(Name), NEW k \in 0..Len(path), NEW f,
         f[0] = Root, \A i \in 1..k : f[i] = SeekPart(w, f[i-1], path[i])
  PROVE  \A i \in 0..k : f[i] = Walk(w, path)[i]
  <1> DEFINE at == Walk(w, path)
             S == {i \in 0..k : f[i] = at[i]}
  <1>1. at[0] = Root /\ \A i \in 1..Len(path) : at[i] = SeekPart(w, at[i-1], path[i])
    BY WalkStep
  <1>2. k \in Nat /\ 0 \in 0..k /\ \A i \in 1..k : i \in 1..Len(path) /\ i \in 0..k
    OBVIOUS
  <1> HIDE DEF at
  <1>3. 0 \in S
    BY <1>1, <1>2
  <1>4. ASSUME NEW i \in 0+1..k, i - 1 \in S PROVE i \in S
    <2>1. i \in 1..k
      OBVIOUS
    <2>2. f[i-1] = at[i-1]
      BY <1>4
    <2> QED BY <1>1, <1>2, <2>1, <2>2
  <1>5. \A i \in 0..k : i \in S
    <2> HIDE DEF S
    <2> QED BY <1>2, <1>3, <1>4, LoopInduction
  <1> QED BY <1>5 DEF at

\* kseek of the first parts of a path is on the way of the whole path.
LEMMA KseekPrefix ==
  ASSUME NEW w, NEW p, Sound(w, p), NEW path \in Seq(Name), NEW k \in 0..Len(path)
  PROVE  /\ SubSeq(path, 1, k) \in Seq(Name)
         /\ kseek(w, SubSeq(path, 1, k)) =
              IF \E i \in 1..k : Ends(w, Walk(w, path)[i-1], path[i]) THEN NoNode ELSE Walk(w, path)[k]
         /\ k = Len(path) => SubSeq(path, 1, k) = path
  <1> DEFINE q == SubSeq(path, 1, k)
             at == Walk(w, path)
             aq == Walk(w, q)
  <1>1. /\ q \in Seq(Name) /\ Len(q) = k /\ \A i \in 1..k : q[i] = path[i]
        /\ k \in Nat /\ \A i \in 1..k : i \in 1..Len(path)
    <2>1. q = [i \in 1..k |-> path[i]]
      <3>1. SubSeq(path, 0 + 1, 0 + k) = [i \in 1..k |-> path[0 + i]]
        BY SubSeqIs
      <3>2. \A i \in 1..k : path[0 + i] = path[i]
        OBVIOUS
      <3> QED BY <3>1, <3>2
    <2>2. k \in Nat /\ \A i \in 1..k : i \in 1..Len(path) /\ path[i] \in Name
      OBVIOUS
    <2> HIDE DEF q
    <2> QED BY <2>1, <2>2
  <1> HIDE DEF q
  <1>2. /\ aq[0] = Root
        /\ \A i \in 1..k : aq[i] = SeekPart(w, aq[i-1], q[i])
    BY <1>1, WalkStep
  <1> HIDE DEF aq
  <1>3. \A i \in 1..k : aq[i] = SeekPart(w, aq[i-1], path[i])
    BY <1>1, <1>2
  <1>4. \A i \in 0..k : aq[i] = at[i]
    BY <1>2, <1>3, WalkOnly
  <1>5. kseek(w, q) = IF \E i \in 1..k : Ends(w, aq[i-1], q[i]) THEN NoNode ELSE aq[k]
    BY <1>1 DEF kseek, WalkEnd, aq
  <1>6. k \in 0..k /\ \A i \in 1..k : i - 1 \in 0..k
    BY <1>1
  <1> HIDE DEF at
  <1>7. \A i \in 1..k : Ends(w, aq[i-1], q[i]) <=> Ends(w, at[i-1], path[i])
    BY <1>1, <1>4, <1>6
  <1>8. kseek(w, q) = IF \E i \in 1..k : Ends(w, at[i-1], path[i]) THEN NoNode ELSE at[k]
    BY <1>4, <1>5, <1>6, <1>7
  <1>9. k = Len(path) => q = path
    BY <1>1
  <1> QED BY <1>1, <1>8, <1>9 DEF q, at

\* What kseek finds: the root for no parts, else a node with the last part's
\* name, or an entry.
LEMMA KseekIs ==
  ASSUME NEW w, NEW p, Sound(w, p), NEW path \in Seq(Name)
  PROVE  /\ IsRef(w, kseek(w, path))
         /\ path = <<>> => kseek(w, path) = Root
         /\ path # <<>> => /\ kseek(w, path).id # 1
                           /\ kseek(w, path).id # 0 => w.nodes[kseek(w, path).id].name = path[Len(path)]
  <1> DEFINE at == Walk(w, path)
             N == Len(path)
  <1>1. N \in Nat /\ N \in 0..N /\ (path = <<>> <=> N = 0)
    OBVIOUS
  <1>2. kseek(w, path) = IF \E i \in 1..N : Ends(w, at[i-1], path[i]) THEN NoNode ELSE at[N]
    BY <1>1 DEF kseek, WalkEnd
  <1>3. /\ at[0] = Root
        /\ \A i \in 1..N : at[i] = SeekPart(w, at[i-1], path[i])
        /\ \A i \in 0..N : IsRef(w, at[i]) /\ (i # 0 => at[i].id # 1)
    BY WalkStep
  <1>4. IsRef(w, NoNode) /\ NoNode.id = 0
    BY RefsAre DEF IsRef, Sound, Typed
  <1> HIDE DEF at, N
  <1>5. ASSUME N # 0, at[N].id # 0 PROVE w.nodes[at[N].id].name = path[N]
    <2>1. N \in 1..N /\ N - 1 \in 0..N
      BY <1>1, <1>5
    <2>2. IsRef(w, at[N-1]) /\ at[N] = SeekPart(w, at[N-1], path[N])
      BY <1>3, <2>1
    <2> QED BY <1>5, <2>2, SeekPartIs
  <1>6. ASSUME N = 0 PROVE kseek(w, path) = Root
    <2>1. \A i \in 1..N : FALSE
      BY <1>6
    <2> QED BY <1>2, <1>3, <1>6, <2>1
  <1>7. kseek(w, path) \in {NoNode, at[N]}
    BY <1>2
  <1> QED BY <1>1, <1>3, <1>4, <1>5, <1>6, <1>7 DEF N

\* Where a path goes on to nothing, the node has no child of that name, and the
\* disk's root no entry.
LEMMA NothingThere ==
  ASSUME NEW w, NEW p, Sound(w, p), NEW path \in Seq(Name), NEW k \in 0..Len(path)-1,
         kseek(w, SubSeq(path, 1, k)) # NoNode, kseek(w, SubSeq(path, 1, k + 1)) = NoNode
  PROVE  LET r  == kseek(w, SubSeq(path, 1, k))
             cs == w.nodes[r.id].childs
         IN  /\ IsRef(w, r) /\ (r.id = 1 <=> k = 0) /\ r = Walk(w, path)[k]
             /\ \A i \in 1..k : ~Ends(w, Walk(w, path)[i-1], path[i])
             /\ r.id # 0 => \A a \in 1..Len(cs) : w.nodes[cs[a]].name # path[k+1]
             /\ r.id = 1 /\ w.nodes[1].fs = "fat" => fat_seek(path[k+1], RootEntry) = NoEntry
  <1> DEFINE at == Walk(w, path)
             r == at[k]
             cs == w.nodes[r.id].childs
             name == path[k+1]
  <1>1. k \in Nat /\ k \in 0..Len(path) /\ k + 1 \in 0..Len(path) /\ k + 1 \in 1..Len(path) /\ (k + 1) - 1 = k
    OBVIOUS
  <1>2. /\ kseek(w, SubSeq(path, 1, k)) = IF \E i \in 1..k : Ends(w, at[i-1], path[i]) THEN NoNode ELSE at[k]
        /\ kseek(w, SubSeq(path, 1, k + 1)) =
             IF \E i \in 1..k+1 : Ends(w, at[i-1], path[i]) THEN NoNode ELSE at[k+1]
    BY <1>1, KseekPrefix
  <1>3. /\ at[0] = Root /\ at[k+1] = SeekPart(w, r, name)
        /\ IsRef(w, r) /\ (k # 0 => r.id # 1)
    BY <1>1, WalkStep
  <1> HIDE DEF at
  <1>4. kseek(w, SubSeq(path, 1, k)) = r /\ r # NoNode /\ \A i \in 1..k : ~Ends(w, at[i-1], path[i])
    BY <1>2
  <1>5. Ends(w, r, name) \/ SeekPart(w, r, name) = NoNode
    <2>1. \A i \in 1..k+1 : i \in 1..k \/ i = k + 1
      BY <1>1
    <2> QED BY <1>1, <1>2, <1>3, <1>4, <2>1
  <1>6. vfs_seek(w, r, name) = NoNode /\ (IsFat(w, r) => fat_seek(name, EntryOf(w, r)) = NoEntry)
    <2>1. vfs_seek(w, r, name) = NoNode
      BY <1>5 DEF Ends, SeekPart, ElseDriver
    <2>2. ASSUME IsFat(w, r) PROVE fat_seek(name, EntryOf(w, r)) = NoEntry
      <3>1. OnDisk(fat_seek(name, EntryOf(w, r))) = NoNode
        BY <1>5, <2>1, <2>2 DEF Ends, SeekPart, ElseDriver, DriverSeek
      <3> QED BY <3>1 DEF OnDisk, NoNode
    <2> QED BY <2>1, <2>2
  <1>7. k = 0 <=> r.id = 1
    <2>1. Root.id = 1
      BY DEF Root
    <2> QED BY <1>3, <2>1
  <1> HIDE DEF r, name
  <1>8. ASSUME r.id # 0 PROVE \A a \in 1..Len(cs) : w.nodes[cs[a]].name # name
    <2> DEFINE c == vfs_seek(w, r, name)
    <2>1. Seeks(w, r.id, name, c)
      BY <1>3, <1>4, LeastChild
    <2>2. c = NoNode
      BY <1>6
    <2> HIDE DEF c
    <2> QED BY <1>8, <2>1, <2>2 DEF Seeks
  <1>9. ASSUME r.id = 1, w.nodes[1].fs = "fat" PROVE fat_seek(name, RootEntry) = NoEntry
    <2>1. Fields(w, 1)
      BY DEF Sound, Typed
    <2>2. IsFat(w, r) /\ EntryOf(w, r) = RootEntry
      BY <1>9, <2>1 DEF Fields, IsFat, EntryOf, IsTree
    <2> QED BY <1>6, <2>2
  <1> QED BY <1>3, <1>4, <1>7, <1>8, <1>9 DEF r, name, at

\* The longest part of a path that leads somewhere.
LEMMA DeepestIs ==
  ASSUME NEW w, NEW p, Sound(w, p), NEW path \in Seq(Name), path # <<>>
  PROVE  /\ Deepest(w, path) \in 0..Len(path)-1
         /\ kseek(w, SubSeq(path, 1, Deepest(w, path))) # NoNode
         /\ \A i \in 0..Len(path)-1 : kseek(w, SubSeq(path, 1, i)) # NoNode => i <= Deepest(w, path)
  <1> DEFINE N == Len(path) - 1
             S == {i \in 0..N : kseek(w, SubSeq(path, 1, i)) # NoNode}
  <1>1. N \in Nat /\ Deepest(w, path) = Max(S)
    BY DEF Deepest
  <1>2. 0 \in S
    <2>1. 0 \in 0..Len(path) /\ 0 \in 0..N
      BY <1>1
    <2>2. SubSeq(path, 1, 0) \in Seq(Name) /\ SubSeq(path, 1, 0) = <<>>
      BY <2>1, KseekPrefix, SubSeqEmpty
    <2>3. kseek(w, SubSeq(path, 1, 0)) = Root
      BY <2>2, KseekIs
    <2>4. Root # NoNode
      BY DEF Root, NoNode
    <2> QED BY <2>1, <2>3, <2>4
  <1>3. S \subseteq 0..N
    OBVIOUS
  <1>4. Max(S) \in S /\ \A i \in S : i <= Max(S)
    <2> HIDE DEF S, N
    <2> QED BY <1>1, <1>2, <1>3, MaxIs
  <1> QED BY <1>1, <1>4

-----------------------------------------------------------------------------
(* Growing.                                                                *)

\* What vfs_create does: one more node, the last child of its directory.
Grown(w, z, name, r) ==
  LET n == Len(w.nodes) + 1 IN
  /\ Typed(z) /\ Len(z.nodes) = n /\ z.pipes = w.pipes
  /\ z.nodes[n] = NewNode(name, r)
  /\ \A i \in 1..Len(w.nodes) :
       z.nodes[i] = IF i = r.id THEN [w.nodes[i] EXCEPT !.childs = Append(@, n)] ELSE w.nodes[i]

\* vfs_create does that.
LEMMA CreateGrows ==
  ASSUME NEW w, NEW p, Sound(w, p), NEW r, IsRef(w, r), NEW name \in Name
  PROVE  /\ Grown(w, vfs_create(w, name, r).v, name, r)
         /\ vfs_create(w, name, r).node = Tree(Len(w.nodes) + 1)
  <1> DEFINE n == Len(w.nodes) + 1
             s == Append(w.nodes, NewNode(name, r))
             y == [w EXCEPT !.nodes = s]
             z == vfs_create(w, name, r).v
  <1>1. /\ w \in [nodes : Seq(Nodes), pipes : Seq(Nat)] /\ w.nodes \in Seq(Nodes)
        /\ Len(w.nodes) \in Nat /\ Len(w.nodes) >= 1 /\ r \in Refs
    BY DEF Sound, Typed, IsRef
  <1>2. NewNode(name, r) \in Nodes
    <2>1. NoNode \in Refs
      BY RefsAre
    <2>2. <<>> \in Seq(Nat)
      OBVIOUS
    <2> QED BY <1>1, <2>1, <2>2 DEF NewNode, Nodes
  <1>3. /\ s \in Seq(Nodes) /\ Len(s) = n /\ s[n] = NewNode(name, r)
        /\ \A i \in 1..Len(w.nodes) : s[i] = w.nodes[i]
    BY <1>1, <1>2
  <1>4. y \in [nodes : Seq(Nodes), pipes : Seq(Nat)] /\ y.nodes = s /\ y.pipes = w.pipes
    <2> HIDE DEF s
    <2> QED BY <1>1, <1>3
  <1>5. z = IF r.id # 0 THEN [y EXCEPT !.nodes[r.id].childs = Append(@, n)] ELSE y
    BY DEF vfs_create, IsTree
  <1>6. vfs_create(w, name, r).node = Tree(n)
    BY DEF vfs_create
  <1>7. CASE r.id = 0
    <2>1. z = y
      BY <1>5, <1>7
    <2> HIDE DEF z, y, s
    <2> QED BY <1>1, <1>3, <1>4, <1>6, <1>7, <2>1 DEF Grown, Typed, z
  <1>8. CASE r.id # 0
    <2> DEFINE m == [s[r.id] EXCEPT !.childs = Append(@, n)]
               t == [s EXCEPT ![r.id] = m]
    <2>1. r.id \in 1..Len(w.nodes) /\ r.id \in 1..n /\ n \in Nat /\ r.id # n
      BY <1>1, <1>8 DEF IsRef, Refs
    <2>2. z = [y EXCEPT !.nodes = t]
      BY <1>4, <1>5, <1>8
    <2>3. s[r.id] \in Nodes /\ s[r.id] = w.nodes[r.id] /\ w.nodes[r.id].childs \in Seq(Nat)
      <3>1. s[r.id] = w.nodes[r.id] /\ w.nodes[r.id] \in Nodes
        BY <1>1, <1>3, <2>1
      <3> QED BY <3>1 DEF Nodes
    <2> HIDE DEF s, n, y
    <2>4. m \in Nodes
      <3> DEFINE c == Append(s[r.id].childs, n)
      <3>1. c \in Seq(Nat)
        BY <2>1, <2>3
      <3>2. m = [s[r.id] EXCEPT !.childs = c]
        OBVIOUS
      <3> HIDE DEF c, m
      <3> QED BY <2>3, <3>1, <3>2 DEF Nodes
    <2> HIDE DEF m
    <2>5. t \in Seq(Nodes) /\ Len(t) = n /\ t[n] = s[n] /\ t[r.id] = m /\ \A i \in 1..n : i # r.id => t[i] = s[i]
      BY <1>3, <2>1, <2>4
    <2> HIDE DEF t
    <2>6. z \in [nodes : Seq(Nodes), pipes : Seq(Nat)] /\ z.nodes = t /\ z.pipes = w.pipes
      BY <1>4, <2>2, <2>5
    <2> HIDE DEF z
    <2>7. \A i \in 1..Len(w.nodes) : i \in 1..n
      BY <1>1 DEF n
    <2>8. m = [w.nodes[r.id] EXCEPT !.childs = Append(@, n)]
      BY <2>3 DEF m
    <2>9. \A i \in 1..Len(w.nodes) :
            z.nodes[i] = IF i = r.id THEN [w.nodes[i] EXCEPT !.childs = Append(@, n)] ELSE w.nodes[i]
      BY <1>3, <2>5, <2>6, <2>7, <2>8
    <2>10. Typed(z) /\ Len(z.nodes) = n /\ z.nodes[n] = NewNode(name, r)
      BY <1>1, <1>3, <2>5, <2>6 DEF Typed, n
    <2> QED BY <1>6, <2>6, <2>9, <2>10 DEF Grown, z, n
  <1> QED BY <1>7, <1>8

\* The nodes of a tree that has grown by one.
LEMMA GrownNodes ==
  ASSUME NEW w, NEW p, Sound(w, p), NEW r, IsRef(w, r), NEW name \in Name,
         NEW z, Grown(w, z, name, r)
  PROVE  /\ Len(w.nodes) \in Nat /\ Len(w.nodes) >= 1
         /\ \A i \in 1..Len(w.nodes) :
              /\ z.nodes[i].name = w.nodes[i].name /\ z.nodes[i].parent = w.nodes[i].parent
              /\ z.nodes[i].fs = w.nodes[i].fs /\ z.nodes[i].mountpoint = w.nodes[i].mountpoint
              /\ z.nodes[i].link = w.nodes[i].link /\ z.nodes[i].pipe = w.nodes[i].pipe
              /\ z.nodes[i].to = w.nodes[i].to /\ z.nodes[i].ent = w.nodes[i].ent
              /\ w.nodes[i].childs \in Seq(Nat)
              /\ i # r.id => z.nodes[i].childs = w.nodes[i].childs
              /\ i = r.id => z.nodes[i].childs = Append(w.nodes[i].childs, Len(w.nodes) + 1)
  <1>1. Typed(w) /\ Len(w.nodes) \in Nat /\ Len(w.nodes) >= 1
    BY DEF Sound, Typed
  <1>2. ASSUME NEW i \in 1..Len(w.nodes)
        PROVE  /\ z.nodes[i].name = w.nodes[i].name /\ z.nodes[i].parent = w.nodes[i].parent
               /\ z.nodes[i].fs = w.nodes[i].fs /\ z.nodes[i].mountpoint = w.nodes[i].mountpoint
               /\ z.nodes[i].link = w.nodes[i].link /\ z.nodes[i].pipe = w.nodes[i].pipe
               /\ z.nodes[i].to = w.nodes[i].to /\ z.nodes[i].ent = w.nodes[i].ent
               /\ w.nodes[i].childs \in Seq(Nat)
               /\ i # r.id => z.nodes[i].childs = w.nodes[i].childs
               /\ i = r.id => z.nodes[i].childs = Append(w.nodes[i].childs, Len(w.nodes) + 1)
    <2>1. w.nodes[i] \in Nodes
      BY <1>1, NodeIs
    <2>2. z.nodes[i] = IF i = r.id THEN [w.nodes[i] EXCEPT !.childs = Append(@, Len(w.nodes) + 1)] ELSE w.nodes[i]
      BY DEF Grown
    <2> QED BY <2>1, <2>2 DEF Nodes
  <1> QED BY <1>1, <1>2

\* One more node keeps the tree sound, if its name is new in its directory.
LEMMA GrownSound ==
  ASSUME NEW w, NEW p \in Nat, Sound(w, p), NEW r, IsRef(w, r), NEW name \in Name,
         NEW z, Grown(w, z, name, r),
         r.id # 0 => \/ \A a \in 1..Len(w.nodes[r.id].childs) : w.nodes[w.nodes[r.id].childs[a]].name # name
                     \/ r.id = p /\ \E n \in Pid : name = PidName[n],
         r.id = 1 => name \in {Dev, Proc} \/ fat_seek(name, RootEntry) = NoEntry
  PROVE  Sound(z, p)
  <1> DEFINE L == Len(w.nodes)
             n == L + 1
  <1>1. /\ L \in Nat /\ L >= 1 /\ Typed(z) /\ Len(z.nodes) = n /\ z.pipes = w.pipes
        /\ z.nodes[n] = NewNode(name, r) /\ r \in Refs /\ r.id \in Nat /\ r.id <= L
    <2>1. r \in Refs /\ r.id <= L
      BY DEF IsRef
    <2>2. r.id \in Nat
      BY <2>1 DEF Refs
    <2> QED BY <2>1, <2>2, GrownNodes DEF Grown
  <1>2. ASSUME NEW i \in 1..L
        PROVE  /\ z.nodes[i].name = w.nodes[i].name /\ z.nodes[i].parent = w.nodes[i].parent
               /\ z.nodes[i].fs = w.nodes[i].fs /\ z.nodes[i].mountpoint = w.nodes[i].mountpoint
               /\ z.nodes[i].pipe = w.nodes[i].pipe
               /\ z.nodes[i].to = w.nodes[i].to /\ z.nodes[i].ent = w.nodes[i].ent
               /\ w.nodes[i].childs \in Seq(Nat)
               /\ i # r.id => z.nodes[i].childs = w.nodes[i].childs
               /\ i = r.id => z.nodes[i].childs = Append(w.nodes[i].childs, n)
    <2>1. \A j \in 1..Len(w.nodes) :
            /\ z.nodes[j].name = w.nodes[j].name /\ z.nodes[j].parent = w.nodes[j].parent
            /\ z.nodes[j].fs = w.nodes[j].fs /\ z.nodes[j].mountpoint = w.nodes[j].mountpoint
            /\ z.nodes[j].link = w.nodes[j].link /\ z.nodes[j].pipe = w.nodes[j].pipe
            /\ z.nodes[j].to = w.nodes[j].to /\ z.nodes[j].ent = w.nodes[j].ent
            /\ w.nodes[j].childs \in Seq(Nat)
            /\ j # r.id => z.nodes[j].childs = w.nodes[j].childs
            /\ j = r.id => z.nodes[j].childs = Append(w.nodes[j].childs, Len(w.nodes) + 1)
      BY GrownNodes
    <2> QED BY <2>1
  <1>3. \A i \in 1..L : Fields(w, i) /\ Lists(w, i) /\ Unique(w, p, i)
    BY DEF Sound
  <1>4. /\ z.nodes[n].name = name /\ z.nodes[n].parent = r /\ z.nodes[n].childs = <<>>
        /\ z.nodes[n].fs = "vfs" /\ z.nodes[n].pipe = 0 /\ z.nodes[n].to = NoNode /\ z.nodes[n].ent = NoEntry
    BY <1>1 DEF NewNode
  <1>5. NoNode.id = 0 /\ (r.id # 0 => r = Tree(r.id))
    BY <1>1, RefsAre
  <1>6. ASSUME NEW i \in 1..n PROVE Fields(z, i)
    <2>1. CASE i = n
      <3>1. Len(z.pipes) \in Nat
        BY <1>1 DEF Typed
      <3>2. /\ Len(z.nodes) = n /\ r \in Refs /\ r.id < n
            /\ 0 <= n /\ 0 <= Len(z.pipes)
        BY <1>1, <3>1
      <3> QED BY <1>4, <1>5, <2>1, <3>2 DEF Fields
    <2>2. CASE i # n
      <3>1. i \in 1..L /\ Fields(w, i) /\ w.nodes[i].to.id <= L
        BY <1>1, <1>3, <2>2 DEF Fields
      <3>2. w.nodes[i].to.id \in Nat
        <4>1. w.nodes[i] \in Nodes
          BY <3>1, NodeIs DEF Sound
        <4> QED BY <4>1 DEF Nodes, Refs
      <3> QED BY <1>1, <1>2, <3>1, <3>2, SMTT(30) DEF Fields
    <2> QED BY <2>1, <2>2
  \* The childs of an old node: the old ones, and at the end the new one.
  <1> HIDE DEF n, L
  <1>7. ASSUME NEW i \in 1..L
        PROVE  /\ Len(w.nodes[i].childs) \in Nat
               /\ \A a \in 1..Len(w.nodes[i].childs) : w.nodes[i].childs[a] \in i+1..L /\ w.nodes[i].childs[a] \in 1..L
               /\ i # r.id => z.nodes[i].childs = w.nodes[i].childs
               /\ i = r.id => /\ Len(z.nodes[i].childs) = Len(w.nodes[i].childs) + 1 /\ z.nodes[i].childs[Len(w.nodes[i].childs) + 1] = n
                              /\ \A a \in 1..Len(w.nodes[i].childs) : z.nodes[i].childs[a] = w.nodes[i].childs[a]
    <2> DEFINE c == w.nodes[i].childs
               d == z.nodes[i].childs
    <2>1. c \in Seq(Nat) /\ (i # r.id => d = c) /\ (i = r.id => d = Append(c, n))
      BY <1>2
    <2>2. \A a \in 1..Len(c) : c[a] \in i+1..L
      BY <1>3 DEF Lists, L
    <2>3. \A a \in 1..Len(c) : c[a] \in 1..L
      BY <1>1, <2>2
    <2>4. n \in Nat
      BY <1>1 DEF n
    <2> HIDE DEF c, d
    <2>5. /\ Len(Append(c, n)) = Len(c) + 1 /\ Append(c, n)[Len(c) + 1] = n
          /\ \A a \in 1..Len(c) : Append(c, n)[a] = c[a]
      BY <2>1, <2>4
    <2>6. Len(c) \in Nat
      BY <2>1
    <2> QED BY <2>1, <2>2, <2>3, <2>5, <2>6 DEF c, d
  <1>8. ASSUME NEW i \in 1..n PROVE Lists(z, i) /\ Unique(z, p, i)
    <2>1. CASE i = n
      <3>1. \A a \in 1..Len(z.nodes[i].childs) : FALSE
        BY <1>4, <2>1
      <3> QED BY <3>1 DEF Lists, Unique
    <2>2. CASE i # n /\ i # r.id
      <3>1. i \in 1..L /\ z.nodes[i].childs = w.nodes[i].childs /\ Lists(w, i) /\ Unique(w, p, i)
        BY <1>1, <1>2, <1>3, <2>2 DEF n
      <3> DEFINE c == w.nodes[i].childs
      <3>2. ASSUME NEW a \in 1..Len(c)
            PROVE  /\ c[a] \in i+1..Len(z.nodes)
                   /\ z.nodes[c[a]].name = w.nodes[c[a]].name
                   /\ z.nodes[c[a]].parent = w.nodes[c[a]].parent
        <4>1. c[a] \in i+1..L /\ c[a] \in 1..L
          BY <1>7, <3>1
        <4>2. c[a] \in i+1..n
          BY <1>1, <4>1 DEF n
        <4> QED BY <1>1, <1>2, <4>1, <4>2
      <3>5. z.nodes[i].childs = c
        BY <3>1
      <3>6. /\ \A a, b \in 1..Len(c) : a < b => c[a] < c[b]
            /\ \A a \in 1..Len(c) : w.nodes[c[a]].parent = Tree(i)
            /\ \A a, b \in 1..Len(c) : w.nodes[c[a]].name = w.nodes[c[b]].name =>
                  a = b \/ (i = p /\ \E k \in Pid : w.nodes[c[a]].name = PidName[k])
        BY <3>1 DEF Lists, Unique
      <3> HIDE DEF c
      <3>3. Lists(z, i)
        BY <3>2, <3>5, <3>6 DEF Lists
      <3>4. Unique(z, p, i)
        BY <3>2, <3>5, <3>6 DEF Unique
      <3> QED BY <3>3, <3>4
    <2>3. CASE i # n /\ i = r.id
      <3> DEFINE c == w.nodes[i].childs
                 d == z.nodes[i].childs
                 m == Len(c) + 1
      <3>1. i \in 1..L /\ Lists(w, i) /\ Unique(w, p, i) /\ r = Tree(i)
        BY <1>1, <1>3, <1>5, <2>3 DEF n
      <3>2. /\ Len(c) \in Nat /\ Len(d) = m /\ d[m] = n
            /\ \A a \in 1..Len(c) : d[a] = c[a] /\ c[a] \in i+1..L /\ c[a] \in 1..L
        BY <1>7, <2>3, <3>1
      <3>9. /\ \A a, b \in 1..Len(c) : a < b => c[a] < c[b]
            /\ \A a \in 1..Len(c) : w.nodes[c[a]].parent = Tree(i)
            /\ \A a, b \in 1..Len(c) : w.nodes[c[a]].name = w.nodes[c[b]].name =>
                  a = b \/ (i = p /\ \E k \in Pid : w.nodes[c[a]].name = PidName[k])
        BY <3>1 DEF Lists, Unique
      <3>10. r.id # 0 => \/ \A a \in 1..Len(c) : w.nodes[c[a]].name # name
                         \/ i = p /\ \E k \in Pid : name = PidName[k]
        BY <2>3
      <3>11. r.id # 0
        BY <1>1, <2>3, <3>1, SMTT(30)
      <3> HIDE DEF c, d
      <3>3. \A a \in 1..m : a \in 1..Len(c) \/ a = m
        BY <3>2
      <3>4. /\ \A a \in 1..Len(c) : z.nodes[d[a]].parent = Tree(i) /\ z.nodes[d[a]].name = w.nodes[c[a]].name
            /\ z.nodes[n].parent = Tree(i) /\ z.nodes[n].name = name
        BY <1>2, <1>4, <3>1, <3>2, <3>9, SMTT(30)
      <3>5. Lists(z, i)
        <4>1. n \in i+1..n /\ \A a \in 1..Len(c) : d[a] \in i+1..n /\ d[a] < n
          BY <1>1, <3>1, <3>2 DEF n
        <4>2. \A a, b \in 1..Len(c) : a < b => d[a] < d[b]
          BY <3>2, <3>9
        <4>3. \A a \in 1..m : d[a] \in i+1..Len(z.nodes) /\ z.nodes[d[a]].parent = Tree(i)
          BY <1>1, <3>2, <3>3, <3>4, <4>1
        <4>4. \A a, b \in 1..m : a < b => d[a] < d[b]
          <5> SUFFICES ASSUME NEW a \in 1..m, NEW b \in 1..m, a < b PROVE d[a] < d[b]
            OBVIOUS
          <5>1. a \in 1..Len(c)
            BY <3>2
          <5> QED BY <3>2, <3>3, <4>1, <4>2, <5>1
        <4> QED BY <3>2, <4>3, <4>4 DEF Lists, d
      <3>6. Unique(z, p, i)
        <4> SUFFICES ASSUME NEW a \in 1..m, NEW b \in 1..m, z.nodes[d[a]].name = z.nodes[d[b]].name
                     PROVE  a = b \/ (i = p /\ \E k \in Pid : z.nodes[d[a]].name = PidName[k])
          BY <3>2 DEF Unique, d
        <4>1. CASE a \in 1..Len(c) /\ b \in 1..Len(c)
          BY <3>4, <3>9, <4>1
        <4>2. CASE a = m /\ b \in 1..Len(c)
          <5>1. w.nodes[c[b]].name = name
            BY <3>2, <3>4, <4>2
          <5>2. z.nodes[d[a]].name = name /\ r.id # 0
            BY <3>2, <3>4, <3>11, <4>2
          <5> QED BY <2>3, <3>10, <4>2, <5>1, <5>2
        <4>3. CASE b = m /\ a \in 1..Len(c)
          <5>1. w.nodes[c[a]].name = name
            BY <3>2, <3>4, <4>3
          <5>2. z.nodes[d[a]].name = name /\ r.id # 0
            BY <3>2, <3>4, <3>11, <4>3
          <5> QED BY <2>3, <3>10, <4>3, <5>1, <5>2
        <4> QED BY <3>3, <4>1, <4>2, <4>3
      <3> QED BY <3>5, <3>6
    <2> QED BY <2>1, <2>2, <2>3
  <1>9. Hides(z)
    <2>1. 1 \in 1..L
      BY <1>1
    <2>2. \A a \in 1..Len(w.nodes[1].childs) : w.nodes[w.nodes[1].childs[a]].name \in {Dev, Proc}
                                   \/ fat_seek(w.nodes[w.nodes[1].childs[a]].name, RootEntry) = NoEntry
      BY DEF Sound, Hides
    <2>3. \A a \in 1..Len(w.nodes[1].childs) : z.nodes[w.nodes[1].childs[a]].name = w.nodes[w.nodes[1].childs[a]].name
      BY <1>2, <1>7, <2>1
    <2>4. CASE r.id # 1
      <3>1. z.nodes[1].childs = w.nodes[1].childs
        BY <1>2, <2>1, <2>4
      <3> QED BY <2>2, <2>3, <3>1 DEF Hides
    <2>5. CASE r.id = 1
      <3> DEFINE c == w.nodes[1].childs
                 d == z.nodes[1].childs
      <3>1. /\ Len(c) \in Nat /\ Len(d) = Len(c) + 1 /\ d[Len(c) + 1] = n
            /\ \A a \in 1..Len(c) : d[a] = c[a]
        BY <1>7, <2>1, <2>5
      <3>3. \A a \in 1..Len(c) : z.nodes[c[a]].name \in {Dev, Proc}
                                 \/ fat_seek(z.nodes[c[a]].name, RootEntry) = NoEntry
        BY <2>2, <2>3
      <3> HIDE DEF c, d
      <3>2. \A a \in 1..Len(d) : a \in 1..Len(c) \/ a = Len(c) + 1
        BY <3>1
      <3>4. z.nodes[n].name \in {Dev, Proc} \/ fat_seek(z.nodes[n].name, RootEntry) = NoEntry
        BY <1>4, <2>5
      <3>5. \A a \in 1..Len(d) : z.nodes[d[a]].name \in {Dev, Proc}
                                 \/ fat_seek(z.nodes[d[a]].name, RootEntry) = NoEntry
        BY <3>1, <3>2, <3>3, <3>4
      <3> QED BY <3>5 DEF Hides, d
    <2> QED BY <2>4, <2>5
  <1> QED BY <1>1, <1>6, <1>8, <1>9 DEF Sound, n, L

\* The rounds of kcreate's loop.
MadeRound(w, path, k, f, i) ==
  IF i = k THEN [v |-> w, node |-> kseek(w, SubSeq(path, 1, k))]
  ELSE vfs_create(f[i-1].v, path[i], f[i-1].node)
IsMade(f, w, path, k, n) == f = [i \in k..n |-> MadeRound(w, path, k, f, i)]

\* kcreate is that loop.
LEMMA MadeIs ==
  ASSUME NEW w, NEW path, Len(path) \in Nat, Deepest(w, path) \in 0..Len(path)
  PROVE  \E f : /\ IsMade(f, w, path, Deepest(w, path), Len(path))
                /\ kcreate(w, path) = f[Len(path)]
  <1> DEFINE N == Len(path)
             k == Deepest(w, path)
             S == {n \in k..N : \E f : IsMade(f, w, path, k, n)}
             F == CHOOSE f : IsMade(f, w, path, k, N)
  <1>1. kcreate(w, path) = F[N]
    BY DEF kcreate, CreateFrom, IsMade, MadeRound
  <1>0. N \in Nat /\ k \in Nat /\ k \in k..N /\ N \in k..N
    OBVIOUS
  <1> HIDE DEF N, k
  <1>2. k \in S
    <2> DEFINE f == [i \in k..k |-> [v |-> w, node |-> kseek(w, SubSeq(path, 1, k))]]
    <2>0. \A i \in k..k : i = k
      BY <1>0
    <2>1. IsMade(f, w, path, k, k)
      BY <2>0 DEF IsMade, MadeRound
    <2> QED BY <1>0, <2>1
  <1>3. ASSUME NEW m \in k+1..N, m - 1 \in S PROVE m \in S
    <2>1. PICK f : IsMade(f, w, path, k, m - 1)
      BY <1>3
    <2> DEFINE g == [i \in k..m |-> MadeRound(w, path, k, f, i)]
    <2>2. \A i \in k..m-1 : g[i] = f[i]
      BY <1>0, <1>3, <2>1 DEF IsMade
    <2>3. \A i \in k..m : MadeRound(w, path, k, g, i) = MadeRound(w, path, k, f, i)
      <3>1. \A i \in k..m : i = k \/ i - 1 \in k..m-1
        BY <1>0, <1>3
      <3> HIDE DEF g
      <3> QED BY <2>2, <3>1 DEF MadeRound
    <2>4. g = [i \in k..m |-> MadeRound(w, path, k, g, i)]
      BY <2>3
    <2>5. m \in k..N
      BY <1>0
    <2> HIDE DEF g
    <2> QED BY <2>4, <2>5 DEF IsMade
  <1>4. N \in S
    <2> HIDE DEF S, F
    <2>1. \A i \in k..N : i \in S
      BY <1>0, <1>2, <1>3, LoopInduction
    <2> QED BY <1>0, <2>1
  <1>5. IsMade(F, w, path, k, N)
    BY <1>4
  <1> QED BY <1>1, <1>5 DEF N, k

\* A chain of new nodes for the parts k+1 to m of a path, below r.
Chained(w, z, r, path, k, m) ==
  LET L == Len(w.nodes) IN
  /\ Len(z.nodes) = L + (m - k) /\ z.pipes = w.pipes
  /\ \A i \in 1..L :
       z.nodes[i] = IF i = r.id THEN [w.nodes[i] EXCEPT !.childs = Append(@, L + 1)] ELSE w.nodes[i]
  /\ \A i \in k+1..m :
       z.nodes[L + (i - k)] = [NewNode(path[i], IF i = k + 1 THEN r ELSE Tree(L + (i - k) - 1))
                                 EXCEPT !.childs = IF i = m THEN <<>> ELSE <<L + (i - k) + 1>>]

\* A new node has no children.
LEMMA NoChilds ==
  ASSUME NEW name, NEW r
  PROVE  NewNode(name, r) = [NewNode(name, r) EXCEPT !.childs = <<>>]
  <1> DEFINE x == NewNode(name, r)
             D == {"name", "parent", "childs", "fs", "mountpoint", "link", "pipe", "to", "ent"}
  <1>1. x = [f \in D |-> x[f]] /\ x["childs"] = <<>>
    BY DEF NewNode
  <1> HIDE DEF x
  <1>2. [x EXCEPT !["childs"] = <<>>] = [f \in D |-> x[f]]
    BY <1>1
  <1> QED BY <1>1, <1>2 DEF x

\* One more node at the end of such a chain.
LEMMA ChainedStep ==
  ASSUME NEW w, NEW y, NEW z, NEW r, NEW path, NEW k \in Nat, NEW m \in Nat, m > k + 1,
         NEW p, Sound(y, p), Len(w.nodes) \in Nat, Len(w.nodes) >= 1, r.id <= Len(w.nodes),
         Chained(w, y, r, path, k, m - 1),
         Grown(y, z, path[m], Tree(Len(w.nodes) + ((m - 1) - k)))
  PROVE  Chained(w, z, r, path, k, m)
  <1> DEFINE L == Len(w.nodes)
             t == L + ((m - 1) - k)
  <1>1. L \in Nat /\ L >= 1 /\ t \in Nat /\ t > L /\ t + 1 = L + (m - k) /\ Tree(t).id = t
    BY DEF Tree
  <1>2. /\ Len(y.nodes) = t /\ y.pipes = w.pipes
        /\ \A i \in 1..L :
             y.nodes[i] = IF i = r.id THEN [w.nodes[i] EXCEPT !.childs = Append(@, L + 1)] ELSE w.nodes[i]
        /\ \A i \in k+1..m-1 :
             y.nodes[L + (i - k)] = [NewNode(path[i], IF i = k + 1 THEN r ELSE Tree(L + (i - k) - 1))
                                       EXCEPT !.childs = IF i = m - 1 THEN <<>> ELSE <<L + (i - k) + 1>>]
    BY DEF Chained
  <1>3. /\ Len(z.nodes) = t + 1 /\ z.pipes = y.pipes /\ z.nodes[t + 1] = NewNode(path[m], Tree(t))
        /\ \A i \in 1..t :
             z.nodes[i] = IF i = t THEN [y.nodes[i] EXCEPT !.childs = Append(@, t + 1)] ELSE y.nodes[i]
    BY <1>1, <1>2 DEF Grown
  <1> HIDE DEF L, t
  <1>4. \A i \in 1..L : i \in 1..t /\ i # t
    BY <1>1
  <1>5. \A i \in 1..L :
          z.nodes[i] = IF i = r.id THEN [w.nodes[i] EXCEPT !.childs = Append(@, L + 1)] ELSE w.nodes[i]
    BY <1>2, <1>3, <1>4
  <1>6. ASSUME NEW i \in k+1..m
        PROVE  z.nodes[L + (i - k)] = [NewNode(path[i], IF i = k + 1 THEN r ELSE Tree(L + (i - k) - 1))
                                         EXCEPT !.childs = IF i = m THEN <<>> ELSE <<L + (i - k) + 1>>]
    <2>1. CASE i = m
      <3>1. L + (i - k) = t + 1 /\ L + (i - k) - 1 = t /\ i # k + 1
        BY <1>1, <2>1
      <3>2. NewNode(path[m], Tree(t)) = [NewNode(path[m], Tree(t)) EXCEPT !.childs = <<>>]
        BY NoChilds
      <3> QED BY <1>3, <2>1, <3>1, <3>2
    <2>2. CASE i = m - 1
      <3>1. L + (i - k) = t /\ i \in k+1..m-1 /\ i # m /\ L + (i - k) + 1 = t + 1 /\ t \in 1..t
        BY <1>1, <2>2 DEF t, L
      <3> DEFINE x == NewNode(path[i], IF i = k + 1 THEN r ELSE Tree(L + (i - k) - 1))
      <3>2. y.nodes[t] = [x EXCEPT !.childs = <<>>]
        BY <1>2, <2>2, <3>1
      <3>3. z.nodes[t] = [y.nodes[t] EXCEPT !.childs = Append(@, t + 1)]
        BY <1>3, <3>1
      <3>4. z.nodes[t] = [x EXCEPT !.childs = <<t + 1>>]
        <4>1. Append(<<>>, t + 1) = <<t + 1>>
          OBVIOUS
        <4>2. "childs" \in DOMAIN x
          BY DEF NewNode
        <4> HIDE DEF x
        <4>3. y.nodes[t].childs = <<>>
          BY <3>2, <4>2
        <4>4. z.nodes[t] = [y.nodes[t] EXCEPT !.childs = <<t + 1>>]
          BY <3>3, <4>1, <4>3
        <4> QED BY <3>2, <4>4
      <3> HIDE DEF x
      <3> QED BY <3>1, <3>4 DEF x
    <2>3. CASE i # m /\ i # m - 1
      <3>1. i \in k+1..m-1 /\ L + (i - k) \in 1..t /\ L + (i - k) # t
        BY <1>1, <2>3 DEF t
      <3>2. z.nodes[L + (i - k)] = y.nodes[L + (i - k)]
        BY <1>3, <3>1
      <3> QED BY <1>2, <2>3, <3>1, <3>2
    <2> QED BY <2>1, <2>2, <2>3
  <1> QED BY <1>1, <1>2, <1>3, <1>5, <1>6 DEF Chained, L

\* The first node of such a chain.
LEMMA ChainedFirst ==
  ASSUME NEW w, NEW z, NEW r, NEW path, NEW k \in Nat, Len(w.nodes) \in Nat,
         Grown(w, z, path[k+1], r)
  PROVE  Chained(w, z, r, path, k, k + 1)
  <1> DEFINE L == Len(w.nodes)
  <1>1. /\ Len(z.nodes) = L + 1 /\ z.pipes = w.pipes /\ z.nodes[L + 1] = NewNode(path[k+1], r)
        /\ \A i \in 1..L :
             z.nodes[i] = IF i = r.id THEN [w.nodes[i] EXCEPT !.childs = Append(@, L + 1)] ELSE w.nodes[i]
    BY DEF Grown
  <1>2. (k + 1) - k = 1 /\ \A i \in k+1..k+1 : i = k + 1
    OBVIOUS
  <1>3. NewNode(path[k+1], r) = [NewNode(path[k+1], r) EXCEPT !.childs = <<>>]
    BY NoChilds
  <1> HIDE DEF L
  <1>4. ASSUME NEW i \in k+1..k+1
        PROVE  z.nodes[L + (i - k)] = [NewNode(path[i], IF i = k + 1 THEN r ELSE Tree(L + (i - k) - 1))
                                         EXCEPT !.childs = IF i = k + 1 THEN <<>> ELSE <<L + (i - k) + 1>>]
    <2>1. i = k + 1 /\ L + (i - k) = L + 1
      BY <1>2
    <2> QED BY <1>1, <1>3, <2>1
  <1> QED BY <1>1, <1>2, <1>4 DEF Chained, L

\* kcreate makes a chain of new nodes below the deepest directory of the path.
LEMMA KcreateIs ==
  ASSUME NEW w, NEW p \in Nat, Sound(w, p), NEW path \in Seq(Name), path # <<>>,
         NEW k, k = Deepest(w, path), NEW r, r = kseek(w, SubSeq(path, 1, k)),
         r.id # 0 => \/ \A a \in 1..Len(w.nodes[r.id].childs) : w.nodes[w.nodes[r.id].childs[a]].name # path[k+1]
                     \/ r.id = p /\ \E n \in Pid : path[k+1] = PidName[n],
         r.id = 1 => path[k+1] \in {Dev, Proc} \/ fat_seek(path[k+1], RootEntry) = NoEntry
  PROVE  /\ Sound(kcreate(w, path).v, p)
         /\ Chained(w, kcreate(w, path).v, r, path, k, Len(path))
         /\ kcreate(w, path).node = Tree(Len(kcreate(w, path).v.nodes))
         /\ k \in 0..Len(path)-1 /\ IsRef(w, r) /\ r # NoNode
         /\ Len(kcreate(w, path).v.nodes) > Len(w.nodes)
  <1> DEFINE N == Len(path)
             L == Len(w.nodes)
  <1>1. k \in 0..N-1 /\ k \in Nat /\ N \in Nat /\ r # NoNode /\ k \in 0..N
    BY DeepestIs
  <1>2. IsRef(w, r)
    BY <1>1, KseekPrefix, KseekIs
  <1>3. L \in Nat /\ L >= 1 /\ r \in Refs /\ r.id <= L
    BY <1>2 DEF Sound, Typed, IsRef
  <1>4. PICK f : IsMade(f, w, path, k, N) /\ kcreate(w, path) = f[N]
    BY <1>1, MadeIs
  <1>5. f = [i \in k..N |-> MadeRound(w, path, k, f, i)]
    BY <1>4 DEF IsMade
  <1>6. f[k] = [v |-> w, node |-> r]
    <2>1. k \in k..N
      BY <1>1
    <2> QED BY <1>5, <2>1 DEF MadeRound
  <1>7. ASSUME NEW i \in k+1..N PROVE f[i] = vfs_create(f[i-1].v, path[i], f[i-1].node)
    <2>1. i \in k..N /\ i # k
      BY <1>1
    <2> QED BY <1>5, <2>1 DEF MadeRound
  <1> DEFINE S == {i \in k+1..N : /\ Sound(f[i].v, p) /\ Chained(w, f[i].v, r, path, k, i)
                                  /\ f[i].node = Tree(L + (i - k))}
  <1>8. \A i \in 1..N : path[i] \in Name
    OBVIOUS
  <1> HIDE DEF N, L
  <1>9. k + 1 \in S
    <2>0. k + 1 \in k+1..N /\ k + 1 \in 1..N /\ (k + 1) - 1 = k /\ (k + 1) - k = 1
      BY <1>1
    <2>1. k + 1 \in k+1..N /\ (k + 1) - k = 1 /\ path[k+1] \in Name
      BY <1>8, <2>0
    <2>2. f[k+1] = vfs_create(w, path[k+1], r)
      <3>1. f[k+1] = vfs_create(f[(k+1)-1].v, path[k+1], f[(k+1)-1].node)
        BY <1>7, <2>0
      <3>2. f[(k+1)-1] = f[k]
        BY <2>0
      <3> QED BY <1>6, <3>1, <3>2
    <2>3. Grown(w, f[k+1].v, path[k+1], r) /\ f[k+1].node = Tree(L + 1)
      BY <1>2, <2>1, <2>2, CreateGrows DEF L
    <2>4. Sound(f[k+1].v, p)
      BY <1>2, <2>1, <2>3, GrownSound, ZenonT(60)
    <2>5. Chained(w, f[k+1].v, r, path, k, k + 1)
      BY <1>1, <1>3, <2>3, ChainedFirst DEF L
    <2> QED BY <2>1, <2>3, <2>4, <2>5
  <1>10. ASSUME NEW i \in k+1+1..N, i - 1 \in S PROVE i \in S
    <2> DEFINE y == f[i-1].v
               z == f[i].v
               t == L + ((i - 1) - k)
    <2>1. /\ i \in k+1..N /\ i - 1 \in k+1..N /\ i \in Nat /\ i > k + 1 /\ path[i] \in Name
          /\ t \in Nat /\ t > 1 /\ t + 1 = L + (i - k)
      BY <1>1, <1>3, <1>8, SMTT(30)
    <2>2. Sound(y, p) /\ Chained(w, y, r, path, k, i - 1) /\ f[i-1].node = Tree(t)
      BY <1>10
    <2>3. Len(y.nodes) = t /\ y.nodes[t].childs = <<>>
      <3>1. /\ Len(y.nodes) = t
            /\ \A j \in k+1..i-1 :
                 y.nodes[L + (j - k)] = [NewNode(path[j], IF j = k + 1 THEN r ELSE Tree(L + (j - k) - 1))
                                           EXCEPT !.childs = IF j = i - 1 THEN <<>> ELSE <<L + (j - k) + 1>>]
        BY <2>2 DEF Chained, L
      <3>2. i - 1 \in k+1..i-1
        BY <1>1, <2>1
      <3> DEFINE x == NewNode(path[i-1], IF i - 1 = k + 1 THEN r ELSE Tree(L + ((i - 1) - k) - 1))
      <3>3. y.nodes[t] = [x EXCEPT !.childs = <<>>]
        BY <3>1, <3>2
      <3>4. "childs" \in DOMAIN x
        BY DEF NewNode
      <3> HIDE DEF x
      <3> QED BY <3>1, <3>3, <3>4
    <2>4. f[i] = vfs_create(y, path[i], Tree(t))
      BY <1>7, <2>1, <2>2
    <2> HIDE DEF y, z, t
    <2>5. IsRef(y, Tree(t)) /\ Tree(t).id = t
      BY <2>1, <2>3, RefsAre DEF IsRef
    <2>6. Grown(y, z, path[i], Tree(t)) /\ f[i].node = Tree(t + 1)
      BY <2>1, <2>2, <2>3, <2>4, <2>5, CreateGrows DEF z
    <2>7. Sound(z, p)
      <3>1. \A a \in 1..Len(y.nodes[t].childs) : FALSE
        BY <2>3
      <3>2. t # 1 /\ t # 0
        BY <2>1
      <3> QED BY <2>1, <2>2, <2>5, <2>6, <3>1, <3>2, GrownSound
    <2>8. Chained(w, z, r, path, k, i)
      BY <1>1, <1>3, <2>1, <2>2, <2>6, ChainedStep DEF L, t
    <2> QED BY <2>1, <2>6, <2>7, <2>8 DEF z
  <1>11. N \in S
    <2>1. k + 1 \in Nat /\ N \in k+1..N
      BY <1>1
    <2> HIDE DEF S
    <2>2. \A i \in k+1..N : i \in S
      BY <1>1, <1>9, <1>10, <2>1, LoopInduction
    <2> QED BY <2>1, <2>2
  <1>12. Len(f[N].v.nodes) = L + (N - k) /\ L + (N - k) > L
    BY <1>1, <1>3, <1>11, SMTT(30) DEF Chained, L
  <1> QED BY <1>1, <1>2, <1>4, <1>11, <1>12 DEF N, L

-----------------------------------------------------------------------------
(* What the operations keep of the tree.                                   *)

\* c is a first part of d.
Kept(c, d) == Len(c) <= Len(d) /\ \A a \in 1..Len(c) : d[a] = c[a]

\* z has all nodes, children and pipes of w, and maybe more.
Extends(w, z) ==
  /\ Len(w.nodes) <= Len(z.nodes) /\ Kept(w.pipes, z.pipes)
  /\ \A i \in 1..Len(w.nodes) :
       /\ z.nodes[i].name = w.nodes[i].name
       /\ z.nodes[i].fs = "fat" <=> w.nodes[i].fs = "fat"
       /\ Kept(w.nodes[i].childs, z.nodes[i].childs)

\* A tree whose nodes have the same names, parents and children is as sound.
LEMMA SameTree ==
  ASSUME NEW w, NEW p, Sound(w, p), NEW z, Typed(z), Len(z.nodes) = Len(w.nodes),
         \A i \in 1..Len(w.nodes) :
            /\ z.nodes[i].name = w.nodes[i].name /\ z.nodes[i].parent = w.nodes[i].parent
            /\ z.nodes[i].childs = w.nodes[i].childs /\ Fields(z, i)
  PROVE  Sound(z, p)
  <1> DEFINE L == Len(w.nodes)
  <1>1. L \in Nat /\ L >= 1
    BY DEF Sound, Typed
  <1>2. ASSUME NEW i \in 1..L PROVE Lists(z, i) /\ Unique(z, p, i) /\ (i = 1 => Hides(z))
    <2> DEFINE c == w.nodes[i].childs
    <2>1. /\ \A a \in 1..Len(c) : c[a] \in i+1..L /\ w.nodes[c[a]].parent = Tree(i)
          /\ \A a, b \in 1..Len(c) : a < b => c[a] < c[b]
          /\ \A a, b \in 1..Len(c) : w.nodes[c[a]].name = w.nodes[c[b]].name =>
               a = b \/ (i = p /\ \E n \in Pid : w.nodes[c[a]].name = PidName[n])
      BY DEF Sound, Lists, Unique
    <2>2. i = 1 => \A a \in 1..Len(c) : w.nodes[c[a]].name \in {Dev, Proc}
                                       \/ fat_seek(w.nodes[c[a]].name, RootEntry) = NoEntry
      BY DEF Sound, Hides
    <2>3. z.nodes[i].childs = c
      OBVIOUS
    <2> HIDE DEF c
    <2>4. \A a \in 1..Len(c) : c[a] \in 1..L
      BY <1>1, <2>1
    <2>5. \A a \in 1..Len(c) : z.nodes[c[a]].name = w.nodes[c[a]].name /\ z.nodes[c[a]].parent = w.nodes[c[a]].parent
      BY <2>4
    <2>6. Lists(z, i)
      BY <2>1, <2>3, <2>5 DEF Lists
    <2>7. Unique(z, p, i)
      BY <2>1, <2>3, <2>5 DEF Unique
    <2>8. i = 1 => Hides(z)
      BY <2>2, <2>3, <2>5 DEF Hides
    <2> QED BY <2>6, <2>7, <2>8
  <1>3. 1 \in 1..L
    BY <1>1
  <1> QED BY <1>2, <1>3 DEF Sound

\* Extending twice is extending.
LEMMA ExtendsTrans ==
  ASSUME NEW u, NEW p, Sound(u, p), NEW w, Sound(w, p), NEW z, Sound(z, p), Extends(u, w), Extends(w, z)
  PROVE  Extends(u, z)
  <1> DEFINE K == Len(u.nodes)
             L == Len(w.nodes)
             M == Len(z.nodes)
  <1>1. K \in Nat /\ L \in Nat /\ M \in Nat /\ K <= L /\ L <= M
    BY DEF Sound, Typed, Extends
  <1>2. Kept(u.pipes, z.pipes)
    <2>1. Len(u.pipes) \in Nat /\ Len(w.pipes) \in Nat /\ Len(z.pipes) \in Nat
      BY DEF Sound, Typed
    <2>2. Kept(u.pipes, w.pipes) /\ Kept(w.pipes, z.pipes)
      BY DEF Extends
    <2> QED BY <2>1, <2>2 DEF Kept
  <1>3. ASSUME NEW i \in 1..K
        PROVE  /\ z.nodes[i].name = u.nodes[i].name /\ (z.nodes[i].fs = "fat" <=> u.nodes[i].fs = "fat")
               /\ Kept(u.nodes[i].childs, z.nodes[i].childs)
    <2> DEFINE c == u.nodes[i].childs
               d == w.nodes[i].childs
               e == z.nodes[i].childs
    <2>1. i \in 1..L /\ i \in 1..M
      BY <1>1
    <2>2. c \in Seq(Nat) /\ d \in Seq(Nat) /\ e \in Seq(Nat)
      BY <2>1, NodeIs DEF Sound
    <2>3. /\ Kept(c, d) /\ w.nodes[i].name = u.nodes[i].name /\ (w.nodes[i].fs = "fat" <=> u.nodes[i].fs = "fat")
          /\ Kept(d, e) /\ z.nodes[i].name = w.nodes[i].name /\ (z.nodes[i].fs = "fat" <=> w.nodes[i].fs = "fat")
      BY <2>1 DEF Extends
    <2> HIDE DEF c, d, e
    <2>4. Kept(c, e)
      <3>1. Len(c) \in Nat /\ Len(d) \in Nat /\ Len(e) \in Nat
        BY <2>2
      <3> QED BY <2>3, <3>1 DEF Kept
    <2> QED BY <2>3, <2>4 DEF c, e
  <1> QED BY <1>1, <1>2, <1>3 DEF Extends

\* kcreate extends the tree.
LEMMA ChainedExtends ==
  ASSUME NEW w, NEW p, Sound(w, p), NEW z, Sound(z, p), NEW r, NEW path, NEW k \in Nat, NEW m \in Nat,
         k < m, Chained(w, z, r, path, k, m)
  PROVE  /\ Extends(w, z) /\ z.pipes = w.pipes
         /\ \A i \in 1..Len(w.nodes) :
              /\ z.nodes[i].parent = w.nodes[i].parent /\ z.nodes[i].fs = w.nodes[i].fs
              /\ z.nodes[i].mountpoint = w.nodes[i].mountpoint /\ z.nodes[i].link = w.nodes[i].link
              /\ z.nodes[i].pipe = w.nodes[i].pipe /\ z.nodes[i].to = w.nodes[i].to
         /\ \A i \in Len(w.nodes)+1..Len(z.nodes) :
              /\ z.nodes[i].fs = "vfs" /\ z.nodes[i].pipe = 0 /\ ~z.nodes[i].mountpoint /\ ~z.nodes[i].link
              /\ z.nodes[i].to = NoNode
  <1> DEFINE L == Len(w.nodes)
  <1>0. L \in Nat
    BY DEF Sound, Typed
  <1>1. /\ Len(z.nodes) = L + (m - k) /\ z.pipes = w.pipes
        /\ \A i \in 1..L :
             z.nodes[i] = IF i = r.id THEN [w.nodes[i] EXCEPT !.childs = Append(@, L + 1)] ELSE w.nodes[i]
        /\ \A i \in k+1..m :
             z.nodes[L + (i - k)] = [NewNode(path[i], IF i = k + 1 THEN r ELSE Tree(L + (i - k) - 1))
                                       EXCEPT !.childs = IF i = m THEN <<>> ELSE <<L + (i - k) + 1>>]
    BY DEF Chained
  <1>2. Kept(w.pipes, z.pipes)
    <2>1. Len(w.pipes) \in Nat
      BY DEF Sound, Typed
    <2> QED BY <1>1, <2>1 DEF Kept
  <1>3. ASSUME NEW i \in 1..L
        PROVE  /\ z.nodes[i].name = w.nodes[i].name /\ z.nodes[i].parent = w.nodes[i].parent
               /\ z.nodes[i].fs = w.nodes[i].fs
               /\ z.nodes[i].mountpoint = w.nodes[i].mountpoint /\ z.nodes[i].link = w.nodes[i].link
               /\ z.nodes[i].pipe = w.nodes[i].pipe /\ z.nodes[i].to = w.nodes[i].to
               /\ Kept(w.nodes[i].childs, z.nodes[i].childs)
    <2>1. w.nodes[i] \in Nodes /\ w.nodes[i].childs \in Seq(Nat)
      BY NodeIs DEF Sound
    <2>2. Kept(w.nodes[i].childs, Append(w.nodes[i].childs, L + 1))
      <3> DEFINE c == w.nodes[i].childs
      <3>1. c \in Seq(Nat) /\ L + 1 \in Nat
        BY <1>0, <2>1
      <3> HIDE DEF c, L
      <3> QED BY <3>1, SMTT(30) DEF Kept, c
    <2>3. Kept(w.nodes[i].childs, w.nodes[i].childs)
      BY <2>1 DEF Kept
    <2> HIDE DEF L
    <2> QED BY <1>1, <2>1, <2>2, <2>3, ZenonT(60) DEF Nodes
  <1>4. ASSUME NEW i \in L+1..Len(z.nodes)
        PROVE  /\ z.nodes[i].fs = "vfs" /\ z.nodes[i].pipe = 0 /\ ~z.nodes[i].mountpoint /\ ~z.nodes[i].link
               /\ z.nodes[i].to = NoNode
    <2> DEFINE j == k + (i - L)
    <2> HIDE DEF L
    <2>0. i \in L+1..L+(m-k)
      BY <1>1
    <2>1. j \in k+1..m /\ L + (j - k) = i
      BY <1>0, <2>0
    <2> HIDE DEF j
    <2> DEFINE x == NewNode(path[j], IF j = k + 1 THEN r ELSE Tree(L + (j - k) - 1))
               c == IF j = m THEN <<>> ELSE <<L + (j - k) + 1>>
    <2>2. z.nodes[i] = [x EXCEPT !.childs = c]
      BY <1>1, <2>1
    <2> HIDE DEF c
    <2> QED BY <2>2 DEF NewNode
  <1> QED BY <1>0, <1>1, <1>2, <1>3, <1>4, SMTT(30) DEF Extends

\* kcreate of a path that leads nowhere keeps the tree sound.
LEMMA NewPath ==
  ASSUME NEW w, NEW p \in Nat, Sound(w, p), NEW path \in Seq(Name), kseek(w, path) = NoNode,
         w.nodes[1].fs = "fat" \/ path[1] \in {Dev, Proc}
  PROVE  LET k == Deepest(w, path)
             r == kseek(w, SubSeq(path, 1, k))
             c == kcreate(w, path)
         IN  /\ Sound(c.v, p) /\ Extends(w, c.v) /\ Chained(w, c.v, r, path, k, Len(path))
             /\ c.node = Tree(Len(c.v.nodes)) /\ Len(c.v.nodes) > Len(w.nodes)
             /\ path # <<>> /\ k \in 0..Len(path)-1
             /\ kseek(w, SubSeq(path, 1, k)) # NoNode /\ kseek(w, SubSeq(path, 1, k + 1)) = NoNode
  <1> DEFINE k == Deepest(w, path)
             r == kseek(w, SubSeq(path, 1, k))
             c == kcreate(w, path)
  <1>1. path # <<>>
    <2>1. Root # NoNode
      BY DEF Root, NoNode
    <2> QED BY <2>1, KseekIs
  <1>2. /\ k \in 0..Len(path)-1 /\ r # NoNode
        /\ \A i \in 0..Len(path)-1 : kseek(w, SubSeq(path, 1, i)) # NoNode => i <= k
    BY <1>1, DeepestIs
  <1> HIDE DEF k
  <1>3. kseek(w, SubSeq(path, 1, k + 1)) = NoNode
    <2>1. CASE k + 1 = Len(path)
      <3>1. SubSeq(path, 1, k + 1) = path
        <4>1. k + 1 \in 0..Len(path)
          BY <2>1
        <4> QED BY <2>1, <4>1, KseekPrefix
      <3> QED BY <3>1
    <2>2. CASE k + 1 # Len(path)
      <3>1. k + 1 \in 0..Len(path)-1 /\ ~(k + 1 <= k)
        BY <1>2, <2>2
      <3> QED BY <1>2, <3>1
    <2> QED BY <2>1, <2>2
  <1> HIDE DEF r
  <1>4. /\ IsRef(w, r) /\ (r.id = 1 <=> k = 0)
        /\ r.id # 0 => \A a \in 1..Len(w.nodes[r.id].childs) : w.nodes[w.nodes[r.id].childs[a]].name # path[k+1]
        /\ r.id = 1 /\ w.nodes[1].fs = "fat" => fat_seek(path[k+1], RootEntry) = NoEntry
    BY <1>2, <1>3, NothingThere DEF r
  <1>5. r.id = 1 => path[k+1] \in {Dev, Proc} \/ fat_seek(path[k+1], RootEntry) = NoEntry
    BY <1>2, <1>4
  <1>6. /\ Sound(c.v, p) /\ Chained(w, c.v, r, path, k, Len(path))
        /\ c.node = Tree(Len(c.v.nodes)) /\ Len(c.v.nodes) > Len(w.nodes)
    BY <1>1, <1>4, <1>5, KcreateIs DEF k, r
  <1>7. Extends(w, c.v)
    BY <1>2, <1>6, ChainedExtends
  <1> QED BY <1>1, <1>2, <1>3, <1>6, <1>7 DEF k, r

\* Mounting a new pipe on a node.
Mounted(x, z, n) ==
  /\ Typed(z) /\ z.pipes = Append(x.pipes, 0) /\ Len(z.nodes) = Len(x.nodes)
  /\ \A i \in 1..Len(x.nodes) : i # n => z.nodes[i] = x.nodes[i]
  /\ n # 0 => /\ z.nodes[n].name = x.nodes[n].name /\ z.nodes[n].parent = x.nodes[n].parent
              /\ z.nodes[n].childs = x.nodes[n].childs
              /\ z.nodes[n].fs = "pipe" /\ z.nodes[n].mountpoint /\ z.nodes[n].pipe = Len(x.pipes) + 1
              /\ z.nodes[n].ent = NoEntry /\ z.nodes[n].link = x.nodes[n].link /\ z.nodes[n].to = x.nodes[n].to

\* It keeps the tree sound, if the node is not the root.
LEMMA MountedSound ==
  ASSUME NEW x, NEW p, Sound(x, p), NEW z, NEW n \in 0..Len(x.nodes), n # 1, Mounted(x, z, n)
  PROVE  Sound(z, p) /\ Extends(x, z)
  <1>1. /\ Len(x.pipes) \in Nat /\ Len(z.pipes) = Len(x.pipes) + 1 /\ Kept(x.pipes, z.pipes)
        /\ Len(x.nodes) \in Nat /\ Typed(z) /\ Typed(x) /\ Len(z.nodes) = Len(x.nodes)
    <2>1. x.pipes \in Seq(Nat) /\ 0 \in Nat /\ z.pipes = Append(x.pipes, 0)
      BY DEF Sound, Typed, Mounted
    <2>2. /\ Len(x.pipes) \in Nat /\ Len(z.pipes) = Len(x.pipes) + 1
          /\ \A d \in 1..Len(x.pipes) : z.pipes[d] = x.pipes[d]
      BY <2>1
    <2>3. Kept(x.pipes, z.pipes)
      BY <2>2 DEF Kept
    <2>4. Len(x.nodes) \in Nat /\ Typed(z) /\ Typed(x) /\ Len(z.nodes) = Len(x.nodes)
      BY DEF Sound, Typed, Mounted
    <2> QED BY <2>2, <2>3, <2>4
  <1>2. ASSUME NEW i \in 1..Len(x.nodes)
        PROVE  /\ z.nodes[i].name = x.nodes[i].name /\ z.nodes[i].parent = x.nodes[i].parent
               /\ z.nodes[i].childs = x.nodes[i].childs /\ Fields(z, i)
               /\ z.nodes[i].fs = "fat" <=> x.nodes[i].fs = "fat"
               /\ Kept(x.nodes[i].childs, z.nodes[i].childs)
    <2>1. x.nodes[i] \in Nodes /\ x.nodes[i].childs \in Seq(Nat) /\ x.nodes[i].pipe \in Nat
      <3>1. x.nodes[i] \in Nodes
        BY <1>1, NodeIs
      <3> QED BY <3>1 DEF Nodes
    <2>2. Fields(x, i)
      BY DEF Sound
    <2>3. Kept(x.nodes[i].childs, x.nodes[i].childs)
      BY <2>1 DEF Kept
    <2>4. CASE i # n
      <3>1. z.nodes[i] = x.nodes[i]
        BY <2>4 DEF Mounted
      <3>2. Fields(z, i)
        BY <1>1, <2>1, <2>2, <3>1 DEF Fields
      <3> QED BY <2>3, <3>1, <3>2
    <2>5. CASE i = n
      <3>1. n # 0 /\ i # 1
        BY <1>1, <2>5
      <3>2. /\ z.nodes[i].name = x.nodes[i].name /\ z.nodes[i].parent = x.nodes[i].parent
            /\ z.nodes[i].childs = x.nodes[i].childs
            /\ z.nodes[i].fs = "pipe" /\ z.nodes[i].pipe = Len(x.pipes) + 1
            /\ z.nodes[i].ent = NoEntry /\ z.nodes[i].to = x.nodes[i].to
        BY <2>5, <3>1 DEF Mounted
      <3>3. Fields(z, i)
        BY <1>1, <2>2, <3>1, <3>2 DEF Fields
      <3>4. x.nodes[i].fs # "fat"
        BY <2>2, <3>1 DEF Fields
      <3> QED BY <2>3, <3>2, <3>3, <3>4
    <2> QED BY <2>4, <2>5
  <1>3. Sound(z, p)
    BY <1>1, <1>2, SameTree
  <1> QED BY <1>1, <1>2, <1>3 DEF Extends

\* kmount of a pipe: refused, or a node of the path becomes a new pipe.
LEMMA PipeCreateIs ==
  ASSUME NEW w, NEW p \in Nat, Sound(w, p), NEW path \in Seq(Name),
         w.nodes[1].fs = "fat" \/ (path # <<>> /\ path[1] \in {Dev, Proc})
  PROVE  LET at == kseek(w, path)
             c  == IF at = NoNode THEN kcreate(w, path) ELSE [v |-> w, node |-> at]
             m  == pipe_create(w, path)
         IN  /\ Sound(m.v, p) /\ Extends(w, m.v)
             /\ Sound(c.v, p) /\ Extends(w, c.v) /\ IsRef(c.v, c.node) /\ c.node # NoNode
             /\ IF at.id # 0 /\ (w.nodes[at.id].mountpoint \/ w.nodes[at.id].link)
                THEN m.v = w /\ m.node = NoNode
                ELSE Mounted(c.v, m.v, c.node.id) /\ m.node = c.node /\ c.node.id # 1
  <1> DEFINE at == kseek(w, path)
             c == IF at = NoNode THEN kcreate(w, path) ELSE [v |-> w, node |-> at]
             m == pipe_create(w, path)
             x == c.v
             n == c.node.id
             no == at.id # 0 /\ (w.nodes[at.id].mountpoint \/ w.nodes[at.id].link)
  <1>0. IsRef(w, at) /\ (path = <<>> => at = Root) /\ (path # <<>> => at.id # 1)
    BY KseekIs
  <1>1. Len(w.nodes) \in Nat /\ Len(w.nodes) >= 1 /\ Extends(w, w)
    <2>1. Len(w.nodes) \in Nat /\ Len(w.nodes) >= 1 /\ Len(w.pipes) \in Nat
      BY DEF Sound, Typed
    <2>2. \A i \in 1..Len(w.nodes) : Len(w.nodes[i].childs) \in Nat
      <3> SUFFICES ASSUME NEW i \in 1..Len(w.nodes) PROVE Len(w.nodes[i].childs) \in Nat
        OBVIOUS
      <3>1. w.nodes[i].childs \in Seq(Nat)
        BY NodeIs DEF Sound
      <3> QED BY <3>1
    <2> QED BY <2>1, <2>2 DEF Extends, Kept
  <1>2. Sound(x, p) /\ Extends(w, x) /\ IsRef(x, c.node) /\ c.node # NoNode
    <2>1. CASE at = NoNode
      <3>1. c = kcreate(w, path)
        BY <2>1
      <3>2. /\ Sound(kcreate(w, path).v, p) /\ Extends(w, kcreate(w, path).v)
            /\ kcreate(w, path).node = Tree(Len(kcreate(w, path).v.nodes))
            /\ Len(kcreate(w, path).v.nodes) > Len(w.nodes)
        BY <2>1, NewPath
      <3> HIDE DEF c
      <3>3. Len(x.nodes) \in Nat /\ Len(x.nodes) > 1 /\ c.node = Tree(Len(x.nodes))
        BY <1>1, <3>1, <3>2 DEF Sound, Typed
      <3>4. IsRef(x, c.node) /\ c.node # NoNode
        BY <3>3, RefsAre DEF IsRef
      <3> QED BY <3>1, <3>2, <3>4
    <2>2. CASE at # NoNode
      BY <1>0, <1>1, <2>2
    <2> QED BY <2>1, <2>2
  <1>3. CASE no
    <2>1. m = [v |-> w, node |-> NoNode]
      BY <1>3 DEF pipe_create, PipeAt, MountPipe, Reached, IsTree
    <2> HIDE DEF c, m, at
    <2> QED BY <1>1, <1>2, <1>3, <2>1 DEF c, m, at
  <1>4. CASE ~no
    <2>1. n \in 0..Len(x.nodes) /\ (n # 0 => c.node = Tree(n)) /\ (c.node.ent # NoEntry <=> n = 0)
      <3> HIDE DEF c
      <3>1. c.node \in Refs /\ c.node.id <= Len(x.nodes) /\ Len(x.nodes) \in Nat
        BY <1>2 DEF IsRef, Sound, Typed
      <3>2. c.node.id \in Nat
        BY <3>1 DEF Refs
      <3> QED BY <1>2, <3>1, <3>2, RefsAre
    <2>2. n # 1
      <3>1. CASE at = NoNode
        <4>1. n = Len(kcreate(w, path).v.nodes) /\ n > Len(w.nodes)
          <5>1. path # <<>> \/ w.nodes[1].fs = "fat"
            OBVIOUS
          <5>2. /\ kcreate(w, path).node = Tree(Len(kcreate(w, path).v.nodes))
                /\ Len(kcreate(w, path).v.nodes) > Len(w.nodes)
            BY <3>1, NewPath
          <5> QED BY <3>1, <5>2 DEF Tree
        <4> QED BY <1>1, <4>1
      <3>2. CASE at # NoNode
        <4>1. n = at.id
          BY <3>2
        <4>2. ASSUME path = <<>> PROVE FALSE
          <5>1. at.id = 1 /\ w.nodes[1].fs = "fat"
            BY <1>0, <4>2 DEF Root
          <5>2. Fields(w, 1)
            BY <1>1 DEF Sound
          <5>3. w.nodes[1].mountpoint
            BY <5>1, <5>2 DEF Fields
          <5> QED BY <1>4, <5>1, <5>3
        <4> QED BY <1>0, <4>1, <4>2
      <3> QED BY <3>1, <3>2
    <2>3. m = [v |-> IF n = 0 THEN [x EXCEPT !.pipes = Append(@, 0)]
                     ELSE [[x EXCEPT !.pipes = Append(@, 0)] EXCEPT
                             !.nodes[n].fs = "pipe", !.nodes[n].mountpoint = TRUE,
                             !.nodes[n].pipe = Len([x EXCEPT !.pipes = Append(@, 0)].pipes),
                             !.nodes[n].ent = NoEntry],
               node |-> c.node]
      <3> DEFINE y == [x EXCEPT !.pipes = Append(@, 0)]
                 z == [y EXCEPT !.nodes[n].fs = "pipe", !.nodes[n].mountpoint = TRUE,
                                !.nodes[n].pipe = Len(y.pipes), !.nodes[n].ent = NoEntry]
      <3>1. m = IF no THEN [v |-> w, node |-> NoNode]
                ELSE IF c.node.ent # NoEntry THEN [v |-> y, node |-> c.node]
                ELSE [v |-> z, node |-> c.node]
        BY DEF pipe_create, PipeAt, MountPipe, Reached, IsTree, IsDisk
      <3> HIDE DEF m, y, z, no, c
      <3>2. m = [v |-> IF n = 0 THEN y ELSE z, node |-> c.node]
        BY <1>4, <2>1, <3>1
      <3> QED BY <3>2 DEF y, z
    <2>4. x \in [nodes : Seq(Nodes), pipes : Seq(Nat)] /\ Len(x.nodes) >= 1
      BY <1>2 DEF Sound, Typed
    <2> HIDE DEF c, at
    <2> DEFINE y == [x EXCEPT !.pipes = Append(@, 0)]
               z == m.v
    <2>5. /\ y \in [nodes : Seq(Nodes), pipes : Seq(Nat)] /\ y.nodes = x.nodes /\ y.pipes = Append(x.pipes, 0)
          /\ Len(y.pipes) = Len(x.pipes) + 1 /\ Len(x.pipes) \in Nat
      <3>1. x.pipes \in Seq(Nat) /\ 0 \in Nat
        BY <2>4
      <3>2. Append(x.pipes, 0) \in Seq(Nat) /\ Len(Append(x.pipes, 0)) = Len(x.pipes) + 1 /\ Len(x.pipes) \in Nat
        BY <3>1
      <3> QED BY <2>4, <3>2
    <2>6. Mounted(x, z, n)
      <3>1. CASE n = 0
        <4>1. z = y
          BY <2>3, <3>1
        <4> HIDE DEF y, z
        <4>2. Typed(z)
          BY <2>4, <2>5, <4>1 DEF Typed
        <4> QED BY <2>5, <3>1, <4>1, <4>2 DEF Mounted
      <3>2. CASE n # 0
        <4>1. n \in 1..Len(x.nodes)
          BY <2>1, <2>4, <3>2
        <4>2. x.nodes[n] \in Nodes /\ y.nodes \in Seq(Nodes)
          BY <2>4, <2>5, <4>1
        <4> DEFINE d == [x.nodes[n] EXCEPT !.fs = "pipe", !.mountpoint = TRUE, !.pipe = Len(y.pipes), !.ent = NoEntry]
                   s == [y.nodes EXCEPT ![n] = d]
        <4>3. z = [y EXCEPT !.nodes[n].fs = "pipe", !.nodes[n].mountpoint = TRUE,
                             !.nodes[n].pipe = Len(y.pipes), !.nodes[n].ent = NoEntry]
          BY <2>3, <3>2
        <4> HIDE DEF y, z, n, m
        <4>4. z = [y EXCEPT !.nodes = s]
          BY <2>5, <4>1, <4>2, <4>3, ZenonT(60)
        <4>9. Len(y.pipes) \in Nat
          BY <2>5
        <4>10. d \in Nodes
          BY <4>2, <4>9 DEF Nodes
        <4>5. /\ d \in Nodes /\ d.name = x.nodes[n].name /\ d.parent = x.nodes[n].parent
              /\ d.childs = x.nodes[n].childs /\ d.fs = "pipe" /\ d.mountpoint /\ d.pipe = Len(x.pipes) + 1
              /\ d.ent = NoEntry /\ d.link = x.nodes[n].link /\ d.to = x.nodes[n].to
          <5> DEFINE u == x.nodes[n]
                     e == [u EXCEPT !.fs = "pipe", !.mountpoint = TRUE, !.pipe = Len(y.pipes), !.ent = NoEntry]
          <5>1. u \in Nodes
            BY <4>2
          <5> HIDE DEF u
          <5>2. /\ e.name = u.name /\ e.parent = u.parent /\ e.childs = u.childs /\ e.fs = "pipe"
                /\ e.mountpoint = TRUE /\ e.pipe = Len(y.pipes) /\ e.ent = NoEntry
                /\ e.link = u.link /\ e.to = u.to
            BY <5>1 DEF Nodes
          <5> QED BY <2>5, <4>10, <5>2 DEF u
        <4> HIDE DEF d
        <4>6. /\ s \in Seq(Nodes) /\ Len(s) = Len(x.nodes) /\ s[n] = d
              /\ \A i \in 1..Len(x.nodes) : i # n => s[i] = x.nodes[i]
          BY <2>5, <4>1, <4>2, <4>5
        <4> HIDE DEF s
        <4>7. z \in [nodes : Seq(Nodes), pipes : Seq(Nat)] /\ z.nodes = s /\ z.pipes = Append(x.pipes, 0)
          BY <2>5, <4>4, <4>6
        <4>8. Typed(z)
          BY <2>4, <4>6, <4>7 DEF Typed
        <4> QED BY <4>5, <4>6, <4>7, <4>8 DEF Mounted
      <3> QED BY <3>1, <3>2
    <2>7. m.node = c.node
      BY <2>3
    <2> HIDE DEF m, n
    <2>8. Sound(z, p) /\ Extends(x, z)
      BY <1>2, <2>1, <2>2, <2>6, MountedSound
    <2>9. Extends(w, z)
      BY <1>2, <2>8, ExtendsTrans
    <2> QED BY <1>2, <1>4, <2>2, <2>6, <2>7, <2>8, <2>9 DEF c, at, m, n
  <1> QED BY <1>3, <1>4

\* Making a node a link.
Linked(x, z, n, to) ==
  /\ Typed(z) /\ z.pipes = x.pipes /\ Len(z.nodes) = Len(x.nodes)
  /\ \A i \in 1..Len(x.nodes) : i # n => z.nodes[i] = x.nodes[i]
  /\ n # 0 => /\ z.nodes[n].name = x.nodes[n].name /\ z.nodes[n].parent = x.nodes[n].parent
              /\ z.nodes[n].childs = x.nodes[n].childs /\ z.nodes[n].fs = x.nodes[n].fs
              /\ z.nodes[n].mountpoint = x.nodes[n].mountpoint /\ z.nodes[n].pipe = x.nodes[n].pipe
              /\ z.nodes[n].ent = x.nodes[n].ent /\ z.nodes[n].link /\ z.nodes[n].to = to

\* It keeps the tree sound.
LEMMA LinkedSound ==
  ASSUME NEW x, NEW p, Sound(x, p), NEW z, NEW n \in 0..Len(x.nodes), NEW to, IsRef(x, to),
         Linked(x, z, n, to)
  PROVE  Sound(z, p) /\ Extends(x, z)
  <1>1. /\ Len(x.pipes) \in Nat /\ z.pipes = x.pipes /\ Kept(x.pipes, z.pipes)
        /\ Len(x.nodes) \in Nat /\ Typed(z) /\ Typed(x) /\ Len(z.nodes) = Len(x.nodes)
    BY DEF Sound, Typed, Linked, Kept
  <1>2. ASSUME NEW i \in 1..Len(x.nodes)
        PROVE  /\ z.nodes[i].name = x.nodes[i].name /\ z.nodes[i].parent = x.nodes[i].parent
               /\ z.nodes[i].childs = x.nodes[i].childs /\ Fields(z, i)
               /\ z.nodes[i].fs = "fat" <=> x.nodes[i].fs = "fat"
               /\ Kept(x.nodes[i].childs, z.nodes[i].childs)
    <2>1. Fields(x, i) /\ x.nodes[i].childs \in Seq(Nat)
      BY NodeIs DEF Sound
    <2>2. Kept(x.nodes[i].childs, x.nodes[i].childs)
      BY <2>1 DEF Kept
    <2>3. CASE i # n
      <3>1. z.nodes[i] = x.nodes[i]
        BY <2>3 DEF Linked
      <3> QED BY <1>1, <2>1, <2>2, <3>1 DEF Fields
    <2>4. CASE i = n
      <3>1. /\ z.nodes[i].name = x.nodes[i].name /\ z.nodes[i].parent = x.nodes[i].parent
            /\ z.nodes[i].childs = x.nodes[i].childs /\ z.nodes[i].fs = x.nodes[i].fs
            /\ z.nodes[i].mountpoint = x.nodes[i].mountpoint /\ z.nodes[i].pipe = x.nodes[i].pipe
            /\ z.nodes[i].ent = x.nodes[i].ent /\ z.nodes[i].to = to
        BY <1>1, <2>4 DEF Linked
      <3>2. to.id <= Len(x.nodes)
        BY DEF IsRef
      <3> QED BY <1>1, <2>1, <2>2, <3>1, <3>2 DEF Fields
    <2> QED BY <2>3, <2>4
  <1>3. Sound(z, p)
    BY <1>1, <1>2, SameTree
  <1> QED BY <1>1, <1>2, <1>3 DEF Extends

\* A tree extends itself.
LEMMA ExtendsSelf ==
  ASSUME NEW w, NEW p, Sound(w, p)
  PROVE  Extends(w, w)
  <1>1. Len(w.nodes) \in Nat /\ Len(w.nodes) >= 1 /\ Len(w.pipes) \in Nat
    BY DEF Sound, Typed
  <1>2. \A i \in 1..Len(w.nodes) : Len(w.nodes[i].childs) \in Nat
    <2> SUFFICES ASSUME NEW i \in 1..Len(w.nodes) PROVE Len(w.nodes[i].childs) \in Nat
      OBVIOUS
    <2>1. w.nodes[i].childs \in Seq(Nat)
      BY NodeIs DEF Sound
    <2> QED BY <2>1
  <1> QED BY <1>1, <1>2 DEF Extends, Kept

\* klink: nothing to link to, or a node that is lost, or a node becomes a link.
LEMMA KlinkIs ==
  ASSUME NEW w, NEW p \in Nat, Sound(w, p), NEW path \in Seq(Name), NEW link \in Seq(Name),
         w.nodes[1].fs = "fat"
  PROVE  LET to == kseek(w, path)
             at == kseek(w, link)
             c  == IF at = NoNode THEN kcreate(w, link) ELSE [v |-> w, node |-> at]
             z  == klink(w, path, link)
         IN  /\ Sound(z, p) /\ Extends(w, z) /\ z.pipes = w.pipes
             /\ Sound(c.v, p) /\ Extends(w, c.v) /\ c.v.pipes = w.pipes
             /\ IsRef(c.v, c.node) /\ c.node # NoNode
             /\ IF to = NoNode THEN z = w ELSE Linked(c.v, z, c.node.id, to)
  <1> DEFINE to == kseek(w, path)
             at == kseek(w, link)
             c == IF at = NoNode THEN kcreate(w, link) ELSE [v |-> w, node |-> at]
             x == c.v
             n == c.node.id
             z == klink(w, path, link)
  <1>0. IsRef(w, at) /\ IsRef(w, to) /\ Extends(w, w) /\ Len(w.nodes) \in Nat
    <2>1. IsRef(w, at) /\ IsRef(w, to)
      BY KseekIs
    <2>2. Extends(w, w)
      BY ExtendsSelf
    <2>3. Len(w.nodes) \in Nat
      BY DEF Sound, Typed
    <2> QED BY <2>1, <2>2, <2>3
  <1>1. Sound(x, p) /\ Extends(w, x) /\ x.pipes = w.pipes /\ IsRef(x, c.node) /\ c.node # NoNode
    <2>1. CASE at = NoNode
      <3>1. c = kcreate(w, link)
        BY <2>1
      <3> DEFINE k == Deepest(w, link)
                 r == kseek(w, SubSeq(link, 1, k))
      <3>2. /\ Sound(kcreate(w, link).v, p) /\ Extends(w, kcreate(w, link).v)
            /\ Chained(w, kcreate(w, link).v, r, link, k, Len(link))
            /\ kcreate(w, link).node = Tree(Len(kcreate(w, link).v.nodes))
            /\ Len(kcreate(w, link).v.nodes) > Len(w.nodes)
        BY <2>1, NewPath
      <3> HIDE DEF c, k, r
      <3>3. Len(x.nodes) \in Nat /\ Len(x.nodes) > 1 /\ c.node = Tree(Len(x.nodes))
        BY <3>1, <3>2 DEF Sound, Typed
      <3>4. IsRef(x, c.node) /\ c.node # NoNode
        BY <3>3, RefsAre DEF IsRef
      <3>5. x.pipes = w.pipes
        BY <3>1, <3>2 DEF Chained
      <3> QED BY <3>1, <3>2, <3>4, <3>5
    <2>2. CASE at # NoNode
      BY <1>0, <2>2
    <2> QED BY <2>1, <2>2
  <1>2. z = IF to = NoNode THEN w
            ELSE IF c.node.ent # NoEntry THEN x
            ELSE [x EXCEPT !.nodes[n].link = TRUE, !.nodes[n].to = to]
    BY DEF klink, SetLink, Reached, IsDisk
  <1> HIDE DEF c
  <1>3. n \in 0..Len(x.nodes) /\ (c.node.ent # NoEntry <=> n = 0)
    <2>1. c.node \in Refs /\ c.node.id <= Len(x.nodes) /\ Len(x.nodes) \in Nat
      BY <1>1 DEF IsRef, Sound, Typed
    <2>2. c.node.id \in Nat
      BY <2>1 DEF Refs
    <2> QED BY <1>1, <2>1, <2>2, RefsAre
  <1>4. IsRef(x, to)
    <2>1. Len(w.nodes) <= Len(x.nodes) /\ Len(x.nodes) \in Nat
      BY <1>1 DEF Extends, Sound, Typed
    <2>2. to \in Refs /\ to.id <= Len(w.nodes)
      BY <1>0 DEF IsRef
    <2>3. to.id \in Nat
      BY <2>2 DEF Refs
    <2> QED BY <1>0, <2>1, <2>2, <2>3 DEF IsRef
  <1>5. x \in [nodes : Seq(Nodes), pipes : Seq(Nat)] /\ Len(x.nodes) >= 1
    BY <1>1 DEF Sound, Typed
  <1> HIDE DEF to, at
  <1>6. ASSUME to # NoNode PROVE Linked(x, z, n, to)
    <2>1. CASE n = 0
      <3>1. z = x
        BY <1>2, <1>3, <1>6, <2>1
      <3> HIDE DEF z
      <3> QED BY <1>5, <2>1, <3>1 DEF Linked, Typed
    <2>2. CASE n # 0
      <3>1. n \in 1..Len(x.nodes)
        BY <1>3, <1>5, <2>2
      <3> DEFINE u == x.nodes[n]
                 d == [u EXCEPT !.link = TRUE, !.to = to]
                 s == [x.nodes EXCEPT ![n] = d]
      <3>2. z = [x EXCEPT !.nodes[n].link = TRUE, !.nodes[n].to = to]
        BY <1>2, <1>3, <1>6, <2>2
      <3>3. u \in Nodes
        BY <1>5, <3>1
      <3> HIDE DEF z, n
      <3>4. z = [x EXCEPT !.nodes = s]
        BY <1>5, <3>1, <3>2, <3>3
      <3> HIDE DEF u
      <3>5. d \in Nodes
        BY <1>4, <3>3 DEF Nodes, IsRef
      <3>6. /\ d.name = u.name /\ d.parent = u.parent /\ d.childs = u.childs /\ d.fs = u.fs
            /\ d.mountpoint = u.mountpoint /\ d.pipe = u.pipe /\ d.ent = u.ent /\ d.link = TRUE /\ d.to = to
        BY <3>3 DEF Nodes
      <3> HIDE DEF d
      <3>7. /\ s \in Seq(Nodes) /\ Len(s) = Len(x.nodes) /\ s[n] = d
            /\ \A i \in 1..Len(x.nodes) : i # n => s[i] = x.nodes[i]
        BY <1>5, <3>1, <3>5
      <3> HIDE DEF s
      <3>8. z \in [nodes : Seq(Nodes), pipes : Seq(Nat)] /\ z.nodes = s /\ z.pipes = x.pipes
        BY <1>5, <3>4, <3>7
      <3>9. Typed(z)
        BY <1>5, <3>7, <3>8 DEF Typed
      <3> QED BY <3>6, <3>7, <3>8, <3>9 DEF Linked, u
    <2> QED BY <2>1, <2>2
  <1>7. CASE to = NoNode
    <2>1. z = w
      BY <1>2, <1>7
    <2> HIDE DEF z
    <2> QED BY <1>0, <1>1, <1>7, <2>1 DEF z, to, at, c
  <1>8. CASE to # NoNode
    <2> HIDE DEF z
    <2>1. Linked(x, z, n, to)
      BY <1>6, <1>8
    <2>2. Sound(z, p) /\ Extends(x, z)
      BY <1>1, <1>3, <1>4, <2>1, LinkedSound
    <2>3. Extends(w, z)
      BY <1>1, <2>2, ExtendsTrans
    <2>4. z.pipes = w.pipes
      BY <1>1, <2>1 DEF Linked
    <2> QED BY <1>1, <1>8, <2>1, <2>2, <2>3, <2>4 DEF z, to, at, c
  <1> QED BY <1>7, <1>8

-----------------------------------------------------------------------------
(* The directories that processes rely on.                                 *)

\* The disk is on the root, and p is the directory of the processes in it.
Booted(w, p) ==
  /\ p \in 2..Len(w.nodes) /\ w.nodes[p].name = Proc /\ w.nodes[1].fs = "fat"
  /\ \E a \in 1..Len(w.nodes[1].childs) : w.nodes[1].childs[a] = p

\* p has a directory for the process n.
HasDir(w, p, n) ==
  \E a \in 1..Len(w.nodes[p].childs) : w.nodes[w.nodes[p].childs[a]].name = PidName[n]

\* The child a of the node i has that name.
Child(w, i, a, name) ==
  a \in 1..Len(w.nodes[i].childs) /\ w.nodes[w.nodes[i].childs[a]].name = name

\* kseek, at the node i, goes on to the child b.
GoesTo(w, i, b, name) ==
  ~Ends(w, Tree(i), name) /\ SeekPart(w, Tree(i), name) = Tree(w.nodes[i].childs[b])

\* It goes on to the child a, or in the node p perhaps to another one of that name.
Leads(w, p, i, a, name) ==
  \E b : /\ Child(w, i, b, name) /\ GoesTo(w, i, b, name)
         /\ w.nodes[i].childs[b] \in i+1..Len(w.nodes)
         /\ i # p => b = a

\* A child is found under its name, or another one of that name before it.
LEMMA ChildFound ==
  ASSUME NEW w, NEW p, Sound(w, p), NEW i \in 1..Len(w.nodes), NEW name, NEW a, Child(w, i, a, name)
  PROVE  Leads(w, p, i, a, name)
  <1> DEFINE r == Tree(i)
             cs == w.nodes[i].childs
             c == vfs_seek(w, r, name)
  <1>1. Typed(w) /\ Len(w.nodes) \in Nat /\ i \in Nat /\ i # 0
    BY DEF Sound, Typed
  <1>2. IsRef(w, r) /\ r.id = i /\ r # NoNode
    BY <1>1, RefsAre DEF IsRef
  <1>3. Seeks(w, i, name, c)
    BY TreeSeekIs
  <1> HIDE DEF r, c
  <1>4. /\ c = NoNode => \A b \in 1..Len(cs) : w.nodes[cs[b]].name # name
        /\ c # NoNode => \E b \in 1..Len(cs) : c = Tree(cs[b]) /\ w.nodes[cs[b]].name = name
    BY <1>1, <1>3 DEF Seeks
  <1>5. c # NoNode
    BY <1>4 DEF Child
  <1>6. PICK b \in 1..Len(cs) : c = Tree(cs[b]) /\ w.nodes[cs[b]].name = name
    BY <1>4, <1>5
  <1>7. SeekPart(w, r, name) = c /\ ~Ends(w, r, name)
    BY <1>5 DEF SeekPart, ElseDriver, Ends, c
  <1>8. cs[b] \in i+1..Len(w.nodes)
    BY DEF Sound, Lists
  <1>9. i # p => b = a
    BY <1>6 DEF Sound, Unique, Child
  <1>10. Child(w, i, b, name) /\ GoesTo(w, i, b, name)
    BY <1>6, <1>7 DEF Child, GoesTo, r
  <1> QED BY <1>8, <1>9, <1>10 DEF Leads

\* kseek finds the directory of the processes, and that of a process.
LEMMA ProcDirsAre ==
  ASSUME NEW w, NEW p \in Nat, Sound(w, p), Booted(w, p)
  PROVE  /\ kseek(w, <<Proc>>) = Tree(p)
         /\ \A n \in Pid : HasDir(w, p, n) =>
              \E q \in p+1..Len(w.nodes) : kseek(w, ProcPath(n)) = Tree(q) /\ w.nodes[q].name = PidName[n]
  <1>1. Len(w.nodes) \in Nat /\ 1 \in 1..Len(w.nodes) /\ p \in 1..Len(w.nodes) /\ p # 1 /\ Root = Tree(1)
    BY RefsAre DEF Sound, Typed, Booted
  <1>2. SeekPart(w, Root, Proc) = Tree(p) /\ ~Ends(w, Root, Proc)
    <2> DEFINE cs == w.nodes[1].childs
    <2>1. PICK a \in 1..Len(cs) : cs[a] = p /\ w.nodes[cs[a]].name = Proc
      BY DEF Booted
    <2>2. Child(w, 1, a, Proc)
      BY <2>1 DEF Child
    <2>3. Leads(w, p, 1, a, Proc)
      BY <1>1, <2>2, ChildFound
    <2>4. 1 # p
      BY <1>1
    <2>5. GoesTo(w, 1, a, Proc)
      BY <2>3, <2>4 DEF Leads
    <2> QED BY <1>1, <2>1, <2>5 DEF GoesTo
  <1>3. kseek(w, <<Proc>>) = Tree(p)
    <2> DEFINE path == <<Proc>>
    <2>1. path \in Seq(Name) /\ Len(path) = 1 /\ path[1] = Proc
      BY VfsAssumption
    <2> HIDE DEF path
    <2>2. Walk(w, path)[0] = Root /\ Walk(w, path)[1] = SeekPart(w, Walk(w, path)[0], path[1])
      <3>1. Walk(w, path)[0] = Root /\ \A i \in 1..Len(path) : Walk(w, path)[i] = SeekPart(w, Walk(w, path)[i-1], path[i])
        BY <2>1, WalkStep
      <3>2. 1 \in 1..Len(path)
        BY <2>1
      <3>3. Walk(w, path)[1] = SeekPart(w, Walk(w, path)[1-1], path[1])
        BY <3>1, <3>2
      <3> QED BY <3>1, <3>3
    <2>3. \A i \in 1..Len(path) : i = 1
      BY <2>1
    <2>4. kseek(w, path) = Walk(w, path)[1]
      BY <1>2, <2>1, <2>2, <2>3 DEF kseek, WalkEnd
    <2> QED BY <1>2, <2>1, <2>2, <2>4 DEF path
  <1>4. ASSUME NEW n \in Pid, HasDir(w, p, n)
        PROVE  \E q \in p+1..Len(w.nodes) : kseek(w, ProcPath(n)) = Tree(q) /\ w.nodes[q].name = PidName[n]
    <2> DEFINE cs == w.nodes[p].childs
               name == PidName[n]
               path == ProcPath(n)
    <2>1. PICK a \in 1..Len(cs) : w.nodes[cs[a]].name = name
      BY <1>4 DEF HasDir
    <2>2. /\ ~Ends(w, Tree(p), name)
          /\ \E b \in 1..Len(cs) : /\ SeekPart(w, Tree(p), name) = Tree(cs[b])
                                   /\ w.nodes[cs[b]].name = name /\ cs[b] \in p+1..Len(w.nodes)
      <3> HIDE DEF name
      <3>1. Child(w, p, a, name)
        BY <2>1 DEF Child
      <3>2. Leads(w, p, p, a, name)
        BY <1>1, <3>1, ChildFound
      <3>3. PICK b : Child(w, p, b, name) /\ GoesTo(w, p, b, name) /\ cs[b] \in p+1..Len(w.nodes)
        BY <3>2 DEF Leads
      <3> QED BY <3>3 DEF Child, GoesTo
    <2>3. path \in Seq(Name) /\ Len(path) = 2 /\ path[1] = Proc /\ path[2] = name
      BY VfsAssumption DEF ProcPath
    <2> HIDE DEF path
    <2>4. /\ Walk(w, path)[0] = Root /\ Walk(w, path)[1] = SeekPart(w, Walk(w, path)[0], path[1])
          /\ Walk(w, path)[2] = SeekPart(w, Walk(w, path)[1], path[2])
      <3>1. \A i \in 1..Len(path) : Walk(w, path)[i] = SeekPart(w, Walk(w, path)[i-1], path[i])
        BY <2>3, WalkStep
      <3>2. 1 \in 1..Len(path) /\ 2 \in 1..Len(path)
        BY <2>3
      <3>3. Walk(w, path)[1] = SeekPart(w, Walk(w, path)[1-1], path[1])
        BY <3>1, <3>2
      <3>4. Walk(w, path)[2] = SeekPart(w, Walk(w, path)[2-1], path[2])
        BY <3>1, <3>2
      <3>5. Walk(w, path)[0] = Root
        BY <2>3, WalkStep
      <3> QED BY <3>3, <3>4, <3>5
    <2>5. \A i \in 1..Len(path) : i = 1 \/ i = 2
      BY <2>3
    <2>6. \A i \in 1..Len(path) : ~Ends(w, Walk(w, path)[i-1], path[i])
      <3>1. ~Ends(w, Walk(w, path)[1-1], path[1]) /\ ~Ends(w, Walk(w, path)[2-1], path[2])
        BY <1>2, <2>2, <2>3, <2>4
      <3> QED BY <2>5, <3>1
    <2>7. kseek(w, path) = SeekPart(w, Tree(p), name)
      BY <1>2, <2>3, <2>4, <2>6 DEF kseek, WalkEnd
    <2> QED BY <2>2, <2>7 DEF path
  <1> QED BY <1>3, <1>4

\* They stay when the tree is extended.
LEMMA BootedExtends ==
  ASSUME NEW w, NEW p \in Nat, Sound(w, p), Booted(w, p), NEW z, Sound(z, p), Extends(w, z)
  PROVE  /\ Booted(z, p)
         /\ \A n \in Pid : HasDir(w, p, n) => HasDir(z, p, n)
  <1>1. /\ Len(w.nodes) \in Nat /\ Len(z.nodes) \in Nat /\ Len(w.nodes) <= Len(z.nodes)
        /\ 1 \in 1..Len(w.nodes) /\ p \in 1..Len(w.nodes)
    BY DEF Sound, Typed, Extends, Booted
  <1>2. ASSUME NEW i \in 1..Len(w.nodes), NEW a \in 1..Len(w.nodes[i].childs)
        PROVE  /\ a \in 1..Len(z.nodes[i].childs) /\ z.nodes[i].childs[a] = w.nodes[i].childs[a]
               /\ z.nodes[z.nodes[i].childs[a]].name = w.nodes[w.nodes[i].childs[a]].name
    <2> DEFINE c == w.nodes[i].childs
               d == z.nodes[i].childs
    <2>1. Kept(c, d) /\ c \in Seq(Nat) /\ d \in Seq(Nat)
      BY <1>1, NodeIs DEF Extends, Sound
    <2>2. c[a] \in i+1..Len(w.nodes)
      BY DEF Sound, Lists
    <2>3. c[a] \in 1..Len(w.nodes)
      BY <1>1, <2>2
    <2>4. z.nodes[c[a]].name = w.nodes[c[a]].name
      BY <2>3 DEF Extends
    <2> HIDE DEF c, d
    <2>5. a \in 1..Len(d) /\ d[a] = c[a]
      <3>1. Len(c) \in Nat /\ Len(d) \in Nat /\ a \in 1..Len(c)
        BY <2>1 DEF c
      <3> QED BY <2>1, <3>1 DEF Kept
    <2> QED BY <2>4, <2>5 DEF c, d
  <1>3. Booted(z, p)
    <2>1. p \in 2..Len(z.nodes)
      BY <1>1 DEF Booted
    <2>2. z.nodes[p].name = Proc /\ z.nodes[1].fs = "fat"
      BY <1>1 DEF Booted, Extends
    <2>3. PICK a \in 1..Len(w.nodes[1].childs) : w.nodes[1].childs[a] = p
      BY DEF Booted
    <2>4. a \in 1..Len(z.nodes[1].childs) /\ z.nodes[1].childs[a] = p
      BY <1>1, <1>2, <2>3
    <2> QED BY <2>1, <2>2, <2>4 DEF Booted
  <1>4. ASSUME NEW n \in Pid, HasDir(w, p, n) PROVE HasDir(z, p, n)
    <2>1. PICK a \in 1..Len(w.nodes[p].childs) : w.nodes[w.nodes[p].childs[a]].name = PidName[n]
      BY <1>4 DEF HasDir
    <2>2. a \in 1..Len(z.nodes[p].childs) /\ z.nodes[z.nodes[p].childs[a]].name = PidName[n]
      BY <1>1, <1>2, <2>1
    <2> QED BY <2>2 DEF HasDir
  <1> QED BY <1>3, <1>4

-----------------------------------------------------------------------------
(* Making several pipes.                                                   *)

\* All that is in the root is the directory of the devices.
OnlyDev(w) == \A a \in 1..Len(w.nodes[1].childs) : w.nodes[w.nodes[1].childs[a]].name = Dev

\* pipe_create makes at most one pipe, an empty one.
LEMMA PipeCreatePipes ==
  ASSUME NEW w, NEW p \in Nat, Sound(w, p), NEW path \in Seq(Name),
         w.nodes[1].fs = "fat" \/ (path # <<>> /\ path[1] \in {Dev, Proc})
  PROVE  /\ pipe_create(w, path).v.pipes \in {w.pipes, Append(w.pipes, 0)}
         /\ w.pipes \in Seq(0..Cap) => pipe_create(w, path).v.pipes \in Seq(0..Cap)
  <1> DEFINE at == kseek(w, path)
             c == IF at = NoNode THEN kcreate(w, path) ELSE [v |-> w, node |-> at]
             m == pipe_create(w, path)
  <1>1. IF at.id # 0 /\ (w.nodes[at.id].mountpoint \/ w.nodes[at.id].link)
        THEN m.v = w /\ m.node = NoNode
        ELSE Mounted(c.v, m.v, c.node.id)
    BY PipeCreateIs
  <1>2. c.v.pipes = w.pipes
    <2>1. CASE at = NoNode
      <3>1. Chained(w, kcreate(w, path).v, kseek(w, SubSeq(path, 1, Deepest(w, path))), path,
                    Deepest(w, path), Len(path))
        BY <2>1, NewPath
      <3> QED BY <2>1, <3>1 DEF Chained
    <2>2. CASE at # NoNode
      BY <2>2
    <2> QED BY <2>1, <2>2
  <1>3. m.v.pipes \in {w.pipes, Append(w.pipes, 0)}
    <2> HIDE DEF m, c, at
    <2> QED BY <1>1, <1>2 DEF Mounted
  <1>4. ASSUME w.pipes \in Seq(0..Cap) PROVE Append(w.pipes, 0) \in Seq(0..Cap)
    <2>1. 0 \in 0..Cap
      BY VfsAssumption
    <2> QED BY <1>4, <2>1
  <1> QED BY <1>3, <1>4

\* Devices' pipes leave nothing else in the root.
LEMMA DevicePipe ==
  ASSUME NEW w, NEW p \in Nat, Sound(w, p), OnlyDev(w), NEW name \in Name
  PROVE  OnlyDev(pipe_create(w, <<Dev, name>>).v)
  <1> DEFINE path == <<Dev, name>>
             at == kseek(w, path)
             c == IF at = NoNode THEN kcreate(w, path) ELSE [v |-> w, node |-> at]
             m == pipe_create(w, path)
             L == Len(w.nodes)
  <1>1. path \in Seq(Name) /\ path # <<>> /\ path[1] = Dev
    BY VfsAssumption
  <1> HIDE DEF path
  <1>2. /\ IsRef(c.v, c.node) /\ Sound(c.v, p)
        /\ IF at.id # 0 /\ (w.nodes[at.id].mountpoint \/ w.nodes[at.id].link)
           THEN m.v = w /\ m.node = NoNode
           ELSE Mounted(c.v, m.v, c.node.id) /\ c.node.id # 1
    BY <1>1, PipeCreateIs
  <1>3. L \in Nat /\ 1 \in 1..L
    BY DEF Sound, Typed
  <1>4. OnlyDev(c.v)
    <2>1. CASE at = NoNode
      <3> DEFINE k == Deepest(w, path)
                 r == kseek(w, SubSeq(path, 1, k))
                 z == kcreate(w, path).v
      <3>1. /\ Sound(z, p) /\ Chained(w, z, r, path, k, Len(path)) /\ k \in 0..Len(path)-1
            /\ r # NoNode /\ kseek(w, SubSeq(path, 1, k + 1)) = NoNode /\ Extends(w, z)
        BY <1>1, <2>1, NewPath
      <3>2. r.id = 1 <=> k = 0
        BY <1>1, <3>1, NothingThere
      <3>3. c.v = z
        BY <2>1
      <3> HIDE DEF c, z, r, k
      <3>4. /\ z.nodes[1] = IF 1 = r.id THEN [w.nodes[1] EXCEPT !.childs = Append(@, L + 1)] ELSE w.nodes[1]
            /\ \A i \in k+1..Len(path) :
                 z.nodes[L + (i - k)] = [NewNode(path[i], IF i = k + 1 THEN r ELSE Tree(L + (i - k) - 1))
                                           EXCEPT !.childs = IF i = Len(path) THEN <<>> ELSE <<L + (i - k) + 1>>]
        BY <1>3, <3>1 DEF Chained, L
      <3> DEFINE u == w.nodes[1].childs
                 d == z.nodes[1].childs
      <3>5. w.nodes[1] \in Nodes /\ u \in Seq(Nat)
        BY <1>3, NodeIs DEF Sound
      <3>6. \A a \in 1..Len(u) : u[a] \in 1..L /\ z.nodes[u[a]].name = Dev
        <4> SUFFICES ASSUME NEW a \in 1..Len(u) PROVE u[a] \in 1..L /\ z.nodes[u[a]].name = Dev
          OBVIOUS
        <4>1. u[a] \in 1+1..L
          BY <1>3 DEF Sound, Lists
        <4>2. u[a] \in 1..L
          BY <1>3, <4>1
        <4>3. z.nodes[u[a]].name = w.nodes[u[a]].name
          BY <3>1, <4>2 DEF Extends, L
        <4> QED BY <4>2, <4>3 DEF OnlyDev
      <3>7. d = IF r.id = 1 THEN Append(u, L + 1) ELSE u
        BY <3>4, <3>5 DEF Nodes
      <3>8. ASSUME r.id = 1 PROVE z.nodes[L + 1].name = Dev
        <4>1. k = 0 /\ Len(path) \in Nat /\ k + 1 \in k+1..Len(path) /\ L + ((k + 1) - k) = L + 1
          BY <1>1, <1>3, <3>1, <3>2, <3>8
        <4> DEFINE y == NewNode(path[k+1], IF k + 1 = k + 1 THEN r ELSE Tree(L + ((k + 1) - k) - 1))
                   e == IF k + 1 = Len(path) THEN <<>> ELSE <<L + ((k + 1) - k) + 1>>
        <4>2. z.nodes[L + ((k + 1) - k)] = [y EXCEPT !.childs = e]
          BY <3>4, <4>1
        <4>3. y.name = Dev
          BY <1>1, <4>1 DEF NewNode
        <4> HIDE DEF y, e, path
        <4>4. z.nodes[L + 1] = [y EXCEPT !.childs = e]
          BY <4>1, <4>2
        <4> QED BY <4>3, <4>4
      <3> HIDE DEF u, L
      <3>9. \A a \in 1..Len(d) : z.nodes[d[a]].name = Dev
        <4>1. CASE r.id = 1
          <5> HIDE DEF d
          <5>1. L + 1 \in Nat
            BY <1>3
          <5>2. /\ Len(Append(u, L + 1)) = Len(u) + 1 /\ Append(u, L + 1)[Len(u) + 1] = L + 1 /\ Len(u) \in Nat
                /\ \A a \in 1..Len(u) : Append(u, L + 1)[a] = u[a]
            BY <3>5, <5>1
          <5>3. \A a \in 1..Len(d) : a \in 1..Len(u) \/ a = Len(u) + 1
            BY <3>7, <4>1, <5>2
          <5> QED BY <3>6, <3>7, <3>8, <4>1, <5>2, <5>3
        <4>2. CASE r.id # 1
          <5> HIDE DEF d
          <5> QED BY <3>6, <3>7, <4>2
        <4> QED BY <4>1, <4>2
      <3> QED BY <3>3, <3>9 DEF OnlyDev
    <2>2. CASE at # NoNode
      BY <2>2
    <2> QED BY <2>1, <2>2
  <1> HIDE DEF c, m
  <1>5. CASE m.v = w
    BY <1>5 DEF m, path
  <1>6. CASE Mounted(c.v, m.v, c.node.id) /\ c.node.id # 1
    <2> DEFINE x == c.v
               z == m.v
    <2>1. Len(x.nodes) \in Nat /\ 1 \in 1..Len(x.nodes)
      BY <1>2 DEF Sound, Typed
    <2>2. z.nodes[1] = x.nodes[1]
      BY <1>6, <2>1 DEF Mounted
    <2>3. ASSUME NEW i \in 1..Len(x.nodes) PROVE z.nodes[i].name = x.nodes[i].name
      <3>1. CASE i = c.node.id
        <4>1. i # 0
          BY <2>1
        <4> QED BY <1>6, <3>1, <4>1 DEF Mounted
      <3>2. CASE i # c.node.id
        BY <1>6, <3>2 DEF Mounted
      <3> QED BY <3>1, <3>2
    <2> DEFINE u == x.nodes[1].childs
    <2>4. \A a \in 1..Len(u) : u[a] \in 1+1..Len(x.nodes)
      BY <1>2, <2>1 DEF Sound, Lists
    <2>5. \A a \in 1..Len(u) : u[a] \in 1..Len(x.nodes)
      BY <2>1, <2>4
    <2>6. \A a \in 1..Len(u) : x.nodes[u[a]].name = Dev
      BY <1>4 DEF OnlyDev
    <2> HIDE DEF x, z
    <2> QED BY <2>2, <2>3, <2>5, <2>6 DEF OnlyDev, z, m, path
  <1> QED BY <1>2, <1>5, <1>6

\* Pipes for n paths, one after the other.
PipedRound(w, paths, f, i) == IF i = 0 THEN w ELSE pipe_create(f[i-1], paths[i]).v
IsPiped(f, w, paths, n) == f = [i \in 0..n |-> PipedRound(w, paths, f, i)]

\* There is such a loop.
LEMMA PipedExists ==
  ASSUME NEW w, NEW paths, NEW n \in Nat
  PROVE  \E f : IsPiped(f, w, paths, n)
  <1> DEFINE S == {m \in 0..n : \E f : IsPiped(f, w, paths, m)}
  <1>1. 0 \in S
    <2> DEFINE f == [i \in 0..0 |-> w]
    <2>1. \A i \in 0..0 : i = 0
      OBVIOUS
    <2>2. IsPiped(f, w, paths, 0)
      BY <2>1 DEF IsPiped, PipedRound
    <2> QED BY <2>2
  <1>2. ASSUME NEW m \in 0+1..n, m - 1 \in S PROVE m \in S
    <2>1. PICK f : IsPiped(f, w, paths, m - 1)
      BY <1>2
    <2> DEFINE g == [i \in 0..m |-> PipedRound(w, paths, f, i)]
    <2>2. \A i \in 0..m-1 : g[i] = f[i]
      BY <2>1 DEF IsPiped
    <2>3. \A i \in 0..m : PipedRound(w, paths, g, i) = PipedRound(w, paths, f, i)
      <3>1. \A i \in 0..m : i = 0 \/ i - 1 \in 0..m-1
        OBVIOUS
      <3> HIDE DEF g
      <3> QED BY <2>2, <3>1 DEF PipedRound
    <2>4. g = [i \in 0..m |-> PipedRound(w, paths, g, i)]
      BY <2>3
    <2>5. m \in 0..n
      OBVIOUS
    <2> HIDE DEF g
    <2> QED BY <2>4, <2>5 DEF IsPiped
  <1> HIDE DEF S
  <1>3. \A i \in 0..n : i \in S
    BY <1>1, <1>2, LoopInduction
  <1>4. n \in 0..n
    OBVIOUS
  <1> QED BY <1>3, <1>4 DEF S

\* Pipes keep the tree sound and what is in it.
LEMMA PipedSound ==
  ASSUME NEW w, NEW p \in Nat, Sound(w, p), NEW n \in Nat, NEW paths \in [1..n -> Seq(Name)],
         NEW f, IsPiped(f, w, paths, n),
         w.nodes[1].fs = "fat" \/ \A i \in 1..n : paths[i] # <<>> /\ paths[i][1] \in {Dev, Proc}
  PROVE  /\ Sound(f[n], p) /\ Extends(w, f[n])
         /\ w.pipes \in Seq(0..Cap) => f[n].pipes \in Seq(0..Cap)
  <1> DEFINE S == {i \in 0..n : /\ Sound(f[i], p) /\ Extends(w, f[i])
                                /\ w.pipes \in Seq(0..Cap) => f[i].pipes \in Seq(0..Cap)}
  <1>1. \A i \in 0..n : f[i] = PipedRound(w, paths, f, i)
    BY DEF IsPiped
  <1>2. 0 \in S
    <2>1. Extends(w, w)
      BY ExtendsSelf
    <2>2. 0 \in 0..n /\ f[0] = w
      BY <1>1 DEF PipedRound
    <2> QED BY <2>1, <2>2
  <1>3. ASSUME NEW i \in 0+1..n, i - 1 \in S PROVE i \in S
    <2> DEFINE y == f[i-1]
               path == paths[i]
    <2>1. i \in 0..n /\ i \in 1..n /\ f[i] = pipe_create(y, path).v /\ path \in Seq(Name)
      BY <1>1 DEF PipedRound
    <2>2. Sound(y, p) /\ Extends(w, y) /\ (w.pipes \in Seq(0..Cap) => y.pipes \in Seq(0..Cap))
      BY <1>3
    <2> HIDE DEF y
    <2>3. 1 \in 1..Len(w.nodes)
      BY DEF Sound, Typed
    <2>4. w.nodes[1].fs = "fat" => y.nodes[1].fs = "fat"
      BY <2>2, <2>3 DEF Extends
    <2>5. y.nodes[1].fs = "fat" \/ (path # <<>> /\ path[1] \in {Dev, Proc})
      BY <2>1, <2>4
    <2> HIDE DEF path
    <2>6. Sound(f[i], p) /\ Extends(y, f[i])
      BY <2>1, <2>2, <2>5, PipeCreateIs
    <2>7. y.pipes \in Seq(0..Cap) => f[i].pipes \in Seq(0..Cap)
      BY <2>1, <2>2, <2>5, PipeCreatePipes
    <2>8. Extends(w, f[i])
      BY <2>2, <2>6, ExtendsTrans
    <2> QED BY <2>1, <2>2, <2>6, <2>7, <2>8
  <1> HIDE DEF S
  <1>4. \A i \in 0..n : i \in S
    BY <1>2, <1>3, LoopInduction
  <1>5. n \in 0..n
    OBVIOUS
  <1> QED BY <1>4, <1>5 DEF S

-----------------------------------------------------------------------------
(* After boot.                                                             *)

Blank == [nodes |-> <<NewNode(NoName, NoNode)>>, pipes |-> <<>>]
DevicePaths == [i \in 1..Len(Devices) |-> <<Dev, Devices[i]>>]
IsBoot(f) ==
  f = [i \in 0..Len(Devices) |->
         IF i = 0 THEN Blank ELSE pipe_create(f[i-1], <<Dev, Devices[i]>>).v]
Drivers == (CHOOSE f : IsBoot(f))[Len(Devices)]
Disk == [Drivers EXCEPT !.nodes[1].fs = "fat", !.nodes[1].mountpoint = TRUE, !.nodes[1].ent = RootEntry]

\* The node of the directory /proc.
ProcNode == Len(Boot.nodes)

\* The root alone is a sound tree.
LEMMA BlankSound ==
  Sound(Blank, 0) /\ OnlyDev(Blank) /\ Blank.pipes \in Seq(0..Cap)
  <1> DEFINE x == NewNode(NoName, NoNode)
  <1>1. x \in Nodes
    <2>1. NoNode \in Refs /\ <<>> \in Seq(Nat) /\ 0 \in Nat
      BY RefsAre
    <2> QED BY <2>1 DEF NewNode, Nodes
  <1>2. /\ x.childs = <<>> /\ x.parent = NoNode /\ x.to = NoNode /\ x.fs = "vfs" /\ x.pipe = 0
        /\ x.ent = NoEntry /\ NoNode.id = 0
    BY RefsAre DEF NewNode
  <1> HIDE DEF x
  <1>3. Blank.nodes = <<x>> /\ Blank.pipes = <<>> /\ Blank \in [nodes : Seq(Nodes), pipes : Seq(Nat)]
    BY <1>1 DEF Blank, x
  <1>4. Len(Blank.nodes) = 1 /\ Blank.nodes[1] = x /\ Len(Blank.pipes) = 0
    BY <1>3
  <1>5. \A a \in 1..Len(x.childs) : FALSE
    BY <1>2
  <1>6. Typed(Blank)
    BY <1>3, <1>4 DEF Typed
  <1>7. Fields(Blank, 1) /\ Lists(Blank, 1) /\ Unique(Blank, 0, 1) /\ Hides(Blank) /\ OnlyDev(Blank)
    BY <1>2, <1>4, <1>5 DEF Fields, Lists, Unique, Hides, OnlyDev
  <1>8. \A i \in 1..1 : i = 1
    OBVIOUS
  <1>9. Sound(Blank, 0)
    BY <1>4, <1>6, <1>7, <1>8 DEF Sound
  <1> QED BY <1>3, <1>7, <1>9

\* What the drivers make is sound.
LEMMA DriversSound ==
  Sound(Drivers, 0) /\ OnlyDev(Drivers) /\ Drivers.pipes \in Seq(0..Cap)
  <1> DEFINE N == Len(Devices)
             F == CHOOSE f : IsBoot(f)
  <1>1. N \in Nat /\ \A i \in 1..N : Devices[i] \in Name
    BY VfsAssumption
  <1>2. DevicePaths \in [1..N -> Seq(Name)] /\ \A i \in 1..N : DevicePaths[i] = <<Dev, Devices[i]>>
    BY <1>1, VfsAssumption DEF DevicePaths
  <1> HIDE DEF N
  <1>3. ASSUME NEW f PROVE IsBoot(f) <=> IsPiped(f, Blank, DevicePaths, N)
    <2>1. \A i \in 0..N : i = 0 \/ DevicePaths[i] = <<Dev, Devices[i]>>
      BY <1>1, <1>2
    <2>2. \A i \in 0..N :
            (IF i = 0 THEN Blank ELSE pipe_create(f[i-1], <<Dev, Devices[i]>>).v) = PipedRound(Blank, DevicePaths, f, i)
      BY <2>1 DEF PipedRound
    <2>3. [i \in 0..N |-> IF i = 0 THEN Blank ELSE pipe_create(f[i-1], <<Dev, Devices[i]>>).v]
            = [i \in 0..N |-> PipedRound(Blank, DevicePaths, f, i)]
      BY <2>2
    <2> QED BY <2>3 DEF IsBoot, IsPiped, N
  <1>4. IsPiped(F, Blank, DevicePaths, N)
    <2>1. \E f : IsBoot(f)
      BY <1>1, <1>3, PipedExists
    <2>2. IsBoot(F)
      BY <2>1
    <2> QED BY <1>3, <2>2
  <1> HIDE DEF F
  <1>5. \A i \in 1..N : DevicePaths[i] # <<>> /\ DevicePaths[i][1] \in {Dev, Proc}
    BY <1>2
  <1>6. \A i \in 0..N : Sound(F[i], 0) /\ (Blank.pipes \in Seq(0..Cap) => F[i].pipes \in Seq(0..Cap))
    <2> SUFFICES ASSUME NEW i \in 0..N
                 PROVE Sound(F[i], 0) /\ (Blank.pipes \in Seq(0..Cap) => F[i].pipes \in Seq(0..Cap))
      OBVIOUS
    <2> DEFINE g == [j \in 0..i |-> F[j]]
               q == [j \in 1..i |-> DevicePaths[j]]
    <2>1. F = [j \in 0..N |-> PipedRound(Blank, DevicePaths, F, j)]
      BY <1>4 DEF IsPiped
    <2>2. \A j \in 0..i : j \in 0..N /\ (j # 0 => j - 1 \in 0..i /\ j \in 1..i /\ j \in 1..N)
      BY <1>1
    <2>3. \A j \in 0..i : PipedRound(Blank, DevicePaths, F, j) = PipedRound(Blank, q, g, j)
      BY <2>2 DEF PipedRound
    <2>4. \A j \in 0..i : g[j] = PipedRound(Blank, q, g, j)
      <3>1. \A j \in 0..i : F[j] = PipedRound(Blank, DevicePaths, F, j)
        BY <2>1, <2>2
      <3> QED BY <2>3, <3>1
    <2>5. IsPiped(g, Blank, q, i)
      <3>1. g = [j \in 0..i |-> g[j]]
        OBVIOUS
      <3> HIDE DEF g
      <3> QED BY <2>4, <3>1 DEF IsPiped
    <2>6. q \in [1..i -> Seq(Name)] /\ \A j \in 1..i : q[j] # <<>> /\ q[j][1] \in {Dev, Proc}
      BY <1>2, <1>5, <2>2
    <2>7. i \in Nat /\ g[i] = F[i]
      BY <1>1
    <2> HIDE DEF g, q
    <2>8. Sound(g[i], 0) /\ (Blank.pipes \in Seq(0..Cap) => g[i].pipes \in Seq(0..Cap))
      BY <2>5, <2>6, <2>7, BlankSound, PipedSound
    <2> QED BY <2>7, <2>8
  <1> DEFINE S == {i \in 0..N : OnlyDev(F[i])}
  <1>7. F[0] = Blank /\ \A i \in 1..N : F[i] = pipe_create(F[i-1], <<Dev, Devices[i]>>).v
    <2>1. \A i \in 0..N : F[i] = PipedRound(Blank, DevicePaths, F, i)
      BY <1>4 DEF IsPiped
    <2>2. 0 \in 0..N /\ \A i \in 1..N : i \in 0..N /\ i # 0
      BY <1>1
    <2> QED BY <1>2, <2>1, <2>2 DEF PipedRound
  <1>8. 0 \in S
    BY <1>1, <1>7, BlankSound
  <1>9. ASSUME NEW i \in 0+1..N, i - 1 \in S PROVE i \in S
    <2>1. i - 1 \in 0..N /\ i \in 1..N /\ i \in 0..N /\ OnlyDev(F[i-1])
      BY <1>1, <1>9
    <2>2. Devices[i] \in Name
      BY <1>1, <2>1 DEF N
    <2>3. OnlyDev(pipe_create(F[i-1], <<Dev, Devices[i]>>).v)
      BY <1>6, <2>1, <2>2, DevicePipe
    <2> QED BY <1>7, <2>1, <2>3
  <1>10. \A i \in 0..N : i \in S
    <2> HIDE DEF S
    <2> QED BY <1>1, <1>8, <1>9, LoopInduction
  <1>11. N \in 0..N
    BY <1>1
  <1> QED BY <1>6, <1>10, <1>11, BlankSound DEF Drivers, F, N

\* The disk is mounted on the root.
LEMMA DiskSound ==
  Sound(Disk, 0) /\ OnlyDev(Disk) /\ Disk.pipes \in Seq(0..Cap) /\ Disk.nodes[1].fs = "fat"
  <1> DEFINE x == Drivers
             u == x.nodes[1]
             d == [u EXCEPT !.fs = "fat", !.mountpoint = TRUE, !.ent = RootEntry]
             s == [x.nodes EXCEPT ![1] = d]
             L == Len(x.nodes)
  <1>1. /\ x \in [nodes : Seq(Nodes), pipes : Seq(Nat)] /\ L \in Nat /\ 1 \in 1..L /\ Len(x.pipes) \in Nat
        /\ Sound(x, 0) /\ OnlyDev(x) /\ x.pipes \in Seq(0..Cap)
    BY DriversSound DEF Sound, Typed
  <1>2. u \in Nodes
    BY <1>1
  <1> HIDE DEF x
  <1>3. Disk = [x EXCEPT !.nodes[1].fs = "fat", !.nodes[1].mountpoint = TRUE, !.nodes[1].ent = RootEntry]
    BY DEF Disk, x
  <1>4. Disk = [x EXCEPT !.nodes = s]
    BY <1>1, <1>2, <1>3
  <1> HIDE DEF u
  <1>5. d \in Nodes
    BY <1>2 DEF Nodes
  <1>6. /\ d.name = u.name /\ d.parent = u.parent /\ d.childs = u.childs /\ d.fs = "fat"
        /\ d.mountpoint = TRUE /\ d.pipe = u.pipe /\ d.ent = RootEntry /\ d.link = u.link /\ d.to = u.to
    BY <1>2 DEF Nodes
  <1> HIDE DEF d
  <1>7. s \in Seq(Nodes) /\ Len(s) = L /\ s[1] = d /\ \A i \in 1..L : i # 1 => s[i] = x.nodes[i]
    BY <1>1, <1>5
  <1> HIDE DEF s
  <1>8. Disk \in [nodes : Seq(Nodes), pipes : Seq(Nat)] /\ Disk.nodes = s /\ Disk.pipes = x.pipes
    BY <1>1, <1>4, <1>7
  <1>9. Typed(Disk)
    BY <1>1, <1>7, <1>8 DEF Typed
  <1>10. ASSUME NEW i \in 1..Len(x.nodes)
         PROVE  /\ Disk.nodes[i].name = x.nodes[i].name /\ Disk.nodes[i].parent = x.nodes[i].parent
                /\ Disk.nodes[i].childs = x.nodes[i].childs /\ Fields(Disk, i)
    <2>1. Fields(x, i)
      BY <1>1 DEF Sound
    <2>2. CASE i = 1
      BY <1>1, <1>6, <1>7, <1>8, <2>1, <2>2 DEF Fields, u
    <2>3. CASE i # 1
      <3>1. Disk.nodes[i] = x.nodes[i]
        BY <1>7, <1>8, <2>3
      <3> QED BY <1>7, <1>8, <2>1, <3>1 DEF Fields
    <2> QED BY <2>2, <2>3
  <1>11. Sound(Disk, 0)
    BY <1>1, <1>7, <1>8, <1>9, <1>10, SameTree
  <1>12. OnlyDev(Disk)
    <2> DEFINE c == x.nodes[1].childs
    <2>1. \A a \in 1..Len(c) : c[a] \in 1+1..L
      BY <1>1 DEF Sound, Lists
    <2>2. \A a \in 1..Len(c) : c[a] \in 1..L /\ x.nodes[c[a]].name = Dev
      BY <1>1, <2>1 DEF OnlyDev
    <2>3. Disk.nodes[1].childs = c
      BY <1>1, <1>10
    <2> HIDE DEF c
    <2>4. \A a \in 1..Len(c) : Disk.nodes[c[a]].name = Dev
      BY <1>10, <2>2
    <2> QED BY <2>3, <2>4 DEF OnlyDev
  <1> QED BY <1>1, <1>6, <1>7, <1>8, <1>11, <1>12

\* After boot the tree is sound and has /proc.
LEMMA BootSound ==
  /\ Sound(Boot, ProcNode) /\ Booted(Boot, ProcNode) /\ Boot.pipes \in Seq(0..Cap) /\ ProcNode \in Nat
  <1> DEFINE path == <<Proc>>
             k == Deepest(Disk, path)
             r == kseek(Disk, SubSeq(path, 1, k))
             L == Len(Disk.nodes)
             z == Boot
  <1>1. z = kcreate(Disk, path).v
    BY DEF Boot, Disk, Drivers, IsBoot, Blank
  <1>2. path \in Seq(Name) /\ path # <<>> /\ Len(path) = 1 /\ path[1] = Proc
    BY VfsAssumption
  <1>3. Sound(Disk, 0) /\ OnlyDev(Disk) /\ Disk.pipes \in Seq(0..Cap) /\ Disk.nodes[1].fs = "fat"
    BY DiskSound
  <1>4. L \in Nat /\ L >= 1
    BY <1>3 DEF Sound, Typed
  <1>5. k = 0
    <2>1. k \in 0..Len(path)-1
      BY <1>2, <1>3, DeepestIs
    <2> QED BY <1>2, <2>1
  <1> HIDE DEF path
  <1>6. r = Root
    <2>1. SubSeq(path, 1, 0) = <<>> /\ SubSeq(path, 1, 0) \in Seq(Name)
      <3>1. 0 \in 0..Len(path)
        BY <1>2
      <3> QED BY <1>2, <1>3, <3>1, KseekPrefix, SubSeqEmpty
    <2>2. kseek(Disk, <<>>) = Root
      BY <1>3, <2>1, KseekIs
    <2> QED BY <1>5, <2>1, <2>2
  <1>7. r.id = 1
    BY <1>6 DEF Root
  <1>8. \A a \in 1..Len(Disk.nodes[1].childs) : Disk.nodes[Disk.nodes[1].childs[a]].name # path[1]
    BY <1>2, <1>3, VfsAssumption DEF OnlyDev
  <1>9. Sound(kcreate(Disk, path).v, 0) /\ Chained(Disk, kcreate(Disk, path).v, r, path, k, Len(path))
    <2>1. path[k+1] = path[1] /\ path[k+1] = Proc
      BY <1>2, <1>5
    <2>2. \A a \in 1..Len(Disk.nodes[r.id].childs) : Disk.nodes[Disk.nodes[r.id].childs[a]].name # path[k+1]
      BY <1>7, <1>8, <2>1
    <2> HIDE DEF k, r
    <2> QED BY <1>2, <1>3, <2>1, <2>2, KcreateIs, ZenonT(60) DEF k, r
  <1> HIDE DEF k, r
  <1>10. Sound(z, 0) /\ Chained(Disk, z, r, path, 0, 1)
    BY <1>1, <1>2, <1>5, <1>9
  <1> HIDE DEF z
  <1>11. /\ Len(z.nodes) = L + 1 /\ z.pipes = Disk.pipes
         /\ z.nodes[1] = [Disk.nodes[1] EXCEPT !.childs = Append(@, L + 1)]
         /\ z.nodes[L + 1].name = Proc
    <2>1. /\ Len(z.nodes) = L + (1 - 0) /\ z.pipes = Disk.pipes
          /\ \A i \in 1..L :
               z.nodes[i] = IF i = r.id THEN [Disk.nodes[i] EXCEPT !.childs = Append(@, L + 1)] ELSE Disk.nodes[i]
          /\ \A i \in 0+1..1 :
               z.nodes[L + (i - 0)] = [NewNode(path[i], IF i = 0 + 1 THEN r ELSE Tree(L + (i - 0) - 1))
                                          EXCEPT !.childs = IF i = 1 THEN <<>> ELSE <<L + (i - 0) + 1>>]
      BY <1>10 DEF Chained
    <2>2. 1 \in 1..L /\ 1 \in 0+1..1
      BY <1>4
    <2> DEFINE y == NewNode(path[1], IF 1 = 0 + 1 THEN r ELSE Tree(L + (1 - 0) - 1))
               e == IF 1 = 1 THEN <<>> ELSE <<L + (1 - 0) + 1>>
    <2>3. z.nodes[L + (1 - 0)] = [y EXCEPT !.childs = e]
      BY <2>1, <2>2
    <2>4. y.name = Proc
      BY <1>2 DEF NewNode
    <2>5. L + (1 - 0) = L + 1
      BY <1>4
    <2> HIDE DEF y, e, L
    <2>6. z.nodes[L + 1] = [y EXCEPT !.childs = e]
      BY <2>3, <2>5
    <2>7. z.nodes[L + 1].name = Proc
      <3> HIDE <2>1
      <3> QED BY <2>4, <2>6
    <2>8. z.nodes[1] = [Disk.nodes[1] EXCEPT !.childs = Append(@, L + 1)]
      BY <1>7, <2>1, <2>2
    <2> QED BY <2>1, <2>5, <2>7, <2>8
  <1>12. ProcNode = L + 1
    BY <1>11 DEF ProcNode, z
  <1>13. Sound(z, L + 1)
    <2>1. \A i \in 1..Len(z.nodes) : i # 0
      OBVIOUS
    <2>2. \A i \in 1..Len(z.nodes) : Unique(z, 0, i) => Unique(z, L + 1, i)
      BY <2>1 DEF Unique
    <2> QED BY <1>10, <2>2 DEF Sound
  <1>14. Booted(z, L + 1)
    <2> DEFINE u == Disk.nodes[1]
               c == u.childs
    <2>1. u \in Nodes /\ c \in Seq(Nat)
      <3>1. 1 \in 1..L
        BY <1>4
      <3> QED BY <1>3, <3>1, NodeIs DEF Sound
    <2>2. z.nodes[1] = [u EXCEPT !.childs = Append(c, L + 1)]
      BY <1>11
    <2> HIDE DEF u
    <2>3. z.nodes[1].fs = "fat" /\ z.nodes[1].childs = Append(c, L + 1)
      <3>1. u.fs = "fat"
        BY <1>3 DEF u
      <3> HIDE DEF c
      <3> QED BY <2>1, <2>2, <3>1 DEF Nodes
    <2> HIDE DEF c, L
    <2>4. Len(c) + 1 \in 1..Len(Append(c, L + 1)) /\ Append(c, L + 1)[Len(c) + 1] = L + 1
      BY <1>4, <2>1
    <2>5. L + 1 \in 2..L+1
      BY <1>4
    <2> QED BY <1>11, <2>3, <2>4, <2>5 DEF Booted
  <1> QED BY <1>3, <1>4, <1>11, <1>12, <1>13, <1>14 DEF z

-----------------------------------------------------------------------------
(* The steps of processes.                                                 *)

\* kcreate of a directory in /proc, whatever is there.
LEMMA PidCreate ==
  ASSUME NEW w, NEW p \in Nat, Sound(w, p), NEW path \in Seq(Name), path # <<>>,
         NEW k, k = Deepest(w, path), NEW r, r = kseek(w, SubSeq(path, 1, k)),
         r.id = p, r.id # 1, \E n \in Pid : path[k+1] = PidName[n]
  PROVE  Sound(kcreate(w, path).v, p) /\ Chained(w, kcreate(w, path).v, r, path, k, Len(path))
  BY KcreateIs

\* create_process's kcreate makes a directory of that name in /proc.
LEMMA PidDirMade ==
  ASSUME NEW w, NEW p \in Nat, Sound(w, p), Booted(w, p), NEW n \in Pid
  PROVE  LET z == kcreate(w, ProcPath(n)).v IN
         /\ Sound(z, p) /\ Extends(w, z) /\ z.pipes = w.pipes /\ HasDir(z, p, n)
         /\ Len(z.nodes) = Len(w.nodes) + 1 /\ z.nodes[Len(z.nodes)] = NewNode(PidName[n], Tree(p))
  <1> DEFINE path == ProcPath(n)
             k == Deepest(w, path)
             r == kseek(w, SubSeq(path, 1, k))
             L == Len(w.nodes)
             z == kcreate(w, path).v
  <1>1. path \in Seq(Name) /\ path # <<>> /\ Len(path) = 2 /\ path[1] = Proc /\ path[2] = PidName[n]
    BY VfsAssumption DEF ProcPath
  <1>2. L \in Nat /\ p \in 1..L /\ p # 1 /\ p # 0
    BY DEF Sound, Typed, Booted
  <1>3. SubSeq(path, 1, 1) = <<Proc>>
    <2>1. SubSeq(path, 1, 1) = [i \in 1..1 |-> path[i]]
      BY <1>1, SubSeqProperties
    <2>2. <<Proc>> = [i \in 1..1 |-> Proc]
      OBVIOUS
    <2>3. \A i \in 1..1 : path[i] = Proc
      BY <1>1
    <2> HIDE DEF path
    <2> QED BY <2>1, <2>2, <2>3
  <1>4. kseek(w, <<Proc>>) = Tree(p) /\ Tree(p) # NoNode /\ Tree(p).id = p
    BY <1>2, ProcDirsAre, RefsAre
  <1> HIDE DEF path
  <1>5. k = 1
    <2>1. k \in 0..Len(path)-1 /\ \A i \in 0..Len(path)-1 : kseek(w, SubSeq(path, 1, i)) # NoNode => i <= k
      BY <1>1, DeepestIs
    <2>2. 1 \in 0..Len(path)-1
      BY <1>1
    <2>3. 1 <= k
      BY <1>3, <1>4, <2>1, <2>2
    <2> QED BY <1>1, <2>1, <2>3
  <1>6. r = Tree(p) /\ r.id = p
    BY <1>3, <1>4, <1>5
  <1>7. Sound(z, p) /\ Chained(w, z, r, path, k, Len(path))
    <2>1. path[k+1] = PidName[n]
      BY <1>1, <1>5
    <2>2. r.id = p /\ r.id # 1 /\ \E m \in Pid : path[k+1] = PidName[m]
      BY <1>2, <1>6, <2>1
    <2> HIDE DEF k, r
    <2>4. k = Deepest(w, path) /\ r = kseek(w, SubSeq(path, 1, k))
      BY DEF k, r
    <2>5. Sound(kcreate(w, path).v, p) /\ Chained(w, kcreate(w, path).v, r, path, k, Len(path))
      <3> HIDE DEF z, L
      <3> QED BY <1>1, <2>2, <2>4, PidCreate
    <2> QED BY <2>5
  <1>8. Extends(w, z) /\ z.pipes = w.pipes
    <2>1. k \in Nat /\ Len(path) \in Nat /\ k < Len(path)
      BY <1>1, <1>5
    <2> HIDE DEF k, z
    <2> QED BY <1>7, <2>1, ChainedExtends
  <1>9. Chained(w, z, Tree(p), path, 1, 2)
    BY <1>1, <1>5, <1>6, <1>7
  <1> HIDE DEF z
  <1>10. /\ Len(z.nodes) = L + 1 /\ z.nodes[p] = [w.nodes[p] EXCEPT !.childs = Append(@, L + 1)]
         /\ z.nodes[L + 1] = NewNode(PidName[n], Tree(p))
    <2>1. /\ Len(z.nodes) = L + (2 - 1)
          /\ \A i \in 1..L :
               z.nodes[i] = IF i = Tree(p).id THEN [w.nodes[i] EXCEPT !.childs = Append(@, L + 1)] ELSE w.nodes[i]
          /\ \A i \in 1+1..2 :
               z.nodes[L + (i - 1)] = [NewNode(path[i], IF i = 1 + 1 THEN Tree(p) ELSE Tree(L + (i - 1) - 1))
                                          EXCEPT !.childs = IF i = 2 THEN <<>> ELSE <<L + (i - 1) + 1>>]
      BY <1>9 DEF Chained
    <2>2. 2 \in 1+1..2 /\ L + (2 - 1) = L + 1
      BY <1>2
    <2>3. z.nodes[p] = [w.nodes[p] EXCEPT !.childs = Append(@, L + 1)]
      BY <1>2, <1>4, <2>1
    <2>4. z.nodes[L + (2 - 1)] = [NewNode(path[2], Tree(p)) EXCEPT !.childs = <<>>]
      BY <2>1, <2>2
    <2>5. z.nodes[L + 1] = NewNode(PidName[n], Tree(p))
      BY <1>1, <2>2, <2>4, NoChilds
    <2> QED BY <2>1, <2>2, <2>3, <2>5
  <1>11. HasDir(z, p, n)
    <2> DEFINE u == w.nodes[p]
               c == u.childs
    <2>1. u \in Nodes /\ c \in Seq(Nat)
      BY <1>2, NodeIs DEF Sound
    <2>2. z.nodes[p] = [u EXCEPT !.childs = Append(c, L + 1)]
      BY <1>10
    <2> HIDE DEF u
    <2>3. z.nodes[p].childs = Append(c, L + 1)
      <3> HIDE DEF c
      <3> QED BY <2>1, <2>2 DEF Nodes
    <2> HIDE DEF c, L
    <2>4. Len(c) + 1 \in 1..Len(Append(c, L + 1)) /\ Append(c, L + 1)[Len(c) + 1] = L + 1
      BY <1>2, <2>1
    <2>5. z.nodes[L + 1].name = PidName[n]
      BY <1>10 DEF NewNode
    <2> QED BY <2>3, <2>4, <2>5 DEF HasDir
  <1> QED BY <1>7, <1>8, <1>10, <1>11 DEF z, path

\* create_process: the directory and its streams.
LEMMA WithProcDirIs ==
  ASSUME NEW w, NEW p \in Nat, Sound(w, p), Booted(w, p), NEW n \in Pid
  PROVE  LET z == WithProcDir(w, n) IN
         /\ Sound(z, p) /\ Booted(z, p) /\ Extends(w, z) /\ HasDir(z, p, n)
         /\ w.pipes \in Seq(0..Cap) => z.pipes \in Seq(0..Cap)
  <1> DEFINE N == Len(StreamOrder)
             y == kcreate(w, ProcPath(n)).v
             paths == [i \in 1..N |-> StreamPath(n, StreamOrder[i])]
             IsWith(f) == f = [i \in 0..N |-> IF i = 0 THEN y
                                              ELSE pipe_create(f[i-1], StreamPath(n, StreamOrder[i])).v]
             F == CHOOSE f : IsWith(f)
             z == WithProcDir(w, n)
  <1>1. z = F[N]
    BY DEF WithProcDir
  <1>2. N \in Nat /\ \A i \in 1..N : StreamOrder[i] \in Name
    BY VfsAssumption
  <1>3. \A i \in 1..N : StreamPath(n, StreamOrder[i]) \in Seq(Name)
    BY <1>2, VfsAssumption DEF StreamPath
  <1>4. Sound(y, p) /\ Extends(w, y) /\ y.pipes = w.pipes /\ HasDir(y, p, n)
    BY PidDirMade
  <1>5. Booted(y, p) /\ y.nodes[1].fs = "fat"
    <2>1. Booted(y, p)
      BY <1>4, BootedExtends
    <2> QED BY <2>1 DEF Booted
  <1> HIDE DEF y, N
  <1>6. paths \in [1..N -> Seq(Name)] /\ \A i \in 1..N : paths[i] = StreamPath(n, StreamOrder[i])
    BY <1>3
  <1> HIDE DEF paths
  <1>7. ASSUME NEW f PROVE IsWith(f) <=> IsPiped(f, y, paths, N)
    <2>1. \A i \in 0..N : i = 0 \/ paths[i] = StreamPath(n, StreamOrder[i])
      BY <1>2, <1>6
    <2>2. \A i \in 0..N :
            (IF i = 0 THEN y ELSE pipe_create(f[i-1], StreamPath(n, StreamOrder[i])).v) = PipedRound(y, paths, f, i)
      BY <2>1 DEF PipedRound
    <2>3. [i \in 0..N |-> IF i = 0 THEN y ELSE pipe_create(f[i-1], StreamPath(n, StreamOrder[i])).v]
            = [i \in 0..N |-> PipedRound(y, paths, f, i)]
      BY <2>2
    <2> QED BY <2>3 DEF IsPiped
  <1>8. IsPiped(F, y, paths, N)
    <2>1. \E f : IsWith(f)
      <3>1. PICK f : IsPiped(f, y, paths, N)
        BY <1>2, PipedExists
      <3> HIDE DEF IsWith
      <3> QED BY <1>7, <3>1
    <2>2. IsWith(F)
      <3> HIDE DEF IsWith
      <3> QED BY <2>1
    <2> HIDE DEF IsWith, F
    <2> QED BY <1>7, <2>2
  <1> HIDE DEF F, z
  <1>9. /\ Sound(F[N], p) /\ Extends(y, F[N])
        /\ y.pipes \in Seq(0..Cap) => F[N].pipes \in Seq(0..Cap)
    BY <1>2, <1>4, <1>5, <1>6, <1>8, PipedSound
  <1>10. Extends(w, z)
    BY <1>1, <1>4, <1>9, ExtendsTrans
  <1>11. Booted(z, p) /\ HasDir(z, p, n)
    BY <1>1, <1>4, <1>5, <1>9, BootedExtends
  <1> QED BY <1>1, <1>4, <1>9, <1>10, <1>11 DEF z

\* What is left of a list after one element is removed, in the same order.
LEMMA RemovedIs ==
  ASSUME NEW s \in Seq(Nat), NEW i \in 0..Len(s),
         NEW d, i = 0 => d = Front(s), i # 0 => d = RemoveAt(s, i)
  PROVE  /\ d \in Seq(Nat)
         /\ \A a \in 1..Len(d) : \E b \in 1..Len(s) : d[a] = s[b]
         /\ (\A a, b \in 1..Len(s) : a < b => s[a] < s[b]) => \A a, b \in 1..Len(d) : a < b => d[a] < d[b]
  <1> DEFINE L == Len(s)
  <1>1. L \in Nat /\ \A a \in 1..L : s[a] \in Nat
    OBVIOUS
  <1>2. CASE i = 0
    <2>1. d = SubSeq(s, 1, L - 1)
      BY <1>2 DEF Front
    <2>2. \A a \in 1..L-1 : s[a] \in Nat
      BY <1>1
    <2> HIDE DEF L
    <2>3. /\ d \in Seq(Nat) /\ Len(d) = IF 1 <= L - 1 THEN (L - 1) - 1 + 1 ELSE 0
          /\ \A a \in 1..(L-1)-1+1 : d[a] = s[1+a-1]
      BY <1>1, <2>1, <2>2, SubSeqProperties
    <2>4. \A a \in 1..Len(d) : a \in 1..L /\ d[a] = s[a]
      BY <1>1, <2>3
    <2> HIDE <2>1
    <2> QED BY <2>3, <2>4 DEF L
  <1>3. CASE i # 0
    <2> DEFINE x == SubSeq(s, 1, i - 1)
               y == SubSeq(s, i + 1, L)
    <2>1. d = x \o y
      BY <1>3 DEF RemoveAt
    <2>2. i \in 1..L /\ (\A a \in 1..i-1 : s[a] \in Nat) /\ \A a \in i+1..L : s[a] \in Nat
      BY <1>1, <1>3
    <2> HIDE DEF L
    <2>3. /\ x \in Seq(Nat) /\ Len(x) = i - 1
          /\ \A a \in 1..i-1 : x[a] = s[a]
      <3>1. /\ x \in Seq(Nat) /\ Len(x) = IF 1 <= i - 1 THEN (i - 1) - 1 + 1 ELSE 0
            /\ \A a \in 1..(i-1)-1+1 : x[a] = s[1+a-1]
        BY <1>1, <2>2, SubSeqProperties
      <3> HIDE DEF x
      <3> QED BY <1>1, <2>2, <3>1
    <2>4. /\ y \in Seq(Nat) /\ Len(y) = L - i
          /\ \A a \in 1..L-i : y[a] = s[i+a]
      <3>1. /\ y \in Seq(Nat) /\ Len(y) = IF i + 1 <= L THEN L - (i + 1) + 1 ELSE 0
            /\ \A a \in 1..L-(i+1)+1 : y[a] = s[(i+1)+a-1]
        <4>1. i + 1 \in Int /\ L \in Int
          BY <1>1, <2>2
        <4> QED BY <2>2, <4>1, SubSeqProperties
      <3> HIDE DEF y
      <3>2. \A a \in 1..L-i : a \in 1..L-(i+1)+1 /\ (i+1)+a-1 = i + a
        BY <1>1, <2>2
      <3> QED BY <1>1, <2>2, <3>1, <3>2
    <2> HIDE DEF x, y
    <2>5. /\ d \in Seq(Nat) /\ Len(d) = L - 1
          /\ \A a \in 1..L-1 : d[a] = IF a < i THEN s[a] ELSE s[a + 1]
      <3>1. /\ x \o y \in Seq(Nat) /\ Len(x \o y) = Len(x) + Len(y)
            /\ \A a \in 1..Len(x)+Len(y) : (x \o y)[a] = IF a <= Len(x) THEN x[a] ELSE y[a - Len(x)]
        BY <2>3, <2>4, ConcatProperties
      <3>2. \A a \in 1..L-1 : /\ a \in 1..Len(x)+Len(y) /\ (a < i <=> a <= Len(x)) /\ (a < i => a \in 1..i-1)
                              /\ ~(a < i) => a - Len(x) \in 1..L-i /\ i + (a - Len(x)) = a + 1
        BY <1>1, <2>2, <2>3, <2>4
      <3>3. Len(x) + Len(y) = L - 1
        BY <1>1, <2>2, <2>3, <2>4
      <3>4. ASSUME NEW a \in 1..L-1 PROVE (x \o y)[a] = IF a < i THEN s[a] ELSE s[a + 1]
        <4>1. CASE a < i
          BY <2>3, <3>1, <3>2, <4>1
        <4>2. CASE ~(a < i)
          <5>1. (x \o y)[a] = y[a - Len(x)]
            BY <3>1, <3>2, <4>2
          <5>2. y[a - Len(x)] = s[i + (a - Len(x))]
            BY <2>4, <3>2, <4>2
          <5> QED BY <3>2, <4>2, <5>1, <5>2
        <4> QED BY <4>1, <4>2
      <3> QED BY <2>1, <3>1, <3>3, <3>4
    <2> HIDE <2>1
    <2>6. \A a \in 1..Len(d) : \E b \in 1..L : d[a] = s[b]
      <3> SUFFICES ASSUME NEW a \in 1..Len(d) PROVE \E b \in 1..L : d[a] = s[b]
        OBVIOUS
      <3>1. a \in 1..L-1 /\ a \in 1..L /\ a + 1 \in 1..L
        BY <1>1, <2>5
      <3> QED BY <2>5, <3>1
    <2>7. ASSUME \A a, b \in 1..L : a < b => s[a] < s[b], NEW a \in 1..Len(d), NEW b \in 1..Len(d), a < b
          PROVE  d[a] < d[b]
      <3>1. a \in 1..L-1 /\ b \in 1..L-1 /\ a \in 1..L /\ b \in 1..L /\ a + 1 \in 1..L /\ b + 1 \in 1..L
        BY <1>1, <2>5
      <3>2. d[a] = IF a < i THEN s[a] ELSE s[a + 1]
        BY <2>5, <3>1
      <3>3. d[b] = IF b < i THEN s[b] ELSE s[b + 1]
        BY <2>5, <3>1
      <3>4. a < b + 1 /\ a + 1 < b + 1 /\ (~(a < i) => ~(b < i))
        BY <2>2, <2>7, <3>1
      <3> QED BY <2>7, <3>1, <3>2, <3>3, <3>4
    <2> QED BY <2>5, <2>6, <2>7 DEF L
  <1> QED BY <1>2, <1>3

\* z is w, but q has lost some of its children.
Pruned(w, z, q) ==
  /\ Typed(z) /\ z.pipes = w.pipes /\ Len(z.nodes) = Len(w.nodes)
  /\ \A i \in 1..Len(w.nodes) :
       /\ i # q => z.nodes[i] = w.nodes[i]
       /\ z.nodes[i].name = w.nodes[i].name /\ z.nodes[i].parent = w.nodes[i].parent
       /\ z.nodes[i].fs = w.nodes[i].fs /\ z.nodes[i].mountpoint = w.nodes[i].mountpoint
       /\ z.nodes[i].link = w.nodes[i].link /\ z.nodes[i].pipe = w.nodes[i].pipe
       /\ z.nodes[i].to = w.nodes[i].to /\ z.nodes[i].ent = w.nodes[i].ent
  /\ LET c == w.nodes[q].childs
         d == z.nodes[q].childs
     IN  /\ \A a \in 1..Len(d) : \E b \in 1..Len(c) : d[a] = c[b]
         /\ \A a, b \in 1..Len(d) : a < b => d[a] < d[b]

\* It keeps the tree sound.
LEMMA PrunedSound ==
  ASSUME NEW w, NEW p, Sound(w, p), NEW q \in 1..Len(w.nodes), NEW z, Pruned(w, z, q)
  PROVE  /\ Sound(z, p)
         /\ q # 1 /\ Booted(w, p) => Booted(z, p)
         /\ \A n \in Pid : p \in 1..Len(w.nodes) /\ q # p /\ HasDir(w, p, n) => HasDir(z, p, n)
  <1> DEFINE L == Len(w.nodes)
  <1>1. L \in Nat /\ 1 \in 1..L /\ Len(z.nodes) = L /\ Typed(z) /\ z.pipes = w.pipes
    BY DEF Sound, Typed, Pruned
  <1>2. ASSUME NEW i \in 1..L
        PROVE  /\ \A a \in 1..Len(z.nodes[i].childs) :
                     \E b \in 1..Len(w.nodes[i].childs) : z.nodes[i].childs[a] = w.nodes[i].childs[b]
               /\ \A a, b \in 1..Len(z.nodes[i].childs) : a < b => z.nodes[i].childs[a] < z.nodes[i].childs[b]
    <2>1. CASE i = q
      BY <2>1 DEF Pruned
    <2>2. CASE i # q
      <3>1. z.nodes[i] = w.nodes[i]
        BY <2>2 DEF Pruned
      <3>2. \A a, b \in 1..Len(w.nodes[i].childs) : a < b => w.nodes[i].childs[a] < w.nodes[i].childs[b]
        BY DEF Sound, Lists
      <3> QED BY <3>1, <3>2
    <2> QED BY <2>1, <2>2
  <1>3. ASSUME NEW i \in 1..L
        PROVE  /\ z.nodes[i].name = w.nodes[i].name /\ z.nodes[i].parent = w.nodes[i].parent
               /\ z.nodes[i].fs = w.nodes[i].fs /\ z.nodes[i].mountpoint = w.nodes[i].mountpoint
               /\ z.nodes[i].pipe = w.nodes[i].pipe
               /\ z.nodes[i].to = w.nodes[i].to /\ z.nodes[i].ent = w.nodes[i].ent
    BY DEF Pruned
  <1>4. ASSUME NEW i \in 1..L PROVE Fields(z, i)
    <2>1. Fields(w, i)
      BY DEF Sound
    <2> QED BY <1>1, <1>3, <2>1 DEF Fields
  <1>5. ASSUME NEW i \in 1..L
        PROVE  Lists(z, i) /\ Unique(z, p, i) /\ (i = 1 => Hides(z))
    <2> DEFINE c == w.nodes[i].childs
               d == z.nodes[i].childs
    <2>1. /\ \A a \in 1..Len(c) : c[a] \in i+1..L /\ w.nodes[c[a]].parent = Tree(i)
          /\ \A a, b \in 1..Len(c) : w.nodes[c[a]].name = w.nodes[c[b]].name =>
               a = b \/ (i = p /\ \E n \in Pid : w.nodes[c[a]].name = PidName[n])
      BY DEF Sound, Lists, Unique
    <2>2. i = 1 => \A a \in 1..Len(c) : w.nodes[c[a]].name \in {Dev, Proc}
                                       \/ fat_seek(w.nodes[c[a]].name, RootEntry) = NoEntry
      BY DEF Sound, Hides
    <2>3. d \in Seq(Nat)
      BY <1>1, NodeIs
    <2>4. /\ \A a \in 1..Len(d) : \E b \in 1..Len(c) : d[a] = c[b]
          /\ \A a, b \in 1..Len(d) : a < b => d[a] < d[b]
      BY <1>2
    <2>9. d = z.nodes[i].childs
      OBVIOUS
    <2> HIDE DEF c, d
    <2>5. \A a \in 1..Len(c) : c[a] \in 1..L
      BY <1>1, <2>1
    <2>6. ASSUME NEW a \in 1..Len(d)
          PROVE  /\ d[a] \in i+1..L /\ z.nodes[d[a]].parent = Tree(i)
                 /\ z.nodes[d[a]].name = w.nodes[d[a]].name
                 /\ i = 1 => z.nodes[d[a]].name \in {Dev, Proc} \/ fat_seek(z.nodes[d[a]].name, RootEntry) = NoEntry
      <3>1. PICK b \in 1..Len(c) : d[a] = c[b]
        BY <2>4
      <3>2. c[b] \in i+1..L /\ w.nodes[c[b]].parent = Tree(i) /\ c[b] \in 1..L
        BY <2>1, <2>5
      <3>3. z.nodes[c[b]].name = w.nodes[c[b]].name /\ z.nodes[c[b]].parent = w.nodes[c[b]].parent
        BY <1>3, <3>2
      <3>4. i = 1 => w.nodes[c[b]].name \in {Dev, Proc} \/ fat_seek(w.nodes[c[b]].name, RootEntry) = NoEntry
        BY <2>2
      <3> QED BY <3>1, <3>2, <3>3, <3>4
    <2>7. Lists(z, i) /\ (i = 1 => Hides(z))
      BY <1>1, <2>4, <2>6, <2>9 DEF Lists, Hides
    <2>8. Unique(z, p, i)
      <3> SUFFICES ASSUME NEW a \in 1..Len(d), NEW b \in 1..Len(d), z.nodes[d[a]].name = z.nodes[d[b]].name
                   PROVE  a = b \/ (i = p /\ \E n \in Pid : z.nodes[d[a]].name = PidName[n])
        BY <2>9 DEF Unique
      <3>1. PICK e \in 1..Len(c) : d[a] = c[e]
        BY <2>4
      <3>2. PICK f \in 1..Len(c) : d[b] = c[f]
        BY <2>4
      <3>3. e = f \/ (i = p /\ \E n \in Pid : w.nodes[c[e]].name = PidName[n])
        BY <2>1, <2>6, <3>1, <3>2
      <3>4. ASSUME e = f PROVE a = b
        <4>1. d[a] = d[b]
          BY <3>1, <3>2, <3>4
        <4>2. a \in Nat /\ b \in Nat
          BY <2>3
        <4>3. (a < b => d[a] < d[b]) /\ (b < a => d[b] < d[a])
          BY <2>4
        <4>4. d[a] \in Nat
          BY <2>3
        <4> QED BY <4>1, <4>2, <4>3, <4>4
      <3> QED BY <2>6, <3>1, <3>3, <3>4
    <2> QED BY <2>7, <2>8
  <1>6. Sound(z, p)
    BY <1>1, <1>4, <1>5 DEF Sound
  <1>7. ASSUME q # 1, Booted(w, p) PROVE Booted(z, p)
    <2>1. z.nodes[1] = w.nodes[1] /\ p \in 1..L
      BY <1>1, <1>7 DEF Pruned, Booted
    <2>2. z.nodes[p].name = w.nodes[p].name
      BY <1>3, <2>1
    <2> QED BY <1>1, <1>7, <2>1, <2>2 DEF Booted
  <1>8. ASSUME NEW n \in Pid, p \in 1..L, q # p, HasDir(w, p, n) PROVE HasDir(z, p, n)
    <2> DEFINE c == w.nodes[p].childs
    <2>1. PICK a \in 1..Len(c) : w.nodes[c[a]].name = PidName[n]
      BY <1>8 DEF HasDir
    <2>2. z.nodes[p] = w.nodes[p]
      BY <1>8 DEF Pruned
    <2>3. c[a] \in p+1..L
      BY <1>8 DEF Sound, Lists
    <2>4. c[a] \in 1..L
      BY <1>1, <1>8, <2>3
    <2>5. z.nodes[c[a]].name = PidName[n]
      BY <1>3, <2>1, <2>4
    <2> QED BY <2>2, <2>5 DEF HasDir
  <1> QED BY <1>6, <1>7, <1>8

\* A tree has lost nothing of itself.
LEMMA PrunedSelf ==
  ASSUME NEW w, NEW p, Sound(w, p), NEW q \in 1..Len(w.nodes)
  PROVE  Pruned(w, w, q)
  BY DEF Pruned, Sound, Lists

\* Losing twice is losing.
LEMMA PrunedTrans ==
  ASSUME NEW u, NEW w, NEW z, NEW q \in 1..Len(u.nodes), Pruned(u, w, q), Pruned(w, z, q)
  PROVE  Pruned(u, z, q)
  <1>1. Typed(z) /\ z.pipes = u.pipes /\ Len(z.nodes) = Len(u.nodes) /\ Len(w.nodes) = Len(u.nodes)
    BY DEF Pruned
  <1>2. ASSUME NEW i \in 1..Len(u.nodes)
        PROVE  /\ i # q => z.nodes[i] = u.nodes[i]
               /\ z.nodes[i].name = u.nodes[i].name /\ z.nodes[i].parent = u.nodes[i].parent
               /\ z.nodes[i].fs = u.nodes[i].fs /\ z.nodes[i].mountpoint = u.nodes[i].mountpoint
               /\ z.nodes[i].link = u.nodes[i].link /\ z.nodes[i].pipe = u.nodes[i].pipe
               /\ z.nodes[i].to = u.nodes[i].to /\ z.nodes[i].ent = u.nodes[i].ent
    BY <1>1 DEF Pruned
  <1>3. /\ \A a \in 1..Len(z.nodes[q].childs) :
             \E b \in 1..Len(u.nodes[q].childs) : z.nodes[q].childs[a] = u.nodes[q].childs[b]
        /\ \A a, b \in 1..Len(z.nodes[q].childs) : a < b => z.nodes[q].childs[a] < z.nodes[q].childs[b]
    <2> DEFINE c == u.nodes[q].childs
               d == w.nodes[q].childs
               e == z.nodes[q].childs
    <2>1. /\ \A a \in 1..Len(d) : \E b \in 1..Len(c) : d[a] = c[b]
          /\ \A a \in 1..Len(e) : \E b \in 1..Len(d) : e[a] = d[b]
          /\ \A a, b \in 1..Len(e) : a < b => e[a] < e[b]
      BY DEF Pruned
    <2> HIDE DEF c, d, e
    <2>2. ASSUME NEW a \in 1..Len(e) PROVE \E b \in 1..Len(c) : e[a] = c[b]
      <3>1. PICK f \in 1..Len(d) : e[a] = d[f]
        BY <2>1
      <3>2. PICK b \in 1..Len(c) : d[f] = c[b]
        BY <2>1
      <3> QED BY <3>1, <3>2
    <2>3. /\ \A a \in 1..Len(e) : \E b \in 1..Len(c) : e[a] = c[b]
          /\ \A a, b \in 1..Len(e) : a < b => e[a] < e[b]
      BY <2>1, <2>2
    <2> QED BY <2>3 DEF c, e
  <1> QED BY <1>1, <1>2, <1>3 DEF Pruned

\* kremove takes at most one child from the node's directory.
LEMMA RemoveIs ==
  ASSUME NEW w, NEW p, Sound(w, p), NEW q \in 1..Len(w.nodes), NEW m \in 1..Len(w.nodes),
         w.nodes[m].parent = Tree(q)
  PROVE  Pruned(w, kremove(w, m), q)
  <1> DEFINE u == w.nodes[q]
             old == u.childs
             at == FirstChild(w, q, w.nodes[m].name)
             new == IF at = 0 THEN Front(old) ELSE RemoveAt(old, at)
             z == vfs_remove(w, m)
             L == Len(w.nodes)
  <1>1. /\ Typed(w) /\ w \in [nodes : Seq(Nodes), pipes : Seq(Nat)] /\ L \in Nat /\ L >= 1
        /\ u \in Nodes /\ old \in Seq(Nat)
    BY NodeIs DEF Sound, Typed
  <1>2. at \in 0..Len(old)
    <2>1. Len(old) \in Nat /\ Typed(w)
      BY <1>1
    <2>2. at # 0 => at \in 1..Len(w.nodes[q].childs)
      BY <2>1, FirstChildIs
    <2> HIDE DEF at
    <2> QED BY <2>1, <2>2
  <1>3. z = [w EXCEPT !.nodes[q].childs = IF at = 0 THEN Front(@) ELSE RemoveAt(@, at)]
    <2>1. Tree(q).id = q
      BY RefsAre
    <2> QED BY <2>1 DEF vfs_remove
  <1> DEFINE e == [u EXCEPT !.childs = new]
             t == [w.nodes EXCEPT ![q] = e]
  <1>4. z = [w EXCEPT !.nodes = t]
    <2> HIDE DEF z, at
    <2> QED BY <1>1, <1>3
  <1>5. /\ new \in Seq(Nat) /\ \A a \in 1..Len(new) : \E b \in 1..Len(old) : new[a] = old[b]
        /\ \A a, b \in 1..Len(new) : a < b => new[a] < new[b]
    <2>1. \A a, b \in 1..Len(old) : a < b => old[a] < old[b]
      BY DEF Sound, Lists
    <2> HIDE DEF at, old
    <2>2. (at = 0 => new = Front(old)) /\ (at # 0 => new = RemoveAt(old, at))
      OBVIOUS
    <2> HIDE DEF new
    <2>3. old \in Seq(Nat)
      BY <1>1
    <2>4. /\ new \in Seq(Nat)
          /\ \A a \in 1..Len(new) : \E b \in 1..Len(old) : new[a] = old[b]
          /\ (\A a, b \in 1..Len(old) : a < b => old[a] < old[b]) => \A a, b \in 1..Len(new) : a < b => new[a] < new[b]
      BY <1>2, <2>2, <2>3, RemovedIs
    <2> QED BY <2>1, <2>4
  <1> HIDE DEF z, new
  <1>6. /\ e \in Nodes /\ e.name = u.name /\ e.parent = u.parent /\ e.fs = u.fs /\ e.mountpoint = u.mountpoint
        /\ e.link = u.link /\ e.pipe = u.pipe /\ e.to = u.to /\ e.ent = u.ent /\ e.childs = new
    <2> HIDE DEF u
    <2> QED BY <1>1, <1>5 DEF Nodes
  <1> HIDE DEF e
  <1>7. t \in Seq(Nodes) /\ Len(t) = L /\ t[q] = e /\ \A j \in 1..L : j # q => t[j] = w.nodes[j]
    BY <1>1, <1>6
  <1> HIDE DEF t
  <1>8. z \in [nodes : Seq(Nodes), pipes : Seq(Nat)] /\ z.nodes = t /\ z.pipes = w.pipes
    BY <1>1, <1>4, <1>7
  <1>9. Pruned(w, z, q)
    <2>1. Typed(z) /\ Len(z.nodes) = L
      BY <1>1, <1>7, <1>8 DEF Typed
    <2>2. ASSUME NEW j \in 1..L
          PROVE  /\ j # q => z.nodes[j] = w.nodes[j]
                 /\ z.nodes[j].name = w.nodes[j].name /\ z.nodes[j].parent = w.nodes[j].parent
                 /\ z.nodes[j].fs = w.nodes[j].fs /\ z.nodes[j].mountpoint = w.nodes[j].mountpoint
                 /\ z.nodes[j].link = w.nodes[j].link /\ z.nodes[j].pipe = w.nodes[j].pipe
                 /\ z.nodes[j].to = w.nodes[j].to /\ z.nodes[j].ent = w.nodes[j].ent
      <3>1. CASE j = q
        BY <1>6, <1>7, <1>8, <3>1 DEF u
      <3>2. CASE j # q
        BY <1>7, <1>8, <3>2
      <3> QED BY <3>1, <3>2
    <2>3. z.nodes[q].childs = new
      BY <1>6, <1>7, <1>8
    <2> QED BY <1>5, <1>8, <2>1, <2>2, <2>3 DEF Pruned, old, u
  <1>10. Pruned(w, w, q)
    BY PrunedSelf
  <1> QED BY <1>9, <1>10 DEF kremove, z

\* The pipe behind a reference is one of the pipes.
LEMMA PipeOfIs ==
  ASSUME NEW w, NEW p, Sound(w, p), NEW r, IsRef(w, r)
  PROVE  PipeOf(w, r) \in 0..Len(w.pipes)
  <1> DEFINE b == Behind(w, r)
  <1>1. Len(w.nodes) \in Nat /\ Len(w.pipes) \in Nat /\ Typed(w)
    BY DEF Sound, Typed
  <1>2. ASSUME NEW i \in 1..Len(w.nodes)
        PROVE  /\ w.nodes[i].to.id \in Nat /\ w.nodes[i].to.id <= Len(w.nodes)
               /\ w.nodes[i].pipe \in 0..Len(w.pipes)
    <2>1. w.nodes[i] \in Nodes /\ Fields(w, i)
      BY <1>1, NodeIs DEF Sound
    <2>2. w.nodes[i].to \in Refs /\ w.nodes[i].pipe \in Nat
      BY <2>1 DEF Nodes
    <2> QED BY <1>1, <2>1, <2>2 DEF Fields, Refs
  <1>3. r.id \in Nat /\ r.id <= Len(w.nodes)
    BY DEF IsRef, Refs
  <1>4. b.id \in Nat /\ b.id <= Len(w.nodes)
    <2>1. b = IF r.id # 0 /\ w.nodes[r.id].link THEN w.nodes[r.id].to ELSE r
      BY DEF Behind, IsTree
    <2>2. r.id # 0 => r.id \in 1..Len(w.nodes)
      BY <1>1, <1>3
    <2> HIDE DEF b
    <2> QED BY <1>2, <1>3, <2>1, <2>2
  <1>5. PipeOf(w, r) = IF b.id # 0 /\ w.nodes[b.id].fs = "pipe" THEN w.nodes[b.id].pipe ELSE 0
    BY DEF PipeOf, IsTree
  <1> HIDE DEF b
  <1>6. b.id # 0 => b.id \in 1..Len(w.nodes)
    BY <1>1, <1>4
  <1> QED BY <1>1, <1>2, <1>5, <1>6

\* One round of clean_process's loop.
CleanRound(w, cs, f, i) ==
  IF i = 0 THEN [v |-> w, stopped |-> FALSE]
  ELSE LET s == f[i-1] IN
       IF s.stopped THEN s ELSE TestAndRemove(s.v, cs[i])
IsClean(f, w, cs, n) == f = [i \in 0..n |-> CleanRound(w, cs, f, i)]

\* RemoveStreams is that loop.
LEMMA CleanIs ==
  ASSUME NEW w, NEW n, NEW cs, cs = w.nodes[kseek(w, ProcPath(n)).id].childs, Len(cs) \in Nat
  PROVE  \E f : IsClean(f, w, cs, Len(cs)) /\ RemoveStreams(w, n) = f[Len(cs)]
  <1> DEFINE N == Len(cs)
             S == {m \in 0..N : \E f : IsClean(f, w, cs, m)}
             F == CHOOSE f : IsClean(f, w, cs, N)
  <1>1. RemoveStreams(w, n) = F[N]
    BY DEF RemoveStreams, IsClean, CleanRound
  <1>0. N \in Nat
    OBVIOUS
  <1> HIDE DEF N
  <1>2. 0 \in S
    <2> DEFINE f == [i \in 0..0 |-> [v |-> w, stopped |-> FALSE]]
    <2>1. \A i \in 0..0 : i = 0
      OBVIOUS
    <2>2. IsClean(f, w, cs, 0)
      BY <2>1 DEF IsClean, CleanRound
    <2> QED BY <1>0, <2>2
  <1>3. ASSUME NEW m \in 0+1..N, m - 1 \in S PROVE m \in S
    <2>1. PICK f : IsClean(f, w, cs, m - 1)
      BY <1>3
    <2> DEFINE g == [i \in 0..m |-> CleanRound(w, cs, f, i)]
    <2>2. \A i \in 0..m-1 : g[i] = f[i]
      BY <1>0, <2>1 DEF IsClean
    <2>3. \A i \in 0..m : CleanRound(w, cs, g, i) = CleanRound(w, cs, f, i)
      <3>1. \A i \in 0..m : i = 0 \/ i - 1 \in 0..m-1
        BY <1>0
      <3> HIDE DEF g
      <3> QED BY <2>2, <3>1 DEF CleanRound
    <2>4. g = [i \in 0..m |-> CleanRound(w, cs, g, i)]
      BY <2>3
    <2>5. m \in 0..N
      BY <1>0
    <2> HIDE DEF g
    <2> QED BY <2>4, <2>5 DEF IsClean
  <1> HIDE DEF S, F
  <1>4. \A i \in 0..N : i \in S
    BY <1>0, <1>2, <1>3, LoopInduction
  <1>5. N \in 0..N
    BY <1>0
  <1>6. IsClean(F, w, cs, N)
    BY <1>4, <1>5 DEF S, F
  <1> QED BY <1>1, <1>6 DEF N

\* What was taken out of a pipe fits into it again.
LEMMA TestAndRemoveIs ==
  ASSUME NEW w, NEW p, Sound(w, p), w.pipes \in Seq(0..Cap), NEW m \in 1..Len(w.nodes)
  PROVE  TestAndRemove(w, m).v \in {w, kremove(w, m)}
  <1> DEFINE d == PipeOf(w, Tree(m))
             n == Unread(w, m)
  <1>1. CASE n = 0
    BY <1>1 DEF TestAndRemove
  <1>2. CASE n # 0
    <2>1. TestAndRemove(w, m).v = Put(Taken(w, d, n), d, n)
      BY <1>2 DEF TestAndRemove
    <2>2. d # 0 /\ n = w.pipes[d]
      BY <1>2 DEF Unread
    <2>3. IsRef(w, Tree(m)) /\ w \in [nodes : Seq(Nodes), pipes : Seq(Nat)]
      BY RefsAre DEF IsRef, Sound, Typed
    <2>4. d \in 1..Len(w.pipes)
      <3>1. d \in 0..Len(w.pipes) /\ Len(w.pipes) \in Nat
        BY <2>3, PipeOfIs
      <3> QED BY <2>2, <3>1
    <2> HIDE DEF d, n
    <2>5. n \in 0..Cap /\ Cap \in Nat
      BY <2>2, <2>4, VfsAssumption
    <2> DEFINE s == w.pipes
               t == [s EXCEPT ![d] = s[d] - n]
               u == [t EXCEPT ![d] = Min({Cap, t[d] + n})]
    <2>6. Put(Taken(w, d, n), d, n) = [w EXCEPT !.pipes = u]
      BY <2>3 DEF Put, Taken
    <2>7. u = s
      <3>1. s \in Seq(Nat) /\ d \in DOMAIN s
        BY <2>3, <2>4
      <3>2. t[d] = 0
        BY <2>2, <2>5, <3>1
      <3>3. Min({Cap, t[d] + n}) = n
        <4>1. t[d] + n = n
          BY <2>5, <3>2
        <4>2. {Cap, n} \subseteq Nat /\ {Cap, n} # {}
          BY <2>5
        <4>3. Min({Cap, n}) \in {Cap, n} /\ \A k \in {Cap, n} : Min({Cap, n}) <= k
          BY <4>2, MinIs
        <4>4. Min({Cap, n}) = n
          BY <2>5, <4>3
        <4> QED BY <4>1, <4>4
      <3> HIDE DEF s
      <3>4. u = [s EXCEPT ![d] = s[d]]
        BY <2>2, <3>3 DEF s
      <3> HIDE DEF u
      <3> QED BY <3>1, <3>4 DEF s
    <2> HIDE DEF u
    <2>8. [w EXCEPT !.pipes = u] = w
      BY <2>3, <2>7
    <2> QED BY <2>1, <2>6, <2>8
  <1> QED BY <1>1, <1>2

\* clean_process's loop takes children from the directory of the process.
LEMMA RemoveStreamsIs ==
  ASSUME NEW w, NEW p, Sound(w, p), w.pipes \in Seq(0..Cap), NEW q \in 1..Len(w.nodes), NEW n, kseek(w, ProcPath(n)) = Tree(q)
  PROVE  Pruned(w, RemoveStreams(w, n).v, q)
  <1> DEFINE cs == w.nodes[q].childs
             N == Len(cs)
  <1>1. cs \in Seq(Nat) /\ Len(w.nodes) \in Nat
    BY NodeIs DEF Sound
  <1>2. cs = w.nodes[kseek(w, ProcPath(n)).id].childs
    BY RefsAre
  <1>3. \A i \in 1..N : cs[i] \in q+1..Len(w.nodes) /\ w.nodes[cs[i]].parent = Tree(q)
    BY DEF Sound, Lists
  <1> HIDE DEF cs
  <1>4. N \in Nat
    BY <1>1
  <1>5. PICK f : IsClean(f, w, cs, N) /\ RemoveStreams(w, n) = f[N]
    BY <1>2, <1>4, CleanIs
  <1> HIDE DEF N
  <1>6. \A i \in 0..N : f[i] = CleanRound(w, cs, f, i)
    BY <1>5 DEF IsClean
  <1> DEFINE S == {i \in 0..N : Pruned(w, f[i].v, q)}
  <1>7. 0 \in S
    <2>1. 0 \in 0..N
      BY <1>4
    <2>2. f[0] = [v |-> w, stopped |-> FALSE]
      BY <1>6, <2>1 DEF CleanRound
    <2> QED BY <2>1, <2>2, PrunedSelf
  <1>8. ASSUME NEW i \in 0+1..N, i - 1 \in S PROVE i \in S
    <2> DEFINE y == f[i-1].v
               m == cs[i]
    <2>1. i \in 0..N /\ i \in 1..N /\ i # 0 /\ Pruned(w, y, q)
      BY <1>4, <1>8
    <2>2. m \in 1..Len(w.nodes) /\ w.nodes[m].parent = Tree(q)
      <3>1. m \in q+1..Len(w.nodes) /\ w.nodes[m].parent = Tree(q)
        BY <1>3, <2>1
      <3> HIDE DEF m
      <3>2. q \in Nat /\ Len(w.nodes) \in Nat
        BY <1>1
      <3>3. m \in 1..Len(w.nodes)
        BY <3>1, <3>2
      <3> QED BY <3>1, <3>3
    <2>3. f[i].v = y \/ f[i].v = TestAndRemove(y, m).v
      <3>1. f[i] = CleanRound(w, cs, f, i)
        BY <1>6, <2>1
      <3> QED BY <2>1, <3>1 DEF CleanRound
    <2> HIDE DEF y, m
    <2>4. Sound(y, p) /\ y.pipes \in Seq(0..Cap) /\ m \in 1..Len(y.nodes)
      <3>1. y.pipes = w.pipes /\ Len(y.nodes) = Len(w.nodes)
        BY <2>1 DEF Pruned
      <3> QED BY <2>1, <2>2, <3>1, PrunedSound
    <2>8. f[i].v \in {y, kremove(y, m)}
      BY <2>3, <2>4, TestAndRemoveIs
    <2>5. Len(y.nodes) = Len(w.nodes) /\ y.nodes[m].parent = Tree(q)
      BY <2>1, <2>2 DEF Pruned
    <2>6. Pruned(y, kremove(y, m), q)
      BY <2>2, <2>4, <2>5, RemoveIs
    <2>7. Pruned(w, kremove(y, m), q)
      BY <2>1, <2>6, PrunedTrans
    <2> QED BY <2>1, <2>7, <2>8
  <1> HIDE DEF S
  <1>9. \A i \in 0..N : i \in S
    BY <1>4, <1>7, <1>8, LoopInduction
  <1>10. N \in 0..N
    BY <1>4
  <1> QED BY <1>5, <1>9, <1>10 DEF S

-----------------------------------------------------------------------------
(* Files that processes are made from.                                     *)

\* The search of the disk alone, part by part.
DiskRound(path, f, i) == IF i = 0 THEN RootEntry ELSE fat_seek(path[i], f[i-1])
IsDiskWalk(f, path, n) == f = [i \in 0..n |-> DiskRound(path, f, i)]

\* DiskSeek is that search.
LEMMA DiskSeekIs ==
  ASSUME NEW path, Len(path) \in Nat
  PROVE  \E f : IsDiskWalk(f, path, Len(path)) /\ DiskSeek(path) = f[Len(path)]
  <1> DEFINE N == Len(path)
             S == {m \in 0..N : \E f : IsDiskWalk(f, path, m)}
             F == CHOOSE f : IsDiskWalk(f, path, N)
  <1>1. DiskSeek(path) = F[N]
    BY DEF DiskSeek, IsDiskWalk, DiskRound
  <1>0. N \in Nat
    OBVIOUS
  <1> HIDE DEF N
  <1>2. 0 \in S
    <2> DEFINE f == [i \in 0..0 |-> RootEntry]
    <2>1. \A i \in 0..0 : i = 0
      OBVIOUS
    <2>2. IsDiskWalk(f, path, 0)
      BY <2>1 DEF IsDiskWalk, DiskRound
    <2> QED BY <1>0, <2>2
  <1>3. ASSUME NEW m \in 0+1..N, m - 1 \in S PROVE m \in S
    <2>1. PICK f : IsDiskWalk(f, path, m - 1)
      BY <1>3
    <2> DEFINE g == [i \in 0..m |-> DiskRound(path, f, i)]
    <2>2. \A i \in 0..m-1 : g[i] = f[i]
      BY <1>0, <2>1 DEF IsDiskWalk
    <2>3. \A i \in 0..m : DiskRound(path, g, i) = DiskRound(path, f, i)
      <3>1. \A i \in 0..m : i = 0 \/ i - 1 \in 0..m-1
        BY <1>0
      <3> HIDE DEF g
      <3> QED BY <2>2, <3>1 DEF DiskRound
    <2>4. g = [i \in 0..m |-> DiskRound(path, g, i)]
      BY <2>3
    <2>5. m \in 0..N
      BY <1>0
    <2> HIDE DEF g
    <2> QED BY <2>4, <2>5 DEF IsDiskWalk
  <1> HIDE DEF S, F
  <1>4. \A i \in 0..N : i \in S
    BY <1>0, <1>2, <1>3, LoopInduction
  <1>5. N \in 0..N
    BY <1>0
  <1>6. IsDiskWalk(F, path, N)
    BY <1>4, <1>5 DEF S, F
  <1> QED BY <1>1, <1>6 DEF N

\* kseek finds what is executed on the disk: nothing in the tree hides it.
LEMMA ExecIs ==
  ASSUME NEW w, NEW p, Sound(w, p), w.nodes[1].fs = "fat", NEW path \in Execs
  PROVE  /\ path \in Seq(Name) /\ path # <<>> /\ DiskSeek(path) \in Listed
         /\ kseek(w, path) = OnDisk(DiskSeek(path))
         /\ \A i \in 0..Len(path) : Walk(w, path)[i] # NoNode
  <1> DEFINE N == Len(path)
             at == Walk(w, path)
  <1>1. path \in Seq(Name) /\ path # <<>> /\ path[1] \notin {Proc, Dev} /\ DiskSeek(path) # NoEntry
    BY VfsAssumption, NamesAssumption
  <1>2. N \in Nat /\ N >= 1 /\ 0 \in 0..N /\ N \in 0..N
    BY <1>1
  <1> HIDE DEF N
  <1>3. PICK f : IsDiskWalk(f, path, N) /\ DiskSeek(path) = f[N]
    BY <1>2, DiskSeekIs DEF N
  <1>4. f[0] = RootEntry /\ \A i \in 1..N : f[i] = fat_seek(path[i], f[i-1])
    <2>1. \A i \in 0..N : f[i] = DiskRound(path, f, i)
      BY <1>3 DEF IsDiskWalk
    <2>2. \A i \in 1..N : i \in 0..N /\ i # 0
      OBVIOUS
    <2> QED BY <1>2, <2>1, <2>2 DEF DiskRound
  <1>5. \A i \in 0..N : f[i] \in KnownEntries
    <2> DEFINE S == {i \in 0..N : f[i] \in KnownEntries}
    <2>1. 0 \in S
      BY <1>2, <1>4 DEF KnownEntries
    <2>2. ASSUME NEW i \in 0+1..N, i - 1 \in S PROVE i \in S
      <3>1. i \in 1..N /\ i \in 0..N /\ f[i-1] \in KnownEntries
        BY <1>2, <2>2
      <3>2. f[i] \in {NoEntry} \cup Listed
        BY <1>4, <3>1, FatSeekIs
      <3> QED BY <3>1, <3>2 DEF KnownEntries
    <2> HIDE DEF S
    <2>3. \A i \in 0..N : i \in S
      BY <1>2, <2>1, <2>2, LoopInduction
    <2> QED BY <2>3 DEF S
  \* What is not found stays not found.
  <1>6. \A i \in 0..N : f[i] # NoEntry
    <2> SUFFICES ASSUME NEW i \in 0..N, f[i] = NoEntry PROVE FALSE
      OBVIOUS
    <2> DEFINE S == {j \in i..N : f[j] = NoEntry}
    <2>1. i \in Nat /\ i \in S /\ N \in i..N
      BY <1>2
    <2>2. ASSUME NEW j \in i+1..N, j - 1 \in S PROVE j \in S
      <3>1. j \in 1..N /\ j \in i..N /\ f[j-1] = NoEntry
        BY <1>2, <2>1, <2>2
      <3>2. NoEntry \in KnownEntries /\ NoEntry.kind # "dir"
        BY DEF KnownEntries, NoEntry
      <3>3. fat_seek(path[j], NoEntry) = NoEntry
        BY <3>2, FatSeekIs
      <3> QED BY <1>4, <3>1, <3>3
    <2> HIDE DEF S
    <2>3. \A j \in i..N : j \in S
      BY <1>2, <2>1, <2>2, LoopInduction
    <2>4. f[N] = NoEntry
      BY <2>1, <2>3 DEF S
    <2> QED BY <1>1, <1>3, <2>4
  <1>7. /\ at[0] = Root /\ \A i \in 1..N : at[i] = SeekPart(w, at[i-1], path[i])
    BY <1>1, WalkStep DEF N
  <1> HIDE DEF at
  <1>8. Len(w.nodes) \in Nat /\ 1 \in 1..Len(w.nodes) /\ Root = Tree(1) /\ IsRef(w, Root) /\ Root # NoNode /\ Root.id = 1
    BY RefsAre DEF Sound, Typed, IsRef
  <1>9. at[1] = OnDisk(f[1]) /\ ~Ends(w, at[0], path[1])
    <2> DEFINE cs == w.nodes[1].childs
               name == path[1]
    <2>1. 1 \in 1..N /\ 1 \in 0..N /\ 1 - 1 = 0
      BY <1>2
    <2>2. f[1] = fat_seek(name, RootEntry) /\ f[1] # NoEntry /\ at[1] = SeekPart(w, Root, name)
      <3>1. f[1] = fat_seek(path[1], f[1-1]) /\ at[1] = SeekPart(w, at[1-1], path[1])
        BY <1>4, <1>7, <2>1
      <3> QED BY <1>4, <1>6, <1>7, <2>1, <3>1
    <2>3. \A a \in 1..Len(cs) : w.nodes[cs[a]].name # name
      BY <1>1, <2>2 DEF Sound, Hides
    <2>4. vfs_seek(w, Root, name) = NoNode
      <3>1. vfs_seek(w, Tree(1), name) # NoNode =>
              \E b \in 1..Len(w.nodes[1].childs) : w.nodes[w.nodes[1].childs[b]].name = name
        <4> HIDE DEF name
        <4>1. Seeks(w, 1, name, vfs_seek(w, Tree(1), name))
          BY <1>8, TreeSeekIs
        <4> QED BY <4>1 DEF Seeks
      <3> QED BY <1>8, <2>3, <3>1
    <2>5. Fields(w, 1)
      BY <1>8 DEF Sound
    <2>6. IsFat(w, Root) /\ EntryOf(w, Root) = RootEntry
      BY <1>8, <2>5 DEF Fields, IsFat, EntryOf, IsTree
    <2> QED BY <1>7, <2>2, <2>4, <2>6 DEF SeekPart, ElseDriver, DriverSeek, Ends
  <1> DEFINE S == {i \in 1..N : at[i] = OnDisk(f[i]) /\ ~Ends(w, at[i-1], path[i])}
  <1>10. 1 \in S
    BY <1>2, <1>9
  <1>11. ASSUME NEW i \in 1+1..N, i - 1 \in S PROVE i \in S
    <2> DEFINE e == f[i-1]
               r == at[i-1]
    <2>1. i \in 1..N /\ i - 1 \in 0..N /\ r = OnDisk(e) /\ e # NoEntry
      BY <1>2, <1>6, <1>11
    <2>2. at[i] = SeekPart(w, r, path[i]) /\ f[i] = fat_seek(path[i], e)
      BY <1>4, <1>7, <2>1
    <2> HIDE DEF e, r
    <2>3. r.id = 0 /\ r.ent = e /\ r # NoNode
      BY <2>1 DEF OnDisk, NoNode
    <2>4. vfs_seek(w, r, path[i]) = NoNode
      BY <2>3 DEF vfs_seek, ChildAt
    <2>5. IsFat(w, r) /\ EntryOf(w, r) = e
      BY <2>1, <2>3 DEF IsFat, IsTree, IsDisk, EntryOf
    <2>6. at[i] = OnDisk(f[i]) /\ ~Ends(w, r, path[i])
      BY <2>2, <2>4, <2>5 DEF SeekPart, ElseDriver, DriverSeek, Ends
    <2> QED BY <2>1, <2>6 DEF r
  <1>12. \A i \in 1..N : at[i] = OnDisk(f[i]) /\ ~Ends(w, at[i-1], path[i])
    <2> HIDE DEF S
    <2>1. \A i \in 1..N : i \in S
      BY <1>2, <1>10, <1>11, LoopInduction
    <2> QED BY <2>1 DEF S
  <1>13. kseek(w, path) = OnDisk(DiskSeek(path))
    <2>1. kseek(w, path) = at[N]
      BY <1>12 DEF kseek, WalkEnd, at, N
    <2>2. N \in 1..N
      BY <1>2
    <2> QED BY <1>3, <1>12, <2>1, <2>2
  <1>14. DiskSeek(path) \in Listed
    <2>1. N \in 1..N /\ N - 1 \in 0..N
      BY <1>2
    <2>2. f[N] = fat_seek(path[N], f[N-1]) /\ f[N-1] \in KnownEntries
      BY <1>4, <1>5, <2>1
    <2>3. f[N] \in {NoEntry} \cup Listed
      BY <2>2, FatSeekIs
    <2> QED BY <1>1, <1>3, <2>3
  <1>15. ASSUME NEW i \in 0..N PROVE at[i] # NoNode
    <2>1. CASE i = 0
      BY <1>7, <1>8, <2>1
    <2>2. CASE i # 0
      <3>1. i \in 1..N
        BY <2>2
      <3>2. at[i] = OnDisk(f[i]) /\ f[i] # NoEntry
        BY <1>6, <1>12, <3>1
      <3> QED BY <3>2 DEF OnDisk, NoNode
    <2> QED BY <2>1, <2>2
  <1> QED BY <1>1, <1>13, <1>14, <1>15 DEF N, at

-----------------------------------------------------------------------------
(* The invariant.                                                          *)

\* The images of the files that can be executed.
Images == {Bytes(DiskSeek(path)) : path \in Execs}

\* The tree is sound, /proc is in it, and no pipe holds more than it takes.
TreeInv(w) == Sound(w, ProcNode) /\ Booted(w, ProcNode) /\ w.pipes \in Seq(0..Cap)

\* Who is there has its file's bytes and a directory; descriptors are pipes.
ProcsInv(w, ps) ==
  /\ ps \in [Pid -> [life : {"free", "alive", "dead"}, image : Images \cup {<<>>}, fds : [Stream -> Nat]]]
  /\ \A n \in Pid :
       /\ ps[n].life # "free" => ps[n].image \in Images /\ HasDir(w, ProcNode, n)
       /\ \A s \in Stream : ps[n].fds[s] <= Len(w.pipes)

\* What was read last was read from the file that was opened.
FdInv(w, f) ==
  /\ f = [path |-> f.path, made |-> f.made, copy |-> f.copy, offset |-> f.offset,
          from |-> f.from, size |-> f.size, count |-> f.count, data |-> f.data]
  /\ f.made \in Nat /\ f.made # 1 /\ f.made <= Len(w.nodes) /\ f.offset \in Nat
  /\ f.copy.fs = "fat" /\ f.copy.ent.kind = "file" => f.copy.ent \in Listed
  /\ f.size # 0 => /\ f.made = 0 /\ f.copy.ent \in Listed /\ f.copy.ent.kind = "file"
                   /\ f.from \in Nat /\ f.size \in Nat \ {0}
                   /\ f.count = fat_read(f.copy.ent, f.from, f.size).count
                   /\ f.data = fat_read(f.copy.ent, f.from, f.size).data

\* What every step keeps.
Inv == TreeInv(v) /\ ProcsInv(v, procs) /\ FdInv(v, fd)

\* What a pipe holds is set to e.
PipeSet(w, d, e) == [w EXCEPT !.pipes[d] = e]

\* Writing to or reading a pipe changes no node.
LEMMA PipeUsed ==
  ASSUME NEW w, TreeInv(w), NEW d, NEW e, d \in 1..Len(w.pipes) => e \in 0..Cap,
         NEW z, z = PipeSet(w, d, e)
  PROVE  /\ TreeInv(z) /\ z.nodes = w.nodes /\ Len(z.pipes) = Len(w.pipes)
         /\ \A i \in 1..Len(w.pipes) : z.pipes[i] = IF i = d THEN e ELSE w.pipes[i]
  <1> DEFINE s == [w.pipes EXCEPT ![d] = e]
  <1>1. w \in [nodes : Seq(Nodes), pipes : Seq(Nat)] /\ w.pipes \in Seq(0..Cap) /\ Len(w.nodes) >= 1
    BY DEF TreeInv, Sound, Typed
  <1>2. /\ s \in Seq(0..Cap) /\ Len(s) = Len(w.pipes)
        /\ \A i \in 1..Len(w.pipes) : s[i] = IF i = d THEN e ELSE w.pipes[i]
    <2>1. CASE d \in 1..Len(w.pipes)
      BY <1>1, <2>1
    <2>2. CASE d \notin 1..Len(w.pipes)
      <3>1. s = w.pipes
        BY <1>1, <2>2
      <3> QED BY <1>1, <2>2, <3>1
    <2> QED BY <2>1, <2>2
  <1>3. s \in Seq(Nat)
    <2>1. 0..Cap \subseteq Nat
      OBVIOUS
    <2> HIDE DEF s
    <2>2. s \in Seq(0..Cap)
      BY <1>2
    <2>3. Len(s) \in Nat /\ \A i \in 1..Len(s) : s[i] \in 0..Cap
      <3> DEFINE C == 0..Cap
      <3>1. s \in Seq(C)
        BY <2>2
      <3> HIDE DEF C
      <3>2. Len(s) \in Nat /\ \A i \in 1..Len(s) : s[i] \in C
        BY <3>1
      <3> QED BY <3>2 DEF C
    <2>4. \A i \in 1..Len(s) : s[i] \in Nat
      BY <2>1, <2>3
    <2>5. s = [i \in 1..Len(s) |-> s[i]]
      BY <2>2
    <2> QED BY <2>3, <2>4, <2>5
  <1> HIDE DEF s
  <1>4. z = [w EXCEPT !.pipes = s]
    BY <1>1 DEF s, PipeSet
  <1>5. z \in [nodes : Seq(Nodes), pipes : Seq(Nat)] /\ z.nodes = w.nodes /\ z.pipes = s
    BY <1>1, <1>3, <1>4
  <1>6. Sound(z, ProcNode)
    <2>1. Typed(z)
      BY <1>1, <1>5 DEF Typed
    <2>4. \A i \in 1..Len(w.nodes) : Fields(w, i)
      BY DEF TreeInv, Sound
    <2>5. Len(z.pipes) = Len(w.pipes)
      BY <1>2, <1>5
    <2>2. ASSUME NEW i \in 1..Len(w.nodes) PROVE Fields(z, i)
      BY <1>5, <2>4, <2>5 DEF Fields
    <2>3. Sound(w, ProcNode) /\ Len(z.nodes) = Len(w.nodes)
      BY <1>5 DEF TreeInv
    <2>6. \A i \in 1..Len(w.nodes) :
            /\ z.nodes[i].name = w.nodes[i].name /\ z.nodes[i].parent = w.nodes[i].parent
            /\ z.nodes[i].childs = w.nodes[i].childs /\ Fields(z, i)
      BY <1>5, <2>2
    <2> QED BY <2>1, <2>3, <2>6, SameTree
  <1>7. Booted(z, ProcNode)
    BY <1>5 DEF TreeInv, Booted
  <1> QED BY <1>2, <1>5, <1>6, <1>7 DEF TreeInv

\* A tree that is extended keeps what processes and descriptors rely on.
LEMMA ExtendsInv ==
  ASSUME NEW w, TreeInv(w), NEW z, Sound(z, ProcNode), Extends(w, z), z.pipes \in Seq(0..Cap),
         NEW ps, ProcsInv(w, ps), NEW f, FdInv(w, f)
  PROVE  TreeInv(z) /\ ProcsInv(z, ps) /\ FdInv(z, f)
  <1>1. /\ Len(w.nodes) \in Nat /\ Len(z.nodes) \in Nat /\ Len(w.pipes) \in Nat /\ Len(z.pipes) \in Nat
        /\ Len(w.nodes) <= Len(z.nodes) /\ Len(w.pipes) <= Len(z.pipes)
    BY DEF TreeInv, Sound, Typed, Extends, Kept
  <1>2. Booted(z, ProcNode) /\ \A n \in Pid : HasDir(w, ProcNode, n) => HasDir(z, ProcNode, n)
    BY BootSound, BootedExtends DEF TreeInv
  <1>3. ProcsInv(z, ps)
    <2>1. \A n \in Pid : \A s \in Stream : ps[n].fds[s] <= Len(z.pipes)
      <3> SUFFICES ASSUME NEW n \in Pid, NEW s \in Stream PROVE ps[n].fds[s] <= Len(z.pipes)
        OBVIOUS
      <3>1. ps[n].fds[s] \in Nat /\ ps[n].fds[s] <= Len(w.pipes)
        BY DEF ProcsInv
      <3> QED BY <1>1, <3>1
    <2> QED BY <1>2, <2>1 DEF ProcsInv
  <1>4. FdInv(z, f)
    BY <1>1 DEF FdInv
  <1> QED BY <1>2, <1>3, <1>4 DEF TreeInv

\* So does one in which only pipes were used.
LEMMA PipeUsedInv ==
  ASSUME NEW w, TreeInv(w), NEW ps, ProcsInv(w, ps), NEW f, FdInv(w, f),
         NEW d, NEW e, d \in 1..Len(w.pipes) => e \in 0..Cap
  PROVE  TreeInv(PipeSet(w, d, e)) /\ ProcsInv(PipeSet(w, d, e), ps) /\ FdInv(PipeSet(w, d, e), f)
  <1> DEFINE y == PipeSet(w, d, e)
  <1> HIDE DEF y
  <1>1. TreeInv(y) /\ y.nodes = w.nodes /\ Len(y.pipes) = Len(w.pipes)
    BY PipeUsed DEF y
  <1>2. ProcsInv(y, ps) /\ FdInv(y, f)
    BY <1>1 DEF ProcsInv, FdInv, HasDir
  <1> QED BY <1>1, <1>2 DEF y

\* It holds after boot.
LEMMA InitInv ==
  Init => Inv
  <1> SUFFICES ASSUME Init PROVE Inv
    OBVIOUS
  <1>1. TreeInv(v)
    BY BootSound DEF Init, TreeInv
  <1>2. Len(v.pipes) \in Nat /\ Len(v.nodes) \in Nat
    BY <1>1 DEF TreeInv, Sound, Typed
  <1>3. NoProcess \in [life : {"free", "alive", "dead"}, image : Images \cup {<<>>}, fds : [Stream -> Nat]]
        /\ NoProcess.life = "free" /\ \A s \in Stream : NoProcess.fds[s] = 0
    BY DEF NoProcess
  <1>4. ProcsInv(v, procs)
    <2>1. procs = [n \in Pid |-> NoProcess]
      BY DEF Init
    <2>2. \A n \in Pid : procs[n] = NoProcess
      BY <2>1
    <2> QED BY <1>2, <1>3, <2>1, <2>2 DEF ProcsInv
  <1>5. FdInv(v, fd)
    <2>1. /\ Closed = [path |-> Closed.path, made |-> Closed.made, copy |-> Closed.copy, offset |-> Closed.offset,
                       from |-> Closed.from, size |-> Closed.size, count |-> Closed.count, data |-> Closed.data]
          /\ Closed.made = 0 /\ Closed.offset = 0 /\ Closed.size = 0 /\ Closed.copy.fs = "vfs"
      BY DEF Closed, NewNode
    <2>2. fd = Closed
      BY DEF Init
    <2> QED BY <1>2, <2>1, <2>2 DEF FdInv
  <1> QED BY <1>1, <1>4, <1>5 DEF Inv

\* One process changes.
LEMMA ProcSet ==
  ASSUME NEW w, NEW ps, ProcsInv(w, ps), NEW n \in Pid,
         NEW life \in {"free", "alive", "dead"}, NEW image \in Images \cup {<<>>}, NEW fds \in [Stream -> Nat],
         life # "free" => image \in Images /\ HasDir(w, ProcNode, n),
         \A s \in Stream : fds[s] <= Len(w.pipes)
  PROVE  ProcsInv(w, [ps EXCEPT ![n] = [life |-> life, image |-> image, fds |-> fds]])
  <1> DEFINE R == [life : {"free", "alive", "dead"}, image : Images \cup {<<>>}, fds : [Stream -> Nat]]
             rec == [life |-> life, image |-> image, fds |-> fds]
             qs == [ps EXCEPT ![n] = rec]
  <1>1. rec \in R /\ rec.life = life /\ rec.image = image /\ rec.fds = fds
    OBVIOUS
  <1>2. ps \in [Pid -> R]
    BY DEF ProcsInv
  <1> HIDE DEF R, rec
  <1>3. qs \in [Pid -> R] /\ \A m \in Pid : qs[m] = IF m = n THEN rec ELSE ps[m]
    BY <1>1, <1>2
  <1> HIDE DEF qs
  <1>4. ASSUME NEW m \in Pid
        PROVE  /\ qs[m].life # "free" => qs[m].image \in Images /\ HasDir(w, ProcNode, m)
               /\ \A s \in Stream : qs[m].fds[s] <= Len(w.pipes)
    BY <1>1, <1>3 DEF ProcsInv
  <1>5. ProcsInv(w, qs)
    BY <1>3, <1>4 DEF ProcsInv, R
  <1> QED BY <1>5 DEF qs, rec

\* The record that sys_exec fills.
LEMMA NewProcess ==
  ASSUME NEW r, r = [life |-> r.life, image |-> r.image, fds |-> r.fds], NEW l, NEW i
  PROVE  [r EXCEPT !.life = l, !.image = i] = [life |-> l, image |-> i, fds |-> r.fds]
  <1> DEFINE q == [r EXCEPT !.life = l, !.image = i]
             s == [r EXCEPT !.life = l]
  <1>1. s = [life |-> l, image |-> r.image, fds |-> r.fds]
    OBVIOUS
  <1>2. q = [s EXCEPT !.image = i]
    OBVIOUS
  <1> HIDE DEF s
  <1>3. [s EXCEPT !.image = i] = [life |-> l, image |-> i, fds |-> r.fds]
    BY <1>1
  <1> QED BY <1>2, <1>3

\* What the invariant says of the tree, for the lemmas on it.
LEMMA InvTree ==
  ASSUME Inv
  PROVE  /\ TreeInv(v) /\ ProcsInv(v, procs) /\ FdInv(v, fd)
         /\ ProcNode \in Nat /\ Sound(v, ProcNode) /\ Booted(v, ProcNode) /\ v.nodes[1].fs = "fat"
         /\ v.pipes \in Seq(0..Cap) /\ Len(v.nodes) \in Nat /\ Len(v.pipes) \in Nat
  BY BootSound DEF Inv, TreeInv, Booted, Sound, Typed

\* sys_exec makes a process of the bytes of its file, and its directory.
LEMMA ExecInv ==
  ASSUME Inv, NEW path \in Execs, NEW loads \in BOOLEAN, sys_exec(path, loads)
  PROVE  Inv'
  <1> DEFINE m == Min(Free)
             e == DiskSeek(path)
             z == WithProcDir(v, m)
             life == IF loads THEN "alive" ELSE "dead"
  <1>1. e \in Listed /\ kseek(v, path).ent = e
    BY InvTree, ExecIs DEF OnDisk
  <1>2. m \in Pid /\ Free # {}
    <2>1. Free # {} /\ Free \subseteq Pid /\ Free \subseteq Nat
      BY VfsAssumption DEF sys_exec, Free
    <2> QED BY <2>1, MinIs
  <1>3. Image(e).count # 0 /\ v' = z /\ fd' = fd
        /\ procs' = [procs EXCEPT ![m] = [NoProcess EXCEPT !.life = life, !.image = Image(e).data]]
    BY <1>1 DEF sys_exec
  <1>4. Image(e).data = Bytes(e) /\ Bytes(e) \in Images
    BY <1>1, <1>3, ImageIs DEF Images
  <1> HIDE DEF m, e, z
  <1>5. Sound(z, ProcNode) /\ Extends(v, z) /\ HasDir(z, ProcNode, m) /\ z.pipes \in Seq(0..Cap)
    BY <1>2, InvTree, WithProcDirIs DEF z
  <1>6. TreeInv(z) /\ ProcsInv(z, procs) /\ FdInv(z, fd)
    BY <1>5, InvTree, ExtendsInv
  <1>7. /\ life \in {"free", "alive", "dead"} /\ NoProcess.fds \in [Stream -> Nat]
        /\ [NoProcess EXCEPT !.life = life, !.image = Bytes(e)]
             = [life |-> life, image |-> Bytes(e), fds |-> NoProcess.fds]
        /\ \A s \in Stream : NoProcess.fds[s] = 0
    <2> DEFINE b == Bytes(e)
               z0 == [s \in Stream |-> 0]
    <2> HIDE DEF b, z0
    <2>1. NoProcess = [life |-> "free", image |-> <<>>, fds |-> z0]
      BY DEF NoProcess, z0
    <2>2. [NoProcess EXCEPT !.life = life, !.image = b] = [life |-> life, image |-> b, fds |-> NoProcess.fds]
      <3>1. NoProcess = [life |-> NoProcess.life, image |-> NoProcess.image, fds |-> NoProcess.fds]
        BY <2>1
      <3> QED BY <3>1, NewProcess, Zenon
    <2>3. z0 \in [Stream -> Nat] /\ \A s \in Stream : z0[s] = 0
      BY DEF z0
    <2>4. NoProcess.fds = z0
      BY <2>1
    <2> QED BY <2>2, <2>3, <2>4 DEF b
  <1>8. \A s \in Stream : NoProcess.fds[s] <= Len(z.pipes)
    BY <1>6, <1>7 DEF TreeInv
  <1> HIDE DEF life
  <1>9. ProcsInv(z, [procs EXCEPT ![m] = [life |-> life, image |-> Bytes(e), fds |-> NoProcess.fds]])
    BY <1>2, <1>4, <1>5, <1>6, <1>7, <1>8, ProcSet
  <1>10. ProcsInv(v', procs')
    BY <1>3, <1>4, <1>7, <1>9
  <1> QED BY <1>3, <1>6, <1>10 DEF Inv

\* libc_init opens what the streams' paths lead to.
LEMMA LibcInv ==
  ASSUME Inv, NEW n \in Pid, libc_init(n)
  PROVE  Inv'
  <1> DEFINE g == [s \in Stream |-> PipeOf(v, kseek(v, StreamPath(n, s)))]
  <1>1. v' = v /\ fd' = fd /\ procs[n].life = "alive" /\ procs' = [procs EXCEPT ![n].fds = g]
    BY DEF libc_init
  <1>2. ASSUME NEW s \in Stream PROVE g[s] \in Nat /\ g[s] <= Len(v.pipes)
    <2>1. StreamPath(n, s) \in Seq(Name)
      BY VfsAssumption DEF StreamPath
    <2>2. IsRef(v, kseek(v, StreamPath(n, s)))
      BY <2>1, InvTree, KseekIs
    <2>3. PipeOf(v, kseek(v, StreamPath(n, s))) \in 0..Len(v.pipes)
      BY <2>2, InvTree, PipeOfIs
    <2> QED BY <2>3, InvTree
  <1>3. g \in [Stream -> Nat]
    BY <1>2
  <1> HIDE DEF g
  <1>4. /\ procs[n].life \in {"free", "alive", "dead"} /\ procs[n].image \in Images \cup {<<>>}
        /\ procs[n].life # "free" => procs[n].image \in Images /\ HasDir(v, ProcNode, n)
        /\ [procs EXCEPT ![n].fds = g] = [procs EXCEPT ![n] = [life |-> procs[n].life, image |-> procs[n].image, fds |-> g]]
    <2>1. /\ procs \in [Pid -> [life : {"free", "alive", "dead"}, image : Images \cup {<<>>}, fds : [Stream -> Nat]]]
          /\ procs[n].life # "free" => procs[n].image \in Images /\ HasDir(v, ProcNode, n)
      BY InvTree DEF ProcsInv
    <2>2. procs[n] \in [life : {"free", "alive", "dead"}, image : Images \cup {<<>>}, fds : [Stream -> Nat]]
      BY <2>1
    <2>3. procs[n] = [life |-> procs[n].life, image |-> procs[n].image, fds |-> procs[n].fds]
      BY <2>2
    <2>4. [procs[n] EXCEPT !.fds = g] = [life |-> procs[n].life, image |-> procs[n].image, fds |-> g]
      BY <2>3
    <2>5. [procs EXCEPT ![n].fds = g] = [procs EXCEPT ![n] = [procs[n] EXCEPT !.fds = g]]
      OBVIOUS
    <2>6. [procs EXCEPT ![n].fds = g] = [procs EXCEPT ![n] = [life |-> procs[n].life, image |-> procs[n].image, fds |-> g]]
      BY <2>4, <2>5
    <2> QED BY <2>1, <2>2, <2>6
  <1>5. ProcsInv(v, [procs EXCEPT ![n] = [life |-> procs[n].life, image |-> procs[n].image, fds |-> g]])
    BY <1>2, <1>3, <1>4, InvTree, ProcSet
  <1>6. ProcsInv(v', procs')
    BY <1>1, <1>4, <1>5
  <1> QED BY <1>1, <1>6, InvTree DEF Inv

\* A stream of a process or the observer's pipe gets a byte more, or is emptied.
LEMMA UsedInv ==
  ASSUME Inv, NEW d, NEW e, d \in 1..Len(v.pipes) => e \in 0..Cap,
         v' = [v EXCEPT !.pipes[d] = e], procs' = procs, fd' = fd
  PROVE  Inv'
  <1>1. v' = PipeSet(v, d, e)
    BY DEF PipeSet
  <1>2. TreeInv(PipeSet(v, d, e)) /\ ProcsInv(PipeSet(v, d, e), procs) /\ FdInv(PipeSet(v, d, e), fd)
    BY InvTree, PipeUsedInv
  <1> QED BY <1>1, <1>2 DEF Inv

\* A byte more in a pipe that is not full.
LEMMA WrittenInv ==
  ASSUME Inv, NEW d, v.pipes[d] < Cap, v' = [v EXCEPT !.pipes[d] = @ + 1], procs' = procs, fd' = fd
  PROVE  Inv'
  <1>1. ASSUME d \in 1..Len(v.pipes) PROVE v.pipes[d] + 1 \in 0..Cap
    <2>1. v.pipes[d] \in 0..Cap /\ Cap \in Nat
      BY <1>1, InvTree, VfsAssumption, SMTT(30)
    <2> QED BY <2>1
  <1>2. v' = [v EXCEPT !.pipes[d] = v.pipes[d] + 1]
    OBVIOUS
  <1> DEFINE e == v.pipes[d] + 1
  <1> HIDE DEF e
  <1>3. v' = [v EXCEPT !.pipes[d] = e]
    BY <1>2 DEF e
  <1>4. d \in 1..Len(v.pipes) => e \in 0..Cap
    BY <1>1 DEF e
  <1> QED BY <1>3, <1>4, UsedInv

\* sys_write to a stream of its own.
LEMMA WriteInv ==
  ASSUME Inv, NEW n \in Pid, NEW s \in Stream, sys_write(n, s)
  PROVE  Inv'
  <1> DEFINE d == procs[n].fds[s]
  <1>1. v.pipes[d] < Cap /\ v' = [v EXCEPT !.pipes[d] = @ + 1] /\ procs' = procs /\ fd' = fd
    BY DEF sys_write
  <1> HIDE DEF d
  <1> QED BY <1>1, WrittenInv

\* Writing to and reading the observer's pipe.
LEMMA PipeInv ==
  ASSUME Inv, read_pipe \/ write_pipe
  PROVE  Inv'
  <1>1. CASE read_pipe
    <2>1. v' = [v EXCEPT !.pipes[FdPipe] = 0] /\ procs' = procs /\ fd' = fd /\ 0 \in 0..Cap
      BY <1>1, VfsAssumption DEF read_pipe
    <2> QED BY <2>1, UsedInv
  <1>2. CASE write_pipe
    <2>1. /\ v.pipes[FdPipe] < Cap /\ v' = [v EXCEPT !.pipes[FdPipe] = @ + 1]
          /\ procs' = procs /\ fd' = fd
      BY <1>2 DEF write_pipe
    <2> QED BY <2>1, WrittenInv
  <1> QED BY <1>1, <1>2

\* A process ends.
LEMMA ExitInv ==
  ASSUME Inv, NEW n \in Pid, proc_exit(n)
  PROVE  Inv'
  <1>1. v' = v /\ fd' = fd /\ procs[n].life = "alive" /\ procs' = [procs EXCEPT ![n].life = "dead"]
    BY DEF proc_exit
  <1>2. /\ procs[n] \in [life : {"free", "alive", "dead"}, image : Images \cup {<<>>}, fds : [Stream -> Nat]]
        /\ procs[n].life # "free" => procs[n].image \in Images /\ HasDir(v, ProcNode, n)
        /\ \A s \in Stream : procs[n].fds[s] <= Len(v.pipes)
    BY InvTree DEF ProcsInv
  <1>3. [procs EXCEPT ![n].life = "dead"]
           = [procs EXCEPT ![n] = [life |-> "dead", image |-> procs[n].image, fds |-> procs[n].fds]]
    <2>1. procs[n] = [life |-> procs[n].life, image |-> procs[n].image, fds |-> procs[n].fds]
      BY <1>2
    <2>2. [procs[n] EXCEPT !.life = "dead"] = [life |-> "dead", image |-> procs[n].image, fds |-> procs[n].fds]
      BY <2>1
    <2>3. [procs EXCEPT ![n].life = "dead"] = [procs EXCEPT ![n] = [procs[n] EXCEPT !.life = "dead"]]
      OBVIOUS
    <2> QED BY <2>2, <2>3
  <1>4. ProcsInv(v, [procs EXCEPT ![n] = [life |-> "dead", image |-> procs[n].image, fds |-> procs[n].fds]])
    <2>1. /\ procs[n].image \in Images \cup {<<>>} /\ procs[n].fds \in [Stream -> Nat]
          /\ procs[n].image \in Images /\ HasDir(v, ProcNode, n)
      BY <1>1, <1>2
    <2> QED BY <1>2, <2>1, InvTree, ProcSet
  <1>5. ProcsInv(v', procs')
    BY <1>1, <1>3, <1>4
  <1> QED BY <1>1, <1>5, InvTree DEF Inv

\* clean_process takes children from the directory of the process only.
LEMMA CleanInv ==
  ASSUME Inv, NEW n \in Pid, clean_process(n)
  PROVE  Inv'
  <1> DEFINE r == RemoveStreams(v, n)
             z == r.v
  <1>1. /\ procs[n].life = "dead" /\ v' = z /\ fd' = fd
        /\ procs' = procs \/ procs' = [procs EXCEPT ![n] = NoProcess]
    BY DEF clean_process
  <1>2. HasDir(v, ProcNode, n)
    BY <1>1, InvTree DEF ProcsInv
  <1>3. PICK q \in ProcNode+1..Len(v.nodes) : kseek(v, ProcPath(n)) = Tree(q)
    BY <1>2, InvTree, ProcDirsAre
  <1>4. ProcNode \in 2..Len(v.nodes)
    BY InvTree DEF Booted
  <1>5. q \in 1..Len(v.nodes) /\ q # 1 /\ q # ProcNode /\ ProcNode \in 1..Len(v.nodes)
    BY <1>3, <1>4, InvTree
  <1>6. Pruned(v, z, q)
    BY <1>3, <1>5, InvTree, RemoveStreamsIs
  <1> HIDE DEF r, z
  <1>7. /\ Sound(z, ProcNode) /\ Booted(z, ProcNode)
        /\ \A m \in Pid : HasDir(v, ProcNode, m) => HasDir(z, ProcNode, m)
    BY <1>5, <1>6, InvTree, PrunedSound
  <1>8. z.pipes = v.pipes /\ Len(z.nodes) = Len(v.nodes)
    BY <1>6 DEF Pruned
  <1>9. TreeInv(z)
    BY <1>7, <1>8, InvTree DEF TreeInv
  <1>10. ProcsInv(z, procs) /\ FdInv(z, fd)
    BY <1>7, <1>8, InvTree DEF ProcsInv, FdInv
  <1>11. ProcsInv(z, [procs EXCEPT ![n] = NoProcess])
    <2> DEFINE z0 == [s \in Stream |-> 0]
               i0 == <<>>
    <2>1. NoProcess = [life |-> "free", image |-> i0, fds |-> z0]
      BY DEF NoProcess
    <2>2. z0 \in [Stream -> Nat] /\ i0 \in Images \cup {<<>>} /\ \A s \in Stream : z0[s] = 0
      OBVIOUS
    <2>3. \A s \in Stream : z0[s] <= Len(z.pipes)
      BY <1>8, <2>2, InvTree
    <2> HIDE DEF z0, i0
    <2>4. ProcsInv(z, [procs EXCEPT ![n] = [life |-> "free", image |-> i0, fds |-> z0]])
      BY <1>10, <2>2, <2>3, ProcSet
    <2> QED BY <2>1, <2>4
  <1> QED BY <1>1, <1>9, <1>10, <1>11 DEF Inv

\* What fread stores.
LEMMA FatReadCount ==
  ASSUME NEW e \in Listed, e.kind = "file", NEW a \in Nat, NEW n \in Nat \ {0}
  PROVE  fat_read(e, a, n).count \in Nat
  <1> DEFINE rest == a % ClusterSize
             x == n - (ClusterSize - rest)
  <1>1. ClusterSize \in Nat \ {0} /\ rest \in 0..ClusterSize-1
    BY DiskAssumption, DivMod
  <1>2. NothingRead.count \in Nat
    BY DEF NothingRead
  <1>3. CASE rest + n <= ClusterSize
    BY <1>2, <1>3 DEF fat_read
  <1>4. CASE ~(rest + n <= ClusterSize)
    <2>1. x \in Nat
      BY <1>1, <1>4
    <2> HIDE DEF x
    <2>2. x % ClusterSize \in Nat
      BY <2>1, DivMod
    <2> QED BY <1>2, <1>4, <2>2 DEF fat_read, x
  <1> QED BY <1>3, <1>4

\* fread of a disk file, which can only be the copy that kopen made.
LEMMA FreadInv ==
  ASSUME Inv, NEW n \in ReadSizes, fread(n)
  PROVE  /\ Inv' /\ fd.made = 0 /\ Node = fd.copy /\ fd.copy.ent \in Listed
         /\ fd'.copy = fd.copy /\ fd'.made = fd.made
  <1> DEFINE e == Node.ent
             r == fat_read(e, fd.offset, n)
  <1>1. /\ v' = v /\ procs' = procs /\ Node.fs = "fat" /\ e.kind = "file"
        /\ fd' = [fd EXCEPT !.offset = @ + r.count, !.from = fd.offset, !.size = n,
                            !.count = r.count, !.data = r.data]
    BY DEF fread
  <1>2. /\ fd = [path |-> fd.path, made |-> fd.made, copy |-> fd.copy, offset |-> fd.offset,
                 from |-> fd.from, size |-> fd.size, count |-> fd.count, data |-> fd.data]
        /\ fd.made \in Nat /\ fd.made # 1 /\ fd.made <= Len(v.nodes) /\ fd.offset \in Nat
        /\ fd.copy.fs = "fat" /\ fd.copy.ent.kind = "file" => fd.copy.ent \in Listed
    BY InvTree DEF FdInv
  <1>3. fd.made = 0
    <2> SUFFICES ASSUME fd.made # 0 PROVE FALSE
      OBVIOUS
    <2>1. fd.made \in 1..Len(v.nodes)
      BY <1>2, InvTree
    <2>2. v.nodes[fd.made].fs = "fat"
      BY <1>1 DEF Node
    <2> QED BY <1>2, <2>1, <2>2, InvTree DEF Sound, Fields
  <1>4. Node = fd.copy
    BY <1>3 DEF Node
  <1>5. e \in Listed /\ e = fd.copy.ent
    BY <1>1, <1>2, <1>4
  <1>6. n \in Nat \ {0}
    BY VfsAssumption
  <1> HIDE DEF e
  <1>7. r.count \in Nat
    BY <1>1, <1>2, <1>5, <1>6, FatReadCount
  <1>8. /\ fd'.path = fd.path /\ fd'.made = fd.made /\ fd'.copy = fd.copy /\ fd'.offset = fd.offset + r.count
        /\ fd'.from = fd.offset /\ fd'.size = n /\ fd'.count = r.count /\ fd'.data = r.data
        /\ fd' = [path |-> fd'.path, made |-> fd'.made, copy |-> fd'.copy, offset |-> fd'.offset,
                  from |-> fd'.from, size |-> fd'.size, count |-> fd'.count, data |-> fd'.data]
    <2> HIDE DEF r
    <2> QED BY <1>1, <1>2
  <1>9. FdInv(v', fd')
    BY <1>1, <1>2, <1>3, <1>5, <1>6, <1>7, <1>8 DEF FdInv
  <1>10. Inv'
    BY <1>1, <1>9, InvTree DEF Inv
  <1> QED BY <1>3, <1>4, <1>5, <1>8, <1>10

\* sys_open: a copy of what is there, or a new node.
LEMMA OpenInv ==
  ASSUME Inv, NEW path \in Paths, NEW create \in BOOLEAN, sys_open(path, create)
  PROVE  Inv'
  <1> DEFINE r == kseek(v, path)
             c == kcreate(v, path)
  <1>1. path \in Seq(Name)
    BY VfsAssumption
  <1>2. IsRef(v, r)
    BY <1>1, InvTree, KseekIs
  <1>3. procs' = procs
    BY DEF sys_open
  <1>4. CASE r # NoNode /\ v' = v /\ fd' = [Closed EXCEPT !.path = path, !.copy = Copy(r)]
    <2> DEFINE x == Copy(r)
    <2>1. x.fs = "fat" /\ x.ent.kind = "file" => x.ent \in Listed
      <3>1. CASE IsTree(r)
        <4>1. r.id \in 1..Len(v.nodes)
          BY <1>2, <3>1, InvTree DEF IsRef, Refs, IsTree
        <4>2. v.nodes[r.id].ent \in {NoEntry, RootEntry}
          BY <4>1, InvTree, NodeIs DEF Sound, Nodes
        <4>3. v.nodes[r.id] \in Nodes
          BY <4>1, InvTree, NodeIs DEF Sound
        <4>4. x.ent = v.nodes[r.id].ent
          BY <3>1, <4>3 DEF Copy, Nodes
        <4>5. NoEntry.kind # "file" /\ RootEntry.kind # "file"
          BY DEF NoEntry, RootEntry
        <4> QED BY <4>2, <4>4, <4>5
      <3>2. CASE ~IsTree(r)
        <4>1. r.ent \in Listed
          BY <1>2, <1>4, <3>2, RefsAre DEF IsRef, Refs, IsTree
        <4>2. x = [NewNode(r.ent.short, NoNode) EXCEPT !.fs = "fat", !.ent = r.ent]
          BY <3>2 DEF Copy
        <4>3. x.ent = r.ent
          BY <4>2 DEF NewNode
        <4> QED BY <4>1, <4>3
      <3> QED BY <3>1, <3>2
    <2> HIDE DEF x
    <2>2. /\ fd'.path = path /\ fd'.made = 0 /\ fd'.copy = x /\ fd'.offset = 0 /\ fd'.size = 0
          /\ fd' = [path |-> fd'.path, made |-> fd'.made, copy |-> fd'.copy, offset |-> fd'.offset,
                    from |-> fd'.from, size |-> fd'.size, count |-> fd'.count, data |-> fd'.data]
      BY <1>4 DEF x, Closed
    <2>3. FdInv(v, fd')
      BY <2>1, <2>2, InvTree DEF FdInv
    <2> QED BY <1>3, <1>4, <2>3, InvTree DEF Inv
  <1>5. CASE r = NoNode /\ v' = c.v /\ fd' = [Closed EXCEPT !.path = path, !.made = c.node.id]
    <2>1. /\ Sound(c.v, ProcNode) /\ Extends(v, c.v) /\ c.node = Tree(Len(c.v.nodes))
          /\ Len(c.v.nodes) > Len(v.nodes)
          /\ Chained(v, c.v, kseek(v, SubSeq(path, 1, Deepest(v, path))), path, Deepest(v, path), Len(path))
          /\ Deepest(v, path) \in 0..Len(path)-1
      BY <1>1, <1>5, InvTree, NewPath
    <2> HIDE DEF c
    <2>2. c.v.pipes = v.pipes
      <3>1. Deepest(v, path) \in Nat /\ Len(path) \in Nat /\ Deepest(v, path) < Len(path)
        BY <1>1, <2>1
      <3> QED BY <2>1, <3>1, InvTree, ChainedExtends
    <2>3. TreeInv(c.v) /\ ProcsInv(c.v, procs)
      BY <2>1, <2>2, InvTree, ExtendsInv
    <2>4. /\ fd'.path = path /\ fd'.made = c.node.id /\ fd'.copy = Closed.copy /\ fd'.offset = 0 /\ fd'.size = 0
          /\ fd' = [path |-> fd'.path, made |-> fd'.made, copy |-> fd'.copy, offset |-> fd'.offset,
                    from |-> fd'.from, size |-> fd'.size, count |-> fd'.count, data |-> fd'.data]
      BY <1>5 DEF Closed
    <2>5. Closed.copy.fs = "vfs"
      BY DEF Closed, NewNode
    <2>6. Len(c.v.nodes) \in Nat /\ Len(v.nodes) >= 1 /\ c.node.id = Len(c.v.nodes)
      BY <2>1, InvTree DEF Sound, Typed, Tree
    <2>8. fd'.made \in Nat /\ fd'.made # 1 /\ fd'.made <= Len(c.v.nodes) /\ fd'.offset \in Nat
      <3>1. Len(v.nodes) \in Nat /\ Len(c.v.nodes) > Len(v.nodes)
        BY <2>1, InvTree
      <3>2. fd'.made = Len(c.v.nodes) /\ fd'.offset = 0
        BY <2>4, <2>6
      <3> DEFINE k == Len(c.v.nodes)
                 m == Len(v.nodes)
      <3>3. k \in Nat /\ m \in Nat /\ m >= 1 /\ k > m
        BY <2>6, <3>1
      <3> HIDE DEF k, m
      <3>4. k # 1
        BY <3>3
      <3>5. fd'.made = k /\ k <= Len(c.v.nodes)
        BY <3>2, <3>3 DEF k
      <3> QED BY <3>2, <3>3, <3>4, <3>5
    <2>9. fd'.copy.fs # "fat" /\ fd'.size = 0
      BY <2>4, <2>5
    <2>7. FdInv(c.v, fd')
      BY <2>4, <2>8, <2>9 DEF FdInv
    <2> QED BY <1>3, <1>5, <2>3, <2>7 DEF Inv
  <1> QED BY <1>4, <1>5 DEF sys_open

\* fclose forgets the descriptor.
LEMMA CloseInv ==
  ASSUME Inv, fclose
  PROVE  Inv'
  <1>1. v' = v /\ procs' = procs /\ fd' = Closed
    BY DEF fclose
  <1>2. /\ Closed = [path |-> Closed.path, made |-> Closed.made, copy |-> Closed.copy, offset |-> Closed.offset,
                     from |-> Closed.from, size |-> Closed.size, count |-> Closed.count, data |-> Closed.data]
        /\ Closed.made = 0 /\ Closed.offset = 0 /\ Closed.size = 0 /\ Closed.copy.fs = "vfs"
    BY DEF Closed, NewNode
  <1>3. FdInv(v, Closed)
    BY <1>2, InvTree DEF FdInv
  <1> QED BY <1>1, <1>3, InvTree DEF Inv

\* sys_link and sys_pipe extend the tree.
LEMMA LinkInv ==
  ASSUME Inv, NEW l \in Links, sys_link(l[1], l[2])
  PROVE  Inv'
  <1> DEFINE z == klink(v, l[1], l[2])
  <1>1. l[1] \in Seq(Name) /\ l[2] \in Seq(Name)
    BY VfsAssumption
  <1>2. v' = z /\ procs' = procs /\ fd' = fd
    BY DEF sys_link
  <1>3. Sound(z, ProcNode) /\ Extends(v, z) /\ z.pipes = v.pipes
    BY <1>1, InvTree, KlinkIs
  <1> HIDE DEF z
  <1>4. TreeInv(z) /\ ProcsInv(z, procs) /\ FdInv(z, fd)
    BY <1>3, InvTree, ExtendsInv
  <1> QED BY <1>2, <1>4 DEF Inv

\* sys_pipe, which makes one more pipe, keeps the invariant.
LEMMA SysPipeInv ==
  ASSUME Inv, NEW path \in Pipes, sys_pipe(path)
  PROVE  Inv'
  <1> DEFINE z == pipe_create(v, path).v
  <1>1. path \in Seq(Name)
    BY VfsAssumption
  <1>2. v' = z /\ procs' = procs /\ fd' = fd
    BY DEF sys_pipe
  <1>3. Sound(z, ProcNode) /\ Extends(v, z)
    BY <1>1, InvTree, PipeCreateIs
  <1>4. z.pipes \in Seq(0..Cap)
    BY <1>1, InvTree, PipeCreatePipes
  <1> HIDE DEF z
  <1>5. TreeInv(z) /\ ProcsInv(z, procs) /\ FdInv(z, fd)
    BY <1>3, <1>4, InvTree, ExtendsInv
  <1> QED BY <1>2, <1>5 DEF Inv

\* Every step keeps the invariant.
LEMMA NextInv ==
  ASSUME Inv, Next
  PROVE  Inv'
  <1>1. ASSUME NEW path \in Execs, NEW loads \in BOOLEAN, sys_exec(path, loads) PROVE Inv'
    BY <1>1, ExecInv
  <1>2. ASSUME NEW n \in Pid, libc_init(n) PROVE Inv'
    BY <1>2, LibcInv
  <1>3. ASSUME NEW n \in Pid, NEW s \in Stream, sys_write(n, s) PROVE Inv'
    BY <1>3, WriteInv
  <1>4. ASSUME NEW n \in Pid, proc_exit(n) PROVE Inv'
    BY <1>4, ExitInv
  <1>5. ASSUME NEW n \in Pid, clean_process(n) PROVE Inv'
    BY <1>5, CleanInv
  <1>6. ASSUME NEW path \in Paths, NEW create \in BOOLEAN, sys_open(path, create) PROVE Inv'
    BY <1>6, OpenInv
  <1>7. CASE read_pipe \/ write_pipe
    BY <1>7, PipeInv
  <1>8. CASE fclose
    BY <1>8, CloseInv
  <1>9. ASSUME NEW n \in ReadSizes, fread(n) PROVE Inv'
    BY <1>9, FreadInv
  <1>10. ASSUME NEW l \in Links, sys_link(l[1], l[2]) PROVE Inv'
    BY <1>10, LinkInv
  <1>11. ASSUME NEW path \in Pipes, sys_pipe(path) PROVE Inv'
    BY <1>11, SysPipeInv
  <1> QED BY <1>1, <1>2, <1>3, <1>4, <1>5, <1>6, <1>7, <1>8, <1>9, <1>10, <1>11 DEF Next

\* The invariant always holds.
THEOREM InvHolds ==
  Spec => []Inv
  <1>1. Inv /\ [Next]_vars => Inv'
    <2>1. ASSUME Inv, UNCHANGED vars PROVE Inv'
      BY <2>1 DEF vars, Inv
    <2> QED BY <2>1, NextInv
  <1> QED BY <1>1, InitInv, PTL DEF Spec

-----------------------------------------------------------------------------
(* The properties.                                                         *)

\* The invariant has the types.
LEMMA InvTypes ==
  Inv => TypeOK
  <1> SUFFICES ASSUME Inv PROVE TypeOK
    OBVIOUS
  <1>1. v.nodes \in Seq(Nodes) /\ DOMAIN v.nodes = 1..Len(v.nodes)
    BY InvTree DEF Sound, Typed
  <1>2. ASSUME NEW i \in DOMAIN v.nodes
        PROVE  /\ v.nodes[i].parent.id \in 0..i-1
               /\ ToSet(v.nodes[i].childs) \subseteq i+1..Len(v.nodes)
               /\ v.nodes[i].fs \in {"vfs", "pipe", "fat"} /\ v.nodes[i].pipe \in 0..Len(v.pipes)
               /\ v.nodes[i].to.id \in 0..Len(v.nodes)
    <2>1. i \in 1..Len(v.nodes) /\ i \in Nat
      BY <1>1, InvTree
    <2>2. v.nodes[i] \in Nodes /\ v.nodes[i].childs \in Seq(Nat) /\ Fields(v, i) /\ Lists(v, i)
      BY <2>1, InvTree, NodeIs DEF Sound
    <2>3. /\ v.nodes[i].parent.id \in Nat /\ v.nodes[i].pipe \in Nat /\ v.nodes[i].to.id \in Nat
          /\ v.nodes[i].fs \in {"vfs", "pipe", "fat"}
      BY <2>2 DEF Nodes, Refs
    <2>4. /\ v.nodes[i].parent.id < i /\ v.nodes[i].pipe <= Len(v.pipes) /\ v.nodes[i].to.id <= Len(v.nodes)
      BY <2>2 DEF Fields
    <2>5. ToSet(v.nodes[i].childs) \subseteq i+1..Len(v.nodes)
      <3>1. \A a \in 1..Len(v.nodes[i].childs) : v.nodes[i].childs[a] \in i+1..Len(v.nodes)
        BY <2>2 DEF Lists
      <3>2. DOMAIN v.nodes[i].childs = 1..Len(v.nodes[i].childs)
        BY <2>2
      <3> QED BY <3>1, <3>2 DEF ToSet
    <2> QED BY <2>1, <2>3, <2>4, <2>5, InvTree
  <1>3. ASSUME NEW n \in Pid
        PROVE  /\ procs[n].life \in {"free", "alive", "dead"}
               /\ procs[n].fds \in [Stream -> 0..Len(v.pipes)]
    <2>1. /\ procs[n].life \in {"free", "alive", "dead"} /\ procs[n].fds \in [Stream -> Nat]
          /\ \A s \in Stream : procs[n].fds[s] <= Len(v.pipes)
      BY InvTree DEF ProcsInv
    <2>2. \A s \in Stream : procs[n].fds[s] \in 0..Len(v.pipes)
      BY <2>1, InvTree
    <2> QED BY <2>1, <2>2
  <1>4. fd.made \in 0..Len(v.nodes) /\ fd.offset \in Nat
    BY InvTree DEF FdInv
  <1> QED BY <1>2, <1>3, <1>4, InvTree DEF TypeOK

\* The children of a node are its own, each once, and two of one name only
\* under /proc.
LEMMA InvTreeSound ==
  Inv => TreeSound
  <1> SUFFICES ASSUME Inv PROVE TreeSound
    OBVIOUS
  <1>1. v.nodes \in Seq(Nodes) /\ DOMAIN v.nodes = 1..Len(v.nodes)
    BY InvTree DEF Sound, Typed
  <1>2. kseek(v, <<Proc>>) = Tree(ProcNode)
    BY InvTree, ProcDirsAre
  <1>3. ASSUME NEW i \in DOMAIN v.nodes,
               NEW a \in DOMAIN v.nodes[i].childs, NEW b \in DOMAIN v.nodes[i].childs
        PROVE  LET cs == v.nodes[i].childs IN
               /\ v.nodes[cs[a]].parent = Tree(i)
               /\ cs[a] = cs[b] => a = b
               /\ v.nodes[cs[a]].name = v.nodes[cs[b]].name =>
                    a = b \/ (Tree(i) = kseek(v, <<Proc>>) /\ \E n \in Pid : v.nodes[cs[a]].name = PidName[n])
    <2> DEFINE cs == v.nodes[i].childs
    <2>1. i \in 1..Len(v.nodes)
      BY <1>1
    <2>2. cs \in Seq(Nat) /\ Lists(v, i) /\ Unique(v, ProcNode, i)
      BY <2>1, InvTree, NodeIs DEF Sound
    <2>3. a \in 1..Len(cs) /\ b \in 1..Len(cs)
      BY <2>2
    <2>4. v.nodes[cs[a]].parent = Tree(i) /\ (a < b => cs[a] < cs[b]) /\ (b < a => cs[b] < cs[a])
      BY <2>2, <2>3 DEF Lists
    <2>5. v.nodes[cs[a]].name = v.nodes[cs[b]].name =>
            a = b \/ (i = ProcNode /\ \E n \in Pid : v.nodes[cs[a]].name = PidName[n])
      BY <2>2, <2>3 DEF Unique
    <2> HIDE DEF cs
    <2>6. cs[a] = cs[b] => a = b
      <3>1. cs[a] \in Nat /\ cs[b] \in Nat /\ a \in Nat /\ b \in Nat
        BY <2>2, <2>3
      <3> QED BY <2>4, <3>1
    <2> QED BY <1>2, <2>4, <2>5, <2>6 DEF cs
  <1> QED BY <1>3, InvTypes DEF TreeSound

\* A directory lists only nodes that name it as their parent, each once, and
\* two of one name only where create_process made /proc/<pid> again.
THEOREM TreeAlwaysSound ==
  Spec => []TreeSound
  BY InvHolds, InvTreeSound, PTL

\* Bytes leave a pipe only when somebody reads it: every step but sys_read of
\* the observer keeps what the pipes hold or adds to it.
LEMMA StepKeeps ==
  ASSUME Inv, Next, NEW d \in DOMAIN v.pipes, v'.pipes[d] < v.pipes[d]
  PROVE  Opened /\ d = FdPipe
  <1>1. v.pipes \in Seq(0..Cap) /\ d \in 1..Len(v.pipes) /\ v.pipes[d] \in Nat
    <2>1. v.pipes \in Seq(0..Cap) /\ d \in 1..Len(v.pipes)
      BY InvTree
    <2>2. v.pipes[d] \in Nat
      <3>1. v.pipes \in Seq(Nat)
        BY InvTree DEF Sound, Typed
      <3> QED BY <2>1, <3>1
    <2> QED BY <2>1, <2>2
  <1>2. ASSUME Kept(v.pipes, v'.pipes) PROVE FALSE
    BY <1>1, <1>2 DEF Kept
  <1>3. ASSUME NEW e, v' = [v EXCEPT !.pipes[e] = @ + 1] PROVE FALSE
    <2>1. v'.pipes[d] = IF d = e THEN v.pipes[d] + 1 ELSE v.pipes[d]
      BY <1>1, <1>3, InvTree DEF Sound, Typed
    <2> QED BY <1>1, <2>1
  <1>4. ASSUME NEW path \in Execs, NEW loads \in BOOLEAN, sys_exec(path, loads) PROVE FALSE
    <2>1. Min(Free) \in Pid
      <3>1. Free # {} /\ Free \subseteq Pid /\ Free \subseteq Nat
        BY <1>4, VfsAssumption DEF sys_exec, Free
      <3> QED BY <3>1, MinIs
    <2>2. Extends(v, WithProcDir(v, Min(Free)))
      BY <2>1, InvTree, WithProcDirIs
    <2>3. v' = WithProcDir(v, Min(Free))
      BY <1>4 DEF sys_exec
    <2> QED BY <1>2, <2>2, <2>3 DEF Extends
  <1>5. ASSUME v' = v PROVE FALSE
    BY <1>1, <1>5
  <1>6. ASSUME NEW n \in Pid, clean_process(n) PROVE FALSE
    <2>1. procs[n].life = "dead" /\ v' = RemoveStreams(v, n).v
      BY <1>6 DEF clean_process
    <2>2. HasDir(v, ProcNode, n)
      BY <2>1, InvTree DEF ProcsInv
    <2>3. PICK q \in ProcNode+1..Len(v.nodes) : kseek(v, ProcPath(n)) = Tree(q)
      BY <2>2, InvTree, ProcDirsAre
    <2>4. q \in 1..Len(v.nodes)
      BY <2>3, InvTree
    <2>5. Pruned(v, RemoveStreams(v, n).v, q)
      BY <2>3, <2>4, InvTree, RemoveStreamsIs
    <2>6. v'.pipes = v.pipes
      BY <2>1, <2>5 DEF Pruned
    <2> QED BY <1>1, <2>6
  <1>7. ASSUME NEW path \in Paths, NEW create \in BOOLEAN, sys_open(path, create) PROVE FALSE
    <2>1. CASE v' = v
      BY <1>5, <2>1
    <2>2. CASE kseek(v, path) = NoNode /\ v' = kcreate(v, path).v
      <3>1. path \in Seq(Name)
        BY VfsAssumption
      <3>2. Extends(v, kcreate(v, path).v)
        BY <2>2, <3>1, InvTree, NewPath
      <3> QED BY <1>2, <2>2, <3>2 DEF Extends
    <2> QED BY <1>7, <2>1, <2>2 DEF sys_open
  <1>8. ASSUME NEW l \in Links, sys_link(l[1], l[2]) PROVE FALSE
    <2>1. l[1] \in Seq(Name) /\ l[2] \in Seq(Name) /\ v' = klink(v, l[1], l[2])
      BY <1>8, VfsAssumption DEF sys_link
    <2>2. klink(v, l[1], l[2]).pipes = v.pipes
      BY <2>1, InvTree, KlinkIs
    <2> QED BY <1>1, <2>1, <2>2
  <1>9. ASSUME NEW path \in Pipes, sys_pipe(path) PROVE FALSE
    <2>1. path \in Seq(Name) /\ v' = pipe_create(v, path).v
      BY <1>9, VfsAssumption DEF sys_pipe
    <2>2. Extends(v, pipe_create(v, path).v)
      BY <2>1, InvTree, PipeCreateIs
    <2> QED BY <1>2, <2>1, <2>2 DEF Extends
  <1>10. CASE read_pipe
    <2>1. v'.pipes[d] = IF d = FdPipe THEN 0 ELSE v.pipes[d]
      BY <1>1, <1>10, InvTree DEF read_pipe, Sound, Typed
    <2> QED BY <1>1, <1>10, <2>1 DEF read_pipe
  <1>11. CASE write_pipe
    BY <1>3, <1>11 DEF write_pipe
  <1>12. ASSUME NEW n \in Pid, NEW s \in Stream, sys_write(n, s) PROVE FALSE
    BY <1>3, <1>12 DEF sys_write
  <1>13. ASSUME NEW n \in Pid, libc_init(n) \/ proc_exit(n) PROVE FALSE
    BY <1>5, <1>13 DEF libc_init, proc_exit
  <1>14. ASSUME NEW n \in ReadSizes, fread(n) PROVE FALSE
    BY <1>5, <1>14 DEF fread
  <1>15. ~fclose
    BY <1>5 DEF fclose
  <1> QED BY <1>4, <1>6, <1>7, <1>8, <1>9, <1>10, <1>11, <1>12, <1>13, <1>14, <1>15 DEF Next

\* "Restore pipe values": clean_process leaves in the streams of a dead process
\* what it found, and only a read takes bytes out of a pipe.
THEOREM OutputAlwaysKept ==
  Spec => OutputKept
  <1> DEFINE Keeps == \A d \in DOMAIN v.pipes : v'.pipes[d] < v.pipes[d] => Opened /\ d = FdPipe
  <1>1. Inv /\ [Next]_vars => [Keeps]_vars
    <2>1. ASSUME Inv, Next PROVE Keeps
      BY <2>1, StepKeeps
    <2> QED BY <2>1
  <1>2. Inv /\ [Next]_vars => [\A d \in DOMAIN v.pipes : v'.pipes[d] < v.pipes[d] => Opened /\ d = FdPipe]_vars
    BY <1>1
  <1> QED BY <1>2, InvHolds, PTL DEF Spec, OutputKept

\* The long name that the code takes for an entry is the one right before it in
\* its cluster, or the name is stray.
LEMMA PendingIsBefore ==
  ASSUME NEW c \in DOMAIN Entries, NEW j \in 1..Len(Entries[c]), NEW name \in Name, name \notin StrayNames
  PROVE  PendingName(c, j - 1) = name <=> j > 1 /\ LongOf(Entries[c][j-1]) = name
  <1> DEFINE es == Entries[c]
             P == Pending(c, j - 1)
  <1>1. es \in Seq(Entry) /\ Len(es) \in Nat /\ DOMAIN es = 1..Len(es) /\ name # NoName
    BY DiskAssumption
  <1>2. ASSUME NEW k \in 1..Len(es), es[k].kind = "long", es[k].long = name
        PROVE  k # Len(es) /\ es[k+1].kind # "deleted"
    <2>1. ~Stray(c, k)
      BY <1>1, <1>2 DEF StrayNames
    <2> QED BY <1>2, <2>1 DEF Stray
  <1>3. ASSUME PendingName(c, j - 1) = name PROVE j > 1 /\ LongOf(es[j-1]) = name
    <2> DEFINE k == Min(P)
    <2>1. P # {} /\ es[k].long = name
      BY <1>1, <1>3 DEF PendingName
    <2>2. P \subseteq Nat
      BY DEF Pending
    <2>3. k \in P
      <3> HIDE DEF P
      <3> QED BY <2>1, <2>2, MinIs
    <2> HIDE DEF k
    <2>4. /\ k \in 1..j-1 /\ es[k].kind = "long"
          /\ \A l \in k+1..j-1 : es[l].kind \notin {"file", "dir", "long"}
      BY <2>3 DEF Pending
    <2>8. k \in 1..Len(es)
      BY <1>1, <2>4
    <2>5. es[k+1].kind # "deleted"
      BY <1>2, <2>1, <2>4, <2>8
    <2>6. CASE k = j - 1
      BY <2>1, <2>4, <2>6 DEF LongOf
    <2>7. CASE k # j - 1
      <3>1. k + 1 \in k+1..j-1 /\ k + 1 \in 1..Len(es)
        BY <1>1, <2>4, <2>7
      <3>2. es[k+1] \in Entry
        BY <1>1, <3>1
      <3> QED BY <2>4, <2>5, <3>1, <3>2 DEF Entry
    <2> QED BY <2>6, <2>7
  <1>4. ASSUME j > 1, LongOf(es[j-1]) = name PROVE PendingName(c, j - 1) = name
    <2>1. es[j-1].kind = "long" /\ es[j-1].long = name
      BY <1>1, <1>4 DEF LongOf
    <2>2. j - 1 \in 1..Len(Entries[c])
      BY <1>1, <1>4
    <2>3. PendingName(c, j - 1) = Entries[c][j-1].long
      BY <2>1, <2>2, PendingStep
    <2> QED BY <2>1, <2>3
  <1> QED BY <1>3, <1>4

\* Entries that differ in their long names only.
SameEntry(x, y) == x.kind = y.kind /\ x.short = y.short /\ x.cluster = y.cluster /\ x.size = y.size

\* An entry as the code has it and as it is: one entry of the disk, which has a
\* name that is not stray here if it has it there.
LEMMA CodeAndDisk ==
  ASSUME NEW dir \in KnownEntries, dir.kind = "dir", NEW i \in DOMAIN Chain(dir.cluster),
         NEW c, c = Chain(dir.cluster)[i], NEW j \in 1..Len(Entries[c]), IsListed(c, j),
         NEW x, x = ParsedAt(c, j), NEW y, y = EntryAt(dir.cluster, i, j)
  PROVE  /\ x \in ParsedOf(dir.cluster) /\ y \in EntriesOf(dir.cluster)
         /\ x \in Entry /\ y \in Entry /\ SameEntry(x, y) /\ x # NoEntry /\ y # NoEntry
         /\ \A name \in Name : name \notin StrayNames => (Named(x, name) <=> Named(y, name))
  <1> DEFINE chain == Chain(dir.cluster)
             es == Entries[c]
             e == es[j]
             b == Before(dir.cluster, i, j)
  <1>1. chain \in Seq(DOMAIN Entries)
    BY KnownIs
  <1>2. c \in DOMAIN Entries /\ c \in ToSet(chain)
    BY <1>1 DEF ToSet
  <1>3. es \in Seq(Entry) /\ DOMAIN es = 1..Len(es) /\ Len(es) \in Nat
    BY <1>2, DiskAssumption
  <1>4. x \in ParsedOf(dir.cluster) /\ y \in EntriesOf(dir.cluster)
    <2>1. j \in DOMAIN Entries[c]
      BY <1>3
    <2> QED BY <1>2, <2>1 DEF ParsedOf, EntriesOf
  <1>5. e \in Entry /\ e.kind \in {"file", "dir"}
    BY <1>3 DEF IsListed
  <1>6. b = NoEntry \/ b \in Entry
    <2>1. CASE j > 1
      <3>1. j - 1 \in 1..Len(es) /\ b = es[j-1]
        BY <1>3, <2>1 DEF Before
      <3> QED BY <1>3, <3>1
    <2>2. CASE ~(j > 1) /\ i > 1 /\ Entries[chain[i-1]] # <<>>
      <3>1. i - 1 \in DOMAIN chain /\ b = Last(Entries[chain[i-1]])
        BY <1>1, <2>2 DEF Before
      <3>2. Entries[chain[i-1]] \in Seq(Entry)
        BY <1>1, <3>1, DiskAssumption
      <3>3. Len(Entries[chain[i-1]]) \in 1..Len(Entries[chain[i-1]])
        BY <2>2, <3>2
      <3> QED BY <3>1, <3>2, <3>3 DEF Last
    <2>3. CASE ~(j > 1) /\ ~(i > 1 /\ Entries[chain[i-1]] # <<>>)
      BY <2>3 DEF Before
    <2> QED BY <2>1, <2>2, <2>3
  <1>7. LongOf(b) \in Name \cup {NoName}
    BY <1>6 DEF LongOf, NoEntry, Entry
  <1>8. x = [e EXCEPT !.long = PendingName(c, j - 1)] /\ y = [e EXCEPT !.long = LongOf(b)]
    BY DEF ParsedAt, EntryAt
  <1>9. PendingName(c, j - 1) \in Name \cup {NoName}
    <2>1. j - 1 \in 0..Len(Entries[c])
      BY <1>3
    <2> QED BY <1>2, <2>1, PendingIsName
  <1>10. ASSUME NEW name \in Name, name \notin StrayNames
         PROVE  LongOf(b) = name <=> j > 1 /\ LongOf(es[j-1]) = name
    <2>1. CASE j > 1
      BY <2>1 DEF Before
    <2>2. CASE ~(j > 1) /\ i > 1 /\ Entries[chain[i-1]] # <<>>
      <3> DEFINE d == chain[i-1]
                 k == Len(Entries[d])
      <3>1. i - 1 \in DOMAIN chain /\ b = Entries[d][k]
        BY <1>1, <2>2 DEF Before, Last
      <3>2. d \in DOMAIN Entries
        BY <1>1, <3>1
      <3>3. Entries[d] \in Seq(Entry)
        BY <3>2, DiskAssumption
      <3>4. k \in DOMAIN Entries[d]
        BY <2>2, <3>3
      <3>5. ASSUME LongOf(b) = name PROVE FALSE
        <4>1. Entries[d][k].kind = "long" /\ Entries[d][k].long = name
          BY <3>1, <3>5, DiskAssumption DEF LongOf
        <4>2. Stray(d, k)
          BY <4>1 DEF Stray
        <4> HIDE DEF d, k
        <4> QED BY <1>10, <3>2, <3>4, <4>1, <4>2 DEF StrayNames
      <3> QED BY <2>2, <3>5
    <2>3. CASE ~(j > 1) /\ ~(i > 1 /\ Entries[chain[i-1]] # <<>>)
      <3>1. b = NoEntry
        BY <2>3 DEF Before
      <3>2. LongOf(b) = NoName
        BY <3>1 DEF LongOf, NoEntry
      <3> QED BY <2>3, <3>2, DiskAssumption
    <2> QED BY <2>1, <2>2, <2>3
  <1> HIDE DEF b, e
  <1>11. /\ x \in Entry /\ x.short = e.short /\ x.long = PendingName(c, j - 1) /\ x.kind = e.kind
         /\ y \in Entry /\ y.short = e.short /\ y.long = LongOf(b) /\ y.kind = e.kind
         /\ SameEntry(x, y)
    BY <1>5, <1>7, <1>8, <1>9 DEF Entry, SameEntry
  <1>12. x # NoEntry /\ y # NoEntry
    BY <1>5, <1>11 DEF NoEntry
  <1>13. ASSUME NEW name \in Name, name \notin StrayNames PROVE Named(x, name) <=> Named(y, name)
    <2>1. PendingName(c, j - 1) = name <=> LongOf(b) = name
      BY <1>2, <1>10, <1>13, PendingIsBefore
    <2> QED BY <1>11, <2>1 DEF Named
  <1> QED BY <1>4, <1>11, <1>12, <1>13

\* What a directory holds, and what the code finds there, one for one.
LEMMA EntriesPaired ==
  ASSUME NEW dir \in KnownEntries, dir.kind = "dir"
  PROVE  /\ \A x \in ParsedOf(dir.cluster) : \E y \in EntriesOf(dir.cluster) :
              /\ SameEntry(x, y) /\ x \in Entry /\ y \in Entry /\ y # NoEntry
              /\ \A name \in Name : name \notin StrayNames => (Named(x, name) <=> Named(y, name))
         /\ \A y \in EntriesOf(dir.cluster) : \E x \in ParsedOf(dir.cluster) :
              /\ SameEntry(x, y) /\ x \in Entry /\ y \in Entry /\ x # NoEntry
              /\ \A name \in Name : name \notin StrayNames => (Named(x, name) <=> Named(y, name))
  <1> DEFINE chain == Chain(dir.cluster)
  <1>1. chain \in Seq(DOMAIN Entries)
    BY KnownIs
  <1>2. \A i \in DOMAIN chain : DOMAIN Entries[chain[i]] = 1..Len(Entries[chain[i]])
    BY <1>1, DiskAssumption
  <1>3. ASSUME NEW x \in ParsedOf(dir.cluster)
        PROVE  \E y \in EntriesOf(dir.cluster) :
                 /\ SameEntry(x, y) /\ x \in Entry /\ y \in Entry /\ y # NoEntry
                 /\ \A name \in Name : name \notin StrayNames => (Named(x, name) <=> Named(y, name))
    <2>1. PICK c \in ToSet(chain) : \E j \in DOMAIN Entries[c] : IsListed(c, j) /\ x = ParsedAt(c, j)
      BY DEF ParsedOf
    <2>2. PICK j \in DOMAIN Entries[c] : IsListed(c, j) /\ x = ParsedAt(c, j)
      BY <2>1
    <2>3. PICK i \in DOMAIN chain : c = chain[i]
      BY <2>1 DEF ToSet
    <2>4. j \in 1..Len(Entries[c])
      BY <1>2, <2>2, <2>3
    <2> DEFINE y == EntryAt(dir.cluster, i, j)
    <2>5. /\ y \in EntriesOf(dir.cluster) /\ SameEntry(x, y) /\ x \in Entry /\ y \in Entry /\ y # NoEntry
          /\ \A name \in Name : name \notin StrayNames => (Named(x, name) <=> Named(y, name))
      BY <2>2, <2>3, <2>4, CodeAndDisk
    <2> HIDE DEF y
    <2> QED BY <2>5
  <1>4. ASSUME NEW y \in EntriesOf(dir.cluster)
        PROVE  \E x \in ParsedOf(dir.cluster) :
                 /\ SameEntry(x, y) /\ x \in Entry /\ y \in Entry /\ x # NoEntry
                 /\ \A name \in Name : name \notin StrayNames => (Named(x, name) <=> Named(y, name))
    <2>1. PICK i \in DOMAIN chain : \E j \in DOMAIN Entries[chain[i]] :
                 IsListed(chain[i], j) /\ y = EntryAt(dir.cluster, i, j)
      BY DEF EntriesOf
    <2>2. PICK j \in DOMAIN Entries[chain[i]] : IsListed(chain[i], j) /\ y = EntryAt(dir.cluster, i, j)
      BY <2>1
    <2>3. j \in 1..Len(Entries[chain[i]])
      BY <1>2, <2>2
    <2> DEFINE c == chain[i]
               x == ParsedAt(c, j)
    <2>4. /\ x \in ParsedOf(dir.cluster) /\ SameEntry(x, y) /\ x \in Entry /\ y \in Entry /\ x # NoEntry
          /\ \A name \in Name : name \notin StrayNames => (Named(x, name) <=> Named(y, name))
      BY <2>2, <2>3, CodeAndDisk
    <2> HIDE DEF x, c
    <2> QED BY <2>4
  <1> QED BY <1>3, <1>4

\* An entry with a name is the only one of that name in its directory.
LEMMA OneOfAName ==
  ASSUME NEW dir \in KnownEntries, dir.kind = "dir", NEW name \in Name,
         NEW x \in EntriesOf(dir.cluster), NEW y \in EntriesOf(dir.cluster), Named(x, name), Named(y, name)
  PROVE  x = y
  <1> DEFINE Known == {RootEntry} \cup UNION {ToSet(Entries[c]) : c \in DOMAIN Entries}
  <1>1. PICK d \in Known : d.kind = dir.kind /\ d.cluster = dir.cluster
    <2>1. CASE dir = RootEntry
      BY <2>1
    <2>2. CASE dir = NoEntry
      BY <2>2 DEF NoEntry
    <2>3. CASE dir \in Listed
      BY <2>3, ListedIs
    <2> QED BY <2>1, <2>2, <2>3 DEF KnownEntries
  <1>2. \A e1, e2 \in EntriesOf(d.cluster) : Named(e1, name) /\ Named(e2, name) => e1 = e2
    BY <1>1, NamesAssumption
  <1> QED BY <1>1, <1>2

\* What searches find: one is nothing if the other is, and else they are the same
\* but for the long names of their entries.
FoundRefs == [id : Nat, ent : Entry \cup {NoEntry}]
Agree(r, s) ==
  /\ r \in FoundRefs /\ s \in FoundRefs /\ r.id = s.id /\ SameEntry(r.ent, s.ent)
  /\ r = NoNode <=> s = NoNode

\* What agrees is the same.
LEMMA AgreeSame ==
  ASSUME NEW r, NEW s, Agree(r, s)
  PROVE  Same(s, r)
  <1> DEFINE a == r.ent
             b == s.ent
  <1>1. /\ r \in FoundRefs /\ s \in FoundRefs /\ r.id = s.id
        /\ a.kind = b.kind /\ a.short = b.short /\ a.cluster = b.cluster /\ a.size = b.size
    BY DEF Agree, SameEntry
  <1>2. [r EXCEPT !.ent.long = NoName] = [id |-> r.id, ent |-> [a EXCEPT !.long = NoName]]
    BY <1>1 DEF FoundRefs
  <1>3. [s EXCEPT !.ent.long = NoName] = [id |-> s.id, ent |-> [b EXCEPT !.long = NoName]]
    BY <1>1 DEF FoundRefs
  <1>4. a \in Entry \cup {NoEntry} /\ b \in Entry \cup {NoEntry}
    BY <1>1 DEF FoundRefs
  <1> HIDE DEF a, b
  <1>5. \A e \in Entry \cup {NoEntry} : [e EXCEPT !.long = NoName] =
           [kind |-> e.kind, short |-> e.short, long |-> NoName, cluster |-> e.cluster, size |-> e.size]
    BY DEF Entry, NoEntry
  <1>6. [a EXCEPT !.long = NoName] = [b EXCEPT !.long = NoName]
    BY <1>1, <1>4, <1>5
  <1> QED BY <1>1, <1>2, <1>3, <1>6 DEF Same

\* What is found agrees with itself.
LEMMA AgreeSelf ==
  ASSUME NEW w, NEW r, IsRef(w, r)
  PROVE  Agree(r, r)
  <1>1. r \in FoundRefs
    BY ListedIs DEF IsRef, Refs, FoundRefs
  <1> QED BY <1>1 DEF Agree, SameEntry

\* The reference search goes on alike from what agrees.
LEMMA AgreeStep ==
  ASSUME NEW r, NEW s, Agree(r, s), NEW name
  PROVE  Step(r, name) = Step(s, name)
  <1>1. r.id = s.id /\ r.ent.kind = s.ent.kind /\ r.ent.cluster = s.ent.cluster
    BY DEF Agree, SameEntry
  <1>2. CASE r.id = 0
    <2> DEFINE es(k, d) == IF k # "dir" THEN {} ELSE {x \in EntriesOf(d) : Named(x, name)}
               To(S) == IF S # {} THEN OnDisk(CHOOSE x \in S : TRUE) ELSE NoNode
    <2>1. Step(r, name) = To(es(r.ent.kind, r.ent.cluster))
      BY <1>2 DEF Step, IsTree, EntryOf
    <2>2. Step(s, name) = To(es(s.ent.kind, s.ent.cluster))
      BY <1>1, <1>2 DEF Step, IsTree, EntryOf
    <2> HIDE DEF es, To
    <2> QED BY <1>1, <2>1, <2>2
  <1>3. CASE r.id # 0
    BY <1>1, <1>3 DEF Step, IsTree, EntryOf
  <1> QED BY <1>2, <1>3

\* One part of a search: kseek's loop finds what it should.
LEMMA StepIs ==
  ASSUME Inv, NEW r, IsRef(v, r), r # NoNode, NEW name \in Name, name \notin StrayNames
  PROVE  Agree(Step(r, name), SeekPart(v, r, name))
  <1> DEFINE ks == v.nodes[r.id].childs
             cs == IF IsTree(r) THEN {c \in ToSet(ks) : v.nodes[c].name = name} ELSE {}
             e  == EntryOf(v, r)
             es == IF e.kind # "dir" THEN {} ELSE {x \in EntriesOf(e.cluster) : Named(x, name)}
             c  == vfs_seek(v, r, name)
  <1>1. Step(r, name) = IF cs # {} THEN Tree(Min(cs)) ELSE IF es # {} THEN OnDisk(CHOOSE x \in es : TRUE) ELSE NoNode
    BY DEF Step
  <1>2. SeekPart(v, r, name) = IF c # NoNode THEN c ELSE IF IsFat(v, r) THEN OnDisk(fat_seek(name, e)) ELSE NoNode
    BY DEF SeekPart, ElseDriver, DriverSeek
  <1>3. /\ r.id \in 0..Len(v.nodes)
        /\ c = NoNode => r.id = 0 \/ \A a \in 1..Len(ks) : v.nodes[ks[a]].name # name
        /\ c # NoNode => /\ r.id # 0
                         /\ \E a \in 1..Len(ks) :
                              /\ c = Tree(ks[a]) /\ v.nodes[ks[a]].name = name
                              /\ \A b \in 1..Len(ks) : v.nodes[ks[b]].name = name => a <= b
    <2>1. r.id \in 0..Len(v.nodes) /\ Seeks(v, r.id, name, c)
      BY InvTree, LeastChild
    <2> HIDE DEF c
    <2> QED BY <2>1 DEF Seeks
  <1>4. r.id # 0 => ks \in Seq(Nat) /\ Lists(v, r.id)
    <2> SUFFICES ASSUME r.id # 0 PROVE ks \in Seq(Nat) /\ Lists(v, r.id)
      OBVIOUS
    <2>1. r.id \in 1..Len(v.nodes)
      BY <1>3, InvTree, SMTT(30)
    <2> QED BY <2>1, InvTree, NodeIs DEF Sound
  <1> HIDE DEF c
  <1>7. IsRef(v, SeekPart(v, r, name))
    BY InvTree, SeekPartIs
  <1>8. Agree(NoNode, NoNode)
    <2>1. IsRef(v, NoNode)
      BY InvTree, RefsAre DEF IsRef
    <2> QED BY <2>1, AgreeSelf
  <1>5. CASE c # NoNode
    <2>1. r.id # 0 /\ ks \in Seq(Nat) /\ \A a, b \in 1..Len(ks) : a < b => ks[a] < ks[b]
      BY <1>3, <1>4, <1>5 DEF Lists
    <2>2. PICK a \in 1..Len(ks) : /\ c = Tree(ks[a]) /\ v.nodes[ks[a]].name = name
                                  /\ \A b \in 1..Len(ks) : v.nodes[ks[b]].name = name => a <= b
      BY <1>3, <1>5
    <2>3. cs = {d \in ToSet(ks) : v.nodes[d].name = name}
      BY <2>1 DEF IsTree
    <2> DEFINE s == ks
    <2>4. s \in Seq(Nat) /\ DOMAIN s = 1..Len(s) /\ a \in 1..Len(s) /\ Len(s) \in Nat
      BY <2>1
    <2> HIDE DEF s
    <2>5. ToSet(s) = {s[b] : b \in 1..Len(s)} /\ \A b \in 1..Len(s) : s[b] \in Nat
      BY <2>4 DEF ToSet
    <2>6. s[a] \in cs /\ cs \subseteq Nat
      BY <2>2, <2>3, <2>4, <2>5 DEF s
    <2>7. \A d \in cs : s[a] <= d
      <3> SUFFICES ASSUME NEW d \in cs PROVE s[a] <= d
        OBVIOUS
      <3>1. PICK b \in 1..Len(s) : d = s[b] /\ v.nodes[d].name = name
        BY <2>3, <2>5 DEF s
      <3>2. a <= b
        BY <2>2, <3>1 DEF s
      <3>3. a = b \/ s[a] < s[b]
        <4>1. a < b => s[a] < s[b]
          BY <2>1, <2>4, <3>1 DEF s
        <4> QED BY <2>4, <3>1, <3>2, <4>1
      <3> QED BY <2>4, <2>5, <3>1, <3>3
    <2> HIDE DEF cs
    <2>8. Min(cs) \in cs /\ \A d \in cs : Min(cs) <= d
      BY <2>6, MinIs
    <2>9. Min(cs) = s[a]
      <3>1. Min(cs) <= s[a] /\ s[a] <= Min(cs) /\ Min(cs) \in Nat /\ s[a] \in Nat
        BY <2>6, <2>7, <2>8
      <3> QED BY <3>1
    <2>10. Step(r, name) = SeekPart(v, r, name)
      BY <1>1, <1>2, <1>5, <2>2, <2>6, <2>9 DEF s
    <2> QED BY <1>7, <2>10, AgreeSelf
  <1>6. CASE c = NoNode
    <2>1. cs = {}
      <3>1. CASE r.id = 0
        BY <3>1 DEF IsTree
      <3>2. CASE r.id # 0
        <4>1. \A a \in 1..Len(ks) : v.nodes[ks[a]].name # name
          BY <1>3, <1>6, <3>2
        <4>2. ToSet(ks) = {ks[a] : a \in 1..Len(ks)}
          BY <1>4, <3>2 DEF ToSet
        <4> QED BY <4>1, <4>2
      <3> QED BY <3>1, <3>2
    <2>2. e \in KnownEntries /\ (IsFat(v, r) <=> e # NoEntry)
      BY InvTree, EntryOfIs
    <2> HIDE DEF cs, e
    <2>3. CASE ~IsFat(v, r)
      <3>1. es = {}
        BY <2>2, <2>3 DEF NoEntry
      <3>2. Step(r, name) = NoNode /\ SeekPart(v, r, name) = NoNode
        BY <1>1, <1>2, <1>6, <2>1, <2>3, <3>1
      <3> QED BY <1>8, <3>2
    <2>4. CASE IsFat(v, r)
      <3> DEFINE f == fat_seek(name, e)
      <3>1. /\ f # NoEntry => e.kind = "dir" /\ f \in ParsedOf(e.cluster) /\ Named(f, name)
            /\ f = NoEntry => e.kind # "dir" \/ \A x \in ParsedOf(e.cluster) : ~Named(x, name)
        BY <2>2, FatSeekIs
      <3> HIDE DEF f
      <3>2. CASE f = NoEntry
        <4>1. ASSUME e.kind = "dir", NEW y \in ParsedOf(e.cluster) PROVE ~Named(y, name)
          BY <3>1, <3>2, <4>1
        <4>2. ASSUME e.kind = "dir", NEW y \in EntriesOf(e.cluster) PROVE ~Named(y, name)
          <5>1. PICK x \in ParsedOf(e.cluster) : Named(x, name) <=> Named(y, name)
            BY <2>2, <4>2, EntriesPaired
          <5> QED BY <4>1, <4>2, <5>1
        <4>3. es = {}
          BY <4>2
        <4>4. OnDisk(f) = NoNode
          BY <3>2, RefsAre
        <4>5. Step(r, name) = NoNode /\ SeekPart(v, r, name) = NoNode
          BY <1>1, <1>2, <1>6, <2>1, <2>4, <4>3, <4>4 DEF f
        <4> QED BY <1>8, <4>5
      <3>3. CASE f # NoEntry
        <4>1. e.kind = "dir" /\ f \in ParsedOf(e.cluster) /\ Named(f, name)
          BY <3>1, <3>3
        <4>2. PICK y \in EntriesOf(e.cluster) :
                 /\ SameEntry(f, y) /\ f \in Entry /\ y \in Entry /\ y # NoEntry
                 /\ \A n \in Name : n \notin StrayNames => (Named(f, n) <=> Named(y, n))
          BY <2>2, <4>1, EntriesPaired
        <4>3. Named(y, name)
          BY <4>1, <4>2
        <4>4. y \in es
          BY <4>1, <4>3
        <4>5. ASSUME NEW x \in es PROVE x = y
          <5>1. x \in EntriesOf(e.cluster) /\ Named(x, name)
            BY <4>1, <4>5
          <5> QED BY <2>2, <4>1, <4>3, <5>1, OneOfAName
        <4> HIDE DEF es
        <4>6. (CHOOSE x \in es : TRUE) = y
          BY <4>4, <4>5
        <4>7. Step(r, name) = OnDisk(y) /\ SeekPart(v, r, name) = OnDisk(f)
          BY <1>1, <1>2, <1>6, <2>1, <2>4, <4>4, <4>6 DEF f
        <4>8. Agree(OnDisk(y), OnDisk(f))
          <5>1. /\ OnDisk(y) \in FoundRefs /\ OnDisk(f) \in FoundRefs
                /\ OnDisk(y).id = OnDisk(f).id /\ OnDisk(y).ent = y /\ OnDisk(f).ent = f
            BY <4>2 DEF OnDisk, FoundRefs
          <5>2. OnDisk(y) # NoNode /\ OnDisk(f) # NoNode
            BY <3>3, <4>2, <5>1, RefsAre
          <5> QED BY <4>2, <5>1, <5>2 DEF Agree, SameEntry
        <4> QED BY <4>7, <4>8
      <3> QED BY <3>2, <3>3
    <2> QED BY <2>3, <2>4
  <1> QED BY <1>5, <1>6

\* A round of the search that finds what should be found.
LookupRound(path, f, i) ==
  IF i = 0 THEN Root ELSE IF f[i-1] = NoNode THEN NoNode ELSE Step(f[i-1], path[i])
IsLookup(f, path, n) == f = [i \in 0..n |-> LookupRound(path, f, i)]

\* That search is a loop.
LEMMA LookupIs ==
  ASSUME NEW path, Len(path) \in Nat
  PROVE  \E f : IsLookup(f, path, Len(path)) /\ Lookup(path) = f[Len(path)]
  <1> DEFINE N == Len(path)
             S == {m \in 0..N : \E f : IsLookup(f, path, m)}
             F == CHOOSE f : IsLookup(f, path, N)
  <1>1. Lookup(path) = F[N]
    BY DEF Lookup, IsLookup, LookupRound
  <1>0. N \in Nat
    OBVIOUS
  <1> HIDE DEF N
  <1>2. 0 \in S
    <2> DEFINE f == [i \in 0..0 |-> Root]
    <2>1. \A i \in 0..0 : i = 0
      OBVIOUS
    <2>2. IsLookup(f, path, 0)
      BY <2>1 DEF IsLookup, LookupRound
    <2> QED BY <1>0, <2>2
  <1>3. ASSUME NEW m \in 0+1..N, m - 1 \in S PROVE m \in S
    <2>1. PICK f : IsLookup(f, path, m - 1)
      BY <1>3
    <2> DEFINE g == [i \in 0..m |-> LookupRound(path, f, i)]
    <2>2. \A i \in 0..m-1 : g[i] = f[i]
      BY <1>0, <2>1 DEF IsLookup
    <2>3. \A i \in 0..m : LookupRound(path, g, i) = LookupRound(path, f, i)
      <3>1. \A i \in 0..m : i = 0 \/ i - 1 \in 0..m-1
        BY <1>0
      <3> HIDE DEF g
      <3> QED BY <2>2, <3>1 DEF LookupRound
    <2>4. g = [i \in 0..m |-> LookupRound(path, g, i)]
      BY <2>3
    <2>5. m \in 0..N
      BY <1>0
    <2> HIDE DEF g
    <2> QED BY <2>4, <2>5 DEF IsLookup
  <1> HIDE DEF S, F
  <1>4. \A i \in 0..N : i \in S
    BY <1>0, <1>2, <1>3, LoopInduction
  <1>5. N \in 0..N
    BY <1>0
  <1>6. IsLookup(F, path, N)
    BY <1>4, <1>5 DEF S, F
  <1> QED BY <1>1, <1>6 DEF N

\* kseek finds what a search should find, as long as something is there.
LEMMA LookupWalk ==
  ASSUME Inv, NEW path \in Seq(Name), ToSet(path) \cap StrayNames = {}
  PROVE  /\ Lookup(path) # NoNode => \A i \in 0..Len(path) : Walk(v, path)[i] # NoNode
         /\ (\A j \in 0..Len(path)-1 : Walk(v, path)[j] # NoNode) => Agree(Lookup(path), Walk(v, path)[Len(path)])
  <1> DEFINE N == Len(path)
             at == Walk(v, path)
  <1>0. N \in Nat /\ \A i \in 1..N : path[i] \in Name /\ path[i] \notin StrayNames
    BY DEF ToSet
  <1>1. PICK f : IsLookup(f, path, N) /\ Lookup(path) = f[N]
    BY <1>0, LookupIs
  <1>2. /\ f[0] = Root
        /\ \A i \in 1..N : f[i] = IF f[i-1] = NoNode THEN NoNode ELSE Step(f[i-1], path[i])
    BY <1>0, <1>1 DEF IsLookup, LookupRound
  <1>3. /\ at[0] = Root /\ \A i \in 1..N : at[i] = SeekPart(v, at[i-1], path[i])
        /\ \A i \in 0..N : IsRef(v, at[i])
    BY InvTree, WalkStep
  <1>4. Root # NoNode
    BY DEF Root, NoNode
  <1>9. Agree(Root, Root)
    <2>1. 0 \in 0..N /\ at[0] = Root
      BY <1>0, <1>3
    <2>2. IsRef(v, Root)
      BY <1>3, <2>1
    <2> QED BY <2>2, AgreeSelf
  <1> HIDE DEF N, at
  <1>5. ASSUME NEW i \in 1..N, at[i-1] # NoNode PROVE Agree(Step(at[i-1], path[i]), at[i])
    <2>1. i - 1 \in 0..N /\ path[i] \in Name /\ path[i] \notin StrayNames
      BY <1>0
    <2>2. IsRef(v, at[i-1]) /\ at[i] = SeekPart(v, at[i-1], path[i])
      BY <1>3, <2>1
    <2> QED BY <1>5, <2>1, <2>2, StepIs
  <1>6. \A i \in 0..N : f[i] # NoNode => Agree(f[i], at[i]) /\ \A j \in 0..i : at[j] # NoNode
    <2> DEFINE S == {i \in 0..N : f[i] # NoNode => Agree(f[i], at[i]) /\ \A j \in 0..i : at[j] # NoNode}
    <2>1. 0 \in S
      <3>1. 0 \in 0..N /\ \A j \in 0..0 : j = 0
        BY <1>0
      <3> QED BY <1>2, <1>3, <1>4, <1>9, <3>1
    <2>2. ASSUME NEW i \in 0+1..N, i - 1 \in S PROVE i \in S
      <3> SUFFICES ASSUME f[i] # NoNode PROVE Agree(f[i], at[i]) /\ \A j \in 0..i : at[j] # NoNode
        BY <1>0
      <3>1. i \in 1..N /\ \A j \in 0..i : j = i \/ j \in 0..i-1
        BY <1>0
      <3>2. f[i-1] # NoNode /\ f[i] = Step(f[i-1], path[i])
        BY <1>2, <3>1
      <3>3. Agree(f[i-1], at[i-1]) /\ \A j \in 0..i-1 : at[j] # NoNode
        BY <2>2, <3>2
      <3>4. at[i-1] # NoNode /\ Step(f[i-1], path[i]) = Step(at[i-1], path[i])
        <4>1. f[i-1] # NoNode
          BY <1>2, <3>1
        <4> QED BY <3>3, <4>1, AgreeStep DEF Agree
      <3>5. Agree(f[i], at[i])
        BY <1>5, <3>1, <3>2, <3>4
      <3>6. at[i] # NoNode
        BY <3>5 DEF Agree
      <3> QED BY <3>1, <3>3, <3>5, <3>6
    <2> HIDE DEF S
    <2>3. \A i \in 0..N : i \in S
      BY <1>0, <2>1, <2>2, LoopInduction
    <2> QED BY <2>3 DEF S
  <1>7. ASSUME \A j \in 0..N-1 : at[j] # NoNode PROVE \A i \in 0..N : Agree(f[i], at[i])
    <2> DEFINE S == {i \in 0..N : Agree(f[i], at[i])}
    <2>1. 0 \in S
      BY <1>0, <1>2, <1>3, <1>9
    <2>2. ASSUME NEW i \in 0+1..N, i - 1 \in S PROVE i \in S
      <3>1. i \in 1..N /\ i - 1 \in 0..N-1 /\ i \in 0..N
        BY <1>0
      <3>2. Agree(f[i-1], at[i-1]) /\ at[i-1] # NoNode
        BY <1>7, <2>2, <3>1
      <3>3. f[i-1] # NoNode
        BY <3>2 DEF Agree
      <3>4. f[i] = Step(at[i-1], path[i])
        BY <1>2, <3>1, <3>2, <3>3, AgreeStep
      <3> QED BY <1>5, <3>1, <3>2, <3>4
    <2> HIDE DEF S
    <2>3. \A i \in 0..N : i \in S
      BY <1>0, <2>1, <2>2, LoopInduction
    <2> QED BY <2>3 DEF S
  <1>8. N \in 0..N
    BY <1>0
  <1> QED BY <1>1, <1>6, <1>7, <1>8 DEF N, at

\* If nothing is missing on the way, kseek returns where its loop stands.
LEMMA KseekWalk ==
  ASSUME Inv, NEW path \in Seq(Name), ToSet(path) \cap StrayNames = {},
         \A j \in 0..Len(path)-1 : Walk(v, path)[j] # NoNode
  PROVE  Agree(Lookup(path), kseek(v, path))
  <1> DEFINE N == Len(path)
             at == Walk(v, path)
  <1>0. N \in Nat /\ N \in 0..N
    OBVIOUS
  <1>1. Agree(Lookup(path), at[N])
    BY LookupWalk
  <1>2. /\ \A i \in 1..N : at[i] = SeekPart(v, at[i-1], path[i])
        /\ \A i \in 0..N : IsRef(v, at[i])
    BY InvTree, WalkStep
  <1>3. kseek(v, path) = IF \E i \in 1..N : Ends(v, at[i-1], path[i]) THEN NoNode ELSE at[N]
    BY DEF kseek, WalkEnd
  <1>4. \A j \in 0..N-1 : at[j] # NoNode
    OBVIOUS
  <1> HIDE DEF N, at
  <1>5. ASSUME NEW i \in 1..N, Ends(v, at[i-1], path[i]) PROVE at[N] = NoNode
    <2>1. i - 1 \in 0..N /\ i \in 0..N /\ (i = N \/ i \in 0..N-1)
      BY <1>0
    <2>2. SeekPart(v, at[i-1], path[i]) = NoNode
      <3>1. IsRef(v, at[i-1])
        BY <1>2, <2>1
      <3> QED BY <1>5, <3>1, InvTree, SeekPartIs
    <2>3. at[i] = NoNode
      BY <1>2, <2>2
    <2> QED BY <1>4, <2>1, <2>3
  <1> QED BY <1>1, <1>3, <1>5

\* The search for a path without its last part passes the same nodes.
LEMMA FrontWalk ==
  ASSUME NEW w, NEW p, Sound(w, p), NEW path \in Seq(Name), path # <<>>
  PROVE  /\ Front(path) \in Seq(Name) /\ Len(Front(path)) = Len(path) - 1
         /\ \A i \in 0..Len(path)-1 : Walk(w, Front(path))[i] = Walk(w, path)[i]
  <1> DEFINE k == Len(path) - 1
             q == Front(path)
             aq == Walk(w, q)
  <1>1. k \in Nat /\ k \in 0..Len(path)
    OBVIOUS
  <1>2. q = [i \in 1..k |-> path[i]]
    <2>1. SubSeq(path, 0 + 1, 0 + k) = [i \in 1..k |-> path[0 + i]]
      BY <1>1, SubSeqIs
    <2>2. \A i \in 1..k : path[0 + i] = path[i]
      BY <1>1
    <2> QED BY <2>1, <2>2 DEF Front
  <1>3. \A i \in 1..k : i \in 1..Len(path) /\ path[i] \in Name
    BY <1>1
  <1> HIDE DEF k, q
  <1>4. q \in Seq(Name) /\ Len(q) = k /\ \A i \in 1..k : q[i] = path[i]
    BY <1>1, <1>2, <1>3
  <1>5. aq[0] = Root /\ \A i \in 1..k : aq[i] = SeekPart(w, aq[i-1], q[i])
    BY <1>4, WalkStep
  <1> HIDE DEF aq
  <1>6. \A i \in 1..k : aq[i] = SeekPart(w, aq[i-1], path[i])
    BY <1>4, <1>5
  <1>7. \A i \in 0..k : aq[i] = Walk(w, path)[i]
    BY <1>1, <1>5, <1>6, WalkOnly
  <1> QED BY <1>4, <1>7 DEF aq, q, k

\* In a sound tree kseek and the reference search agree, part by part.
LEMMA InvLookup ==
  Inv => LookupExact
  <1> SUFFICES ASSUME Inv, NEW path \in Paths \cup Searches,
                      ToSet(path) \cap StrayNames = {}, Lookup(Front(path)) # NoNode
               PROVE  Same(kseek(v, path), Lookup(path))
    BY DEF LookupExact
  <1>1. path \in Seq(Name)
    BY VfsAssumption
  <1>2. CASE path = <<>>
    <2>1. \A j \in 0..Len(path)-1 : FALSE
      BY <1>2
    <2> QED BY <1>1, <2>1, KseekWalk, AgreeSame
  <1>3. CASE path # <<>>
    <2>1. /\ Front(path) \in Seq(Name) /\ Len(Front(path)) = Len(path) - 1
          /\ \A i \in 0..Len(path)-1 : Walk(v, Front(path))[i] = Walk(v, path)[i]
      BY <1>1, <1>3, InvTree, FrontWalk
    <2>4. ToSet(Front(path)) \cap StrayNames = {}
      <3>1. \A i \in DOMAIN Front(path) : i \in DOMAIN path /\ Front(path)[i] = path[i]
        BY <1>1, <1>3, <2>1 DEF Front
      <3> QED BY <3>1 DEF ToSet
    <2>2. \A i \in 0..Len(Front(path)) : Walk(v, Front(path))[i] # NoNode
      BY <2>1, <2>4, LookupWalk
    <2>3. \A j \in 0..Len(path)-1 : Walk(v, path)[j] # NoNode
      BY <2>1, <2>2
    <2> QED BY <1>1, <2>3, KseekWalk, AgreeSame
  <1> QED BY <1>2, <1>3

\* kseek finds the child made first of each name, else the disk's entry, on
\* every path whose directories exist and that has no stray name.
THEOREM LookupAlwaysExact ==
  Spec => []LookupExact
  BY InvHolds, InvLookup, PTL

\* Images and reads are the bytes of the file.
LEMMA InvReads ==
  Inv => ReadsExact
  <1> SUFFICES ASSUME Inv PROVE ReadsExact
    OBVIOUS
  <1>1. ASSUME NEW n \in Pid, procs[n].life # "free"
        PROVE  \E path \in Execs : procs[n].image = Bytes(Lookup(path).ent)
    <2>1. PICK path \in Execs : procs[n].image = Bytes(DiskSeek(path))
      BY <1>1, InvTree DEF ProcsInv, Images
    <2>2. /\ path \in Seq(Name) /\ kseek(v, path) = OnDisk(DiskSeek(path))
          /\ \A i \in 0..Len(path) : Walk(v, path)[i] # NoNode
      BY InvTree, ExecIs
    <2>3. \A j \in 0..Len(path)-1 : Walk(v, path)[j] # NoNode
      BY <2>2
    <2>4. Agree(Lookup(path), OnDisk(DiskSeek(path)))
      BY <2>2, <2>3, KseekWalk, NamesAssumption
    <2>5. Lookup(path).ent.cluster = DiskSeek(path).cluster /\ Lookup(path).ent.size = DiskSeek(path).size
      BY <2>4 DEF OnDisk, Agree, SameEntry
    <2> QED BY <2>1, <2>5 DEF Bytes
  <1>2. ASSUME Opened, fd.size # 0, fd.from + fd.size <= Node.ent.size
        PROVE  LET crosses == (fd.from % ClusterSize) + fd.size > ClusterSize
                   right   == fd.data = SubSeq(Bytes(Node.ent), fd.from + 1, fd.from + fd.size)
               IN  /\ ~crosses => right /\ fd.count = fd.size
                   /\ fd.from < ClusterSize => right
    <2> DEFINE e == fd.copy.ent
               a == fd.from
               n == fd.size
    <2>1. /\ fd.made = 0 /\ e \in Listed /\ e.kind = "file" /\ a \in Nat /\ n \in Nat \ {0}
          /\ fd.count = fat_read(e, a, n).count /\ fd.data = fat_read(e, a, n).data
      BY <1>2, InvTree DEF FdInv
    <2>2. Node.ent = e
      BY <2>1 DEF Node
    <2>3. a + n <= e.size
      BY <1>2, <2>2
    <2> HIDE DEF e, a, n
    <2>4. /\ (a % ClusterSize) + n <= ClusterSize => fat_read(e, a, n) = [count |-> n, data |-> Run(e, a, n)]
          /\ a < ClusterSize => fat_read(e, a, n).data = Run(e, a, n)
      BY <2>1, <2>3, FatReadIs
    <2>5. e.size \in Nat
      BY <2>1, ListedIs DEF Entry
    <2>6. SubSeq(Bytes(e), a + 1, a + n) = Run(e, a, n)
      BY <2>1, <2>3, <2>5, BytesRun
    <2>7. ~((a % ClusterSize) + n > ClusterSize) => (a % ClusterSize) + n <= ClusterSize
      <3>1. a % ClusterSize \in Nat /\ ClusterSize \in Nat
        BY <2>1, DivMod, DiskAssumption
      <3> QED BY <2>1, <3>1
    <2>8. (a % ClusterSize) + n <= ClusterSize =>
             fat_read(e, a, n).count = n /\ fat_read(e, a, n).data = Run(e, a, n)
      BY <2>4
    <2> QED BY <2>1, <2>2, <2>4, <2>6, <2>7, <2>8 DEF e, a, n
  <1> QED BY <1>1, <1>2 DEF ReadsExact

\* Reads cut in pieces at cluster boundaries put every byte in its place: a
\* process runs its file's bytes, and fread stores what is at the offset.
THEOREM ReadsAlwaysExact ==
  Spec => []ReadsExact
  BY InvHolds, InvReads, PTL

\* A child that is the only one of its name is found.
LEMMA OnlyChild ==
  ASSUME NEW w, NEW p, Sound(w, p), NEW i \in 1..Len(w.nodes), NEW name,
         NEW a \in 1..Len(w.nodes[i].childs), w.nodes[w.nodes[i].childs[a]].name = name,
         \A b \in 1..Len(w.nodes[i].childs) : w.nodes[w.nodes[i].childs[b]].name = name => b = a
  PROVE  ~Ends(w, Tree(i), name) /\ SeekPart(w, Tree(i), name) = Tree(w.nodes[i].childs[a])
  <1> DEFINE r == Tree(i)
             cs == w.nodes[i].childs
             c == vfs_seek(w, r, name)
  <1> HIDE DEF r
  <1>1. /\ c = NoNode => \A b \in 1..Len(cs) : w.nodes[cs[b]].name # name
        /\ c # NoNode => \E b \in 1..Len(cs) : c = Tree(cs[b]) /\ w.nodes[cs[b]].name = name
    <2>1. Seeks(w, i, name, c) /\ i # 0
      BY TreeSeekIs DEF r
    <2> HIDE DEF c
    <2> QED BY <2>1 DEF Seeks
  <1>2. c # NoNode
    BY <1>1
  <1>3. PICK b \in 1..Len(cs) : c = Tree(cs[b]) /\ w.nodes[cs[b]].name = name
    BY <1>1, <1>2
  <1>4. b = a
    BY <1>3
  <1>5. SeekPart(w, r, name) = c /\ ~Ends(w, r, name)
    BY <1>2 DEF SeekPart, ElseDriver, Ends
  <1> QED BY <1>3, <1>4, <1>5 DEF r

\* A search in a node whose children did not change finds what it found.
LEMMA SameSeek ==
  ASSUME NEW w, NEW p, Sound(w, p), NEW z, Sound(z, p), Len(w.nodes) <= Len(z.nodes),
         NEW m, m # 1, NEW x, IsRef(w, x), x.id # m, NEW name,
         \A i \in 1..Len(w.nodes) :
            /\ z.nodes[i].name = w.nodes[i].name /\ z.nodes[i].fs = w.nodes[i].fs /\ z.nodes[i].ent = w.nodes[i].ent
            /\ i # m => z.nodes[i].childs = w.nodes[i].childs
  PROVE  SeekPart(z, x, name) = SeekPart(w, x, name) /\ (Ends(z, x, name) <=> Ends(w, x, name))
  <1> DEFINE n == IF x = NoNode THEN 1 ELSE x.id
  <1>1. Typed(w) /\ Typed(z) /\ Len(w.nodes) \in Nat /\ Len(z.nodes) \in Nat /\ Len(w.nodes) >= 1
    BY DEF Sound, Typed
  <1>2. n # m /\ n \in 0..Len(w.nodes) /\ x.id \in 0..Len(w.nodes)
    BY <1>1 DEF IsRef, Refs
  <1>3. vfs_seek(z, x, name) = vfs_seek(w, x, name)
    <2>1. CASE n = 0
      BY <2>1 DEF vfs_seek, ChildAt
    <2>2. CASE n # 0
      <3> DEFINE cs == w.nodes[n].childs
                 f == FirstChild(w, n, name)
                 g == FirstChild(z, n, name)
      <3>1. n \in 1..Len(w.nodes) /\ n \in 1..Len(z.nodes)
        BY <1>1, <1>2, <2>2
      <3>2. z.nodes[n].childs = cs
        BY <1>2, <3>1
      <3> HIDE DEF n
      <3>3. /\ cs \in Seq(Nat)
            /\ f = 0 => \A a \in 1..Len(cs) : w.nodes[cs[a]].name # name
            /\ f # 0 => /\ f \in 1..Len(cs) /\ w.nodes[cs[f]].name = name
                        /\ \A a \in 1..Len(cs) : w.nodes[cs[a]].name = name => f <= a
        BY <1>1, <3>1, FirstChildIs
      <3>4. LET ds == z.nodes[n].childs IN
            /\ g = 0 => \A a \in 1..Len(ds) : z.nodes[ds[a]].name # name
            /\ g # 0 => /\ g \in 1..Len(ds) /\ z.nodes[ds[g]].name = name
                        /\ \A a \in 1..Len(ds) : z.nodes[ds[a]].name = name => g <= a
        BY <1>1, <3>1, FirstChildIs
      <3>5. \A a \in 1..Len(cs) : z.nodes[cs[a]].name = w.nodes[cs[a]].name
        <4> SUFFICES ASSUME NEW a \in 1..Len(cs) PROVE z.nodes[cs[a]].name = w.nodes[cs[a]].name
          OBVIOUS
        <4>1. cs[a] \in n+1..Len(w.nodes)
          BY <3>1 DEF Sound, Lists
        <4>2. cs[a] \in 1..Len(w.nodes)
          BY <1>1, <3>1, <4>1
        <4> QED BY <4>2
      <3> HIDE DEF cs, f, g
      <3>6. /\ g = 0 => \A a \in 1..Len(cs) : w.nodes[cs[a]].name # name
            /\ g # 0 => /\ g \in 1..Len(cs) /\ w.nodes[cs[g]].name = name
                        /\ \A a \in 1..Len(cs) : w.nodes[cs[a]].name = name => g <= a
        BY <3>2, <3>4, <3>5
      <3>7. f = g
        <4>1. CASE f = 0 \/ g = 0
          BY <3>3, <3>6, <4>1
        <4>2. CASE f # 0 /\ g # 0
          <5>1. f <= g /\ g <= f /\ f \in Nat /\ g \in Nat
            BY <3>3, <3>6, <4>2
          <5> QED BY <5>1
        <4> QED BY <4>1, <4>2
      <3> QED BY <3>2, <3>7 DEF vfs_seek, ChildAt, n, f, g, cs
    <2> QED BY <2>1, <2>2
  <1> HIDE DEF n
  <1>4. EntryOf(z, x) = EntryOf(w, x) /\ (IsFat(z, x) <=> IsFat(w, x))
    <2>1. CASE IsTree(x)
      <3>1. x.id \in 1..Len(w.nodes)
        BY <1>1, <1>2, <2>1 DEF IsTree
      <3> QED BY <2>1, <3>1 DEF EntryOf, IsFat
    <2>2. CASE ~IsTree(x)
      BY <2>2 DEF EntryOf, IsFat
    <2> QED BY <2>1, <2>2
  <1> QED BY <1>3, <1>4 DEF SeekPart, ElseDriver, DriverSeek, Ends

\* From a node of the tree below the root, a search that does not end goes down.
LEMMA WalkDown ==
  ASSUME NEW w, NEW p, Sound(w, p), NEW path \in Seq(Name), NEW k \in 0..Len(path),
         \A i \in 1..k : ~Ends(w, Walk(w, path)[i-1], path[i]),
         NEW j \in 1..k, Walk(w, path)[j].id # 0
  PROVE  \A i \in j+1..k : Walk(w, path)[i].id > Walk(w, path)[j].id
  <1> DEFINE at == Walk(w, path)
             S == {i \in j..k : i = j \/ at[i].id > at[j].id}
  <1>0. k \in Nat /\ j \in Nat /\ k <= Len(path) /\ Len(path) \in Nat /\ j >= 1 /\ j <= k
    OBVIOUS
  <1>1. /\ \A i \in 1..Len(path) : at[i] = SeekPart(w, at[i-1], path[i])
        /\ \A i \in 0..Len(path) : IsRef(w, at[i]) /\ (i # 0 => at[i].id # 1)
    BY WalkStep
  <1>2. \A i \in 1..k : ~Ends(w, at[i-1], path[i])
    OBVIOUS
  <1> HIDE DEF at
  <1>3. at[j].id \in Nat /\ at[j].id # 0
    <2>1. j \in 0..Len(path)
      BY <1>0
    <2> QED BY <1>1, <2>1 DEF IsRef, Refs, at
  <1>4. j \in S
    BY <1>0
  <1>5. ASSUME NEW i \in j+1..k, i - 1 \in S PROVE i \in S
    <2> DEFINE x == at[i-1]
    <2>1. i - 1 \in 0..Len(path) /\ i - 1 # 0 /\ i \in 1..Len(path) /\ i \in 1..k /\ i \in j..k
      BY <1>0
    <2>2. IsRef(w, x) /\ x.id # 1 /\ x.id \in Nat /\ x.id <= Len(w.nodes) /\ ~Ends(w, x, path[i]) /\ at[i] = SeekPart(w, x, path[i])
      BY <1>1, <1>2, <2>1 DEF IsRef, Refs
    <2>3. x.id >= at[j].id
      BY <1>3, <1>5, <2>2
    <2> HIDE DEF x
    <2>4. x.id > 1 /\ x # NoNode
      BY <1>3, <2>2, <2>3, RefsAre, SMTT(60)
    <2>5. ~IsFat(w, x)
      BY <2>2, <2>4, EntryOfIs
    <2> DEFINE c == vfs_seek(w, x, path[i])
    <2>6. c # NoNode /\ at[i] = c
      BY <2>2, <2>5 DEF Ends, SeekPart, ElseDriver
    <2> DEFINE ks == w.nodes[x.id].childs
    <2>12. c # NoNode => /\ x.id # 0
                         /\ \E a \in 1..Len(ks) :
                              /\ c = Tree(ks[a]) /\ w.nodes[ks[a]].name = path[i]
                              /\ \A b \in 1..Len(ks) : w.nodes[ks[b]].name = path[i] => a <= b
      <3>1. Seeks(w, x.id, path[i], c)
        BY <2>2, <2>4, LeastChild
      <3> HIDE DEF c
      <3> QED BY <3>1 DEF Seeks
    <2>7. PICK a \in 1..Len(w.nodes[x.id].childs) : c = Tree(w.nodes[x.id].childs[a])
      BY <2>6, <2>12
    <2> HIDE DEF c
    <2>8. x.id \in 1..Len(w.nodes)
      <3>1. Len(w.nodes) \in Nat
        BY DEF Sound, Typed
      <3> QED BY <2>2, <2>4, <3>1
    <2>9. w.nodes[x.id].childs[a] \in x.id+1..Len(w.nodes)
      BY <2>8 DEF Sound, Lists
    <2>10. at[i].id = w.nodes[x.id].childs[a]
      BY <2>6, <2>7 DEF Tree
    <2>11. at[i].id > at[j].id
      <3>1. at[i].id \in x.id+1..Len(w.nodes)
        BY <2>9, <2>10
      <3>2. x.id \in Nat /\ at[j].id \in Nat /\ x.id >= at[j].id
        BY <1>3, <2>2, <2>3
      <3> DEFINE lo == at[j].id
                 mid == x.id
                 hi == at[i].id
                 L == Len(w.nodes)
      <3>3. L \in Nat
        BY DEF Sound, Typed
      <3>4. hi \in mid+1..L /\ mid \in Nat /\ lo \in Nat /\ mid >= lo
        BY <3>1, <3>2
      <3> HIDE DEF lo, mid, hi, L
      <3>5. hi > lo
        BY <3>3, <3>4
      <3> QED BY <3>5 DEF hi, lo
    <2> QED BY <2>1, <2>11
  <1> HIDE DEF S
  <1>6. \A i \in j..k : i \in S
    BY <1>0, <1>4, <1>5, LoopInduction
  <1>7. ASSUME NEW i \in j+1..k PROVE at[i].id > at[j].id
    <2>1. i \in j..k /\ i # j
      BY <1>0
    <2> QED BY <1>6, <2>1 DEF S
  <1> QED BY <1>7 DEF at

\* What kcreate made is found, if it was made below a node of the tree.
LEMMA CreatedFound ==
  ASSUME NEW w, NEW p, Sound(w, p), NEW z, Sound(z, p), NEW path \in Seq(Name),
         NEW k \in 0..Len(path)-1, NEW r, r = kseek(w, SubSeq(path, 1, k)), r.id # 0,
         kseek(w, SubSeq(path, 1, k + 1)) = NoNode, Chained(w, z, r, path, k, Len(path))
  PROVE  kseek(z, path) = Tree(Len(z.nodes))
  <1> DEFINE N == Len(path)
             L == Len(w.nodes)
             at == Walk(w, path)
             cs == w.nodes[r.id].childs
  <1>0. /\ N \in Nat /\ k \in Nat /\ k < N /\ k + 1 \in 1..N /\ L \in Nat /\ L >= 1 /\ Len(z.nodes) \in Nat
        /\ Typed(w) /\ Typed(z)
    BY DEF Sound, Typed
  <1>1. /\ IsRef(w, r) /\ (r.id = 1 <=> k = 0) /\ r = at[k]
        /\ \A i \in 1..k : ~Ends(w, at[i-1], path[i])
        /\ \A a \in 1..Len(cs) : w.nodes[cs[a]].name # path[k+1]
    <2>1. r # NoNode
      BY RefsAre
    <2> QED BY <2>1, NothingThere, ZenonT(60)
  <1>2. /\ at[0] = Root /\ Root.id = 1
        /\ \A i \in 1..N : at[i] = SeekPart(w, at[i-1], path[i])
        /\ \A i \in 0..N : IsRef(w, at[i])
    BY WalkStep, RefsAre
  <1>3. /\ Len(z.nodes) = L + (N - k)
        /\ \A i \in 1..L :
             z.nodes[i] = IF i = r.id THEN [w.nodes[i] EXCEPT !.childs = Append(@, L + 1)] ELSE w.nodes[i]
        /\ \A i \in k+1..N :
             z.nodes[L + (i - k)] = [NewNode(path[i], IF i = k + 1 THEN r ELSE Tree(L + (i - k) - 1))
                                       EXCEPT !.childs = IF i = N THEN <<>> ELSE <<L + (i - k) + 1>>]
    BY DEF Chained
  <1>4. r.id \in 1..L /\ r = Tree(r.id)
    <2>1. r.id \in Nat /\ r.id <= L
      BY <1>1 DEF IsRef, Refs
    <2> QED BY <1>0, <1>1, <2>1, RefsAre DEF IsRef
  <1>5. /\ \A i \in 1..L :
             /\ z.nodes[i].name = w.nodes[i].name /\ z.nodes[i].fs = w.nodes[i].fs /\ z.nodes[i].ent = w.nodes[i].ent
             /\ i # r.id => z.nodes[i].childs = w.nodes[i].childs
        /\ cs \in Seq(Nat) /\ z.nodes[r.id].childs = Append(cs, L + 1)
    <2>1. \A i \in 1..L : w.nodes[i] \in Nodes
      BY <1>0, NodeIs
    <2> SUFFICES ASSUME NEW i \in 1..L
                 PROVE  /\ z.nodes[i].name = w.nodes[i].name /\ z.nodes[i].fs = w.nodes[i].fs
                        /\ z.nodes[i].ent = w.nodes[i].ent
                        /\ i # r.id => z.nodes[i].childs = w.nodes[i].childs
                        /\ i = r.id => w.nodes[i].childs \in Seq(Nat)
                                       /\ z.nodes[i].childs = Append(w.nodes[i].childs, L + 1)
      BY <1>4
    <2>2. w.nodes[i] \in Nodes
      BY <2>1
    <2>3. z.nodes[i] = IF i = r.id THEN [w.nodes[i] EXCEPT !.childs = Append(@, L + 1)] ELSE w.nodes[i]
      BY <1>3
    <2> DEFINE y == w.nodes[i]
    <2>4. y \in Nodes
      BY <2>2
    <2> HIDE DEF y, L
    <2>5. /\ [y EXCEPT !.childs = Append(@, L + 1)].name = y.name /\ [y EXCEPT !.childs = Append(@, L + 1)].fs = y.fs
          /\ [y EXCEPT !.childs = Append(@, L + 1)].ent = y.ent /\ y.childs \in Seq(Nat)
          /\ [y EXCEPT !.childs = Append(@, L + 1)].childs = Append(y.childs, L + 1)
      BY <2>4 DEF Nodes
    <2> QED BY <2>3, <2>5 DEF y
  <1>6. \A i \in k+1..N : /\ z.nodes[L + (i - k)].name = path[i]
                          /\ i < N => z.nodes[L + (i - k)].childs = <<L + (i - k) + 1>>
    <2> SUFFICES ASSUME NEW i \in k+1..N
                 PROVE  /\ z.nodes[L + (i - k)].name = path[i]
                        /\ i < N => z.nodes[L + (i - k)].childs = <<L + (i - k) + 1>>
      OBVIOUS
    <2> DEFINE q == IF i = k + 1 THEN r ELSE Tree(L + (i - k) - 1)
               ds == IF i = N THEN <<>> ELSE <<L + (i - k) + 1>>
               x == z.nodes[L + (i - k)]
    <2>1. x = [NewNode(path[i], q) EXCEPT !.childs = ds]
      BY <1>3
    <2> HIDE DEF q, ds, x
    <2>2. x.name = path[i] /\ x.childs = ds
      BY <2>1 DEF NewNode
    <2>3. i < N => i # N
      BY <1>0
    <2> QED BY <2>2, <2>3 DEF ds, x
  <1> HIDE DEF N, L, at, cs
  <1>7. ASSUME NEW i \in 1..k
        PROVE  SeekPart(z, at[i-1], path[i]) = at[i] /\ ~Ends(z, at[i-1], path[i])
    <2>1. i - 1 \in 0..N /\ i \in 1..N /\ k # 0 /\ k \in 1..k /\ i - 1 \in 0..k-1
      BY <1>0
    <2>2. r.id # 1
      BY <1>1, <2>1
    <2>3. at[i-1].id # r.id
      <3>1. CASE i - 1 = 0
        BY <1>2, <2>2, <3>1
      <3>2. CASE i - 1 # 0
        <4> SUFFICES ASSUME at[i-1].id = r.id PROVE FALSE
          OBVIOUS
        <4> DEFINE j == i - 1
        <4>1. j \in 1..k /\ k \in j+1..k /\ k \in 0..N
          BY <1>0, <2>1, <3>2
        <4>2. at[j].id # 0
          OBVIOUS
        <4> HIDE DEF j
        <4>3. \A m \in j+1..k : at[m].id > at[j].id
          BY <1>1, <4>1, <4>2, WalkDown DEF at, N
        <4>4. at[k].id > at[j].id /\ at[k].id = at[j].id /\ at[k].id \in Nat
          BY <1>1, <1>4, <4>1, <4>3 DEF j, L, IsRef, Refs
        <4> QED BY <4>4
      <3> QED BY <3>1, <3>2
    <2> DEFINE x == at[i-1]
               m == r.id
    <2>4. IsRef(w, x) /\ x.id # m /\ m # 1
      BY <1>2, <2>1, <2>2, <2>3
    <2>5. Len(w.nodes) <= Len(z.nodes)
      BY <1>0, <1>3 DEF L
    <2>6. \A n \in 1..Len(w.nodes) :
            /\ z.nodes[n].name = w.nodes[n].name /\ z.nodes[n].fs = w.nodes[n].fs /\ z.nodes[n].ent = w.nodes[n].ent
            /\ n # m => z.nodes[n].childs = w.nodes[n].childs
      BY <1>5 DEF L
    <2> HIDE DEF x, m
    <2>7. SeekPart(z, x, path[i]) = SeekPart(w, x, path[i]) /\ (Ends(z, x, path[i]) <=> Ends(w, x, path[i]))
      BY <2>4, <2>5, <2>6, SameSeek
    <2> QED BY <1>1, <1>2, <2>1, <2>7 DEF x
  <1>8. SeekPart(z, r, path[k+1]) = Tree(L + 1) /\ ~Ends(z, r, path[k+1])
    <2> DEFINE ds == z.nodes[r.id].childs
               a == Len(cs) + 1
               i == r.id
    <2>1. i \in 1..Len(z.nodes) /\ r = Tree(i)
      BY <1>0, <1>3, <1>4
    <2>2. Len(cs) \in Nat /\ Len(ds) = Len(cs) + 1 /\ ds[a] = L + 1 /\ \A b \in 1..Len(cs) : ds[b] = cs[b]
      BY <1>5
    <2>3. z.nodes[ds[a]].name = path[k+1]
      <3>1. z.nodes[L + ((k + 1) - k)].name = path[k+1]
        BY <1>0, <1>6
      <3>2. L + ((k + 1) - k) = L + 1
        BY <1>0
      <3> QED BY <2>2, <3>1, <3>2
    <2>4. ASSUME NEW b \in 1..Len(ds), z.nodes[ds[b]].name = path[k+1] PROVE b = a
      <3> SUFFICES ASSUME b # a PROVE FALSE
        OBVIOUS
      <3>1. b \in 1..Len(cs) /\ ds[b] = cs[b]
        BY <2>2
      <3>2. cs[b] \in 1..L
        <4>1. cs[b] \in r.id+1..L
          BY <1>4, <3>1 DEF Sound, Lists, cs, L
        <4> QED BY <1>0, <1>4, <4>1
      <3>3. z.nodes[cs[b]].name = w.nodes[cs[b]].name
        BY <1>5, <3>2
      <3> QED BY <1>1, <2>4, <3>1, <3>3
    <2>5. a \in 1..Len(ds)
      BY <2>2
    <2>6. ~Ends(z, Tree(i), path[k+1]) /\ SeekPart(z, Tree(i), path[k+1]) = Tree(ds[a])
      <3> HIDE DEF a, i
      <3>1. a \in 1..Len(z.nodes[i].childs) /\ z.nodes[z.nodes[i].childs[a]].name = path[k+1]
        BY <2>3, <2>5 DEF i
      <3>2. \A b \in 1..Len(z.nodes[i].childs) : z.nodes[z.nodes[i].childs[b]].name = path[k+1] => b = a
        BY <2>4 DEF i
      <3>3. ~Ends(z, Tree(i), path[k+1]) /\ SeekPart(z, Tree(i), path[k+1]) = Tree(z.nodes[i].childs[a])
        BY <2>1, <3>1, <3>2, OnlyChild
      <3> QED BY <3>3 DEF i
    <2> QED BY <2>1, <2>2, <2>6
  <1>9. ASSUME NEW i \in k+2..N
        PROVE  LET q == Tree(L + ((i - 1) - k)) IN
               SeekPart(z, q, path[i]) = Tree(L + (i - k)) /\ ~Ends(z, q, path[i])
    <2> DEFINE n == L + ((i - 1) - k)
    <2>1. /\ n \in 1..Len(z.nodes) /\ n + 1 = L + (i - k) /\ i - 1 \in k+1..N /\ i \in k+1..N /\ i - 1 < N
      <3> DEFINE M == Len(z.nodes)
      <3>1. M = L + (N - k) /\ L \in Nat /\ L >= 1 /\ N \in Nat /\ k \in Nat /\ i \in k+2..N
        BY <1>0, <1>3
      <3> HIDE DEF M
      <3>2. i \in Nat /\ k + 2 <= i /\ i <= N
        BY <3>1
      <3>3. n \in 1..M /\ n + 1 = L + (i - k)
        BY <3>1, <3>2
      <3>4. i - 1 \in k+1..N /\ i \in k+1..N /\ i - 1 < N
        BY <3>1, <3>2
      <3> QED BY <3>3, <3>4 DEF M
    <2>2. z.nodes[n].childs = <<n + 1>>
      BY <1>6, <2>1
    <2>3. z.nodes[n + 1].name = path[i]
      BY <1>6, <2>1
    <2> HIDE DEF n
    <2>4. 1 \in 1..Len(z.nodes[n].childs) /\ z.nodes[n].childs[1] = n + 1 /\ \A b \in 1..Len(z.nodes[n].childs) : b = 1
      BY <2>2
    <2>5. ~Ends(z, Tree(n), path[i]) /\ SeekPart(z, Tree(n), path[i]) = Tree(z.nodes[n].childs[1])
      <3>1. z.nodes[z.nodes[n].childs[1]].name = path[i]
        BY <2>3, <2>4
      <3>2. \A b \in 1..Len(z.nodes[n].childs) : z.nodes[z.nodes[n].childs[b]].name = path[i] => b = 1
        BY <2>4
      <3>3. n \in 1..Len(z.nodes) /\ 1 \in 1..Len(z.nodes[n].childs)
        BY <2>1, <2>4
      <3> QED BY <3>1, <3>2, <3>3, OnlyChild, ZenonT(60)
    <2> QED BY <2>1, <2>4, <2>5 DEF n
  <1> DEFINE g == [i \in 0..N |-> IF i <= k THEN at[i] ELSE Tree(L + (i - k))]
  <1>10. /\ g[0] = Root
         /\ \A i \in 1..N : g[i] = SeekPart(z, g[i-1], path[i]) /\ ~Ends(z, g[i-1], path[i])
    <2>1. g[0] = Root
      BY <1>0, <1>2
    <2>2. ASSUME NEW i \in 1..N PROVE g[i] = SeekPart(z, g[i-1], path[i]) /\ ~Ends(z, g[i-1], path[i])
      <3>1. i \in 0..N /\ i - 1 \in 0..N
        BY <1>0
      <3>2. CASE i <= k
        <4>1. g[i] = at[i] /\ g[i-1] = at[i-1] /\ i \in 1..k
          BY <1>0, <3>1, <3>2
        <4> HIDE DEF g
        <4> QED BY <1>7, <4>1
      <3>3. CASE i = k + 1
        <4>1. g[i] = Tree(L + 1) /\ g[i-1] = r
          BY <1>0, <1>1, <3>1, <3>3
        <4> HIDE DEF g
        <4> QED BY <1>8, <3>3, <4>1
      <3>4. CASE i > k + 1
        <4>1. g[i] = Tree(L + (i - k)) /\ g[i-1] = Tree(L + ((i - 1) - k)) /\ i \in k+2..N
          BY <1>0, <3>1, <3>4
        <4> HIDE DEF g
        <4> QED BY <1>9, <4>1
      <3> QED BY <1>0, <3>2, <3>3, <3>4
    <2> QED BY <2>1, <2>2
  <1>11. N \in 0..N /\ g[N] = Tree(Len(z.nodes))
    BY <1>0, <1>3
  <1> HIDE DEF g
  <1>12. \A i \in 0..N : g[i] = Walk(z, path)[i]
    <2>1. N \in 0..Len(path) /\ \A i \in 1..N : g[i] = SeekPart(z, g[i-1], path[i])
      BY <1>10, <1>11 DEF N
    <2> QED BY <1>10, <2>1, WalkOnly
  <1>13. kseek(z, path) = IF \E i \in 1..N : Ends(z, Walk(z, path)[i-1], path[i]) THEN NoNode ELSE Walk(z, path)[N]
    BY DEF kseek, WalkEnd, N
  <1>14. \A i \in 1..N : i - 1 \in 0..N
    BY <1>0
  <1> QED BY <1>10, <1>11, <1>12, <1>13, <1>14

\* A node that sys_open makes is found, or lies below a directory of the disk.
LEMMA OpenCreates ==
  ASSUME Inv, NEW path \in Paths, NEW create \in BOOLEAN, sys_open(path, create), fd'.made # 0
  PROVE  /\ fd'.path = path
         /\ \/ kseek(v', path) = Tree(fd'.made)
            \/ \E i \in 1..Len(path)-1 : IsDisk(kseek(v, SubSeq(path, 1, i)))
  <1> DEFINE c == kcreate(v, path)
             k == Deepest(v, path)
             r == kseek(v, SubSeq(path, 1, k))
  <1>1. path \in Seq(Name)
    BY VfsAssumption
  <1>2. kseek(v, path) = NoNode /\ v' = c.v /\ fd' = [Closed EXCEPT !.path = path, !.made = c.node.id]
    <2>1. ASSUME fd' = [Closed EXCEPT !.path = path, !.copy = Copy(kseek(v, path))] PROVE FALSE
      BY <2>1 DEF Closed
    <2> QED BY <2>1 DEF sys_open
  <1>3. fd'.path = path /\ fd'.made = c.node.id
    BY <1>2 DEF Closed
  <1>4. /\ Sound(c.v, ProcNode) /\ Chained(v, c.v, r, path, k, Len(path))
        /\ c.node = Tree(Len(c.v.nodes)) /\ k \in 0..Len(path)-1
        /\ r # NoNode /\ kseek(v, SubSeq(path, 1, k + 1)) = NoNode
    BY <1>1, <1>2, InvTree, NewPath
  <1>5. fd'.made = Len(c.v.nodes)
    BY <1>3, <1>4 DEF Tree
  <1>6. IsRef(v, r) /\ (r.id = 1 <=> k = 0)
    BY <1>1, <1>4, InvTree, NothingThere
  <1> HIDE DEF c, k, r
  <1>7. CASE r.id # 0
    <2>1. r = kseek(v, SubSeq(path, 1, k))
      BY DEF r
    <2>2. kseek(c.v, path) = Tree(Len(c.v.nodes))
      BY <1>1, <1>4, <1>7, <2>1, InvTree, CreatedFound
    <2> QED BY <1>2, <1>3, <1>5, <2>2
  <1>8. CASE r.id = 0
    <2>1. IsDisk(r)
      BY <1>4, <1>6, <1>8, RefsAre DEF IsRef, IsDisk
    <2>2. k \in 1..Len(path)-1
      BY <1>1, <1>4, <1>6, <1>8
    <2> QED BY <1>3, <2>1, <2>2 DEF r
  <1> QED BY <1>7, <1>8

\* kcreate makes what was asked for: what sys_open created is found under its
\* path, unless the path goes through a directory of the disk.
THEOREM CreatedAlwaysFound ==
  Spec => CreatedIsFound
  <1> DEFINE Found == fd'.made # 0 /\ fd'.made # fd.made =>
                        \/ kseek(v', fd'.path) = Tree(fd'.made)
                        \/ \E i \in 1..Len(fd'.path)-1 : IsDisk(kseek(v, SubSeq(fd'.path, 1, i)))
  <1>1. ASSUME Inv, Next PROVE Found
    <2>1. ASSUME NEW path \in Paths, NEW create \in BOOLEAN, sys_open(path, create) PROVE Found
      <3> SUFFICES ASSUME fd'.made # 0
                   PROVE  \/ kseek(v', fd'.path) = Tree(fd'.made)
                          \/ \E i \in 1..Len(fd'.path)-1 : IsDisk(kseek(v, SubSeq(fd'.path, 1, i)))
        OBVIOUS
      <3>1. /\ fd'.path = path
            /\ \/ kseek(v', path) = Tree(fd'.made)
               \/ \E i \in 1..Len(path)-1 : IsDisk(kseek(v, SubSeq(path, 1, i)))
        BY <1>1, <2>1, OpenCreates
      <3> QED BY <3>1
    <2>2. ASSUME NEW n \in ReadSizes, fread(n) PROVE Found
      BY <1>1, <2>2, FreadInv
    <2>3. ASSUME fclose PROVE Found
      <3>1. fd'.made = 0
        BY <2>3 DEF fclose, Closed
      <3> QED BY <3>1
    <2>4. ASSUME fd' = fd PROVE Found
      BY <2>4
    <2> HIDE DEF Found
    <2>5. CASE \E path \in Execs, loads \in BOOLEAN : sys_exec(path, loads)
      BY <2>4, <2>5 DEF sys_exec
    <2>6. CASE \E n \in Pid : libc_init(n) \/ proc_exit(n) \/ clean_process(n)
      BY <2>4, <2>6 DEF libc_init, proc_exit, clean_process
    <2>7. CASE \E n \in Pid, s \in Stream : sys_write(n, s)
      BY <2>4, <2>7 DEF sys_write
    <2>8. CASE read_pipe \/ write_pipe
      BY <2>4, <2>8 DEF read_pipe, write_pipe
    <2>9. CASE \E l \in Links : sys_link(l[1], l[2])
      BY <2>4, <2>9 DEF sys_link
    <2>10. CASE \E path \in Pipes : sys_pipe(path)
      BY <2>4, <2>10 DEF sys_pipe
    <2> QED BY <1>1, <2>1, <2>2, <2>3, <2>5, <2>6, <2>7, <2>8, <2>9, <2>10 DEF Next
  <1>2. Inv /\ [Next]_vars => [Found]_vars
    BY <1>1
  <1>3. Inv /\ [Next]_vars =>
          [ fd'.made # 0 /\ fd'.made # fd.made =>
              \/ kseek(v', fd'.path) = Tree(fd'.made)
              \/ \E i \in 1..Len(fd'.path)-1 : IsDisk(kseek(v, SubSeq(fd'.path, 1, i))) ]_vars
    BY <1>2
  <1> QED BY <1>3, InvHolds, PTL DEF Spec, CreatedIsFound
=============================================================================
