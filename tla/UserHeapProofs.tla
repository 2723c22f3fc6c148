--------------------------- MODULE UserHeapProofs ---------------------------
(***************************************************************************)
(* Proofs about the heap of alloc.c, for any threads, handlers, sizes and  *)
(* pages.  First the list and the tiling as facts about one heap, which    *)
(* the operations of alloc.c are shown to keep; then the lock and the      *)
(* calls under way; then that the heap implements HeapPartition, whose     *)
(* blocks never overlap.                                                   *)
(***************************************************************************)
EXTENDS UserHeap, TLAPS, WellFoundedInduction, SequenceTheorems

-----------------------------------------------------------------------------
(* Least and greatest elements.                                            *)

\* A nonempty set of naturals has a least element.
LEMMA LeastNat ==
  ASSUME NEW S, S \subseteq Nat, S # {}
  PROVE  \E m \in S : \A n \in S : m <= n
  <1> DEFINE R == OpToRel(<, Nat)
  <1>1. IsWellFoundedOn(R, Nat)
    BY NatLessThanWellFounded
  <1>2. \A m, n \in Nat : <<n, m>> \in R <=> n < m
    BY DEF OpToRel
  <1> HIDE DEF R
  <1>3. PICK m \in S : \A n \in S : <<n, m>> \notin R
    BY <1>1, WFMin
  <1>4. \A n \in S : ~(n < m)
    BY <1>2, <1>3
  <1>5. \A n \in S : m <= n
    BY <1>4
  <1> QED BY <1>5

\* A nonempty set of naturals with an upper bound has a greatest element.
LEMMA GreatestNat ==
  ASSUME NEW S, S \subseteq Nat, S # {}, NEW b \in Nat, \A n \in S : n <= b
  PROVE  \E m \in S : \A n \in S : n <= m
  <1> DEFINE U == {u \in Nat : \A n \in S : n <= u}
  <1>1. PICK u \in U : \A v \in U : u <= v
    <2>1. U \subseteq Nat /\ U # {}
      OBVIOUS
    <2> HIDE DEF U
    <2> QED BY <2>1, LeastNat
  <1>2. u \in S
    <2> SUFFICES ASSUME u \notin S PROVE FALSE
      OBVIOUS
    <2>1. \A n \in S : n <= u - 1 /\ n \in Nat
      OBVIOUS
    <2>2. u - 1 \in Nat
      <3>1. PICK n \in S : TRUE
        OBVIOUS
      <3> QED BY <2>1, <3>1
    <2>3. u - 1 \in U
      BY <2>1, <2>2
    <2> QED BY <1>1, <2>3
  <1> QED BY <1>2

-----------------------------------------------------------------------------
(* The free list of one heap.                                              *)

\* The parts of a heap and their types.  Pointers may be null or InUse.
IsHeap(k) ==
    /\ k = [mem |-> k.mem, free_list |-> k.free_list, heap_start |-> k.heap_start,
            heap_size |-> k.heap_size, max_allocation |-> k.max_allocation]
    /\ k.mem \in [DOMAIN k.mem -> [size : Nat \ {0}, prev : Int, next : Int]]
    /\ DOMAIN k.mem \subseteq Nat \ {0}
    /\ k.free_list \in Int
    /\ k.heap_start \in Nat /\ k.heap_size \in Nat /\ k.max_allocation \in Nat

\* The blocks of L are the ones listed: free_list is the lowest, and each block
\* but the highest names the next higher one, which names it back.
Linked(k, L) ==
    /\ L \subseteq DOMAIN k.mem
    /\ \A c \in L : Valid(k, c)
    /\ L = {} => k.free_list = 0
    /\ L # {} => /\ k.free_list \in L
                 /\ \A d \in L : k.free_list <= d
                 /\ k.mem[k.free_list].prev = 0
    /\ \A c \in L :
          LET n == k.mem[c].next
          IN  \/ n = 0 /\ \A d \in L : d <= c
              \/ /\ n \in L /\ c < n /\ k.mem[n].prev = c
                 /\ \A d \in L : d <= c \/ n <= d

\* The walks along the list do not stray: a block outside it names one that is
\* listed, or nothing.
Loose(k, L) == \A c \in DOMAIN k.mem \ L : k.mem[c].next \in L \cup {0, InUse}

\* A listed block is the first one, or the next of the one before it.
LEMMA PrevIs ==
  ASSUME NEW k, IsHeap(k), NEW L, Linked(k, L), NEW b \in L
  PROVE  \/ /\ b = k.free_list /\ k.mem[b].prev = 0
         \/ /\ k.mem[b].prev \in L /\ k.mem[b].prev < b
            /\ k.mem[k.mem[b].prev].next = b
            /\ \A d \in L : d <= k.mem[b].prev \/ b <= d
  <1> DEFINE B == {d \in L : d < b}
  <1>1. /\ \A d \in L : d \in Nat
        /\ k.free_list \in L
    BY DEF IsHeap, Linked
  <1>2. CASE B = {}
    <2>1. k.free_list = b
      BY <1>1, <1>2 DEF Linked
    <2> QED BY <2>1 DEF Linked
  <1>3. CASE B # {}
    <2>1. PICK m \in B : \A d \in B : d <= m
      <3>1. B \subseteq Nat /\ \A d \in B : d <= b
        BY <1>1
      <3> HIDE DEF B
      <3> QED BY <1>1, <1>3, <3>1, GreatestNat
    <2> DEFINE n == k.mem[m].next
    <2>2. n \in L /\ m < n /\ k.mem[n].prev = m /\ \A d \in L : d <= m \/ n <= d
      BY <1>1, <2>1 DEF Linked
    <2>3. n = b
      BY <1>1, <2>1, <2>2
    <2> QED BY <1>1, <2>1, <2>2, <2>3
  <1> QED BY <1>2, <1>3

\* Only addresses of the heap are followed.
LEMMA NullInvalid ==
  ASSUME NEW k, IsHeap(k)
  PROVE  ~Valid(k, 0) /\ ~Valid(k, InUse)
  BY UserHeapAssumption DEF IsHeap, Valid, InUse

\* Where free_insert puts a block that is not the lowest: the walk from the
\* first block ends at the last one below it.
LEMMA LastBelowIs ==
  ASSUME NEW k, IsHeap(k), NEW L, Linked(k, L), L # {},
         NEW b \in DOMAIN k.mem \ L, k.free_list < b, Loose(k, L)
  PROVE  /\ LastBelow(k, b) \in L
         /\ LastBelow(k, b) < b
         /\ \A d \in L : d < b => d <= LastBelow(k, b)
  <1> DEFINE D == DOMAIN k.mem
             N(c) == k.mem[c].next
             On(c) == Valid(k, N(c)) /\ N(c) < b
             Below == {d \in L : d < b}
  <1>1. /\ \A d \in D : d \in Nat /\ d # 0 /\ N(d) \in Int
        /\ \A d \in L : d \in D /\ Valid(k, d)
        /\ k.free_list \in L
    BY DEF IsHeap, Linked
  <1>2. PICK g \in Below : \A d \in Below : d <= g
    <2>1. (\A d \in Below : d \in Nat /\ d <= b) /\ k.free_list \in Below
      BY <1>1
    <2> HIDE DEF Below
    <2> QED BY <1>1, <2>1, GreatestNat
  <1>3. \A c \in D : On(c) => N(c) \in L
    <2>1. \A c \in L : N(c) \in L \cup {0}
      BY DEF Linked
    <2> QED BY <2>1, NullInvalid DEF Loose
  <1>4. \A c \in L : On(c) => c < N(c) /\ c < b
    <2> SUFFICES ASSUME NEW c \in L, On(c) PROVE c < N(c) /\ c < b
      OBVIOUS
    <2>1. N(c) \in L /\ N(c) # 0 /\ N(c) < b
      BY <1>1, <1>3
    <2>2. c < N(c)
      BY <2>1 DEF Linked
    <2> QED BY <1>1, <2>1, <2>2
  <1>5. \A c \in L : c < b /\ ~On(c) => c = g
    <2> SUFFICES ASSUME NEW c \in L, c < b, ~On(c) PROVE c = g
      OBVIOUS
    <2>1. N(c) = 0 \/ N(c) \in L
      BY DEF Linked
    <2>2. CASE N(c) = 0
      <3>1. \A d \in L : d <= c
        BY <1>1, <2>2 DEF Linked
      <3> QED BY <1>1, <1>2, <3>1
    <2>3. CASE N(c) \in L
      <3>1. b <= N(c)
        BY <1>1, <2>3
      <3>2. \A d \in L : d <= c \/ N(c) <= d
        BY <1>1, <2>3 DEF Linked
      <3> QED BY <1>1, <1>2, <3>1, <3>2
    <2> QED BY <2>1, <2>2, <2>3
  <1> HIDE DEF On
  <1> DEFINE IsWalk(f) == f = [c \in D |-> IF On(c) THEN f[N(c)] ELSE c]
             walk == CHOOSE f : IsWalk(f)
             w == [c \in D |-> IF On(c) \/ (c \in L /\ c < b) THEN g ELSE c]
  <1>6. IsWalk(walk)
    <2>1. \A c \in D : On(c) => w[N(c)] = g
      <3> SUFFICES ASSUME NEW c \in D, On(c) PROVE w[N(c)] = g
        OBVIOUS
      <3>1. N(c) \in L /\ N(c) < b
        BY <1>3 DEF On
      <3> QED BY <1>1, <3>1
    <2>2. \A c \in D : w[c] = IF On(c) THEN w[N(c)] ELSE c
      BY <1>5, <2>1
    <2>3. IsWalk(w)
      BY <2>2
    <2> HIDE DEF w, IsWalk
    <2> QED BY <2>3
  <1>7. LastBelow(k, b) = walk[k.free_list]
    BY DEF LastBelow, On
  <1> HIDE DEF walk
  <1>8. \A c \in D : walk[c] = IF On(c) THEN walk[N(c)] ELSE c
    BY <1>6
  <1>9. \A c \in Below : walk[c] = g
    <2> DEFINE B == {c \in Below : walk[c] # g}
    <2> SUFFICES ASSUME B # {} PROVE FALSE
      OBVIOUS
    <2>1. PICK m \in B : \A c \in B : c <= m
      <3>1. \A d \in B : d \in Nat /\ d <= b
        BY <1>1
      <3> HIDE DEF B
      <3> QED BY <1>1, <3>1, GreatestNat
    <2>2. On(m)
      BY <1>1, <1>5, <1>8, <2>1
    <2>3. N(m) \in L /\ N(m) < b /\ m < N(m)
      BY <1>1, <1>3, <1>4, <2>1, <2>2 DEF On
    <2>4. walk[N(m)] = g
      BY <1>1, <2>1, <2>3
    <2> QED BY <1>1, <1>8, <2>1, <2>2, <2>4
  <1>10. k.free_list \in Below
    BY <1>1
  <1> QED BY <1>1, <1>2, <1>7, <1>9, <1>10

\* p is the last of L below b, or null; n is the first above it, or null.
IsBefore(L, p, b) ==
    \/ p = 0 /\ \A d \in L : b < d
    \/ p \in L /\ p < b /\ \A d \in L : d <= p \/ b < d
IsAfter(L, b, n) ==
    \/ n = 0 /\ \A d \in L : d < b
    \/ n \in L /\ b < n /\ \A d \in L : d < b \/ n <= d

\* Nothing but pointers differs.
SameBlocks(k, r) ==
    /\ DOMAIN r.mem = DOMAIN k.mem
    /\ \A c \in DOMAIN k.mem : r.mem[c].size = k.mem[c].size
    /\ r.heap_start = k.heap_start
    /\ r.heap_size = k.heap_size
    /\ r.max_allocation = k.max_allocation

\* The headers of the blocks in S are the same.
SameAt(S, k, r) == \A c \in S : r.mem[c] = k.mem[c]

\* free_insert puts a block in its place in the list and touches no other that is
\* not listed.
LEMMA InsertIs ==
  ASSUME NEW k, IsHeap(k), NEW L, Linked(k, L),
         NEW b \in DOMAIN k.mem \ L, Valid(k, b), Loose(k, L),
         NEW r, r = free_insert(k, b)
  PROVE  /\ IsHeap(r)
         /\ Linked(r, L \cup {b})
         /\ SameBlocks(k, r)
         /\ SameAt(DOMAIN k.mem \ (L \cup {b}), k, r)
  <1> DEFINE D == DOMAIN k.mem
             head == ~Valid(k, k.free_list) \/ k.free_list > b
             before == IF head THEN 0 ELSE LastBelow(k, b)
             after == IF head THEN k.free_list ELSE k.mem[before].next
  <1>1. /\ \A d \in D : d \in Nat /\ d # 0
        /\ \A d \in L : d \in D /\ Valid(k, d)
        /\ k.free_list \in Int
        /\ ~Valid(k, 0)
    BY NullInvalid DEF IsHeap, Linked
  <1>2. IsBefore(L, before, b)
    <2>1. CASE L = {}
      <3>1. head
        BY <1>1, <2>1 DEF Linked
      <3> QED BY <2>1, <3>1 DEF IsBefore
    <2>2. CASE L # {} /\ head
      <3>1. b < k.free_list /\ \A d \in L : k.free_list <= d
        BY <1>1, <2>2 DEF Linked
      <3> QED BY <1>1, <2>2, <3>1 DEF IsBefore
    <2>3. CASE L # {} /\ ~head
      <3>1. k.free_list < b
        BY <1>1, <2>3 DEF Linked
      <3>2. before \in L /\ before < b /\ \A d \in L : d < b => d <= before
        BY <2>3, <3>1, LastBelowIs
      <3> QED BY <1>1, <3>2 DEF IsBefore
    <2> QED BY <2>1, <2>2, <2>3
  <1>3. IsAfter(L, b, after) /\ (before # 0 => before # after)
    <2>1. CASE before = 0
      <3>1. \A d \in L : b < d
        BY <1>1, <1>2, <2>1 DEF IsBefore
      <3>2. head
        <4> SUFFICES ASSUME ~head PROVE FALSE
          OBVIOUS
        <4>1. k.free_list <= b /\ Valid(k, k.free_list)
          BY <1>1
        <4> QED BY <1>1, <3>1, <4>1 DEF Linked
      <3>3. after = k.free_list
        BY <3>2
      <3>4. CASE L = {}
        BY <3>3, <3>4, <2>1 DEF Linked, IsAfter
      <3> QED BY <3>1, <3>3, <3>4 DEF Linked, IsAfter
    <2>2. CASE before # 0
      <3>1. before \in L /\ before < b /\ \A d \in L : d <= before \/ b < d
        BY <1>2, <2>2 DEF IsBefore
      <3>2. after = k.mem[before].next
        BY <2>2
      <3>3. \/ after = 0 /\ \A d \in L : d <= before
            \/ after \in L /\ before < after /\ \A d \in L : d <= before \/ after <= d
        BY <3>1, <3>2 DEF Linked
      <3> QED BY <1>1, <3>1, <3>3 DEF IsAfter
    <2> QED BY <2>1, <2>2
  <1>4. after # 0 => Valid(k, after)
    BY <1>1, <1>3 DEF IsAfter
  <1>5. r = [k EXCEPT !.free_list = IF head THEN b ELSE @,
                      !.mem = [c \in DOMAIN @ |->
                        CASE c = b      -> [@[b] EXCEPT !.prev = before,
                                                !.next = IF Valid(k, after) THEN after ELSE 0]
                          [] c = before -> [@[c] EXCEPT !.next = b]
                          [] c = after  -> [@[c] EXCEPT !.prev = b]
                          [] OTHER      -> @[c]]]
    BY DEF free_insert
  <1>6. head <=> before = 0
    BY <1>1, <1>2, LastBelowIs DEF IsBefore, Linked
  <1> HIDE DEF head, before, after
  <1>7. (IF Valid(k, after) THEN after ELSE 0) = after
    BY <1>4
  <1>8. /\ r = [mem |-> r.mem, free_list |-> r.free_list, heap_start |-> r.heap_start,
                heap_size |-> r.heap_size, max_allocation |-> r.max_allocation]
        /\ r.heap_start = k.heap_start /\ r.heap_size = k.heap_size
        /\ r.max_allocation = k.max_allocation
    BY <1>5 DEF IsHeap
  <1>9. r.free_list = IF before = 0 THEN b ELSE k.free_list
    BY <1>5, <1>6 DEF IsHeap
  <1>10. r.mem = [c \in D |->
             CASE c = b      -> [k.mem[b] EXCEPT !.prev = before,
                                     !.next = IF Valid(k, after) THEN after ELSE 0]
               [] c = before -> [k.mem[c] EXCEPT !.next = b]
               [] c = after  -> [k.mem[c] EXCEPT !.prev = b]
               [] OTHER      -> k.mem[c]]
    BY <1>5 DEF IsHeap
  <1>11. before \in Int /\ after \in Int /\ before # b /\ after # b /\ (before # 0 => before # after)
    BY <1>1, <1>2, <1>3 DEF IsBefore, IsAfter
  <1>12. /\ DOMAIN r.mem = D
         /\ r.mem[b] = [k.mem[b] EXCEPT !.prev = before, !.next = after]
         /\ \A c \in D \ {b} : c = before => r.mem[c] = [k.mem[c] EXCEPT !.next = b]
         /\ \A c \in D \ {b, before} : c = after => r.mem[c] = [k.mem[c] EXCEPT !.prev = b]
         /\ \A c \in D \ {b, before, after} : r.mem[c] = k.mem[c]
    <2>1. \A c \in D : c # b /\ c # before /\ c # after => r.mem[c] = k.mem[c]
      BY <1>10
    <2>2. \A c \in D : c # b /\ c # before /\ c = after => r.mem[c] = [k.mem[c] EXCEPT !.prev = b]
      BY <1>10
    <2>3. \A c \in D : c # b /\ c = before => r.mem[c] = [k.mem[c] EXCEPT !.next = b]
      BY <1>1, <1>10, <1>11
    <2>4. r.mem[b] = [k.mem[b] EXCEPT !.prev = before, !.next = after] /\ DOMAIN r.mem = D
      BY <1>7, <1>10, <1>11
    <2> QED BY <2>1, <2>2, <2>3, <2>4
  <1>13. /\ k.mem \in [D -> [size : Nat \ {0}, prev : Int, next : Int]]
         /\ D \subseteq Nat \ {0} /\ k.heap_start \in Nat /\ k.heap_size \in Nat
         /\ k.max_allocation \in Nat
    BY DEF IsHeap
  <1>14. \A c \in D : /\ r.mem[c] \in [size : Nat \ {0}, prev : Int, next : Int]
                      /\ r.mem[c].size = k.mem[c].size
                      /\ r.mem[c].prev = IF c = b THEN before ELSE IF c = after THEN b ELSE k.mem[c].prev
                      /\ r.mem[c].next = IF c = b THEN after ELSE IF c = before THEN b ELSE k.mem[c].next
    <2> SUFFICES ASSUME NEW c \in D
                 PROVE  /\ r.mem[c] \in [size : Nat \ {0}, prev : Int, next : Int]
                        /\ r.mem[c].size = k.mem[c].size
                        /\ r.mem[c].prev = IF c = b THEN before ELSE IF c = after THEN b ELSE k.mem[c].prev
                        /\ r.mem[c].next = IF c = b THEN after ELSE IF c = before THEN b ELSE k.mem[c].next
      OBVIOUS
    <2>1. k.mem[c] \in [size : Nat \ {0}, prev : Int, next : Int] /\ c # 0
      BY <1>1, <1>13
    <2>2. CASE c = b
      BY <1>11, <1>12, <2>1, <2>2
    <2>3. CASE c # b /\ c = before
      <3>1. r.mem[c] = [k.mem[c] EXCEPT !.next = b] /\ c # after
        BY <1>11, <1>12, <2>1, <2>3
      <3> QED BY <1>1, <2>1, <2>3, <3>1
    <2>4. CASE c # b /\ c # before /\ c = after
      <3>1. r.mem[c] = [k.mem[c] EXCEPT !.prev = b]
        BY <1>12, <2>4
      <3> QED BY <1>1, <2>1, <2>4, <3>1
    <2>5. CASE c # b /\ c # before /\ c # after
      BY <1>11, <1>12, <2>1, <2>5
    <2> QED BY <2>2, <2>3, <2>4, <2>5
  <1>15. IsHeap(r)
    <2>1. r.mem \in [DOMAIN r.mem -> [size : Nat \ {0}, prev : Int, next : Int]]
      BY <1>10, <1>12, <1>14
    <2> QED BY <1>1, <1>8, <1>9, <1>12, <1>13, <2>1 DEF IsHeap
  <1>16. Linked(r, L \cup {b})
    <2>1. /\ L \cup {b} \subseteq DOMAIN r.mem
          /\ \A c \in L \cup {b} : Valid(r, c)
      BY <1>1, <1>8, <1>12 DEF Valid
    <2>2. /\ r.free_list \in L \cup {b}
          /\ \A d \in L \cup {b} : r.free_list <= d
          /\ r.mem[r.free_list].prev = 0
      <3>1. CASE before = 0
        BY <1>1, <1>2, <1>9, <1>14, <3>1 DEF IsBefore
      <3>2. CASE before # 0
        <4>1. before \in L /\ before < b
          BY <1>2, <3>2 DEF IsBefore
        <4>2. /\ k.free_list \in L /\ k.free_list # b
              /\ \A d \in L : k.free_list <= d
              /\ k.mem[k.free_list].prev = 0
          BY <4>1 DEF Linked
        <4>3. k.free_list # after
          BY <1>1, <1>3, <4>1, <4>2 DEF IsAfter
        <4> QED BY <1>1, <1>9, <1>14, <3>2, <4>1, <4>2, <4>3
      <3> QED BY <3>1, <3>2
    <2>3. ASSUME NEW c \in L \cup {b}
          PROVE  \/ r.mem[c].next = 0 /\ \A d \in L \cup {b} : d <= c
                 \/ /\ r.mem[c].next \in L \cup {b} /\ c < r.mem[c].next
                    /\ r.mem[r.mem[c].next].prev = c
                    /\ \A d \in L \cup {b} : d <= c \/ r.mem[c].next <= d
      <3>1. CASE c = b
        BY <1>1, <1>3, <1>11, <1>14, <3>1 DEF IsAfter
      <3>2. CASE c = before /\ c # b
        <4>1. c \in L /\ c < b /\ \A d \in L : d <= c \/ b < d
          BY <1>1, <1>2, <3>2 DEF IsBefore
        <4>2. r.mem[c].next = b /\ r.mem[b].prev = c
          BY <1>1, <1>14, <3>2
        <4> QED BY <1>1, <4>1, <4>2
      <3>3. CASE c # b /\ c # before
        <4>1. c \in L /\ r.mem[c].next = k.mem[c].next
          BY <1>1, <1>14, <3>3
        <4> DEFINE n == k.mem[c].next
        <4>2. CASE n = 0 /\ \A d \in L : d <= c
          <5>1. b <= c
            BY <1>1, <1>2, <3>3, <4>1, <4>2 DEF IsBefore
          <5> QED BY <4>1, <4>2, <5>1
        <4>3. CASE n \in L /\ c < n /\ k.mem[n].prev = c /\ \A d \in L : d <= c \/ n <= d
          <5>1. b <= c \/ n <= b
            BY <1>1, <1>2, <3>3, <4>1, <4>3 DEF IsBefore
          <5>2. n # after
            BY <1>1, <1>3, <3>3, <4>1, <4>3, <5>1 DEF IsAfter
          <5>3. n \in D /\ n # b /\ r.mem[n].prev = c
            BY <1>1, <1>14, <4>3, <5>2
          <5> QED BY <4>1, <4>3, <5>1, <5>3
        <4> QED BY <4>1, <4>2, <4>3 DEF Linked
      <3> QED BY <3>1, <3>2, <3>3
    <2> QED BY <2>1, <2>2, <2>3 DEF Linked
  <1>17. SameBlocks(k, r)
    BY <1>8, <1>12, <1>14 DEF SameBlocks
  <1>18. ASSUME NEW c \in D \ (L \cup {b}) PROVE r.mem[c] = k.mem[c]
    BY <1>1, <1>2, <1>3, <1>12 DEF IsBefore, IsAfter
  <1> QED BY <1>15, <1>16, <1>17, <1>18 DEF SameAt

\* free_remove takes a block out of the list; the block itself and those that are
\* not listed stay as they are.
LEMMA RemoveIs ==
  ASSUME NEW k, IsHeap(k), NEW L, Linked(k, L), NEW b \in L,
         NEW r, r = free_remove(k, b)
  PROVE  /\ IsHeap(r)
         /\ Linked(r, L \ {b})
         /\ SameBlocks(k, r)
         /\ SameAt((DOMAIN k.mem \ L) \cup {b}, k, r)
         /\ k.mem[b].next \in (L \ {b}) \cup {0}
  <1> DEFINE D == DOMAIN k.mem
             before == k.mem[b].prev
             after == k.mem[b].next
  <1>1. /\ \A d \in D : d \in Nat /\ d # 0
        /\ \A d \in L : d \in D /\ Valid(k, d)
        /\ k.free_list \in Int
        /\ ~Valid(k, 0)
    BY NullInvalid DEF IsHeap, Linked
  <1>2. \/ before = 0 /\ b = k.free_list
        \/ /\ before \in L /\ before < b /\ k.mem[before].next = b
           /\ \A d \in L : d <= before \/ b <= d
    BY PrevIs
  <1>3. \/ after = 0 /\ \A d \in L : d <= b
        \/ /\ after \in L /\ b < after /\ k.mem[after].prev = b
           /\ \A d \in L : d <= b \/ after <= d
    BY DEF Linked
  <1> HIDE DEF before, after
  <1>4. /\ (IF Valid(k, after) THEN after ELSE 0) = after
        /\ (IF Valid(k, before) THEN before ELSE 0) = before
        /\ Valid(k, before) <=> before # 0
    BY <1>1, <1>2, <1>3
  <1>5. r = [k EXCEPT !.free_list = IF Valid(k, before) THEN @
                                    ELSE IF Valid(k, after) THEN after ELSE 0,
                      !.mem = [c \in D |->
                         CASE c = before -> [@[c] EXCEPT !.next = IF Valid(k, after) THEN after ELSE 0]
                           [] c = after  -> [@[c] EXCEPT !.prev = IF Valid(k, before) THEN before ELSE 0]
                           [] OTHER      -> @[c]]]
    BY DEF free_remove, before, after
  <1>6. /\ r = [mem |-> r.mem, free_list |-> r.free_list, heap_start |-> r.heap_start,
                heap_size |-> r.heap_size, max_allocation |-> r.max_allocation]
        /\ r.heap_start = k.heap_start /\ r.heap_size = k.heap_size
        /\ r.max_allocation = k.max_allocation
    BY <1>5 DEF IsHeap
  <1>7. r.free_list = IF before = 0 THEN after ELSE k.free_list
    BY <1>4, <1>5 DEF IsHeap
  <1>8. r.mem = [c \in D |->
             CASE c = before -> [k.mem[c] EXCEPT !.next = IF Valid(k, after) THEN after ELSE 0]
               [] c = after  -> [k.mem[c] EXCEPT !.prev = IF Valid(k, before) THEN before ELSE 0]
               [] OTHER      -> k.mem[c]]
    BY <1>5 DEF IsHeap
  <1>9. /\ before \in Int /\ after \in Int /\ before # b /\ after # b
        /\ (before # 0 => before # after)
    BY <1>1, <1>2, <1>3
  <1>10. /\ DOMAIN r.mem = D
         /\ \A c \in D : c = before => r.mem[c] = [k.mem[c] EXCEPT !.next = after]
         /\ \A c \in D : c # before /\ c = after => r.mem[c] = [k.mem[c] EXCEPT !.prev = before]
         /\ \A c \in D : c # before /\ c # after => r.mem[c] = k.mem[c]
    <2>1. \A c \in D : c # before /\ c # after => r.mem[c] = k.mem[c]
      BY <1>8
    <2>2. \A c \in D : c # before /\ c = after => r.mem[c] = [k.mem[c] EXCEPT !.prev = before]
      BY <1>4, <1>8
    <2>3. \A c \in D : c = before => r.mem[c] = [k.mem[c] EXCEPT !.next = after]
      BY <1>1, <1>4, <1>8, <1>9
    <2>4. DOMAIN r.mem = D
      BY <1>8
    <2> QED BY <2>1, <2>2, <2>3, <2>4
  <1>11. /\ k.mem \in [D -> [size : Nat \ {0}, prev : Int, next : Int]]
         /\ D \subseteq Nat \ {0} /\ k.heap_start \in Nat /\ k.heap_size \in Nat
         /\ k.max_allocation \in Nat
    BY DEF IsHeap
  <1>12. \A c \in D : /\ r.mem[c] \in [size : Nat \ {0}, prev : Int, next : Int]
                      /\ r.mem[c].size = k.mem[c].size
                      /\ r.mem[c].prev = IF c = after THEN before ELSE k.mem[c].prev
                      /\ r.mem[c].next = IF c = before THEN after ELSE k.mem[c].next
    <2> SUFFICES ASSUME NEW c \in D
                 PROVE  /\ r.mem[c] \in [size : Nat \ {0}, prev : Int, next : Int]
                        /\ r.mem[c].size = k.mem[c].size
                        /\ r.mem[c].prev = IF c = after THEN before ELSE k.mem[c].prev
                        /\ r.mem[c].next = IF c = before THEN after ELSE k.mem[c].next
      OBVIOUS
    <2>1. k.mem[c] \in [size : Nat \ {0}, prev : Int, next : Int] /\ c # 0
      BY <1>1, <1>11
    <2>2. CASE c = before
      <3>1. r.mem[c] = [k.mem[c] EXCEPT !.next = after] /\ c # after
        BY <1>9, <1>10, <2>1, <2>2
      <3> QED BY <1>9, <2>1, <2>2, <3>1
    <2>3. CASE c # before /\ c = after
      <3>1. r.mem[c] = [k.mem[c] EXCEPT !.prev = before]
        BY <1>10, <2>3
      <3> QED BY <1>9, <2>1, <2>3, <3>1
    <2>4. CASE c # before /\ c # after
      BY <1>10, <2>1, <2>4
    <2> QED BY <2>2, <2>3, <2>4
  <1>13. IsHeap(r)
    <2>1. r.mem \in [DOMAIN r.mem -> [size : Nat \ {0}, prev : Int, next : Int]]
      BY <1>8, <1>10, <1>12
    <2> QED BY <1>1, <1>6, <1>7, <1>9, <1>10, <1>11, <2>1 DEF IsHeap
  <1>14. Linked(r, L \ {b})
    <2>1. /\ L \ {b} \subseteq DOMAIN r.mem
          /\ \A c \in L \ {b} : Valid(r, c)
      BY <1>1, <1>6, <1>10 DEF Valid
    <2>2. /\ L \ {b} = {} => r.free_list = 0
          /\ L \ {b} # {} => /\ r.free_list \in L \ {b}
                            /\ \A d \in L \ {b} : r.free_list <= d
                            /\ r.mem[r.free_list].prev = 0
      <3>1. CASE before = 0
        <4>1. b = k.free_list /\ r.free_list = after /\ \A d \in L : b <= d
          BY <1>1, <1>2, <1>7, <3>1 DEF Linked
        <4> QED BY <1>1, <1>3, <1>9, <1>12, <3>1, <4>1
      <3>2. CASE before # 0
        <4>1. /\ before \in L \ {b} /\ r.free_list = k.free_list /\ before < b
              /\ k.free_list \in L /\ \A d \in L : k.free_list <= d
              /\ k.mem[k.free_list].prev = 0
          BY <1>1, <1>2, <1>7, <3>2 DEF Linked
        <4>2. k.free_list # after /\ k.free_list # b
          BY <1>1, <1>3, <4>1
        <4> QED BY <1>1, <1>12, <4>1, <4>2
      <3> QED BY <3>1, <3>2
    <2>3. ASSUME NEW c \in L \ {b}
          PROVE  \/ r.mem[c].next = 0 /\ \A d \in L \ {b} : d <= c
                 \/ /\ r.mem[c].next \in L \ {b} /\ c < r.mem[c].next
                    /\ r.mem[r.mem[c].next].prev = c
                    /\ \A d \in L \ {b} : d <= c \/ r.mem[c].next <= d
      <3>1. CASE c = before
        <4>1. /\ r.mem[c].next = after /\ c < b
              /\ \A d \in L \ {b} : d <= c \/ b < d
          BY <1>1, <1>2, <1>12, <3>1
        <4>2. CASE after = 0
          BY <1>1, <1>3, <4>1, <4>2
        <4>3. CASE after # 0
          <5>1. after \in L \ {b} /\ b < after /\ \A d \in L : d <= b \/ after <= d
            BY <1>1, <1>3, <4>3
          <5>2. r.mem[after].prev = c
            BY <1>1, <1>12, <3>1, <5>1
          <5> QED BY <1>1, <4>1, <5>1, <5>2
        <4> QED BY <4>2, <4>3
      <3>2. CASE c # before
        <4> DEFINE n == k.mem[c].next
        <4>1. r.mem[c].next = n
          BY <1>1, <1>12, <3>2
        <4>2. CASE n = 0 /\ \A d \in L : d <= c
          BY <4>1, <4>2
        <4>3. CASE n \in L /\ c < n /\ k.mem[n].prev = c /\ \A d \in L : d <= c \/ n <= d
          <5>1. n # b
            BY <3>2, <4>3 DEF before
          <5>2. n # after
            BY <1>1, <1>3, <4>3
          <5> QED BY <1>1, <1>12, <4>1, <4>3, <5>1, <5>2
        <4> QED BY <4>2, <4>3 DEF Linked
      <3> QED BY <3>1, <3>2
    <2> QED BY <2>1, <2>2, <2>3 DEF Linked
  <1>15. SameBlocks(k, r)
    BY <1>6, <1>10, <1>12 DEF SameBlocks
  <1>16. ASSUME NEW c \in (D \ L) \cup {b} PROVE r.mem[c] = k.mem[c]
    BY <1>1, <1>2, <1>3, <1>9, <1>10
  <1>17. k.mem[b].next \in (L \ {b}) \cup {0}
    BY <1>3, <1>9 DEF after
  <1> QED BY <1>13, <1>14, <1>15, <1>16, <1>17 DEF SameAt

\* free_block finds a listed block that serves whenever there is one.
LEMMA FindIs ==
  ASSUME NEW k, IsHeap(k), NEW L, Linked(k, L), NEW size,
         \A c \in DOMAIN k.mem \ L : k.mem[c].next = InUse
  PROVE  \/ free_block(k, size) = 0 /\ \A d \in L : ~Serves(k, d, size)
         \/ free_block(k, size) \in L /\ Serves(k, free_block(k, size), size)
  <1> DEFINE D == DOMAIN k.mem
             X == D \cup {0, InUse}
             N(c) == k.mem[c].next
             From(c) == {d \in L : c <= d /\ Serves(k, d, size)}
             Least(c) == CHOOSE m \in From(c) : \A d \in From(c) : m <= d
  <1>1. /\ \A d \in D : d \in Nat /\ d # 0 /\ N(d) \in Int
        /\ \A d \in L : d \in D /\ Valid(k, d)
        /\ ~Valid(k, 0) /\ ~Valid(k, InUse)
        /\ k.heap_size \in Nat
    BY NullInvalid DEF IsHeap, Linked
  <1>2. ASSUME NEW c \in L
        PROVE  \/ N(c) = 0 /\ \A d \in L : d <= c
               \/ N(c) \in L /\ c < N(c) /\ \A d \in L : d <= c \/ N(c) <= d
    BY DEF Linked
  <1>3. ASSUME NEW c \in L, ~Serves(k, c, size)
        PROVE  \/ N(c) = 0 /\ From(c) = {}
               \/ N(c) \in L /\ c < N(c) /\ From(c) = From(N(c))
    <2>1. CASE N(c) = 0 /\ \A d \in L : d <= c
      <3>1. \A d \in L : c <= d => d = c
        BY <1>1, <2>1
      <3> QED BY <1>3, <2>1, <3>1
    <2>2. CASE N(c) \in L /\ c < N(c) /\ \A d \in L : d <= c \/ N(c) <= d
      <3>1. \A d \in L : (c <= d /\ d # c) <=> N(c) <= d
        BY <1>1, <2>2
      <3> QED BY <1>3, <2>2, <3>1
    <2> QED BY <1>2, <2>1, <2>2
  <1>4. ASSUME NEW c \in L, From(c) # {}
        PROVE  Least(c) \in From(c) /\ \A d \in From(c) : Least(c) <= d
    <2>1. \E m \in From(c) : \A d \in From(c) : m <= d
      <3>1. From(c) \subseteq Nat
        BY <1>1
      <3> HIDE DEF From
      <3> QED BY <1>4, <3>1, LeastNat
    <2> HIDE DEF From
    <2> QED BY <2>1
  <1>5. ASSUME NEW c \in L, Serves(k, c, size) PROVE From(c) # {} /\ Least(c) = c
    <2>1. c \in From(c) /\ \A d \in From(c) : c <= d /\ d \in Nat
      BY <1>1, <1>5
    <2>2. Least(c) \in From(c) /\ Least(c) <= c
      BY <1>4, <2>1
    <2> QED BY <1>1, <2>1, <2>2
  <1> HIDE DEF From, N
  <1> DEFINE IsSeek(f) == f = [c \in X |-> IF ~Valid(k, c) THEN 0
                                           ELSE IF Serves(k, c, size) THEN c ELSE f[N(c)]]
             seek == CHOOSE f : IsSeek(f)
             w == [c \in X |-> IF c \in L THEN IF From(c) = {} THEN 0 ELSE Least(c)
                               ELSE IF Valid(k, c) /\ Serves(k, c, size) THEN c ELSE 0]
  <1>6. IsSeek(seek)
    <2>1. ASSUME NEW c \in X
          PROVE  w[c] = IF ~Valid(k, c) THEN 0
                        ELSE IF Serves(k, c, size) THEN c ELSE w[N(c)]
      <3>1. 0 \notin L /\ InUse \notin L
        BY <1>1
      <3>2. w[0] = 0 /\ w[InUse] = 0
        BY <1>1, <3>1
      <3>3. CASE c \in L /\ Serves(k, c, size)
        BY <1>1, <1>5, <3>3
      <3>4. CASE c \in L /\ ~Serves(k, c, size)
        <4>1. CASE N(c) = 0 /\ From(c) = {}
          BY <1>1, <3>2, <3>4, <4>1
        <4>2. CASE N(c) \in L /\ From(c) = From(N(c))
          <5>1. Least(c) = Least(N(c))
            BY <4>2
          <5> HIDE DEF Least
          <5> QED BY <1>1, <3>4, <4>2, <5>1
        <4> QED BY <1>3, <3>4, <4>1, <4>2
      <3>5. CASE c \in D \ L
        BY <1>1, <3>2, <3>5 DEF N
      <3>6. CASE c \in {0, InUse}
        BY <1>1, <3>2, <3>6
      <3> QED BY <3>3, <3>4, <3>5, <3>6
    <2> HIDE DEF Least
    <2>2. w = [c \in X |-> IF ~Valid(k, c) THEN 0
                           ELSE IF Serves(k, c, size) THEN c ELSE w[N(c)]]
      BY <2>1
    <2>3. IsSeek(w)
      BY <2>2
    <2> HIDE DEF w, IsSeek
    <2> QED BY <2>3
  <1>7. free_block(k, size) = seek[k.free_list]
    BY DEF free_block, N
  <1> HIDE DEF seek
  <1>8. \A c \in X : seek[c] = IF ~Valid(k, c) THEN 0
                              ELSE IF Serves(k, c, size) THEN c ELSE seek[N(c)]
    BY <1>6
  <1> DEFINE Good(c) == \/ seek[c] = 0 /\ From(c) = {}
                        \/ seek[c] \in L /\ Serves(k, seek[c], size)
  <1>9. \A c \in L : Good(c)
    <2> DEFINE B == {c \in L : ~Good(c)}
    <2> SUFFICES ASSUME B # {} PROVE FALSE
      OBVIOUS
    <2>1. PICK m \in B : \A c \in B : c <= m
      <3>1. /\ USER_HEAP + k.heap_size \in Nat
            /\ \A d \in B : d \in Nat /\ d <= USER_HEAP + k.heap_size
        BY <1>1, UserHeapAssumption DEF Valid
      <3> HIDE DEF B
      <3> QED BY <3>1, GreatestNat
    <2>2. ~Serves(k, m, size) /\ seek[m] = seek[N(m)]
      BY <1>1, <1>8, <2>1
    <2>3. CASE N(m) = 0 /\ From(m) = {}
      BY <1>1, <1>8, <2>1, <2>2, <2>3
    <2>4. CASE N(m) \in L /\ m < N(m) /\ From(m) = From(N(m))
      <3>1. N(m) \notin B
        BY <1>1, <2>1, <2>4
      <3> QED BY <2>1, <2>2, <2>4, <3>1
    <2> QED BY <1>3, <2>1, <2>2, <2>3, <2>4
  <1>10. CASE L = {}
    <2>1. k.free_list = 0
      BY <1>10 DEF Linked
    <2> QED BY <1>1, <1>7, <1>8, <1>10, <2>1
  <1>11. CASE L # {}
    <2>1. k.free_list \in L /\ \A d \in L : k.free_list <= d
      BY <1>11 DEF Linked
    <2> QED BY <1>7, <1>9, <2>1 DEF From
  <1> QED BY <1>10, <1>11

\* What is done to blocks outside the list leaves the list alone.
LEMMA LinkedKept ==
  ASSUME NEW k, NEW L, Linked(k, L), NEW r, r.free_list = k.free_list,
         r.heap_size = k.heap_size, DOMAIN k.mem \subseteq DOMAIN r.mem,
         \A c \in L : r.mem[c].prev = k.mem[c].prev /\ r.mem[c].next = k.mem[c].next
  PROVE  Linked(r, L)
  <1>1. L \subseteq DOMAIN r.mem /\ \A c \in L : Valid(r, c)
    BY DEF Linked, Valid
  <1>2. /\ L = {} => r.free_list = 0
        /\ L # {} => /\ r.free_list \in L
                     /\ \A d \in L : r.free_list <= d
                     /\ r.mem[r.free_list].prev = 0
    BY DEF Linked
  <1>3. ASSUME NEW c \in L
        PROVE  LET n == r.mem[c].next
               IN  \/ n = 0 /\ \A d \in L : d <= c
                   \/ /\ n \in L /\ c < n /\ r.mem[n].prev = c
                      /\ \A d \in L : d <= c \/ n <= d
    BY DEF Linked
  <1> QED BY <1>1, <1>2, <1>3 DEF Linked

\* Block b can be cut behind `size` bytes, and its rest begins at `rest`.
CanCut(k, b, size, rest) ==
    /\ b \in DOMAIN k.mem
    /\ size \in Nat \ {0}
    /\ k.mem[b].size > size + Header
    /\ rest = b + Header + size
    /\ rest \notin DOMAIN k.mem

\* r has the blocks of k, with b cut in two.
IsCut(k, r, b, size, rest) ==
    /\ DOMAIN r.mem = DOMAIN k.mem \cup {rest}
    /\ r.mem[b].size = size
    /\ r.mem[rest].size = k.mem[b].size - size - Header
    /\ \A c \in DOMAIN k.mem \ {b} : r.mem[c].size = k.mem[c].size
    /\ r.heap_start = k.heap_start
    /\ r.heap_size = k.heap_size
    /\ r.max_allocation = k.max_allocation

\* split gives block b the size that is asked for and makes a block of the rest.
LEMMA SplitIs ==
  ASSUME NEW k, IsHeap(k), NEW L, Linked(k, L), Loose(k, L), NEW b, b \notin L,
         NEW size, NEW rest, CanCut(k, b, size, rest),
         NEW r, r = split(k, b, size)
  PROVE  /\ IsHeap(r)
         /\ Linked(r, L)
         /\ IsCut(k, r, b, size, rest)
         /\ SameAt(DOMAIN k.mem \ {b}, k, r)
         /\ Loose(r, L)
  <1> DEFINE D == DOMAIN k.mem
             header == [size |-> k.mem[b].size - size - Header, prev |-> 0, next |-> 0]
             Rec == [size : Nat \ {0}, prev : Int, next : Int]
  <1> USE DEF CanCut
  <1>1. /\ k.mem \in [D -> Rec] /\ D \subseteq Nat \ {0}
        /\ b \in Nat /\ b # 0 /\ Header \in Nat \ {0}
        /\ k.mem[b] \in Rec
    BY UserHeapAssumption DEF IsHeap
  <1>2. /\ r = [mem |-> r.mem, free_list |-> r.free_list, heap_start |-> r.heap_start,
                heap_size |-> r.heap_size, max_allocation |-> r.max_allocation]
        /\ r.heap_start = k.heap_start /\ r.heap_size = k.heap_size
        /\ r.max_allocation = k.max_allocation /\ r.free_list = k.free_list
    BY DEF split, IsHeap
  <1>3. r.mem = [c \in D \cup {rest} |->
          CASE c = rest -> header [] c = b -> [k.mem[b] EXCEPT !.size = size] [] OTHER -> k.mem[c]]
    BY DEF split, IsHeap
  <1>4. rest # b /\ rest \in Nat \ {0} /\ header \in Rec /\ [k.mem[b] EXCEPT !.size = size] \in Rec
    BY <1>1
  <1>5. /\ DOMAIN r.mem = D \cup {rest}
        /\ r.mem[b] = [k.mem[b] EXCEPT !.size = size]
        /\ r.mem[rest] = header
        /\ \A c \in D \ {b} : r.mem[c] = k.mem[c]
    BY <1>3, <1>4
  <1>6. IsHeap(r)
    <2>1. \A c \in D \cup {rest} : r.mem[c] \in Rec
      BY <1>1, <1>4, <1>5
    <2>2. r.mem \in [DOMAIN r.mem -> Rec]
      BY <1>3, <1>5, <2>1
    <2> QED BY <1>1, <1>2, <1>4, <1>5, <2>2 DEF IsHeap
  <1>7. Linked(r, L)
    <2>1. \A c \in L : c \in D \ {b}
      BY DEF Linked
    <2> QED BY <1>2, <1>5, <2>1, LinkedKept
  <1>8. Loose(r, L)
    BY <1>1, <1>5 DEF Loose
  <1> QED BY <1>1, <1>2, <1>5, <1>6, <1>7, <1>8 DEF SameAt, IsCut

\* MarkUsed writes the marks of block b.
LEMMA MarkIs ==
  ASSUME NEW k, IsHeap(k), NEW L, Linked(k, L), NEW b \in DOMAIN k.mem \ L,
         NEW r, r = MarkUsed(k, b)
  PROVE  /\ IsHeap(r)
         /\ Linked(r, L)
         /\ SameBlocks(k, r)
         /\ r.mem[b].prev = InUse /\ r.mem[b].next = InUse
         /\ SameAt(DOMAIN k.mem \ {b}, k, r)
  <1> DEFINE D == DOMAIN k.mem
             Rec == [size : Nat \ {0}, prev : Int, next : Int]
             marked == [k.mem[b] EXCEPT !.prev = InUse, !.next = InUse]
  <1>1. k.mem \in [D -> Rec] /\ D \subseteq Nat \ {0} /\ k.mem[b] \in Rec
    BY DEF IsHeap
  <1>2. /\ r = [mem |-> r.mem, free_list |-> r.free_list, heap_start |-> r.heap_start,
                heap_size |-> r.heap_size, max_allocation |-> r.max_allocation]
        /\ r.heap_start = k.heap_start /\ r.heap_size = k.heap_size
        /\ r.max_allocation = k.max_allocation /\ r.free_list = k.free_list
    BY DEF MarkUsed, IsHeap
  <1>3. r.mem = [k.mem EXCEPT ![b] = marked]
    <2>1. r.mem = [k.mem EXCEPT ![b].prev = InUse, ![b].next = InUse]
      BY DEF MarkUsed, IsHeap
    <2>2. \A c \in D : r.mem[c] = IF c = b THEN marked ELSE k.mem[c]
      BY <1>1, <2>1
    <2>3. r.mem = [c \in D |-> r.mem[c]]
      BY <1>1, <2>1
    <2> QED BY <1>1, <2>2, <2>3
  <1>4. /\ marked \in Rec /\ marked.size = k.mem[b].size
        /\ marked.prev = InUse /\ marked.next = InUse
    <2> DEFINE once == [k.mem[b] EXCEPT !.prev = InUse]
    <2>1. once \in Rec /\ once.size = k.mem[b].size /\ once.prev = InUse
      BY <1>1 DEF InUse
    <2>2. marked = [once EXCEPT !.next = InUse]
      BY <1>1
    <2> HIDE DEF once, marked
    <2> QED BY <2>1, <2>2 DEF InUse
  <1> HIDE DEF marked
  <1>5. r.mem \in [D -> Rec]
    BY <1>1, <1>3, <1>4
  <1>6. IsHeap(r)
    BY <1>2, <1>5 DEF IsHeap
  <1>7. \A c \in D \ {b} : r.mem[c] = k.mem[c]
    BY <1>1, <1>3
  <1>8. r.mem[b] = marked /\ DOMAIN r.mem = D
    BY <1>1, <1>3
  <1>9. Linked(r, L)
    <2>1. \A c \in L : c \in D \ {b}
      BY DEF Linked
    <2> QED BY <1>2, <1>7, <1>8, <2>1, LinkedKept
  <1> QED BY <1>2, <1>4, <1>6, <1>7, <1>8, <1>9 DEF SameBlocks, SameAt

-----------------------------------------------------------------------------
(* A heap between calls, and what each operation makes of it.              *)

\* The listed blocks of a heap (Listed is that of h).
ListedIn(k) == {b \in DOMAIN k.mem : k.mem[b].next # InUse}

\* The headers follow one another from USER_HEAP to heap_start, which lies in
\* what is mapped.
Tiles(k) ==
    /\ \A b \in DOMAIN k.mem :
          /\ USER_HEAP <= b
          /\ EndOf(k, b) \in DOMAIN k.mem \cup {k.heap_start}
          /\ EndOf(k, b) <= k.heap_start
          /\ b = USER_HEAP \/ \E c \in DOMAIN k.mem : EndOf(k, c) = b
    /\ \A b, c \in DOMAIN k.mem : b < c => EndOf(k, b) <= c
    /\ k.heap_start = USER_HEAP \/ \E c \in DOMAIN k.mem : EndOf(k, c) = k.heap_start
    /\ k.heap_start <= USER_HEAP + k.heap_size

\* Each block is either listed or carries both marks.
Marked(k) ==
    \A b \in DOMAIN k.mem \ ListedIn(k) : k.mem[b].prev = InUse /\ k.mem[b].next = InUse

SoundHeap(k) == IsHeap(k) /\ Tiles(k) /\ Linked(k, ListedIn(k)) /\ Marked(k)

\* Linked blocks name null or a listed block, never InUse.
LEMMA LinkedNext ==
  ASSUME NEW k, IsHeap(k), NEW L, Linked(k, L)
  PROVE  \A c \in L : k.mem[c].next # InUse /\ k.mem[c].next \in L \cup {0}
  <1>1. L \subseteq Nat
    BY DEF IsHeap, Linked
  <1>2. InUse \notin L /\ InUse # 0
    BY <1>1 DEF InUse
  <1> QED BY <1>2 DEF Linked

\* Same blocks, same tiling.
LEMMA TilesKept ==
  ASSUME NEW k, Tiles(k), NEW r, SameBlocks(k, r)
  PROVE  Tiles(r)
  <1>1. \A c \in DOMAIN k.mem : EndOf(r, c) = EndOf(k, c)
    BY DEF SameBlocks, EndOf
  <1> QED BY <1>1 DEF Tiles, SameBlocks

\* A block of a heap lies in what VALIDATE_PTR accepts.
LEMMA BlocksValid ==
  ASSUME NEW k, IsHeap(k), Tiles(k), NEW b \in DOMAIN k.mem
  PROVE  /\ Valid(k, b) /\ b \in Nat /\ b # 0 /\ EndOf(k, b) \in Nat
         /\ b + Header < EndOf(k, b) /\ b < k.heap_start
  <1>1. b \in Nat \ {0} /\ k.mem[b].size \in Nat \ {0} /\ k.heap_start \in Nat /\ k.heap_size \in Nat
    BY DEF IsHeap
  <1>2. USER_HEAP <= b /\ EndOf(k, b) <= k.heap_start /\ k.heap_start <= USER_HEAP + k.heap_size
    BY DEF Tiles
  <1>3. Header \in Nat \ {0} /\ USER_HEAP \in Nat \ {0}
    BY UserHeapAssumption
  <1> QED BY <1>1, <1>2, <1>3 DEF EndOf, Valid

\* Freeing lists the block.
LEMMA FreeIs ==
  ASSUME NEW k, SoundHeap(k), NEW b \in DOMAIN k.mem \ ListedIn(k),
         NEW r, r = free_insert(k, b)
  PROVE  SoundHeap(r) /\ SameBlocks(k, r) /\ ListedIn(r) = ListedIn(k) \cup {b}
  <1> DEFINE L == ListedIn(k)
  <1>1. IsHeap(k) /\ Tiles(k) /\ Linked(k, L) /\ Marked(k)
    BY DEF SoundHeap
  <1>2. Loose(k, L)
    BY <1>1 DEF Marked, Loose
  <1>3. /\ IsHeap(r) /\ Linked(r, L \cup {b}) /\ SameBlocks(k, r)
        /\ SameAt(DOMAIN k.mem \ (L \cup {b}), k, r)
    <2>1. Valid(k, b)
      BY <1>1, BlocksValid
    <2>2. b \in DOMAIN k.mem \ L
      OBVIOUS
    <2> HIDE DEF L
    <2> QED BY <1>1, <1>2, <2>1, <2>2, InsertIs
  <1>4. ListedIn(r) = L \cup {b}
    <2>1. \A c \in L \cup {b} : c \in DOMAIN r.mem /\ r.mem[c].next # InUse
      <3>1. \A c \in L \cup {b} : r.mem[c].next # InUse
        BY <1>3, LinkedNext
      <3> QED BY <1>3, <3>1 DEF Linked
    <2>2. \A c \in DOMAIN r.mem \ (L \cup {b}) : r.mem[c].next = InUse /\ r.mem[c].prev = InUse
      BY <1>1, <1>3 DEF SameBlocks, SameAt, Marked
    <2> QED BY <2>1, <2>2 DEF ListedIn
  <1>5. Marked(r)
    BY <1>1, <1>3, <1>4 DEF SameBlocks, SameAt, Marked
  <1>6. Tiles(r)
    BY <1>1, <1>3, TilesKept
  <1> QED BY <1>3, <1>4, <1>5, <1>6 DEF SoundHeap

\* A block taken whole leaves the list.
LEMMA TakeWholeIs ==
  ASSUME NEW k, SoundHeap(k), NEW b \in ListedIn(k), NEW size, k.mem[b].size = size,
         NEW r, r = TakeFree(k, b, size)
  PROVE  SoundHeap(r) /\ SameBlocks(k, r) /\ ListedIn(r) = ListedIn(k) \ {b}
  <1> DEFINE L == ListedIn(k)
             k1 == free_remove(k, b)
  <1>1. IsHeap(k) /\ Tiles(k) /\ Linked(k, L) /\ Marked(k)
    BY DEF SoundHeap
  <1>2. /\ IsHeap(k1) /\ Linked(k1, L \ {b}) /\ SameBlocks(k, k1)
        /\ SameAt((DOMAIN k.mem \ L) \cup {b}, k, k1)
    <2>1. b \in L /\ k1 = free_remove(k, b)
      OBVIOUS
    <2> HIDE DEF L, k1
    <2> QED BY <1>1, <2>1, RemoveIs
  <1>3. r = MarkUsed(k1, b)
    BY DEF TakeFree
  <1>4. b \in DOMAIN k1.mem \ (L \ {b})
    BY <1>2 DEF SameBlocks, ListedIn
  <1> HIDE DEF k1
  <1>5. /\ IsHeap(r) /\ Linked(r, L \ {b}) /\ SameBlocks(k1, r)
        /\ r.mem[b].prev = InUse /\ r.mem[b].next = InUse
        /\ SameAt(DOMAIN k1.mem \ {b}, k1, r)
    BY <1>2, <1>3, <1>4, MarkIs
  <1>6. SameBlocks(k, r)
    BY <1>2, <1>5 DEF SameBlocks
  <1>7. \A c \in DOMAIN r.mem \ (L \ {b}) : r.mem[c].prev = InUse /\ r.mem[c].next = InUse
    BY <1>1, <1>2, <1>5, <1>6 DEF SameBlocks, SameAt, Marked
  <1>8. ListedIn(r) = L \ {b}
    <2>1. \A c \in L \ {b} : c \in DOMAIN r.mem /\ r.mem[c].next # InUse
      <3>1. \A c \in L \ {b} : r.mem[c].next # InUse
        BY <1>5, LinkedNext
      <3> QED BY <1>5, <3>1 DEF Linked
    <2> QED BY <1>7, <2>1 DEF ListedIn
  <1> QED BY <1>1, <1>5, <1>6, <1>7, <1>8, TilesKept DEF SoundHeap, Marked

\* A tiling stays one when a block is cut in two.
LEMMA TilesCut ==
  ASSUME NEW k, IsHeap(k), Tiles(k), NEW b, NEW size, NEW rest, CanCut(k, b, size, rest),
         NEW r, IsCut(k, r, b, size, rest)
  PROVE  Tiles(r)
  <1> USE DEF CanCut, IsCut
  <1> DEFINE D == DOMAIN k.mem
  <1>1. /\ \A c \in D : c \in Nat /\ EndOf(k, c) \in Nat /\ c < EndOf(k, c)
        /\ k.mem[b].size \in Nat /\ Header \in Nat \ {0} /\ USER_HEAP \in Nat
        /\ k.heap_start \in Nat /\ k.heap_size \in Nat
    <2>1. \A c \in D : c \in Nat /\ EndOf(k, c) \in Nat /\ c + Header < EndOf(k, c)
      BY BlocksValid
    <2>2. /\ k.mem[b].size \in Nat /\ k.heap_start \in Nat /\ k.heap_size \in Nat
      BY DEF IsHeap
    <2>3. Header \in Nat \ {0} /\ USER_HEAP \in Nat
      BY UserHeapAssumption
    <2> QED BY <2>1, <2>2, <2>3
  <1>2. /\ EndOf(r, b) = rest /\ EndOf(r, rest) = EndOf(k, b)
        /\ b < rest /\ rest < EndOf(k, b) /\ rest \in Nat
        /\ \A c \in D \ {b} : EndOf(r, c) = EndOf(k, c)
    BY <1>1 DEF EndOf
  <1>3. /\ \A c \in D : /\ USER_HEAP <= c
                      /\ EndOf(k, c) \in D \cup {k.heap_start}
                      /\ EndOf(k, c) <= k.heap_start
        /\ \A c, d \in D : c < d => EndOf(k, c) <= d
        /\ k.heap_start <= USER_HEAP + k.heap_size
    BY DEF Tiles
  <1> HIDE DEF D
  <1>4. DOMAIN r.mem = D \cup {rest} /\ b \in D /\ rest \notin D
    BY DEF D
  <1>5. ASSUME NEW e, \E d \in D : EndOf(k, d) = e
        PROVE  \E d \in DOMAIN r.mem : EndOf(r, d) = e
    <2>1. PICK d \in D : EndOf(k, d) = e
      BY <1>5
    <2>2. CASE d = b
      BY <1>2, <1>4, <2>1, <2>2
    <2>3. CASE d # b
      BY <1>2, <1>4, <2>1, <2>3
    <2> QED BY <2>2, <2>3
  <1>6. ASSUME NEW c \in DOMAIN r.mem
        PROVE  /\ USER_HEAP <= c
               /\ EndOf(r, c) \in DOMAIN r.mem \cup {r.heap_start}
               /\ EndOf(r, c) <= r.heap_start
    <2>1. CASE c = rest
      BY <1>1, <1>2, <1>3, <1>4, <2>1
    <2>2. CASE c = b
      BY <1>1, <1>2, <1>3, <1>4, <2>2
    <2>3. CASE c \in D \ {b}
      BY <1>2, <1>3, <1>4, <2>3
    <2> QED BY <1>4, <2>1, <2>2, <2>3
  <1>9. ASSUME NEW c \in DOMAIN r.mem
        PROVE  c = USER_HEAP \/ \E d \in DOMAIN r.mem : EndOf(r, d) = c
    <2>1. CASE c = rest
      BY <1>2, <1>4, <2>1
    <2>2. CASE c \in D
      <3>1. c = USER_HEAP \/ \E d \in D : EndOf(k, d) = c
        BY <2>2 DEF Tiles, D
      <3> QED BY <1>5, <3>1
    <2> QED BY <1>4, <2>1, <2>2
  <1>7. ASSUME NEW c \in DOMAIN r.mem, NEW d \in DOMAIN r.mem, c < d
        PROVE  EndOf(r, c) <= d
    <2>1. CASE c = rest
      <3>1. d \in D /\ b < d
        BY <1>1, <1>2, <1>4, <1>7, <2>1
      <3> QED BY <1>2, <1>3, <1>4, <2>1, <3>1
    <2>2. CASE c = b
      <3>1. CASE d = rest
        BY <1>2, <2>2, <3>1
      <3>2. CASE d \in D
        BY <1>1, <1>2, <1>3, <1>4, <1>7, <2>2, <3>2
      <3> QED BY <1>4, <3>1, <3>2
    <2>3. CASE c \in D \ {b}
      <3>1. CASE d = rest
        <4>1. c < b
          <5>1. b < c => rest < c
            BY <1>1, <1>2, <1>3, <1>4, <2>3
          <5> QED BY <1>1, <1>2, <1>4, <1>7, <2>3, <3>1, <5>1
        <4> QED BY <1>1, <1>2, <1>3, <1>4, <2>3, <3>1, <4>1
      <3>2. CASE d \in D
        BY <1>2, <1>3, <1>7, <2>3, <3>2
      <3> QED BY <1>4, <3>1, <3>2
    <2> QED BY <1>4, <2>1, <2>2, <2>3
  <1>8. r.heap_start = USER_HEAP \/ \E c \in DOMAIN r.mem : EndOf(r, c) = r.heap_start
    <2>1. k.heap_start = USER_HEAP \/ \E d \in D : EndOf(k, d) = k.heap_start
      BY DEF Tiles, D
    <2> QED BY <1>5, <2>1
  <1> QED BY <1>3, <1>6, <1>7, <1>8, <1>9 DEF Tiles

\* A block that is cut: its front is handed out, the rest is listed.
LEMMA TakePartIs ==
  ASSUME NEW k, SoundHeap(k), NEW b \in ListedIn(k), NEW size \in Nat \ {0},
         k.mem[b].size > size + Header,
         NEW r, r = TakeFree(k, b, size)
  PROVE  LET rest == b + Header + size
         IN  /\ SoundHeap(r)
             /\ CanCut(k, b, size, rest) /\ IsCut(k, r, b, size, rest)
             /\ ListedIn(r) = (ListedIn(k) \ {b}) \cup {rest}
  <1> DEFINE rest == b + Header + size
             D == DOMAIN k.mem
             L == ListedIn(k)
             k1 == free_remove(k, b)
             k2 == split(k1, b, size)
             k3 == free_insert(k2, rest)
  <1>1. IsHeap(k) /\ Tiles(k) /\ Linked(k, L) /\ Marked(k) /\ b \in L /\ b \in D /\ L \subseteq D
    BY DEF SoundHeap, ListedIn
  <1>2. /\ k.mem[b].size \in Nat \ {0} /\ Header \in Nat \ {0} /\ b \in Nat
        /\ k.heap_start \in Nat /\ k.heap_size \in Nat
    BY <1>1, UserHeapAssumption DEF IsHeap
  <1>3. b < rest /\ rest < EndOf(k, b) /\ rest \in Nat
    BY <1>2 DEF EndOf
  <1>4. rest \notin D /\ Valid(k, rest)
    <2>1. USER_HEAP <= b /\ EndOf(k, b) <= k.heap_start /\ k.heap_start <= USER_HEAP + k.heap_size
      BY <1>1 DEF Tiles
    <2>2. EndOf(k, b) \in Nat /\ USER_HEAP \in Nat
      BY <1>1, BlocksValid, UserHeapAssumption
    <2>3. rest \in D => EndOf(k, b) <= rest
      BY <1>1, <1>3 DEF Tiles
    <2> QED BY <1>2, <1>3, <2>1, <2>2, <2>3 DEF Valid
  <1>5. r = MarkUsed(k3, b)
    <2>1. k.mem[b].size # size
      BY <1>2
    <2> QED BY <2>1 DEF TakeFree
  <1>6. k1 = free_remove(k, b) /\ k2 = split(k1, b, size) /\ k3 = free_insert(k2, rest)
    OBVIOUS
  <1> HIDE DEF rest, D, L, k1, k2, k3
  <1>7. /\ IsHeap(k1) /\ Linked(k1, L \ {b}) /\ SameBlocks(k, k1)
        /\ SameAt((D \ L) \cup {b}, k, k1)
        /\ k.mem[b].next \in (L \ {b}) \cup {0}
    BY <1>1, <1>6, RemoveIs DEF D
  <1>8. DOMAIN k1.mem = D /\ k1.mem[b] = k.mem[b] /\ k1.heap_size = k.heap_size
    BY <1>7 DEF SameBlocks, SameAt, D
  <1>9. Loose(k1, L \ {b})
    BY <1>1, <1>7, <1>8 DEF Loose, SameAt, Marked, D, L
  <1>10. /\ IsHeap(k2) /\ Linked(k2, L \ {b}) /\ IsCut(k1, k2, b, size, rest)
         /\ SameAt(DOMAIN k1.mem \ {b}, k1, k2) /\ Loose(k2, L \ {b})
    <2> DEFINE M == L \ {b}
    <2>1. b \notin M /\ Linked(k1, M) /\ Loose(k1, M)
      BY <1>1, <1>7, <1>9
    <2>2. CanCut(k1, b, size, rest)
      BY <1>1, <1>4, <1>8 DEF CanCut, rest
    <2> HIDE DEF M
    <2>3. /\ IsHeap(k2) /\ Linked(k2, M) /\ IsCut(k1, k2, b, size, rest)
          /\ SameAt(DOMAIN k1.mem \ {b}, k1, k2) /\ Loose(k2, M)
      BY <1>6, <1>7, <2>1, <2>2, SplitIs
    <2> QED BY <2>3 DEF M
  <1>11. DOMAIN k2.mem = D \cup {rest} /\ k2.heap_size = k.heap_size
    BY <1>8, <1>10 DEF IsCut
  <1>12. /\ IsHeap(k3) /\ Linked(k3, (L \ {b}) \cup {rest}) /\ SameBlocks(k2, k3)
         /\ SameAt(DOMAIN k2.mem \ ((L \ {b}) \cup {rest}), k2, k3)
    <2> DEFINE M == L \ {b}
    <2>1. rest \in DOMAIN k2.mem \ M /\ Valid(k2, rest)
      BY <1>1, <1>4, <1>11 DEF Valid
    <2>2. IsHeap(k2) /\ Linked(k2, M) /\ Loose(k2, M)
      BY <1>10
    <2> HIDE DEF M
    <2>3. /\ IsHeap(k3) /\ Linked(k3, M \cup {rest}) /\ SameBlocks(k2, k3)
          /\ SameAt(DOMAIN k2.mem \ (M \cup {rest}), k2, k3)
      BY <1>6, <2>1, <2>2, InsertIs
    <2> QED BY <2>3 DEF M
  <1>13. /\ IsHeap(r) /\ Linked(r, (L \ {b}) \cup {rest}) /\ SameBlocks(k3, r)
         /\ r.mem[b].prev = InUse /\ r.mem[b].next = InUse
         /\ SameAt(DOMAIN k3.mem \ {b}, k3, r)
    <2>1. b \in DOMAIN k3.mem \ ((L \ {b}) \cup {rest})
      BY <1>1, <1>2, <1>3, <1>11, <1>12 DEF SameBlocks
    <2> QED BY <1>5, <1>12, <2>1, MarkIs
  <1>14. IsCut(k, r, b, size, rest)
    <2>1. DOMAIN r.mem = D \cup {rest} /\ \A c \in DOMAIN r.mem : r.mem[c].size = k2.mem[c].size
      BY <1>11, <1>12, <1>13 DEF SameBlocks
    <2>2. /\ r.heap_start = k.heap_start /\ r.heap_size = k.heap_size
          /\ r.max_allocation = k.max_allocation
      BY <1>7, <1>10, <1>12, <1>13 DEF SameBlocks, IsCut
    <2>3. /\ k2.mem[b].size = size /\ k2.mem[rest].size = k.mem[b].size - size - Header
          /\ \A c \in D \ {b} : k2.mem[c].size = k.mem[c].size
      BY <1>7, <1>8, <1>10 DEF SameBlocks, IsCut, D
    <2> QED BY <1>1, <2>1, <2>2, <2>3 DEF IsCut, D
  <1>15. \A c \in DOMAIN r.mem \ ((L \ {b}) \cup {rest}) : r.mem[c].prev = InUse /\ r.mem[c].next = InUse
    <2>0. DOMAIN r.mem = D \cup {rest}
      BY <1>14 DEF IsCut, D
    <2> SUFFICES ASSUME NEW c \in D \ L PROVE r.mem[c].prev = InUse /\ r.mem[c].next = InUse
      BY <1>13, <2>0
    <2>1. c # b /\ c # rest
      BY <1>1, <1>4
    <2>2. r.mem[c] = k3.mem[c] /\ k3.mem[c] = k2.mem[c] /\ k2.mem[c] = k1.mem[c] /\ k1.mem[c] = k.mem[c]
      BY <1>7, <1>8, <1>10, <1>11, <1>12, <1>13, <2>1 DEF SameBlocks, SameAt
    <2> QED BY <1>1, <2>2 DEF Marked, D, L
  <1>16. ListedIn(r) = (L \ {b}) \cup {rest}
    <2>1. \A c \in (L \ {b}) \cup {rest} : c \in DOMAIN r.mem /\ r.mem[c].next # InUse
      <3>1. \A c \in (L \ {b}) \cup {rest} : r.mem[c].next # InUse
        BY <1>13, LinkedNext
      <3> QED BY <1>13, <3>1 DEF Linked
    <2> QED BY <1>15, <2>1 DEF ListedIn
  <1>17. CanCut(k, b, size, rest)
    BY <1>1, <1>4 DEF CanCut, D, rest
  <1>18. Tiles(r)
    BY <1>1, <1>14, <1>17, TilesCut
  <1>19. SoundHeap(r)
    BY <1>13, <1>15, <1>16, <1>18 DEF SoundHeap, Marked
  <1> QED BY <1>14, <1>16, <1>17, <1>19 DEF L, rest

\* More memory, or a higher max_allocation, changes nothing for the blocks.
LEMMA MoreIs ==
  ASSUME NEW k, SoundHeap(k), NEW r, IsHeap(r), r.mem = k.mem, r.free_list = k.free_list,
         r.heap_start = k.heap_start, k.heap_size <= r.heap_size
  PROVE  SoundHeap(r) /\ ListedIn(r) = ListedIn(k)
  <1>1. IsHeap(k) /\ Tiles(k) /\ Linked(k, ListedIn(k)) /\ Marked(k)
    BY DEF SoundHeap
  <1>2. ListedIn(r) = ListedIn(k)
    BY DEF ListedIn
  <1>3. k.heap_size \in Nat /\ r.heap_size \in Nat /\ k.heap_start \in Nat /\ USER_HEAP \in Nat
    BY <1>1, UserHeapAssumption DEF IsHeap
  <1>4. Linked(r, ListedIn(k))
    <2>1. \A c \in ListedIn(k) : c \in Nat /\ Valid(k, c)
      BY <1>1 DEF IsHeap, Linked
    <2>2. \A c \in ListedIn(k) : Valid(r, c)
      BY <1>3, <2>1 DEF Valid
    <2> QED BY <1>1, <2>2 DEF Linked
  <1>5. Tiles(r)
    <2>1. \A c \in DOMAIN k.mem : EndOf(r, c) = EndOf(k, c)
      BY DEF EndOf
    <2>2. r.heap_start <= USER_HEAP + r.heap_size
      BY <1>1, <1>3 DEF Tiles
    <2> QED BY <1>1, <2>1, <2>2 DEF Tiles
  <1> QED BY <1>1, <1>2, <1>4, <1>5 DEF SoundHeap, Marked

\* A new block lies behind the others.
LEMMA NewIs ==
  ASSUME NEW k, SoundHeap(k), NEW size \in Nat \ {0},
         k.heap_start + Header + size <= USER_HEAP + k.heap_size,
         NEW r, r = NewBlock(k, size)
  PROVE  /\ SoundHeap(r)
         /\ k.heap_start \notin DOMAIN k.mem
         /\ DOMAIN r.mem = DOMAIN k.mem \cup {k.heap_start}
         /\ ListedIn(r) = ListedIn(k)
         /\ SameAt(DOMAIN k.mem, k, r)
         /\ r.mem[k.heap_start].size = size
         /\ r.heap_start = k.heap_start + Header + size
         /\ r.heap_size = k.heap_size
  <1> DEFINE D == DOMAIN k.mem
             new == k.heap_start
             header == [size |-> size, prev |-> InUse, next |-> InUse]
             Rec == [size : Nat \ {0}, prev : Int, next : Int]
  <1>1. IsHeap(k) /\ Tiles(k) /\ Linked(k, ListedIn(k)) /\ Marked(k)
    BY DEF SoundHeap
  <1>2. /\ k.mem \in [D -> Rec] /\ D \subseteq Nat \ {0} /\ new \in Nat
        /\ k.heap_size \in Nat /\ Header \in Nat \ {0} /\ USER_HEAP \in Nat \ {0}
        /\ k.free_list \in Int
    BY <1>1, UserHeapAssumption DEF IsHeap
  <1>3. new \in Nat \ {0} /\ USER_HEAP <= new
    <2>1. CASE new = USER_HEAP
      BY <1>2, <2>1
    <2>2. CASE \E c \in D : EndOf(k, c) = new
      <3>1. PICK c \in D : EndOf(k, c) = new
        BY <2>2
      <3>2. USER_HEAP <= c /\ c \in Nat /\ c + Header < EndOf(k, c)
        BY <1>1, BlocksValid DEF Tiles
      <3> QED BY <1>2, <3>1, <3>2
    <2> QED BY <1>1, <2>1, <2>2 DEF Tiles
  <1>4. new \notin D
    <2>1. \A c \in D : c < new
      BY <1>1, BlocksValid
    <2> QED BY <1>2, <2>1
  <1>5. /\ r = [mem |-> r.mem, free_list |-> r.free_list, heap_start |-> r.heap_start,
                heap_size |-> r.heap_size, max_allocation |-> r.max_allocation]
        /\ r.heap_start = new + Header + size /\ r.heap_size = k.heap_size
        /\ r.max_allocation = k.max_allocation /\ r.free_list = k.free_list
    BY <1>1 DEF NewBlock, IsHeap
  <1>6. r.mem = [c \in D \cup {new} |-> IF c = new THEN header ELSE k.mem[c]]
    BY <1>1 DEF NewBlock, IsHeap
  <1>7. header \in Rec
    BY DEF InUse
  <1>8. DOMAIN r.mem = D \cup {new} /\ r.mem[new] = header /\ \A c \in D : r.mem[c] = k.mem[c]
    BY <1>4, <1>6
  <1>9. IsHeap(r)
    <2>1. r.mem \in [D \cup {new} -> Rec]
      BY <1>2, <1>6, <1>7
    <2>2. k.max_allocation \in Nat
      BY <1>1 DEF IsHeap
    <2> QED BY <1>2, <1>3, <1>5, <1>8, <2>1, <2>2 DEF IsHeap
  <1>10. ListedIn(r) = ListedIn(k)
    BY <1>4, <1>8 DEF ListedIn
  <1>11. Linked(r, ListedIn(k))
    <2>1. ListedIn(k) \subseteq D
      BY DEF ListedIn
    <2> QED BY <1>1, <1>5, <1>8, <2>1, LinkedKept
  <1>12. Marked(r)
    BY <1>1, <1>8, <1>10 DEF Marked
  <1>13. Tiles(r)
    <2>1. \A c \in D : EndOf(r, c) = EndOf(k, c) /\ EndOf(k, c) \in Nat /\ c \in Nat /\ c < new
      BY <1>1, <1>8, BlocksValid DEF EndOf
    <2>2. EndOf(r, new) = r.heap_start /\ r.heap_start \in Nat /\ new < r.heap_start
      BY <1>2, <1>5, <1>8 DEF EndOf
    <2>3. ASSUME NEW c \in D
          PROVE  /\ USER_HEAP <= c /\ EndOf(k, c) \in D \cup {new} /\ EndOf(k, c) <= new
                 /\ c = USER_HEAP \/ \E d \in D : EndOf(k, d) = c
      BY <1>1 DEF Tiles
    <2>4. ASSUME NEW c \in D \cup {new}
          PROVE  /\ USER_HEAP <= c /\ EndOf(r, c) \in DOMAIN r.mem \cup {r.heap_start}
                 /\ EndOf(r, c) <= r.heap_start
      <3>1. CASE c = new
        BY <1>2, <1>3, <2>2, <3>1
      <3>2. CASE c \in D
        <4>1. EndOf(r, c) \in D \cup {new} /\ EndOf(r, c) <= new /\ USER_HEAP <= c
          BY <2>1, <2>3, <3>2
        <4> QED BY <1>2, <1>8, <2>1, <2>2, <3>2, <4>1
      <3> QED BY <3>1, <3>2
    <2>5. ASSUME NEW c \in D \cup {new}
          PROVE  c = USER_HEAP \/ \E d \in DOMAIN r.mem : EndOf(r, d) = c
      <3>1. c = USER_HEAP \/ \E d \in D : EndOf(k, d) = c
        BY <1>1 DEF Tiles
      <3> QED BY <1>8, <2>1, <3>1
    <2>6. ASSUME NEW c \in D \cup {new}, NEW d \in D \cup {new}, c < d
          PROVE  EndOf(r, c) <= d
      <3>1. c \in D
        BY <1>2, <2>1, <2>6
      <3>2. CASE d \in D
        BY <1>1, <2>1, <2>6, <3>1, <3>2 DEF Tiles
      <3>3. CASE d = new
        BY <2>1, <2>3, <3>1, <3>3
      <3> QED BY <3>2, <3>3
    <2> QED BY <1>5, <1>8, <2>2, <2>4, <2>5, <2>6 DEF Tiles
  <1> QED BY <1>4, <1>5, <1>8, <1>9, <1>10, <1>11, <1>12, <1>13 DEF SoundHeap, SameAt

-----------------------------------------------------------------------------
(* The calls under way.                                                    *)

Pcs == {"lock", "enough", "search", "take", "room", "new", "give back", "unlock"}
CallRec == [pc : Pcs, size : Nat, old : Nat, block : Nat]

\* The stacks of calls: at most a handler's on top of a thread's own.
StacksOK ==
    /\ frames \in [Thread -> Seq(CallRec)]
    /\ \A t \in Thread : Len(frames[t]) <= (IF t \in Handling THEN 2 ELSE 1)

\* What Calls and Call say of the stacks.
LEMMA CallsAre ==
  ASSUME StacksOK
  PROVE  /\ \A c \in Calls : Call(c) \in CallRec
         /\ \A t \in Thread : Running(t) =>
               /\ Len(frames[t]) \in 1..2 /\ <<t, Len(frames[t])>> \in Calls
               /\ Frame(t) = Call(<<t, Len(frames[t])>>)
  <1>1. \A t \in Thread : frames[t] \in Seq(CallRec) /\ Len(frames[t]) \in Nat /\ Len(frames[t]) <= 2
    BY DEF StacksOK
  <1>2. ASSUME NEW c \in Calls PROVE Call(c) \in CallRec
    <2>1. c[1] \in Thread /\ c[2] \in 1..Len(frames[c[1]])
      BY <1>1 DEF Calls
    <2> QED BY <1>1, <2>1 DEF Call
  <1>3. ASSUME NEW t \in Thread, Running(t)
        PROVE  /\ Len(frames[t]) \in 1..2 /\ <<t, Len(frames[t])>> \in Calls
               /\ Frame(t) = Call(<<t, Len(frames[t])>>)
    <2>1. Len(frames[t]) \in Nat \ {0}
      BY <1>1, <1>3, EmptySeq DEF Running
    <2> DEFINE n == Len(frames[t])
               c == <<t, n>>
    <2>2. n <= 2 /\ n \in Nat /\ n # 0
      BY <1>1, <2>1
    <2> HIDE DEF n
    <2>3. n \in 1..2
      BY <2>2
    <2>4. c[1] = t /\ c[2] = n /\ c \in Thread \X (1..2)
      BY <2>3
    <2> HIDE DEF c
    <2>5. c \in Calls /\ Frame(t) = Call(c)
      BY <2>2, <2>4 DEF Calls, Frame, Call, n
    <2> QED BY <2>3, <2>5 DEF n, c
  <1> QED BY <1>2, <1>3

\* A step of a call changes this call and no other.
LEMMA SetFrameIs ==
  ASSUME StacksOK, NEW t \in Thread, Running(t), NEW f \in CallRec, SetFrame(t, f)
  PROVE  /\ StacksOK'
         /\ Calls' = Calls
         /\ \E c \in Calls : /\ Frame(t) = Call(c)
                            /\ \A d \in Calls : Call(d)' = IF d = c THEN f ELSE Call(d)
  <1> DEFINE n == Len(frames[t])
  <1>1. frames[t] \in Seq(CallRec) /\ n \in 1..2 /\ <<t, n>> \in Calls /\ Frame(t) = Call(<<t, n>>)
    BY CallsAre DEF StacksOK
  <1>2. frames' = [frames EXCEPT ![t][n] = f]
    BY DEF SetFrame
  <1>3. /\ frames'[t] \in Seq(CallRec) /\ Len(frames'[t]) = n
        /\ \A i \in 1..n : frames'[t][i] = IF i = n THEN f ELSE frames[t][i]
        /\ \A u \in Thread : u # t => frames'[u] = frames[u]
    <2>1. frames'[t] = [frames[t] EXCEPT ![n] = f]
      BY <1>2 DEF StacksOK
    <2>2. n \in 1..Len(frames[t])
      BY <1>1
    <2> HIDE DEF n
    <2>3. /\ frames'[t] \in Seq(CallRec) /\ Len(frames'[t]) = Len(frames[t])
          /\ \A i \in 1..Len(frames[t]) : frames'[t][i] = IF i = n THEN f ELSE frames[t][i]
      BY <1>1, <2>1, <2>2, ExceptSeq
    <2>4. \A u \in Thread : u # t => frames'[u] = frames[u]
      BY <1>2 DEF StacksOK
    <2> QED BY <2>3, <2>4 DEF n
  <1>4. StacksOK'
    BY <1>2, <1>3 DEF StacksOK
  <1>5. Calls' = Calls
    BY <1>3 DEF Calls
  <1>6. ASSUME NEW d \in Calls PROVE Call(d)' = IF d = <<t, n>> THEN f ELSE Call(d)
    <2>1. d = <<d[1], d[2]>> /\ d[1] \in Thread /\ d[2] \in 1..2 /\ d[2] <= Len(frames[d[1]])
      BY DEF Calls
    <2>2. CASE d[1] = t
      BY <1>1, <1>3, <2>1, <2>2 DEF Call
    <2>3. CASE d[1] # t
      BY <1>3, <2>1, <2>3 DEF Call
    <2> QED BY <2>2, <2>3
  <1> QED BY <1>1, <1>4, <1>5, <1>6

\* Entering adds a call.
LEMMA EnterIs ==
  ASSUME StacksOK, NEW t \in Thread, Len(frames[t]) < (IF t \in Handling THEN 2 ELSE 1),
         NEW f \in CallRec, frames' = [frames EXCEPT ![t] = Append(@, f)]
  PROVE  /\ StacksOK'
         /\ \E c : /\ c \notin Calls /\ Calls' = Calls \cup {c}
                  /\ \A d \in Calls' : Call(d)' = IF d = c THEN f ELSE Call(d)
  <1> DEFINE n == Len(frames[t])
  <1>1. frames[t] \in Seq(CallRec) /\ n \in 0..1
    <2>1. frames[t] \in Seq(CallRec)
      BY DEF StacksOK
    <2>2. n \in Nat
      BY <2>1
    <2>3. n < 2
      <3>1. CASE t \in Handling
        BY <3>1
      <3>2. CASE t \notin Handling
        BY <2>2, <3>2
      <3> QED BY <3>1, <3>2
    <2> HIDE DEF n
    <2> QED BY <2>1, <2>2, <2>3
  <1>2. frames'[t] = Append(frames[t], f) /\ \A u \in Thread : u # t => frames'[u] = frames[u]
    BY DEF StacksOK
  <1>3. /\ frames'[t] \in Seq(CallRec) /\ Len(frames'[t]) = n + 1
        /\ \A i \in 1..n : frames'[t][i] = frames[t][i]
        /\ frames'[t][n+1] = f
    BY <1>1, <1>2, AppendProperties
  <1>4. StacksOK'
    BY <1>1, <1>2, <1>3 DEF StacksOK
  <1>5. ASSUME NEW d
        PROVE  d \in Calls' <=> d \in Calls \/ d = <<t, n+1>>
    <2>1. CASE d = <<d[1], d[2]>> /\ d[1] = t /\ d[2] \in 1..2
      BY <1>1, <1>3, <2>1 DEF Calls
    <2>2. CASE d \in Thread \X (1..2) /\ d[1] # t
      BY <1>2, <2>2 DEF Calls
    <2>3. CASE d \notin Thread \X (1..2)
      BY <1>1, <2>3 DEF Calls
    <2> QED BY <2>1, <2>2, <2>3
  <1>6. <<t, n+1>> \notin Calls
    BY <1>1 DEF Calls
  <1>7. ASSUME NEW d \in Calls' PROVE Call(d)' = IF d = <<t, n+1>> THEN f ELSE Call(d)
    <2>1. d = <<d[1], d[2]>> /\ d[1] \in Thread /\ d[2] \in 1..2 /\ d[2] <= Len(frames'[d[1]])
      BY DEF Calls
    <2>2. CASE d[1] = t
      BY <1>1, <1>3, <2>1, <2>2 DEF Call
    <2>3. CASE d[1] # t
      BY <1>2, <2>1, <2>3 DEF Call
    <2> QED BY <2>2, <2>3
  <1>8. Calls' = Calls \cup {<<t, n+1>>}
    BY <1>5
  <1> QED BY <1>4, <1>6, <1>7, <1>8

\* Returning removes the running call.
LEMMA ReturnIs ==
  ASSUME StacksOK, NEW t \in Thread, Running(t), frames' = [frames EXCEPT ![t] = Front(@)]
  PROVE  /\ StacksOK'
         /\ \E c \in Calls : /\ Frame(t) = Call(c) /\ Calls' = Calls \ {c}
                            /\ \A d \in Calls' : Call(d)' = Call(d)
  <1> DEFINE n == Len(frames[t])
  <1>1. frames[t] \in Seq(CallRec) /\ n \in 1..2 /\ <<t, n>> \in Calls /\ Frame(t) = Call(<<t, n>>)
    BY CallsAre DEF StacksOK
  <1>2. frames'[t] = SubSeq(frames[t], 1, n-1) /\ \A u \in Thread : u # t => frames'[u] = frames[u]
    BY DEF StacksOK, Front
  <1>3. /\ frames'[t] \in Seq(CallRec) /\ Len(frames'[t]) = n - 1
        /\ \A i \in 1..n-1 : frames'[t][i] = frames[t][i]
    <2>1. \A i \in 1..n-1 : frames[t][i] \in CallRec
      BY <1>1
    <2> DEFINE m == n - 1
    <2>2. m \in 0..1 /\ m = n - 1 /\ \A i \in 1..m : frames[t][i] \in CallRec
      BY <1>1, <2>1
    <2>3. frames'[t] = SubSeq(frames[t], 1, m)
      BY <1>2
    <2> HIDE DEF m
    <2>4. /\ frames'[t] \in Seq(CallRec) /\ Len(frames'[t]) = (IF 1 <= m THEN m - 1 + 1 ELSE 0)
          /\ \A i \in 1..(m - 1 + 1) : frames'[t][i] = frames[t][1 + i - 1]
      BY <2>2, <2>3, SubSeqProperties
    <2>5. Len(frames'[t]) = m
      <3>1. CASE m = 0
        BY <2>4, <3>1
      <3>2. CASE m = 1
        BY <2>4, <3>2
      <3> QED BY <2>2, <3>1, <3>2
    <2>6. ASSUME NEW i \in 1..m PROVE frames'[t][i] = frames[t][i]
      <3>1. i \in 1..(m - 1 + 1) /\ 1 + i - 1 = i
        BY <2>2
      <3> QED BY <2>4, <3>1
    <2> QED BY <2>2, <2>4, <2>5, <2>6
  <1>4. StacksOK'
    BY <1>1, <1>2, <1>3 DEF StacksOK
  <1>5. ASSUME NEW d
        PROVE  d \in Calls' <=> d \in Calls /\ d # <<t, n>>
    <2>1. CASE d = <<d[1], d[2]>> /\ d[1] = t /\ d[2] \in 1..2
      BY <1>1, <1>3, <2>1 DEF Calls
    <2>2. CASE d \in Thread \X (1..2) /\ d[1] # t
      BY <1>2, <2>2 DEF Calls
    <2>3. CASE d \notin Thread \X (1..2)
      BY <1>1, <2>3 DEF Calls
    <2> QED BY <2>1, <2>2, <2>3
  <1>6. ASSUME NEW d \in Calls' PROVE Call(d)' = Call(d)
    <2>1. d = <<d[1], d[2]>> /\ d[1] \in Thread /\ d[2] \in 1..2 /\ d[2] <= Len(frames'[d[1]])
      BY DEF Calls
    <2>2. CASE d[1] = t
      BY <1>1, <1>3, <2>1, <2>2 DEF Call
    <2>3. CASE d[1] # t
      BY <1>2, <2>1, <2>3 DEF Call
    <2> QED BY <2>2, <2>3
  <1>7. Calls' = Calls \ {<<t, n>>}
    BY <1>5
  <1> QED BY <1>1, <1>4, <1>6, <1>7

-----------------------------------------------------------------------------
(* The inductive invariant.                                                *)

Used(k) == DOMAIN k.mem \ ListedIn(k)

\* What a call holds: what it was passed, until it has given that back, and what
\* it is about to return.
Holds(f) ==
    (IF f.pc # "unlock" THEN {f.old} \ {0} ELSE {})
      \cup (IF f.pc \in {"give back", "unlock"} THEN {f.block} \ {0} ELSE {})

\* What a call knows about heap k at each of its steps.
Stage(k, f) ==
    /\ f.size = 0 => f.old # 0
    /\ f.size # 0 => f.size \in Sizes
    /\ f.pc \in {"lock", "enough", "search", "room", "new"} => f.block = 0
    /\ f.pc \in {"enough", "search", "take", "room", "new"} => f.size # 0
    /\ f.pc = "take" => f.block \in ListedIn(k) /\ Serves(k, f.block, f.size)
    /\ f.pc \in {"room", "new"} => \A b \in ListedIn(k) : ~Serves(k, b, f.size)
    /\ f.pc = "new" => k.heap_start + Header + f.size < USER_HEAP + k.heap_size
    /\ f.pc = "give back" => f.old # 0 /\ f.old # f.block

\* The lock lets one call at a time behind it.
Mutex ==
    /\ memory_lock \in {0, 1}
    /\ \A c \in Calls : Call(c).pc # "lock" => memory_lock = 1
    /\ \A c, d \in Calls : Call(c).pc # "lock" /\ Call(d).pc # "lock" => c = d

\* Each block in use has at most one owner: the program or one of the calls.
Owners ==
    /\ live \subseteq Used(h)
    /\ \A c \in Calls : Holds(Call(c)) \subseteq Used(h) \ live
    /\ \A c, d \in Calls : c # d => Holds(Call(c)) \cap Holds(Call(d)) = {}

\* All of the heap is mapped for each thread that exists.
Mapping ==
    /\ h.heap_size \in Nat \ {0}
    /\ mapped \in [Thread -> {0, h.heap_size}]

IInv ==
    /\ StacksOK
    /\ SoundHeap(h)
    /\ Mutex
    /\ Owners
    /\ Mapping
    /\ \A c \in Calls : Stage(h, Call(c))

\* What a call that waits for the lock knows does not depend on the heap.
LEMMA LockStage ==
  ASSUME NEW k, NEW r, NEW f, f.pc = "lock", Stage(k, f)
  PROVE  Stage(r, f)
  BY DEF Stage

\* The blocks that the program and the calls other than c own.
Elsewhere(c) == live \cup UNION {Holds(Call(d)) : d \in Calls \ {c}}

\* What a call holds is in use, and apart from what everybody else owns.
LEMMA OwnersApart ==
  ASSUME Owners, NEW c \in Calls
  PROVE  /\ Elsewhere(c) \subseteq Used(h)
         /\ Holds(Call(c)) \subseteq Used(h)
         /\ Holds(Call(c)) \cap Elsewhere(c) = {}
  <1>1. /\ live \subseteq Used(h)
        /\ \A d \in Calls : Holds(Call(d)) \subseteq Used(h) \ live
        /\ \A d \in Calls : c # d => Holds(Call(c)) \cap Holds(Call(d)) = {}
    BY DEF Owners
  <1>2. \A b \in Elsewhere(c) : b \in live \/ \E d \in Calls : c # d /\ b \in Holds(Call(d))
    BY DEF Elsewhere
  <1> QED BY <1>1, <1>2

\* A step of the call behind the lock.
LEMMA HolderStep ==
  ASSUME IInv, NEW c \in Calls, Call(c).pc # "lock", NEW f, f.pc # "lock",
         StacksOK', Calls' = Calls, \A d \in Calls : Call(d)' = IF d = c THEN f ELSE Call(d),
         memory_lock' = memory_lock, live' = live,
         SoundHeap(h'), Mapping', Stage(h', f),
         Elsewhere(c) \subseteq Used(h'), Holds(f) \subseteq Used(h'),
         Holds(f) \cap Elsewhere(c) = {}
  PROVE  IInv'
  <1>1. \A d \in Calls : d # c => Call(d).pc = "lock"
    BY DEF IInv, Mutex
  <1>2. Mutex'
    BY <1>1 DEF IInv, Mutex
  <1>3. \A d \in Calls : Stage(h', Call(d)')
    <2> SUFFICES ASSUME NEW d \in Calls, d # c PROVE Stage(h', Call(d))
      OBVIOUS
    <2> QED BY <1>1, LockStage DEF IInv
  <1>4. /\ live \subseteq Elsewhere(c)
        /\ \A d \in Calls : d # c => Holds(Call(d)) \subseteq Elsewhere(c)
    BY DEF Elsewhere
  <1>5. Owners'
    <2>1. live' \subseteq Used(h')
      BY <1>4
    <2>2. ASSUME NEW d \in Calls PROVE Holds(Call(d)') \subseteq Used(h') \ live'
      <3>1. CASE d = c
        BY <1>4, <3>1
      <3>2. CASE d # c
        BY <1>4, <3>2 DEF IInv, Owners
      <3> QED BY <3>1, <3>2
    <2>3. ASSUME NEW d \in Calls, NEW e \in Calls, d # e
          PROVE  Holds(Call(d)') \cap Holds(Call(e)') = {}
      <3>1. CASE d = c
        BY <1>4, <2>3, <3>1
      <3>2. CASE e = c
        BY <1>4, <2>3, <3>2
      <3>3. CASE d # c /\ e # c
        BY <2>3, <3>3 DEF IInv, Owners
      <3> QED BY <3>1, <3>2, <3>3
    <2> QED BY <2>1, <2>2, <2>3 DEF Owners
  <1> QED BY <1>2, <1>3, <1>5 DEF IInv

\* The running call of a thread, and its step to f.
LEMMA RunningStep ==
  ASSUME IInv, NEW t \in Thread, NEW pc, InFrame(t, pc), NEW f \in CallRec, SetFrame(t, f)
  PROVE  /\ StacksOK' /\ Calls' = Calls
         /\ \E c \in Calls : /\ Frame(t) = Call(c) /\ Call(c).pc = pc /\ Call(c) \in CallRec
                            /\ Stage(h, Call(c))
                            /\ \A d \in Calls : Call(d)' = IF d = c THEN f ELSE Call(d)
  <1>1. Running(t) /\ Frame(t).pc = pc /\ StacksOK
    BY DEF InFrame, IInv
  <1>2. PICK c \in Calls : /\ Frame(t) = Call(c)
                          /\ \A d \in Calls : Call(d)' = IF d = c THEN f ELSE Call(d)
    BY <1>1, SetFrameIs
  <1>3. StacksOK' /\ Calls' = Calls
    BY <1>1, SetFrameIs
  <1>4. Call(c) \in CallRec /\ Stage(h, Call(c))
    BY <1>1, CallsAre DEF IInv
  <1> QED BY <1>1, <1>2, <1>3, <1>4

-----------------------------------------------------------------------------
(* Every step keeps the invariant.                                         *)

\* Taking the lock moves one call behind it.
LEMMA LockIInv ==
  ASSUME IInv, NEW t \in Thread, lock(t)
  PROVE  IInv'
  <1> DEFINE to == IF Frame(t).size = 0 THEN "give back" ELSE "enough"
             f == [Frame(t) EXCEPT !.pc = to]
  <1>1. /\ InFrame(t, "lock") /\ memory_lock = 0 /\ memory_lock' = 1 /\ SetFrame(t, f)
        /\ h' = h /\ live' = live /\ mapped' = mapped
    BY DEF lock, GoTo
  <1>2. Frame(t) \in CallRec
    BY <1>1, CallsAre DEF InFrame, IInv
  <1>3. f \in CallRec
    BY <1>2 DEF CallRec, Pcs
  <1>0. SetFrame(t, f) /\ InFrame(t, "lock")
    BY <1>1
  <1> HIDE DEF f, to
  <1>4. PICK c \in Calls : /\ Frame(t) = Call(c) /\ Call(c).pc = "lock" /\ Call(c) \in CallRec
                          /\ Stage(h, Call(c))
                          /\ \A d \in Calls : Call(d)' = IF d = c THEN f ELSE Call(d)
    BY <1>0, <1>3, RunningStep
  <1>5. StacksOK' /\ Calls' = Calls
    BY <1>0, <1>3, RunningStep
  <1>6. /\ f.pc = to /\ f.size = Call(c).size /\ f.old = Call(c).old /\ f.block = Call(c).block
        /\ f.block = 0 /\ to \in {"give back", "enough"} /\ (to = "give back" <=> f.size = 0)
    BY <1>4 DEF Stage, CallRec, f, to
  <1>7. \A d \in Calls : Call(d).pc = "lock"
    BY <1>1 DEF IInv, Mutex
  <1>8. Mutex'
    BY <1>1, <1>4, <1>5, <1>7 DEF Mutex
  <1>9. Stage(h, f)
    BY <1>4, <1>6 DEF Stage
  <1>10. Holds(f) = Holds(Call(c))
    BY <1>4, <1>6 DEF Holds
  <1>11. Owners'
    <2>1. \A d \in Calls : Holds(Call(d)') = Holds(Call(d))
      BY <1>4, <1>10
    <2> QED BY <1>1, <1>5, <2>1 DEF IInv, Owners
  <1>12. Mapping'
    BY <1>1 DEF IInv, Mapping
  <1>13. \A d \in Calls : Stage(h, Call(d)')
    BY <1>4, <1>9 DEF IInv
  <1> QED BY <1>1, <1>5, <1>8, <1>11, <1>12, <1>13 DEF IInv

\* sys_sbrk adds a page for every thread.
LEMMA SbrkIs ==
  ASSUME IInv, NEW t \in Thread, sbrk(t)
  PROVE  /\ SoundHeap(h') /\ Mapping'
         /\ ListedIn(h') = ListedIn(h) /\ h'.mem = h.mem
         /\ h'.heap_start = h.heap_start /\ h'.heap_size = h.heap_size + Page
  <1>1. IsHeap(h) /\ SoundHeap(h) /\ Page \in Nat \ {0} /\ h.heap_size \in Nat \ {0}
    BY UserHeapAssumption DEF IInv, SoundHeap, Mapping
  <1>2. /\ h'.mem = h.mem /\ h'.heap_start = h.heap_start /\ h'.heap_size = h.heap_size + Page
        /\ h'.free_list = h.free_list /\ h'.max_allocation = h.max_allocation
        /\ h' = [mem |-> h'.mem, free_list |-> h'.free_list, heap_start |-> h'.heap_start,
                 heap_size |-> h'.heap_size, max_allocation |-> h'.max_allocation]
    BY <1>1 DEF sbrk, IsHeap
  <1>3. IsHeap(h')
    BY <1>1, <1>2 DEF IsHeap
  <1>4. SoundHeap(h') /\ ListedIn(h') = ListedIn(h)
    BY <1>1, <1>2, <1>3, MoreIs
  <1>5. Mapping'
    <2>1. mapped' = [u \in Thread |-> IF Exists(u) THEN mapped[u] + Page ELSE 0]
      BY DEF sbrk
    <2>2. \A u \in Thread : mapped'[u] \in {0, h.heap_size + Page}
      BY <1>1, <2>1 DEF Exists, IInv, Mapping
    <2> QED BY <1>1, <1>2, <2>1, <2>2 DEF Mapping
  <1> QED BY <1>2, <1>4, <1>5

\* Both loops of __unsafe_malloc only add memory.
LEMMA GrowIInv ==
  ASSUME IInv, NEW t \in Thread, GrowForSize(t) \/ GrowForBlock(t)
  PROVE  IInv'
  <1>1. PICK pc \in {"enough", "room"} : InFrame(t, pc)
    BY DEF GrowForSize, GrowForBlock
  <1>2. sbrk(t) /\ memory_lock' = memory_lock /\ frames' = frames /\ live' = live
    BY DEF GrowForSize, GrowForBlock
  <1>3. PICK c \in Calls : Call(c).pc = pc /\ Stage(h, Call(c))
    BY <1>1, CallsAre DEF InFrame, IInv
  <1>4. StacksOK' /\ Calls' = Calls /\ \A d \in Calls : Call(d)' = Call(d)
    BY <1>2 DEF IInv, StacksOK, Calls, Call
  <1>5. Call(c).pc \in {"enough", "room"}
    BY <1>1, <1>3
  <1>6. Stage(h', Call(c))
    BY <1>2, <1>3, <1>5, SbrkIs DEF Stage, Serves
  <1>7. Used(h') = Used(h)
    BY <1>2, SbrkIs DEF Used
  <1> QED BY <1>2, <1>4, <1>5, <1>6, <1>7, SbrkIs, OwnersApart, HolderStep DEF IInv

\* max_allocation says nothing about the blocks.
LEMMA RaiseMaximumIInv ==
  ASSUME IInv, NEW t \in Thread, RaiseMaximum(t)
  PROVE  IInv'
  <1> DEFINE f == [Frame(t) EXCEPT !.pc = "search"]
  <1>1. /\ InFrame(t, "enough") /\ SetFrame(t, f) /\ memory_lock' = memory_lock
        /\ live' = live /\ mapped' = mapped
        /\ h' = [h EXCEPT !.max_allocation = IF Frame(t).size > @ THEN Frame(t).size ELSE @]
    BY DEF RaiseMaximum, GoTo
  <1>2. Frame(t) \in CallRec
    BY <1>1, CallsAre DEF InFrame, IInv
  <1>3. f \in CallRec
    BY <1>2 DEF CallRec, Pcs
  <1>4. PICK c \in Calls : /\ Frame(t) = Call(c) /\ Call(c).pc = "enough" /\ Call(c) \in CallRec
                          /\ Stage(h, Call(c))
                          /\ \A d \in Calls : Call(d)' = IF d = c THEN f ELSE Call(d)
    BY <1>1, <1>3, RunningStep
  <1>5. StacksOK' /\ Calls' = Calls
    BY <1>1, <1>3, RunningStep
  <1>6. f.pc = "search" /\ f.size = Call(c).size /\ f.old = Call(c).old /\ f.block = Call(c).block
    BY <1>4 DEF CallRec
  <1> HIDE DEF f
  <1>7. IsHeap(h) /\ SoundHeap(h) /\ Frame(t).size \in Nat
    BY <1>2 DEF IInv, SoundHeap, CallRec
  <1>8. /\ h'.mem = h.mem /\ h'.heap_start = h.heap_start /\ h'.heap_size = h.heap_size
        /\ h'.free_list = h.free_list
        /\ h' = [mem |-> h'.mem, free_list |-> h'.free_list, heap_start |-> h'.heap_start,
                 heap_size |-> h'.heap_size, max_allocation |-> h'.max_allocation]
        /\ h'.max_allocation = IF Frame(t).size > h.max_allocation THEN Frame(t).size
                               ELSE h.max_allocation
    BY <1>1, <1>7 DEF IsHeap
  <1>9. IsHeap(h')
    BY <1>7, <1>8 DEF IsHeap
  <1>10. SoundHeap(h') /\ ListedIn(h') = ListedIn(h)
    <2>1. h.heap_size <= h'.heap_size
      BY <1>7, <1>8 DEF IsHeap
    <2> QED BY <1>7, <1>8, <1>9, <2>1, MoreIs
  <1>11. Mapping'
    BY <1>1, <1>8 DEF IInv, Mapping
  <1>12. Stage(h', f)
    BY <1>4, <1>6 DEF Stage
  <1>13. Used(h') = Used(h) /\ Holds(f) = Holds(Call(c))
    BY <1>4, <1>6, <1>8, <1>10 DEF Used, Holds
  <1> QED BY <1>1, <1>4, <1>5, <1>6, <1>10, <1>11, <1>12, <1>13, OwnersApart, HolderStep DEF IInv

\* The walk ends at a block that serves, or none does.
LEMMA SearchIInv ==
  ASSUME IInv, NEW t \in Thread, Search(t)
  PROVE  IInv'
  <1> DEFINE b == free_block(h, Frame(t).size)
             to == IF b = 0 THEN "room" ELSE "take"
             f == [Frame(t) EXCEPT !.block = b, !.pc = to]
  <1>1. /\ InFrame(t, "search") /\ SetFrame(t, f) /\ memory_lock' = memory_lock
        /\ live' = live /\ mapped' = mapped /\ h' = h
    BY DEF Search
  <1>2. Frame(t) \in CallRec
    BY <1>1, CallsAre DEF InFrame, IInv
  <1>3. IsHeap(h) /\ SoundHeap(h) /\ Linked(h, ListedIn(h)) /\ Marked(h)
    BY DEF IInv, SoundHeap
  <1>4. \/ b = 0 /\ \A d \in ListedIn(h) : ~Serves(h, d, Frame(t).size)
        \/ b \in ListedIn(h) /\ Serves(h, b, Frame(t).size)
    BY <1>3, FindIs DEF Marked
  <1>5. b \in Nat /\ 0 \notin ListedIn(h)
    BY <1>3, <1>4 DEF IsHeap, ListedIn
  <1> HIDE DEF b
  <1>6. f \in CallRec
    BY <1>2, <1>5 DEF CallRec, Pcs
  <1>7. /\ f.pc = to /\ f.size = Frame(t).size /\ f.old = Frame(t).old /\ f.block = b
        /\ to \in {"room", "take"} /\ (to = "room" <=> b = 0)
    BY <1>2 DEF CallRec
  <1>8. SetFrame(t, f) /\ InFrame(t, "search")
    BY <1>1
  <1> HIDE DEF f, to
  <1>9. PICK c \in Calls : /\ Frame(t) = Call(c) /\ Call(c).pc = "search" /\ Call(c) \in CallRec
                          /\ Stage(h, Call(c))
                          /\ \A d \in Calls : Call(d)' = IF d = c THEN f ELSE Call(d)
    BY <1>6, <1>8, RunningStep
  <1>10. StacksOK' /\ Calls' = Calls
    BY <1>6, <1>8, RunningStep
  <1>11. Stage(h', f)
    BY <1>1, <1>4, <1>5, <1>7, <1>9 DEF Stage
  <1>12. Mapping'
    BY <1>1 DEF IInv, Mapping
  <1>13. Holds(f) = Holds(Call(c))
    BY <1>7, <1>9 DEF Holds
  <1> QED BY <1>1, <1>3, <1>7, <1>9, <1>10, <1>11, <1>12, <1>13, OwnersApart, HolderStep DEF IInv

\* A served block comes into use, whole or cut.
LEMMA TakeIs ==
  ASSUME NEW k, SoundHeap(k), NEW b \in ListedIn(k), NEW size \in Nat \ {0},
         Serves(k, b, size), NEW r, r = TakeFree(k, b, size)
  PROVE  /\ SoundHeap(r) /\ r.heap_size = k.heap_size
         /\ Used(r) = Used(k) \cup {b} /\ b \notin Used(k)
  <1>1. b \in DOMAIN k.mem /\ ListedIn(k) \subseteq DOMAIN k.mem
    BY DEF ListedIn
  <1>2. CASE k.mem[b].size = size
    <2>1. SoundHeap(r) /\ SameBlocks(k, r) /\ ListedIn(r) = ListedIn(k) \ {b}
      BY <1>2, TakeWholeIs
    <2> QED BY <1>1, <2>1 DEF SameBlocks, Used
  <1>3. CASE k.mem[b].size > size + Header
    <2> DEFINE rest == b + Header + size
    <2>1. SoundHeap(r) /\ CanCut(k, b, size, rest) /\ IsCut(k, r, b, size, rest)
          /\ ListedIn(r) = (ListedIn(k) \ {b}) \cup {rest}
      BY <1>3, TakePartIs
    <2> HIDE DEF rest
    <2> QED BY <1>1, <2>1 DEF CanCut, IsCut, Used
  <1> QED BY <1>2, <1>3 DEF Serves

\* The block that is taken is held by the call that took it.
LEMMA TakeIInv ==
  ASSUME IInv, NEW t \in Thread, Take(t)
  PROVE  IInv'
  <1> DEFINE b == Frame(t).block
             to == AfterMalloc(t)
             f == [Frame(t) EXCEPT !.pc = to]
  <1>1. /\ InFrame(t, "take") /\ SetFrame(t, f) /\ memory_lock' = memory_lock
        /\ live' = live /\ mapped' = mapped /\ h' = TakeFree(h, b, Frame(t).size)
    BY DEF Take, GoTo
  <1>2. Frame(t) \in CallRec
    BY <1>1, CallsAre DEF InFrame, IInv
  <1>3. /\ f \in CallRec /\ f.pc = to /\ f.size = Frame(t).size
        /\ f.old = Frame(t).old /\ f.block = b
        /\ to \in {"give back", "unlock"} /\ (to = "unlock" <=> Frame(t).old = 0)
    BY <1>2 DEF CallRec, Pcs, AfterMalloc
  <1>4. SetFrame(t, f) /\ InFrame(t, "take")
    BY <1>1
  <1> HIDE DEF f, to
  <1>5. PICK c \in Calls : /\ Frame(t) = Call(c) /\ Call(c).pc = "take" /\ Call(c) \in CallRec
                          /\ Stage(h, Call(c))
                          /\ \A d \in Calls : Call(d)' = IF d = c THEN f ELSE Call(d)
    BY <1>3, <1>4, RunningStep
  <1>6. StacksOK' /\ Calls' = Calls
    BY <1>3, <1>4, RunningStep
  <1>7. b \in ListedIn(h) /\ Serves(h, b, Frame(t).size) /\ Frame(t).size \in Nat \ {0}
    BY <1>5 DEF Stage, CallRec
  <1>8. /\ SoundHeap(h') /\ h'.heap_size = h.heap_size
        /\ Used(h') = Used(h) \cup {b} /\ b \notin Used(h)
    BY <1>1, <1>7, TakeIs DEF IInv
  <1>9. Holds(f) \subseteq Holds(Call(c)) \cup {b}
    BY <1>3, <1>5 DEF Holds
  <1>10. /\ Elsewhere(c) \subseteq Used(h) /\ Holds(Call(c)) \subseteq Used(h)
         /\ Holds(Call(c)) \cap Elsewhere(c) = {}
    BY OwnersApart DEF IInv
  <1>11. Stage(h', f)
    <2>1. f.old # 0 => f.old # b
      <3> SUFFICES ASSUME f.old # 0 PROVE f.old # b
        OBVIOUS
      <3>1. f.old \in Holds(Call(c))
        BY <1>3, <1>5 DEF Holds
      <3> QED BY <1>8, <1>10, <3>1
    <2> QED BY <1>3, <1>5, <2>1 DEF Stage
  <1>12. Mapping'
    BY <1>1, <1>8 DEF IInv, Mapping
  <1>13. /\ Elsewhere(c) \subseteq Used(h') /\ Holds(f) \subseteq Used(h')
         /\ Holds(f) \cap Elsewhere(c) = {}
    BY <1>8, <1>9, <1>10
  <1> QED BY <1>1, <1>3, <1>5, <1>6, <1>8, <1>11, <1>12, <1>13, HolderStep

\* The second loop ends when the new block fits.
LEMMA EnoughRoomIInv ==
  ASSUME IInv, NEW t \in Thread, EnoughRoom(t)
  PROVE  IInv'
  <1> DEFINE f == [Frame(t) EXCEPT !.pc = "new"]
  <1>1. /\ InFrame(t, "room") /\ SetFrame(t, f) /\ memory_lock' = memory_lock
        /\ live' = live /\ mapped' = mapped /\ h' = h /\ ~NoRoom(Frame(t).size)
    BY DEF EnoughRoom, GoTo
  <1>2. Frame(t) \in CallRec
    BY <1>1, CallsAre DEF InFrame, IInv
  <1>3. /\ f \in CallRec /\ f.pc = "new" /\ f.size = Frame(t).size
        /\ f.old = Frame(t).old /\ f.block = Frame(t).block
    BY <1>2 DEF CallRec, Pcs
  <1>4. SetFrame(t, f) /\ InFrame(t, "room")
    BY <1>1
  <1> HIDE DEF f
  <1>5. PICK c \in Calls : /\ Frame(t) = Call(c) /\ Call(c).pc = "room" /\ Call(c) \in CallRec
                          /\ Stage(h, Call(c))
                          /\ \A d \in Calls : Call(d)' = IF d = c THEN f ELSE Call(d)
    BY <1>3, <1>4, RunningStep
  <1>6. StacksOK' /\ Calls' = Calls
    BY <1>3, <1>4, RunningStep
  <1>7. h.heap_start + Header + f.size < USER_HEAP + h.heap_size
    <2>1. /\ h.heap_start \in Nat /\ h.heap_size \in Nat /\ f.size \in Nat
          /\ Header \in Nat /\ USER_HEAP \in Nat
      BY <1>3, UserHeapAssumption DEF IInv, SoundHeap, IsHeap, CallRec
    <2> QED BY <1>1, <1>3, <2>1 DEF NoRoom
  <1>8. Stage(h', f)
    BY <1>1, <1>3, <1>5, <1>7 DEF Stage
  <1>9. Mapping' /\ SoundHeap(h')
    BY <1>1 DEF IInv, Mapping
  <1>10. Holds(f) = Holds(Call(c))
    BY <1>3, <1>5 DEF Holds
  <1> QED BY <1>1, <1>3, <1>5, <1>6, <1>8, <1>9, <1>10, OwnersApart, HolderStep DEF IInv

\* The new block is held by the call that made it.
LEMMA MakeNewIInv ==
  ASSUME IInv, NEW t \in Thread, MakeNew(t)
  PROVE  IInv'
  <1> DEFINE b == h.heap_start
             to == AfterMalloc(t)
             f == [Frame(t) EXCEPT !.block = b, !.pc = to]
  <1>1. /\ InFrame(t, "new") /\ SetFrame(t, f) /\ memory_lock' = memory_lock
        /\ live' = live /\ mapped' = mapped /\ h' = NewBlock(h, Frame(t).size)
    BY DEF MakeNew
  <1>2. Frame(t) \in CallRec /\ b \in Nat
    BY <1>1, CallsAre DEF InFrame, IInv, SoundHeap, IsHeap
  <1>3. /\ f \in CallRec /\ f.pc = to /\ f.size = Frame(t).size
        /\ f.old = Frame(t).old /\ f.block = b
        /\ to \in {"give back", "unlock"} /\ (to = "unlock" <=> Frame(t).old = 0)
    BY <1>2 DEF CallRec, Pcs, AfterMalloc
  <1>4. SetFrame(t, f) /\ InFrame(t, "new")
    BY <1>1
  <1> HIDE DEF f, to
  <1>5. PICK c \in Calls : /\ Frame(t) = Call(c) /\ Call(c).pc = "new" /\ Call(c) \in CallRec
                          /\ Stage(h, Call(c))
                          /\ \A d \in Calls : Call(d)' = IF d = c THEN f ELSE Call(d)
    BY <1>3, <1>4, RunningStep
  <1>6. StacksOK' /\ Calls' = Calls
    BY <1>3, <1>4, RunningStep
  <1>7. /\ Frame(t).size \in Nat \ {0}
        /\ h.heap_start + Header + Frame(t).size <= USER_HEAP + h.heap_size
    <2>1. /\ h.heap_start \in Nat /\ h.heap_size \in Nat /\ Frame(t).size \in Nat
          /\ Header \in Nat /\ USER_HEAP \in Nat
      BY <1>2, UserHeapAssumption DEF IInv, SoundHeap, IsHeap, CallRec
    <2>2. /\ h.heap_start + Header + Frame(t).size < USER_HEAP + h.heap_size
          /\ Frame(t).size # 0
      BY <1>5 DEF Stage
    <2> QED BY <2>1, <2>2
  <1>8. /\ SoundHeap(h') /\ h'.heap_size = h.heap_size
        /\ Used(h') = Used(h) \cup {b} /\ b \notin Used(h)
    <2>1. /\ SoundHeap(h') /\ b \notin DOMAIN h.mem /\ DOMAIN h'.mem = DOMAIN h.mem \cup {b}
          /\ ListedIn(h') = ListedIn(h) /\ h'.heap_size = h.heap_size
      BY <1>1, <1>7, NewIs DEF IInv
    <2>2. ListedIn(h) \subseteq DOMAIN h.mem
      BY DEF ListedIn
    <2> QED BY <2>1, <2>2 DEF Used
  <1> HIDE DEF b
  <1>9. Holds(f) \subseteq Holds(Call(c)) \cup {b}
    BY <1>3, <1>5 DEF Holds
  <1>10. /\ Elsewhere(c) \subseteq Used(h) /\ Holds(Call(c)) \subseteq Used(h)
         /\ Holds(Call(c)) \cap Elsewhere(c) = {}
    BY OwnersApart DEF IInv
  <1>11. Stage(h', f)
    <2>1. f.old # 0 => f.old # b
      <3> SUFFICES ASSUME f.old # 0 PROVE f.old # b
        OBVIOUS
      <3>1. f.old \in Holds(Call(c))
        BY <1>3, <1>5 DEF Holds
      <3> QED BY <1>8, <1>10, <3>1
    <2> QED BY <1>3, <1>5, <2>1 DEF Stage
  <1>12. Mapping'
    BY <1>1, <1>8 DEF IInv, Mapping
  <1>13. /\ Elsewhere(c) \subseteq Used(h') /\ Holds(f) \subseteq Used(h')
         /\ Holds(f) \cap Elsewhere(c) = {}
    BY <1>8, <1>9, <1>10
  <1> QED BY <1>1, <1>3, <1>5, <1>6, <1>8, <1>11, <1>12, <1>13, HolderStep

\* __unsafe_free of a block in use lists it, or leaves it when it is larger than
\* anything malloc gave.
LEMMA UnsafeFreeIs ==
  ASSUME NEW k, SoundHeap(k), NEW b \in Used(k), NEW r, r = __unsafe_free(k, b)
  PROVE  \/ r = k
         \/ SoundHeap(r) /\ SameBlocks(k, r) /\ ListedIn(r) = ListedIn(k) \cup {b}
  <1>1. b \in DOMAIN k.mem \ ListedIn(k)
    BY DEF Used
  <1>2. r = k \/ r = free_insert(k, b)
    BY DEF __unsafe_free
  <1> QED BY <1>1, <1>2, FreeIs

\* The call no longer holds what it has given back.
LEMMA GiveBackIInv ==
  ASSUME IInv, NEW t \in Thread, GiveBack(t)
  PROVE  IInv'
  <1> DEFINE old == Frame(t).old
             f == [Frame(t) EXCEPT !.pc = "unlock"]
  <1>1. /\ InFrame(t, "give back") /\ SetFrame(t, f) /\ memory_lock' = memory_lock
        /\ live' = live /\ mapped' = mapped /\ h' = __unsafe_free(h, old)
    BY DEF GiveBack, GoTo
  <1>2. Frame(t) \in CallRec
    BY <1>1, CallsAre DEF InFrame, IInv
  <1>3. /\ f \in CallRec /\ f.pc = "unlock" /\ f.size = Frame(t).size
        /\ f.old = Frame(t).old /\ f.block = Frame(t).block
    BY <1>2 DEF CallRec, Pcs
  <1>4. SetFrame(t, f) /\ InFrame(t, "give back")
    BY <1>1
  <1> HIDE DEF f
  <1>5. PICK c \in Calls : /\ Frame(t) = Call(c) /\ Call(c).pc = "give back" /\ Call(c) \in CallRec
                          /\ Stage(h, Call(c))
                          /\ \A d \in Calls : Call(d)' = IF d = c THEN f ELSE Call(d)
    BY <1>3, <1>4, RunningStep
  <1>6. StacksOK' /\ Calls' = Calls
    BY <1>3, <1>4, RunningStep
  <1>7. /\ Elsewhere(c) \subseteq Used(h) /\ Holds(Call(c)) \subseteq Used(h)
        /\ Holds(Call(c)) \cap Elsewhere(c) = {}
    BY OwnersApart DEF IInv
  <1>8. old # 0 /\ old # f.block /\ old \in Holds(Call(c))
    BY <1>3, <1>5 DEF Stage, Holds
  <1>9. /\ SoundHeap(h') /\ h'.heap_size = h.heap_size
        /\ Used(h) \ {old} \subseteq Used(h')
    <2>1. \/ h' = h
          \/ SoundHeap(h') /\ SameBlocks(h, h') /\ ListedIn(h') = ListedIn(h) \cup {old}
      BY <1>1, <1>7, <1>8, UnsafeFreeIs DEF IInv
    <2> QED BY <2>1 DEF IInv, SameBlocks, Used
  <1>10. Holds(f) \subseteq Holds(Call(c)) \ {old}
    BY <1>3, <1>5, <1>8 DEF Holds
  <1>11. Stage(h', f)
    BY <1>3, <1>5 DEF Stage
  <1>12. Mapping'
    BY <1>1, <1>9 DEF IInv, Mapping
  <1>13. /\ Elsewhere(c) \subseteq Used(h') /\ Holds(f) \subseteq Used(h')
         /\ Holds(f) \cap Elsewhere(c) = {}
    BY <1>7, <1>8, <1>9, <1>10
  <1> QED BY <1>1, <1>3, <1>5, <1>6, <1>9, <1>11, <1>12, <1>13, HolderStep

\* A block that is listed already is left alone.
LEMMA FreeTwiceSame ==
  ASSUME NEW t \in Thread, NEW b \in DOMAIN h.mem, FreeTwice(t, b)
  PROVE  UNCHANGED vars
  <1>1. h' = h
    BY DEF FreeTwice, __unsafe_free
  <1> QED BY <1>1 DEF FreeTwice, vars

\* A call that returns leaves the program what it held.
LEMMA UnlockIInv ==
  ASSUME IInv, NEW t \in Thread, unlock(t)
  PROVE  IInv'
  <1>1. /\ Running(t) /\ Frame(t).pc = "unlock" /\ memory_lock' = 0
        /\ live' = live \cup ({Frame(t).block} \ {0})
        /\ frames' = [frames EXCEPT ![t] = Front(@)] /\ h' = h /\ mapped' = mapped
    BY DEF unlock, InFrame
  <1>2. PICK c \in Calls : /\ Frame(t) = Call(c) /\ Calls' = Calls \ {c}
                          /\ \A d \in Calls' : Call(d)' = Call(d)
    BY <1>1, ReturnIs DEF IInv
  <1>3. StacksOK'
    BY <1>1, ReturnIs DEF IInv
  <1>4. live' = live \cup Holds(Call(c))
    BY <1>1, <1>2 DEF Holds
  <1>5. \A d \in Calls' : d \in Calls /\ d # c /\ Call(d).pc = "lock"
    BY <1>1, <1>2 DEF IInv, Mutex
  <1>6. Mutex'
    BY <1>1, <1>2, <1>5 DEF Mutex
  <1>7. Owners'
    <2>1. live' \subseteq Used(h)
      BY <1>4 DEF IInv, Owners
    <2>2. \A d \in Calls' : Holds(Call(d)') \subseteq Used(h) \ live'
      BY <1>2, <1>4, <1>5 DEF IInv, Owners
    <2>3. \A d, e \in Calls' : d # e => Holds(Call(d)') \cap Holds(Call(e)') = {}
      BY <1>2, <1>5 DEF IInv, Owners
    <2> QED BY <1>1, <2>1, <2>2, <2>3 DEF Owners
  <1>8. \A d \in Calls' : Stage(h, Call(d)')
    BY <1>2, <1>5 DEF IInv
  <1>9. Mapping'
    BY <1>1 DEF IInv, Mapping
  <1> QED BY <1>1, <1>3, <1>6, <1>7, <1>8, <1>9 DEF IInv

\* A call that enters takes the block it is passed from the program.
LEMMA EnterIInv ==
  ASSUME IInv, NEW t \in Thread, NEW size \in Sizes \cup {0}, NEW old \in live \cup {0},
         size # 0 \/ old # 0, Enter(t, size, old)
  PROVE  IInv'
  <1> DEFINE f == [pc |-> "lock", size |-> size, old |-> old, block |-> 0]
  <1>1. /\ Len(frames[t]) < (IF t \in Handling THEN 2 ELSE 1)
        /\ frames' = [frames EXCEPT ![t] = Append(@, f)]
        /\ live' = live \ {old} /\ h' = h /\ memory_lock' = memory_lock /\ mapped' = mapped
    BY DEF Enter
  <1>2. live \subseteq Used(h) /\ \A b \in Used(h) : b \in Nat /\ b # 0
    BY DEF IInv, Owners, SoundHeap, IsHeap, Used
  <1>3. f \in CallRec
    BY <1>2, UserHeapAssumption DEF CallRec, Pcs
  <1>4. /\ f.pc = "lock" /\ f.size = size /\ f.old = old /\ f.block = 0
    OBVIOUS
  <1> HIDE DEF f
  <1>5. StacksOK'
    BY <1>1, <1>3, EnterIs DEF IInv
  <1>6. PICK c : /\ c \notin Calls /\ Calls' = Calls \cup {c}
                 /\ \A d \in Calls' : Call(d)' = IF d = c THEN f ELSE Call(d)
    BY <1>1, <1>3, EnterIs DEF IInv
  <1>7. Call(c)' = f /\ c \in Calls' /\ \A d \in Calls' : d # c => d \in Calls /\ Call(d)' = Call(d)
    BY <1>6
  <1>8. Mutex'
    BY <1>1, <1>4, <1>7 DEF IInv, Mutex
  <1>9. Holds(f) = {old} \ {0}
    BY <1>4 DEF Holds
  <1>10. Owners'
    <2>1. live' \subseteq Used(h) /\ Holds(f) \subseteq Used(h) \ live' /\ Holds(f) \subseteq live
      BY <1>1, <1>2, <1>9
    <2>2. \A d \in Calls : Holds(Call(d)) \subseteq Used(h) \ live /\ Holds(Call(d)) \cap Holds(f) = {}
      BY <2>1 DEF IInv, Owners
    <2>3. \A d \in Calls' : Holds(Call(d)') \subseteq Used(h) \ live'
      BY <1>1, <1>7, <2>1, <2>2
    <2>4. ASSUME NEW d \in Calls', NEW e \in Calls', d # e
          PROVE  Holds(Call(d)') \cap Holds(Call(e)') = {}
      <3>1. CASE d = c
        BY <1>7, <2>2, <2>4, <3>1
      <3>2. CASE e = c
        BY <1>7, <2>2, <2>4, <3>2
      <3>3. CASE d # c /\ e # c
        BY <1>7, <2>4, <3>3 DEF IInv, Owners
      <3> QED BY <3>1, <3>2, <3>3
    <2> QED BY <1>1, <2>1, <2>3, <2>4 DEF Owners
  <1>11. Stage(h, f)
    BY <1>4 DEF Stage
  <1>12. \A d \in Calls' : Stage(h, Call(d)')
    BY <1>7, <1>11 DEF IInv
  <1>13. Mapping'
    BY <1>1 DEF IInv, Mapping
  <1> QED BY <1>1, <1>5, <1>8, <1>10, <1>12, <1>13 DEF IInv

\* A new thread has its creator's pages, which are all there are.
LEMMA CreateThreadIInv ==
  ASSUME IInv, NEW t \in Thread, NEW new \in Thread, CreateThread(t, new)
  PROVE  IInv'
  <1>1. /\ mapped' = [mapped EXCEPT ![new] = mapped[t]]
        /\ h' = h /\ memory_lock' = memory_lock /\ frames' = frames /\ live' = live
    BY DEF CreateThread
  <1>2. Mapping'
    BY <1>1 DEF IInv, Mapping
  <1>3. StacksOK' /\ Mutex' /\ Owners' /\ Calls' = Calls /\ \A c \in Calls : Call(c)' = Call(c)
    BY <1>1 DEF IInv, StacksOK, Mutex, Owners, Calls, Call
  <1> QED BY <1>1, <1>2, <1>3 DEF IInv

\* Every step keeps the invariant.
LEMMA NextIInv ==
  ASSUME IInv, [Next]_vars
  PROVE  IInv'
  <1>1. CASE UNCHANGED vars
    <2>1. StacksOK' /\ Mutex' /\ Owners' /\ Mapping' /\ Calls' = Calls
          /\ \A c \in Calls : Call(c)' = Call(c)
      BY <1>1 DEF IInv, vars, StacksOK, Mutex, Owners, Mapping, Calls, Call
    <2> QED BY <1>1, <2>1 DEF IInv, vars
  <1>2. CASE \E t \in Thread : Step(t)
    <2>1. PICK t \in Thread : Step(t)
      BY <1>2
    <2>2. CASE Spin(t)
      BY <1>1, <2>2 DEF Spin
    <2>3. CASE lock(t)
      BY <2>3, LockIInv
    <2>4. CASE unlock(t)
      BY <2>4, UnlockIInv
    <2>5. CASE GrowForSize(t) \/ GrowForBlock(t)
      BY <2>5, GrowIInv
    <2>6. CASE RaiseMaximum(t)
      BY <2>6, RaiseMaximumIInv
    <2>7. CASE Search(t)
      BY <2>7, SearchIInv
    <2>8. CASE Take(t)
      BY <2>8, TakeIInv
    <2>9. CASE EnoughRoom(t)
      BY <2>9, EnoughRoomIInv
    <2>10. CASE MakeNew(t)
      BY <2>10, MakeNewIInv
    <2>11. CASE GiveBack(t)
      BY <2>11, GiveBackIInv
    <2> QED BY <2>1, <2>2, <2>3, <2>4, <2>5, <2>6, <2>7, <2>8, <2>9, <2>10, <2>11 DEF Step
  <1>3. CASE \E t \in Thread, size \in Sizes : Enter(t, size, 0)
    <2>1. PICK t \in Thread, size \in Sizes : Enter(t, size, 0)
      BY <1>3
    <2>2. size # 0
      BY UserHeapAssumption
    <2> QED BY <2>1, <2>2, EnterIInv
  <1>4. CASE \E t \in Thread, b \in live :
                Enter(t, 0, b) \/ \E size \in Sizes : Enter(t, size, b)
    <2>1. PICK t \in Thread, b \in live : Enter(t, 0, b) \/ \E size \in Sizes : Enter(t, size, b)
      BY <1>4
    <2>2. b # 0
      BY DEF IInv, Owners, SoundHeap, IsHeap, Used
    <2>3. PICK size \in Sizes \cup {0} : Enter(t, size, b)
      BY <2>1
    <2> QED BY <2>2, <2>3, EnterIInv
  <1>5. CASE \E t \in Thread, b \in DOMAIN h.mem : FreeTwice(t, b)
    BY <1>1, <1>5, FreeTwiceSame
  <1>6. CASE \E t, new \in Thread : CreateThread(t, new)
    BY <1>6, CreateThreadIInv
  <1> QED BY <1>1, <1>2, <1>3, <1>4, <1>5, <1>6 DEF Next

-----------------------------------------------------------------------------
(* Where execute() lays the arguments.                                     *)

\* Each argument block lies behind the one before it.
LEMMA ArgAtIs ==
  ASSUME NEW i \in 1..Len(ArgSizes)+1
  PROVE  ArgAt[i] = IF i = 1 THEN USER_HEAP ELSE ArgAt[i-1] + Header + ArgSizes[i-1]
  <1> DEFINE N == Len(ArgSizes) + 1
             From(f, j) == IF j = 1 THEN USER_HEAP ELSE f[j-1] + Header + ArgSizes[j-1]
             Lays(f, n) == f = [j \in 1..n |-> From(f, j)]
             Short == {n \in 1..N : ~ \E f : Lays(f, n)}
  <1>1. N \in Nat
    BY UserHeapAssumption
  <1>2. Short = {}
    <2> SUFFICES ASSUME Short # {} PROVE FALSE
      OBVIOUS
    <2>1. PICK m \in Short : \A n \in Short : m <= n
      <3>1. Short \subseteq Nat
        OBVIOUS
      <3> HIDE DEF Short
      <3> QED BY <3>1, LeastNat
    <2>2. m \in 1..N /\ ~ \E f : Lays(f, m)
      OBVIOUS
    <2>3. CASE m = 1
      <3> DEFINE g == [j \in 1..1 |-> USER_HEAP]
      <3>1. \A j \in 1..1 : From(g, j) = USER_HEAP
        OBVIOUS
      <3>2. Lays(g, 1)
        BY <3>1
      <3> QED BY <2>2, <2>3, <3>2
    <2>4. CASE m # 1
      <3>1. m - 1 \in 1..N /\ m \in Nat /\ m > 1
        BY <1>1, <2>2, <2>4
      <3>2. PICK f : Lays(f, m - 1)
        <4>1. m - 1 \notin Short
          <5> HIDE DEF Short
          <5> QED BY <2>1, <3>1
        <4> HIDE DEF N, Lays
        <4> QED BY <3>1, <4>1
      <3> DEFINE g == [j \in 1..m |-> IF j = m THEN From(f, m) ELSE f[j]]
      <3>3. \A j \in 1..m-1 : f[j] = From(f, j)
        BY <3>2
      <3>4. \A j \in 1..m : From(g, j) = From(f, j)
        <4>1. \A j \in 1..m : j = 1 \/ (j - 1 \in 1..m /\ j - 1 # m)
          BY <3>1
        <4> QED BY <4>1
      <3>5. \A j \in 1..m : g[j] = From(g, j)
        <4>1. \A j \in 1..m : j = m \/ j \in 1..m-1
          BY <3>1
        <4> HIDE DEF From
        <4> QED BY <3>3, <3>4, <4>1
      <3>6. Lays(g, m)
        <4>1. g = [j \in 1..m |-> g[j]]
          OBVIOUS
        <4> HIDE DEF g, From
        <4> QED BY <3>5, <4>1
      <3> QED BY <2>2, <3>6
    <2> QED BY <2>3, <2>4
  <1>3. \E f : Lays(f, N)
    <2>1. N \in 1..N
      BY <1>1
    <2> HIDE DEF Lays, N
    <2> QED BY <1>2, <2>1
  <1>4. Lays(ArgAt, N)
    BY <1>3 DEF ArgAt
  <1> QED BY <1>4

\* The argument blocks follow one another from USER_HEAP.
LEMMA ArgsAre ==
  /\ ArgAt[1] = USER_HEAP
  /\ \A i \in 1..Len(ArgSizes)+1 : ArgAt[i] \in Nat /\ USER_HEAP <= ArgAt[i]
  /\ \A i \in 1..Len(ArgSizes) :
        ArgSizes[i] \in Nat \ {0} /\ ArgAt[i+1] = ArgAt[i] + Header + ArgSizes[i]
  /\ \A i \in 1..Len(ArgSizes), j \in 1..Len(ArgSizes)+1 :
        i < j => ArgAt[i+1] <= ArgAt[j]
  <1> DEFINE N == Len(ArgSizes)
  <1>1. /\ N \in Nat /\ Header \in Nat \ {0} /\ USER_HEAP \in Nat
        /\ \A i \in 1..N : ArgSizes[i] \in Nat \ {0}
    BY UserHeapAssumption
  <1>2. ArgAt[1] = USER_HEAP
    <2>1. 1 \in 1..N+1
      BY <1>1
    <2> QED BY <2>1, ArgAtIs
  <1>3. \A i \in 1..N : ArgAt[i+1] = ArgAt[i] + Header + ArgSizes[i]
    <2> SUFFICES ASSUME NEW i \in 1..N PROVE ArgAt[i+1] = ArgAt[i] + Header + ArgSizes[i]
      OBVIOUS
    <2> DEFINE j == i + 1
    <2>1. j \in 1..N+1 /\ j # 1 /\ j - 1 = i
      BY <1>1
    <2> HIDE DEF j
    <2>2. ArgAt[j] = ArgAt[j-1] + Header + ArgSizes[j-1]
      BY <2>1, ArgAtIs
    <2> QED BY <2>1, <2>2 DEF j
  <1> HIDE DEF N
  <1>4. \A i \in 1..N+1 : ArgAt[i] \in Nat /\ USER_HEAP <= ArgAt[i]
    <2> DEFINE Bad == {i \in 1..N+1 : ~(ArgAt[i] \in Nat /\ USER_HEAP <= ArgAt[i])}
    <2> SUFFICES ASSUME Bad # {} PROVE FALSE
      OBVIOUS
    <2>1. PICK m \in Bad : \A i \in Bad : m <= i
      <3>1. Bad \subseteq Nat
        OBVIOUS
      <3> HIDE DEF Bad
      <3> QED BY <3>1, LeastNat
    <2>2. m # 1 /\ m \in 1..N+1
      BY <1>1, <1>2
    <2> DEFINE i == m - 1
    <2>3. i \in 1..N /\ i + 1 = m /\ i < m /\ i \in 1..N+1
      BY <1>1, <2>2
    <2>4. i \notin Bad
      <3> HIDE DEF Bad, i
      <3> QED BY <2>1, <2>2, <2>3
    <2> HIDE DEF i
    <2>5. ArgAt[i] \in Nat /\ USER_HEAP <= ArgAt[i] /\ ArgAt[m] = ArgAt[i] + Header + ArgSizes[i]
      BY <1>3, <2>3, <2>4
    <2> QED BY <1>1, <2>2, <2>3, <2>5
  <1>5. ASSUME NEW i \in 1..N
        PROVE  \A j \in 1..N+1 : i < j => ArgAt[i+1] <= ArgAt[j]
    <2> DEFINE Bad == {j \in 1..N+1 : i < j /\ ~(ArgAt[i+1] <= ArgAt[j])}
    <2> SUFFICES ASSUME Bad # {} PROVE FALSE
      OBVIOUS
    <2>1. PICK m \in Bad : \A j \in Bad : m <= j
      <3>1. Bad \subseteq Nat
        OBVIOUS
      <3> HIDE DEF Bad
      <3> QED BY <3>1, LeastNat
    <2>2. m \in 1..N+1 /\ i < m /\ i \in Nat /\ i + 1 \in 1..N+1
      BY <1>1
    <2>3. m # i + 1
      <3>1. ArgAt[i+1] <= ArgAt[i+1]
        BY <1>4, <2>2
      <3> QED BY <3>1
    <2> DEFINE j == m - 1
    <2>4. j \in 1..N /\ j + 1 = m /\ j < m /\ j \in 1..N+1 /\ i < j
      BY <1>1, <2>2, <2>3
    <2>5. j \notin Bad
      <3> HIDE DEF Bad, j
      <3> QED BY <2>1, <2>2, <2>4
    <2>6. ArgAt[i+1] <= ArgAt[j] /\ ArgAt[m] = ArgAt[j] + Header + ArgSizes[j]
      <3> HIDE DEF j
      <3> QED BY <1>3, <2>4, <2>5
    <2>7. ArgAt[i+1] \in Nat /\ ArgAt[j] \in Nat /\ ArgSizes[j] \in Nat
      BY <1>1, <1>4, <2>2, <2>4
    <2> QED BY <1>1, <2>6, <2>7
  <1> QED BY <1>1, <1>2, <1>3, <1>4, <1>5 DEF N

\* The heap that execute() and fix_user_heap leave is sound, and all of it is in
\* use.
LEMMA InitialHeapIs ==
  /\ SoundHeap(InitialHeap)
  /\ ListedIn(InitialHeap) = {}
  /\ InitialHeap.heap_size = USER_HEAP_SIZE
  /\ InitialHeap.heap_start = ArgAt[Len(ArgSizes)+1]
  /\ DOMAIN InitialHeap.mem = {ArgAt[i] : i \in 1..Len(ArgSizes)}
  /\ \A i \in 1..Len(ArgSizes) : InitialHeap.mem[ArgAt[i]].size = ArgSizes[i]
  <1> DEFINE N == Len(ArgSizes)
             D == {ArgAt[i] : i \in 1..N}
             k == InitialHeap
             Rec == [size : Nat \ {0}, prev : Int, next : Int]
             Of(a) == CHOOSE i \in 1..N : ArgAt[i] = a
  <1>1. /\ N \in Nat /\ Header \in Nat \ {0} /\ USER_HEAP \in Nat \ {0} /\ USER_HEAP_SIZE \in Nat
        /\ ArgAt[N+1] <= USER_HEAP + USER_HEAP_SIZE
    BY UserHeapAssumption, ArgsFit
  <1>2. /\ ArgAt[1] = USER_HEAP
        /\ \A i \in 1..N+1 : ArgAt[i] \in Nat /\ USER_HEAP <= ArgAt[i]
        /\ \A i \in 1..N : ArgSizes[i] \in Nat \ {0} /\ ArgAt[i+1] = ArgAt[i] + Header + ArgSizes[i]
        /\ \A i \in 1..N, j \in 1..N+1 : i < j => ArgAt[i+1] <= ArgAt[j]
    BY ArgsAre
  <1>3. \A i \in 1..N : i + 1 \in 1..N+1 /\ i \in 1..N+1
    BY <1>1
  <1> HIDE DEF N
  <1>4. \A i \in 1..N, j \in 1..N+1 : i < j => ArgAt[i] < ArgAt[j]
    BY <1>1, <1>2, <1>3
  <1>5. \A i \in 1..N : Of(ArgAt[i]) = i
    <2> SUFFICES ASSUME NEW i \in 1..N PROVE Of(ArgAt[i]) = i
      OBVIOUS
    <2>1. \A j \in 1..N : ArgAt[j] = ArgAt[i] => j = i
      BY <1>1, <1>2, <1>3, <1>4
    <2> QED BY <2>1
  <1> HIDE DEF Of
  <1>6. /\ k.mem = [a \in D |-> [size |-> ArgSizes[Of(a)], prev |-> InUse, next |-> InUse]]
        /\ k.free_list = 0 /\ k.heap_start = ArgAt[N+1]
        /\ k.heap_size = USER_HEAP_SIZE /\ k.max_allocation = 0
        /\ k = [mem |-> k.mem, free_list |-> k.free_list, heap_start |-> k.heap_start,
                heap_size |-> k.heap_size, max_allocation |-> k.max_allocation]
    BY DEF InitialHeap, N, Of
  <1> HIDE DEF k
  <1>7. ASSUME NEW i \in 1..N
        PROVE  /\ ArgAt[i] \in D /\ k.mem[ArgAt[i]].size = ArgSizes[i]
               /\ k.mem[ArgAt[i]].prev = InUse /\ k.mem[ArgAt[i]].next = InUse
               /\ k.mem[ArgAt[i]] \in Rec
               /\ EndOf(k, ArgAt[i]) = ArgAt[i+1]
    <2>1. ArgAt[i] \in D
      OBVIOUS
    <2>2. k.mem[ArgAt[i]] = [size |-> ArgSizes[i], prev |-> InUse, next |-> InUse]
      BY <1>5, <1>6, <2>1
    <2> QED BY <1>2, <2>1, <2>2 DEF EndOf, InUse
  <1>8. \A a \in D : \E i \in 1..N : a = ArgAt[i]
    OBVIOUS
  <1>9. DOMAIN k.mem = D
    BY <1>6
  <1> HIDE DEF D
  <1>10. IsHeap(k)
    <2>1. \A a \in D : k.mem[a] \in Rec /\ a \in Nat \ {0}
      BY <1>1, <1>2, <1>3, <1>7, <1>8
    <2>2. k.mem \in [D -> Rec]
      BY <1>6, <2>1
    <2>3. N + 1 \in 1..N+1
      BY <1>1
    <2> QED BY <1>1, <1>2, <1>6, <1>9, <2>1, <2>2, <2>3 DEF IsHeap
  <1>11. ListedIn(k) = {}
    BY <1>7, <1>8, <1>9 DEF ListedIn
  <1>12. Linked(k, {}) /\ Marked(k)
    BY <1>6, <1>7, <1>8, <1>9, <1>11 DEF Linked, Marked
  <1>13. Tiles(k)
    <2>1. ASSUME NEW b \in D
          PROVE  /\ USER_HEAP <= b
                 /\ EndOf(k, b) \in D \cup {k.heap_start}
                 /\ EndOf(k, b) <= k.heap_start
                 /\ b = USER_HEAP \/ \E c \in D : EndOf(k, c) = b
      <3>1. PICK i \in 1..N : b = ArgAt[i]
        BY <1>8
      <3>2. EndOf(k, b) = ArgAt[i+1] /\ USER_HEAP <= b
        BY <1>2, <1>3, <1>7, <3>1
      <3>3. i + 1 \in 1..N \/ i + 1 = N + 1
        BY <1>1
      <3>4. EndOf(k, b) \in D \cup {k.heap_start}
        BY <1>6, <1>7, <3>2, <3>3
      <3>5. EndOf(k, b) <= k.heap_start
        <4>1. i < N + 1 /\ N + 1 \in 1..N+1
          BY <1>1
        <4> QED BY <1>2, <1>6, <3>2, <4>1
      <3>6. b = USER_HEAP \/ \E c \in D : EndOf(k, c) = b
        <4>1. CASE i = 1
          BY <1>2, <3>1, <4>1
        <4>2. CASE i # 1
          <5>1. i - 1 \in 1..N /\ i - 1 + 1 = i
            BY <1>1, <4>2
          <5> QED BY <1>7, <3>1, <5>1
        <4> QED BY <4>1, <4>2
      <3> QED BY <3>2, <3>4, <3>5, <3>6
    <2>2. ASSUME NEW b \in D, NEW c \in D, b < c PROVE EndOf(k, b) <= c
      <3>1. PICK i \in 1..N : b = ArgAt[i]
        BY <1>8
      <3>2. PICK j \in 1..N : c = ArgAt[j]
        BY <1>8
      <3>3. i < j
        <4>1. ~(j < i) /\ i # j
          BY <1>2, <1>3, <1>4, <2>2, <3>1, <3>2
        <4> QED BY <1>1, <4>1
      <3> QED BY <1>2, <1>3, <1>7, <3>1, <3>2, <3>3
    <2>3. k.heap_start = USER_HEAP \/ \E c \in D : EndOf(k, c) = k.heap_start
      <3>1. CASE N = 0
        BY <1>2, <1>6, <3>1
      <3>2. CASE N # 0
        <4>1. N \in 1..N
          BY <1>1, <3>2
        <4> QED BY <1>6, <1>7, <4>1
      <3> QED BY <3>1, <3>2
    <2>4. k.heap_start <= USER_HEAP + k.heap_size
      BY <1>1, <1>6
    <2> QED BY <1>9, <2>1, <2>2, <2>3, <2>4 DEF Tiles
  <1>14. SoundHeap(k)
    BY <1>10, <1>11, <1>12, <1>13 DEF SoundHeap
  <1>15. \A i \in 1..N : k.mem[ArgAt[i]].size = ArgSizes[i]
    BY <1>7
  <1> QED BY <1>6, <1>9, <1>11, <1>14, <1>15 DEF k, D, N

\* The invariant holds before the program runs.
LEMMA InitIInv ==
  ASSUME Init
  PROVE  IInv
  <1>1. /\ h = InitialHeap /\ memory_lock = 0 /\ frames = [t \in Thread |-> <<>>]
        /\ live = DOMAIN h.mem
        /\ mapped = [t \in Thread |-> IF t = MainThread THEN USER_HEAP_SIZE ELSE 0]
    BY DEF Init
  <1>2. /\ SoundHeap(h) /\ ListedIn(h) = {} /\ h.heap_size = USER_HEAP_SIZE
    BY <1>1, InitialHeapIs
  <1>3. StacksOK
    <2>1. <<>> \in Seq(CallRec) /\ Len(<<>>) = 0
      OBVIOUS
    <2>2. \A t \in Thread : Len(frames[t]) <= (IF t \in Handling THEN 2 ELSE 1)
      BY <1>1
    <2> QED BY <1>1, <2>1, <2>2 DEF StacksOK
  <1>4. Calls = {}
    BY <1>1 DEF Calls
  <1>5. Mutex /\ Owners
    BY <1>1, <1>2, <1>4 DEF Mutex, Owners, Used
  <1>6. Mapping
    BY <1>1, <1>2, UserHeapAssumption DEF Mapping
  <1> QED BY <1>2, <1>3, <1>4, <1>5, <1>6 DEF IInv

\* Fairness plays no part in what may happen.
LEMMA SpecSteps == Spec => Init /\ [][Next]_vars
  BY PTL DEF Spec

\* The invariant holds in every state.
LEMMA IInvHolds == Spec => []IInv
  <1>1. Init => IInv
    BY InitIInv
  <1>2. IInv /\ [Next]_vars => IInv'
    BY NextIInv
  <1> QED BY <1>1, <1>2, SpecSteps, PTL

-----------------------------------------------------------------------------
(* What the runs check, from the invariant.                                *)

\* A block in use that a call or the program holds is nobody else's.
LEMMA OwnersHeld ==
  ASSUME IInv
  PROVE  HeldIsUsed
  <1>1. Listed = ListedIn(h)
    BY DEF Listed, ListedIn
  <1>2. live \cap Listed = {}
    BY <1>1 DEF IInv, Owners, Used
  <1>3. ASSUME NEW c \in Getting PROVE Call(c).block \notin live \cup Listed
    <2>1. c \in Calls /\ Call(c).block \in Holds(Call(c))
      BY DEF Getting, Holds
    <2> QED BY <1>1, <2>1 DEF IInv, Owners, Used
  <1> QED BY <1>2, <1>3 DEF HeldIsUsed

\* The free list as the run states it, block by block.
LEMMA LinkedSound ==
  ASSUME SoundHeap(h)
  PROVE  FreeListSound
  <1> DEFINE L == ListedIn(h)
             after(b) == {c \in L : c > b}
  <1>1. /\ IsHeap(h) /\ Linked(h, L) /\ Listed = L /\ L \subseteq DOMAIN h.mem
        /\ \A d \in L : d \in Nat /\ d # 0
    BY DEF SoundHeap, IsHeap, Listed, ListedIn
  <1> HIDE DEF L
  <1>2. h.free_list = 0 <=> L = {}
    BY <1>1 DEF Linked
  <1>3. L # {} => /\ h.free_list \in L
                  /\ after(h.free_list) = L \ {h.free_list}
                  /\ h.mem[h.free_list].prev = 0
    <2> SUFFICES ASSUME L # {} PROVE /\ h.free_list \in L
                                     /\ after(h.free_list) = L \ {h.free_list}
                                     /\ h.mem[h.free_list].prev = 0
      OBVIOUS
    <2>1. h.free_list \in L /\ h.mem[h.free_list].prev = 0 /\ \A d \in L : h.free_list <= d
      BY <1>1 DEF Linked
    <2> QED BY <1>1, <2>1
  <1>4. ASSUME NEW b \in L
        PROVE  LET n == h.mem[b].next
               IN  IF after(b) = {} THEN n = 0
                   ELSE n \in after(b) /\ after(n) = after(b) \ {n} /\ h.mem[n].prev = b
    <2> DEFINE n == h.mem[b].next
    <2>1. CASE n = 0 /\ \A d \in L : d <= b
      BY <1>1, <2>1
    <2>2. CASE n \in L /\ b < n /\ h.mem[n].prev = b /\ \A d \in L : d <= b \/ n <= d
      BY <1>1, <2>2
    <2> QED BY <1>1, <2>1, <2>2 DEF Linked
  <1> QED BY <1>1, <1>2, <1>3, <1>4 DEF FreeListSound

\* The invariant implies the three views of the heap.
LEMMA IInvSound ==
  ASSUME IInv
  PROVE  HeapSound
  <1>1. SoundHeap(h) /\ IsHeap(h) /\ Tiles(h) /\ Linked(h, ListedIn(h)) /\ Marked(h)
    BY DEF IInv, SoundHeap
  <1>2. /\ h.free_list \in DOMAIN h.mem \cup {0}
        /\ live \subseteq DOMAIN h.mem
    BY <1>1 DEF Linked, IInv, Owners, Used
  <1>3. ASSUME NEW b \in DOMAIN h.mem
        PROVE  /\ h.mem[b].size \in Nat \ {0}
               /\ {h.mem[b].prev, h.mem[b].next} \subseteq DOMAIN h.mem \cup {0, InUse}
    <2>1. h.mem[b].size \in Nat \ {0}
      BY <1>1 DEF IsHeap
    <2>2. CASE b \in ListedIn(h)
      <3>1. h.mem[b].next \in ListedIn(h) \cup {0}
        BY <1>1, <2>2, LinkedNext
      <3>2. h.mem[b].prev \in ListedIn(h) \cup {0}
        BY <1>1, <2>2, PrevIs
      <3> QED BY <2>1, <3>1, <3>2 DEF ListedIn
    <2>3. CASE b \notin ListedIn(h)
      BY <1>1, <2>1, <2>3 DEF Marked
    <2> QED BY <2>2, <2>3
  <1>4. TypeOK
    BY <1>1, <1>2, <1>3 DEF TypeOK, IInv, StacksOK, Mutex, IsHeap
  <1>5. Tiled
    BY <1>1 DEF Tiled, Tiles
  <1>6. MappedForAll
    <2>1. h.heap_start <= USER_HEAP + h.heap_size /\ \A t \in Thread : mapped[t] \in {0, h.heap_size}
      BY <1>1 DEF Tiles, IInv, Mapping
    <2> QED BY <2>1 DEF MappedForAll, Exists
  <1> QED BY <1>1, <1>4, <1>5, <1>6, LinkedSound DEF HeapSound

\* However the calls of the threads and of the handlers above them interleave,
\* the headers of the heap tile it, the free list goes through exactly the free
\* blocks in order, both ways, and every thread has all of it mapped: what
\* mem_check looks for after each call of alloc.c, at each step.
THEOREM HeapStaysSound == Spec => []HeapSound
  BY IInvHolds, IInvSound, PTL

\* malloc never hands out a block that somebody holds or is about to get, and no
\* block that the program holds is in the free list.
THEOREM BlocksHaveOneOwner == Spec => []HeldIsUsed
  BY IInvHolds, OwnersHeld, PTL

-----------------------------------------------------------------------------
(* The heap implements HeapPartition.                                      *)

\* The blocks in use and the free ones of heap k, as HeapPartition has them.
BlockOf(k, b) == [at |-> b, size |-> k.mem[b].size]
UsedOf(k) == {BlockOf(k, b) : b \in Used(k)}
FreeOf(k) == {BlockOf(k, b) : b \in ListedIn(k)}

\* The instance Blocks, now and after a step.
LEMMA Views ==
  /\ {AsBlock(b) : b \in DOMAIN h.mem \ Listed} = UsedOf(h)
  /\ {AsBlock(b) : b \in Listed} = FreeOf(h)
  /\ {AsBlock(b)' : b \in DOMAIN h'.mem \ Listed'} = UsedOf(h')
  /\ {AsBlock(b)' : b \in Listed'} = FreeOf(h')
  BY DEF AsBlock, Listed, ListedIn, Used, BlockOf, UsedOf, FreeOf

\* The actions of HeapPartition in terms of the heap.
LEMMA ViewSteps ==
  /\ \A x : Blocks!TakeWhole(x) <=>
       /\ x \in FreeOf(h) /\ x.size \in Sizes
       /\ UsedOf(h') = UsedOf(h) \cup {x} /\ FreeOf(h') = FreeOf(h) \ {x}
       /\ h'.heap_start = h.heap_start
  /\ \A x, size : Blocks!TakePart(x, size) <=>
       /\ x \in FreeOf(h) /\ x.size > size + Header
       /\ UsedOf(h') = UsedOf(h) \cup {Blocks!Part(x, size)}
       /\ FreeOf(h') = (FreeOf(h) \ {x}) \cup {Blocks!Remainder(x, size)}
       /\ h'.heap_start = h.heap_start
  /\ \A size : Blocks!Extend(size) <=>
       /\ \A x \in FreeOf(h) : ~(x.size = size \/ x.size > size + Header)
       /\ UsedOf(h') = UsedOf(h) \cup {[at |-> h.heap_start, size |-> size]}
       /\ h'.heap_start = h.heap_start + Header + size
       /\ FreeOf(h') = FreeOf(h)
  /\ \A x : Blocks!Release(x) <=>
       /\ x \in UsedOf(h)
       /\ UsedOf(h') = UsedOf(h) \ {x} /\ FreeOf(h') = FreeOf(h) \cup {x}
       /\ h'.heap_start = h.heap_start
  <1>1. ASSUME NEW x PROVE Blocks!TakeWhole(x) <=>
       /\ x \in FreeOf(h) /\ x.size \in Sizes
       /\ UsedOf(h') = UsedOf(h) \cup {x} /\ FreeOf(h') = FreeOf(h) \ {x}
       /\ h'.heap_start = h.heap_start
    BY Views DEF Blocks!TakeWhole
  <1>2. ASSUME NEW x, NEW size PROVE Blocks!TakePart(x, size) <=>
       /\ x \in FreeOf(h) /\ x.size > size + Header
       /\ UsedOf(h') = UsedOf(h) \cup {Blocks!Part(x, size)}
       /\ FreeOf(h') = (FreeOf(h) \ {x}) \cup {Blocks!Remainder(x, size)}
       /\ h'.heap_start = h.heap_start
    BY Views DEF Blocks!TakePart
  <1>3. ASSUME NEW size PROVE Blocks!Extend(size) <=>
       /\ \A x \in FreeOf(h) : ~(x.size = size \/ x.size > size + Header)
       /\ UsedOf(h') = UsedOf(h) \cup {[at |-> h.heap_start, size |-> size]}
       /\ h'.heap_start = h.heap_start + Header + size
       /\ FreeOf(h') = FreeOf(h)
    BY Views DEF Blocks!Extend, Blocks!Fits
  <1>4. ASSUME NEW x PROVE Blocks!Release(x) <=>
       /\ x \in UsedOf(h)
       /\ UsedOf(h') = UsedOf(h) \ {x} /\ FreeOf(h') = FreeOf(h) \cup {x}
       /\ h'.heap_start = h.heap_start
    BY Views DEF Blocks!Release
  <1> QED BY <1>1, <1>2, <1>3, <1>4

\* Blocks at different addresses are different.
LEMMA BlockOfIs ==
  ASSUME NEW k, NEW b, NEW c
  PROVE  /\ BlockOf(k, b) = BlockOf(k, c) => b = c
         /\ BlockOf(k, b).at = b /\ BlockOf(k, b).size = k.mem[b].size
  BY DEF BlockOf

\* A block that leaves the free list, or enters it, with the others as they were.
LEMMA ViewMoves ==
  ASSUME NEW k, NEW r, SameBlocks(k, r), NEW b \in DOMAIN k.mem
  PROVE  /\ b \in ListedIn(k) /\ ListedIn(r) = ListedIn(k) \ {b} =>
              /\ UsedOf(r) = UsedOf(k) \cup {BlockOf(k, b)}
              /\ FreeOf(r) = FreeOf(k) \ {BlockOf(k, b)}
         /\ b \notin ListedIn(k) /\ ListedIn(r) = ListedIn(k) \cup {b} =>
              /\ UsedOf(r) = UsedOf(k) \ {BlockOf(k, b)}
              /\ FreeOf(r) = FreeOf(k) \cup {BlockOf(k, b)}
  <1>1. ListedIn(k) \subseteq DOMAIN k.mem /\ DOMAIN r.mem = DOMAIN k.mem
    BY DEF ListedIn, SameBlocks
  <1>2. \A c \in DOMAIN k.mem : BlockOf(r, c) = BlockOf(k, c)
    BY DEF BlockOf, SameBlocks
  <1>3. ASSUME b \in ListedIn(k), ListedIn(r) = ListedIn(k) \ {b}
        PROVE  /\ UsedOf(r) = UsedOf(k) \cup {BlockOf(k, b)}
               /\ FreeOf(r) = FreeOf(k) \ {BlockOf(k, b)}
    <2>1. Used(r) = Used(k) \cup {b}
      BY <1>1, <1>3 DEF Used
    <2>2. UsedOf(r) = UsedOf(k) \cup {BlockOf(k, b)}
      BY <1>1, <1>2, <2>1 DEF UsedOf, Used
    <2>3. FreeOf(r) = FreeOf(k) \ {BlockOf(k, b)}
      BY <1>1, <1>2, <1>3, BlockOfIs DEF FreeOf
    <2> QED BY <2>2, <2>3
  <1>4. ASSUME b \notin ListedIn(k), ListedIn(r) = ListedIn(k) \cup {b}
        PROVE  /\ UsedOf(r) = UsedOf(k) \ {BlockOf(k, b)}
               /\ FreeOf(r) = FreeOf(k) \cup {BlockOf(k, b)}
    <2>1. Used(r) = Used(k) \ {b}
      BY <1>1, <1>4 DEF Used
    <2>2. UsedOf(r) = UsedOf(k) \ {BlockOf(k, b)}
      BY <1>1, <1>2, <2>1, BlockOfIs DEF UsedOf, Used
    <2>3. FreeOf(r) = FreeOf(k) \cup {BlockOf(k, b)}
      BY <1>1, <1>2, <1>4 DEF FreeOf
    <2> QED BY <2>2, <2>3
  <1> QED BY <1>3, <1>4

\* The rest of a block that is cut takes its place in the list, and among the
\* free blocks.
RestListed(k, r, b, rest) == ListedIn(r) = (ListedIn(k) \ {b}) \cup {rest}
RestFree(k, r, b, rest) == FreeOf(r) = (FreeOf(k) \ {BlockOf(k, b)}) \cup {BlockOf(r, rest)}

\* A block that is cut: its front is in use, the rest free.
LEMMA ViewCut ==
  ASSUME NEW k, NEW r, NEW b \in ListedIn(k), NEW size, NEW rest,
         CanCut(k, b, size, rest), IsCut(k, r, b, size, rest), RestListed(k, r, b, rest)
  PROVE  UsedOf(r) = UsedOf(k) \cup {BlockOf(r, b)} /\ RestFree(k, r, b, rest)
  <1> USE DEF RestListed, RestFree
  <1>1. /\ ListedIn(k) \subseteq DOMAIN k.mem /\ DOMAIN r.mem = DOMAIN k.mem \cup {rest}
        /\ rest \notin DOMAIN k.mem
    BY DEF ListedIn, CanCut, IsCut
  <1>2. \A c \in DOMAIN k.mem \ {b} : BlockOf(r, c) = BlockOf(k, c)
    BY DEF BlockOf, IsCut
  <1>3. Used(r) = Used(k) \cup {b} /\ b \notin Used(k) /\ Used(k) \subseteq DOMAIN k.mem
    BY <1>1 DEF Used
  <1>4. UsedOf(r) = UsedOf(k) \cup {BlockOf(r, b)}
    BY <1>2, <1>3 DEF UsedOf
  <1>5. FreeOf(r) = (FreeOf(k) \ {BlockOf(k, b)}) \cup {BlockOf(r, rest)}
    <2>1. \A c \in ListedIn(k) \ {b} : BlockOf(r, c) = BlockOf(k, c) /\ BlockOf(k, c) # BlockOf(k, b)
      BY <1>1, <1>2, BlockOfIs
    <2> QED BY <2>1 DEF FreeOf
  <1> QED BY <1>4, <1>5

\* A new block is in use.
LEMMA ViewNew ==
  ASSUME NEW k, NEW r, NEW new, new \notin DOMAIN k.mem, DOMAIN r.mem = DOMAIN k.mem \cup {new},
         ListedIn(r) = ListedIn(k), SameAt(DOMAIN k.mem, k, r)
  PROVE  /\ UsedOf(r) = UsedOf(k) \cup {[at |-> new, size |-> r.mem[new].size]}
         /\ FreeOf(r) = FreeOf(k)
  <1>1. ListedIn(k) \subseteq DOMAIN k.mem
    BY DEF ListedIn
  <1>2. \A c \in DOMAIN k.mem : BlockOf(r, c) = BlockOf(k, c)
    BY DEF BlockOf, SameAt
  <1>3. Used(r) = Used(k) \cup {new} /\ Used(k) \subseteq DOMAIN k.mem
    BY <1>1 DEF Used
  <1>4. UsedOf(r) = UsedOf(k) \cup {BlockOf(r, new)}
    BY <1>2, <1>3 DEF UsedOf
  <1>5. FreeOf(r) = FreeOf(k)
    BY <1>1, <1>2 DEF FreeOf
  <1>6. BlockOf(r, new) = [at |-> new, size |-> r.mem[new].size]
    BY DEF BlockOf
  <1> QED BY <1>4, <1>5, <1>6

\* Taking a listed block is TakeWhole or TakePart.
LEMMA TakeView ==
  ASSUME IInv, NEW t \in Thread, Take(t)
  PROVE  Blocks!PNext
  <1> DEFINE b == Frame(t).block
             size == Frame(t).size
             x == BlockOf(h, b)
  <1>1. PICK c \in Calls : /\ Frame(t) = Call(c) /\ Call(c) \in CallRec /\ Call(c).pc = "take"
                          /\ Stage(h, Call(c))
    BY CallsAre DEF Take, InFrame, IInv
  <1>2. /\ b \in ListedIn(h) /\ Serves(h, b, size) /\ size \in Nat \ {0} /\ size \in Sizes
        /\ h' = TakeFree(h, b, size) /\ SoundHeap(h) /\ b \in DOMAIN h.mem
    BY <1>1 DEF Stage, CallRec, Take, IInv, ListedIn
  <1> HIDE DEF b, size
  <1>3. x \in FreeOf(h) /\ x.size = h.mem[b].size /\ x = [at |-> b, size |-> h.mem[b].size]
    BY <1>2 DEF FreeOf, BlockOf
  <1>4. CASE h.mem[b].size = size
    <2>1. SameBlocks(h, h') /\ ListedIn(h') = ListedIn(h) \ {b}
      BY <1>2, <1>4, TakeWholeIs
    <2>2. UsedOf(h') = UsedOf(h) \cup {x} /\ FreeOf(h') = FreeOf(h) \ {x}
      BY <1>2, <2>1, ViewMoves
    <2>3. h'.heap_start = h.heap_start
      BY <2>1 DEF SameBlocks
    <2> HIDE DEF x
    <2>4. Blocks!TakeWhole(x)
      BY <1>2, <1>3, <1>4, <2>2, <2>3, ViewSteps
    <2> QED BY <1>3, <2>4, Views DEF Blocks!PNext
  <1>5. CASE h.mem[b].size > size + Header
    <2> DEFINE rest == b + Header + size
               front == Blocks!Part(x, size)
               back == Blocks!Remainder(x, size)
    <2>1. CanCut(h, b, size, rest) /\ IsCut(h, h', b, size, rest)
          /\ ListedIn(h') = (ListedIn(h) \ {b}) \cup {rest}
      BY <1>2, <1>5, TakePartIs
    <2>2. front = BlockOf(h', b)
      BY <1>3, <2>1 DEF Blocks!Part, BlockOf, IsCut
    <2>3. back = BlockOf(h', rest)
      BY <1>3, <2>1 DEF Blocks!Remainder, BlockOf, IsCut
    <2> HIDE DEF front, back, x
    <2>4. /\ UsedOf(h') = UsedOf(h) \cup {front}
          /\ FreeOf(h') = (FreeOf(h) \ {x}) \cup {back}
      <3>1. RestListed(h, h', b, rest)
        BY <2>1 DEF RestListed
      <3> HIDE DEF rest
      <3>2. UsedOf(h') = UsedOf(h) \cup {BlockOf(h', b)} /\ RestFree(h, h', b, rest)
        BY <1>2, <2>1, <3>1, ViewCut
      <3> QED BY <2>2, <2>3, <3>2 DEF RestFree, x
    <2>5. h'.heap_start = h.heap_start
      BY <2>1 DEF IsCut
    <2>6. Blocks!TakePart(x, size)
      BY <1>3, <1>5, <2>4, <2>5, ViewSteps DEF front, back
    <2> QED BY <1>2, <1>3, <2>6, Views DEF Blocks!PNext
  <1> QED BY <1>2, <1>4, <1>5 DEF Serves

\* A new block is made when no free one serves: Extend.
LEMMA MakeNewView ==
  ASSUME IInv, NEW t \in Thread, MakeNew(t)
  PROVE  Blocks!PNext
  <1> DEFINE size == Frame(t).size
             new == h.heap_start
  <1>1. PICK c \in Calls : /\ Frame(t) = Call(c) /\ Call(c) \in CallRec /\ Call(c).pc = "new"
                          /\ Stage(h, Call(c))
    BY CallsAre DEF MakeNew, InFrame, IInv
  <1>2. /\ size \in Sizes /\ size \in Nat \ {0} /\ h' = NewBlock(h, size) /\ SoundHeap(h)
        /\ \A b \in ListedIn(h) : ~Serves(h, b, size)
        /\ h.heap_start + Header + size < USER_HEAP + h.heap_size
    BY <1>1 DEF Stage, CallRec, MakeNew, IInv
  <1> HIDE DEF size
  <1>3. h.heap_start + Header + size <= USER_HEAP + h.heap_size
    <2>1. h.heap_start \in Nat /\ h.heap_size \in Nat /\ Header \in Nat /\ USER_HEAP \in Nat
      BY <1>2, UserHeapAssumption DEF SoundHeap, IsHeap
    <2> QED BY <1>2, <2>1
  <1>4. /\ new \notin DOMAIN h.mem /\ DOMAIN h'.mem = DOMAIN h.mem \cup {new}
        /\ ListedIn(h') = ListedIn(h) /\ SameAt(DOMAIN h.mem, h, h')
        /\ h'.mem[new].size = size /\ h'.heap_start = new + Header + size
    BY <1>2, <1>3, NewIs
  <1>5. UsedOf(h') = UsedOf(h) \cup {[at |-> new, size |-> size]} /\ FreeOf(h') = FreeOf(h)
    BY <1>4, ViewNew
  <1>6. \A x \in FreeOf(h) : ~(x.size = size \/ x.size > size + Header)
    BY <1>2 DEF FreeOf, BlockOf, Serves
  <1>7. Blocks!Extend(size)
    BY <1>4, <1>5, <1>6, ViewSteps
  <1> QED BY <1>2, <1>7 DEF Blocks!PNext

\* What is given back is released, or the heap stays as it is.
LEMMA GiveBackView ==
  ASSUME IInv, NEW t \in Thread, GiveBack(t)
  PROVE  Blocks!PNext \/ h' = h
  <1> DEFINE b == Frame(t).old
             x == BlockOf(h, b)
  <1>1. PICK c \in Calls : /\ Frame(t) = Call(c) /\ Call(c).pc = "give back" /\ Stage(h, Call(c))
    BY CallsAre DEF GiveBack, InFrame, IInv
  <1>2. b \in Used(h) /\ h' = __unsafe_free(h, b) /\ SoundHeap(h)
    <2>1. b \in Holds(Call(c))
      BY <1>1 DEF Holds, Stage
    <2> QED BY <2>1, OwnersApart DEF IInv, GiveBack
  <1> HIDE DEF b
  <1>3. CASE h' = h
    BY <1>3
  <1>4. CASE SameBlocks(h, h') /\ ListedIn(h') = ListedIn(h) \cup {b}
    <2>1. b \in DOMAIN h.mem /\ b \notin ListedIn(h)
      BY <1>2 DEF Used
    <2>2. UsedOf(h') = UsedOf(h) \ {x} /\ FreeOf(h') = FreeOf(h) \cup {x}
      BY <1>4, <2>1, ViewMoves
    <2>3. x \in UsedOf(h) /\ h'.heap_start = h.heap_start
      BY <1>2, <1>4 DEF UsedOf, SameBlocks
    <2> HIDE DEF x
    <2>4. Blocks!Release(x)
      BY <2>2, <2>3, ViewSteps
    <2> QED BY <2>3, <2>4, Views DEF Blocks!PNext
  <1> QED BY <1>2, <1>3, <1>4, UnsafeFreeIs

\* Every step is one of HeapPartition's, or leaves the blocks alone.
LEMMA NextView ==
  ASSUME IInv, [Next]_vars
  PROVE  [Blocks!PNext]_(Blocks!pvars)
  <1>1. ASSUME h'.mem = h.mem, h'.heap_start = h.heap_start
        PROVE  UNCHANGED Blocks!pvars
    <2>1. UsedOf(h') = UsedOf(h) /\ FreeOf(h') = FreeOf(h)
      BY <1>1 DEF UsedOf, FreeOf, Used, ListedIn, BlockOf
    <2> QED BY <1>1, <2>1, Views DEF Blocks!pvars
  <1>2. CASE UNCHANGED vars
    BY <1>1, <1>2 DEF vars
  <1>3. CASE \E t \in Thread : Step(t)
    <2>1. PICK t \in Thread : Step(t)
      BY <1>3
    <2>2. CASE lock(t) \/ Spin(t) \/ unlock(t) \/ Search(t) \/ EnoughRoom(t)
      <3>1. h' = h
        BY <2>2 DEF lock, Spin, unlock, Search, EnoughRoom, vars
      <3> QED BY <1>1, <3>1
    <2>3. CASE GrowForSize(t) \/ GrowForBlock(t)
      <3>1. sbrk(t)
        BY <2>3 DEF GrowForSize, GrowForBlock
      <3> QED BY <1>1, <3>1, SbrkIs
    <2>4. CASE RaiseMaximum(t)
      <3>1. h'.mem = h.mem /\ h'.heap_start = h.heap_start
        BY <2>4 DEF RaiseMaximum, IInv, SoundHeap, IsHeap
      <3> QED BY <1>1, <3>1
    <2>5. CASE Take(t)
      BY <2>5, TakeView
    <2>6. CASE MakeNew(t)
      BY <2>6, MakeNewView
    <2>7. CASE GiveBack(t)
      BY <1>1, <2>7, GiveBackView
    <2> QED BY <2>1, <2>2, <2>3, <2>4, <2>5, <2>6, <2>7 DEF Step
  <1>4. CASE \/ \E t \in Thread, size \in Sizes : Enter(t, size, 0)
             \/ \E t \in Thread, b \in live :
                   Enter(t, 0, b) \/ \E size \in Sizes : Enter(t, size, b)
             \/ \E t, new \in Thread : CreateThread(t, new)
    <2>1. h' = h
      BY <1>4 DEF Enter, CreateThread
    <2> QED BY <1>1, <2>1
  <1>5. CASE \E t \in Thread, b \in DOMAIN h.mem : FreeTwice(t, b)
    BY <1>2, <1>5, FreeTwiceSame
  <1> QED BY <1>2, <1>3, <1>4, <1>5 DEF Next

\* The argument blocks are all that is in use at first.
LEMMA InitView ==
  ASSUME Init
  PROVE  Blocks!PInit
  <1> DEFINE N == Len(ArgSizes)
  <1>1. /\ h = InitialHeap /\ ListedIn(h) = {} /\ h.heap_start = ArgAt[N+1]
        /\ DOMAIN h.mem = {ArgAt[i] : i \in 1..N}
        /\ \A i \in 1..N : h.mem[ArgAt[i]].size = ArgSizes[i]
    BY InitialHeapIs DEF Init
  <1>2. FreeOf(h) = {} /\ Used(h) = {ArgAt[i] : i \in 1..N}
    BY <1>1 DEF FreeOf, Used
  <1>3. UsedOf(h) = {[at |-> ArgAt[i], size |-> ArgSizes[i]] : i \in 1..N}
    BY <1>1, <1>2 DEF UsedOf, BlockOf
  <1> QED BY <1>1, <1>2, <1>3, Views DEF Blocks!PInit

\* What HeapPartition asks of an instance: execute() lays the arguments apart.
THEOREM ArgumentsApart == Blocks!Layout
  <1> DEFINE N == Len(ArgSizes)
             At(i) == [at |-> ArgAt[i], size |-> ArgSizes[i]]
             Laid == {At(i) : i \in 1..N}
  <1>1. N \in Nat /\ Header \in Nat \ {0} /\ Sizes \subseteq Nat \ {0}
    BY UserHeapAssumption
  <1>2. /\ \A i \in 1..N+1 : ArgAt[i] \in Nat
        /\ \A i \in 1..N : ArgSizes[i] \in Nat \ {0} /\ ArgAt[i+1] = ArgAt[i] + Header + ArgSizes[i]
        /\ \A i \in 1..N, j \in 1..N+1 : i < j => ArgAt[i+1] <= ArgAt[j]
    BY ArgsAre
  <1> HIDE DEF N
  <1>3. ASSUME NEW i \in 1..N
        PROVE  /\ At(i) \in [at : Nat, size : Nat \ {0}] /\ At(i).at = ArgAt[i]
               /\ Blocks!End(At(i)) = ArgAt[i+1]
    <2>1. i \in 1..N+1
      BY <1>1
    <2>2. At(i).at = ArgAt[i] /\ At(i).size = ArgSizes[i]
      OBVIOUS
    <2> QED BY <1>2, <2>1, <2>2 DEF Blocks!End
  <1> HIDE DEF At
  <1>4. \A b \in Laid : b \in [at : Nat, size : Nat \ {0}] /\ \E i \in 1..N : b = At(i)
    BY <1>3
  <1>5. ASSUME NEW b \in Laid, NEW c \in Laid, b # c
        PROVE  Blocks!End(b) <= c.at \/ Blocks!End(c) <= b.at
    <2>1. PICK i \in 1..N : b = At(i)
      OBVIOUS
    <2>2. PICK j \in 1..N : c = At(j)
      OBVIOUS
    <2>3. i < j \/ j < i
      BY <1>1, <1>5, <2>1, <2>2
    <2>4. i \in 1..N+1 /\ j \in 1..N+1
      BY <1>1
    <2> QED BY <1>2, <1>3, <2>1, <2>2, <2>3, <2>4
  <1>6. ASSUME NEW b \in Laid PROVE Blocks!End(b) <= ArgAt[N+1]
    <2>1. PICK i \in 1..N : b = At(i)
      OBVIOUS
    <2>2. i < N + 1 /\ N + 1 \in 1..N+1
      BY <1>1
    <2> QED BY <1>2, <1>3, <2>1, <2>2
  <1>7. ArgAt[N+1] \in Nat
    BY <1>1, <1>2
  <1> QED BY <1>1, <1>4, <1>5, <1>6, <1>7 DEF Blocks!Layout, Blocks!Block, Blocks!Apart, At, N

\* malloc, realloc and free, called by any number of threads and by handlers on
\* top of them, keep what HeapPartition promises: no byte is in two blocks, and
\* the heap grows only when no free block serves.
THEOREM HeapIsPartition == Spec => IsPartition
  <1>1. Init => Blocks!PInit
    BY InitView
  <1>2. IInv /\ [Next]_vars => [Blocks!PNext]_(Blocks!pvars)
    BY NextView
  <1> QED BY <1>1, <1>2, IInvHolds, SpecSteps, PTL DEF IsPartition, Blocks!Partition

-----------------------------------------------------------------------------
(* What HeapPartition promises follows from its actions.                   *)

\* The partition of a heap with blocks u in use and f free below t.
Parted(u, f, t) ==
  /\ u \subseteq Blocks!Block /\ f \subseteq Blocks!Block /\ t \in Nat
  /\ \A b, c \in u \cup f : b # c => Blocks!Apart(b, c)
  /\ u \cap f = {}
  /\ \A b \in u \cup f : Blocks!End(b) <= t

\* Cutting a block in two leaves the pieces inside it, apart from each other.
LEMMA CutApart ==
    ASSUME NEW b \in Blocks!Block, NEW size \in Sizes, b.size > size + Header
    PROVE  LET head == Blocks!Part(b, size)
               rest == Blocks!Remainder(b, size)
           IN  /\ head \in Blocks!Block /\ rest \in Blocks!Block
               /\ head.at = b.at /\ b.at < rest.at /\ head # rest
               /\ Blocks!End(head) = rest.at /\ Blocks!End(rest) = Blocks!End(b)
  <1> DEFINE head == [at |-> b.at, size |-> size]
             rest == [at |-> b.at + Header + size, size |-> b.size - size - Header]
  <1>1. Blocks!Part(b, size) = head /\ Blocks!Remainder(b, size) = rest
    BY DEF Blocks!Block, Blocks!Part, Blocks!Remainder
  <1>2. b.at \in Nat /\ b.size \in Nat /\ size \in Nat \ {0} /\ Header \in Nat \ {0}
    BY UserHeapAssumption DEF Blocks!Block
  <1>3. head \in Blocks!Block /\ rest \in Blocks!Block
    BY <1>2 DEF Blocks!Block
  <1>4. Blocks!End(head) = rest.at /\ Blocks!End(rest) = Blocks!End(b)
    BY <1>2 DEF Blocks!End
  <1>5. b.at < rest.at /\ head.at = b.at /\ head # rest
    BY <1>2
  <1> QED BY <1>1, <1>3, <1>4, <1>5

\* What is apart from a block is apart from its pieces.
LEMMA InsideApart ==
    ASSUME NEW b \in Blocks!Block, NEW c \in Blocks!Block, NEW p \in Blocks!Block,
           Blocks!Apart(b, c), b.at <= p.at, Blocks!End(p) <= Blocks!End(b)
    PROVE  Blocks!Apart(p, c) /\ Blocks!Apart(c, p) /\ p # c
  BY UserHeapAssumption DEF Blocks!Apart, Blocks!End, Blocks!Block

\* Cutting a free block in two keeps the partition.
LEMMA PartKeeps ==
    ASSUME NEW u, NEW f, NEW t, Parted(u, f, t), NEW b \in f, NEW size \in Sizes,
           b.size > size + Header
    PROVE  Parted(u \cup {Blocks!Part(b, size)}, (f \ {b}) \cup {Blocks!Remainder(b, size)}, t)
  <1> DEFINE head == Blocks!Part(b, size)
             rest == Blocks!Remainder(b, size)
             Others == (u \cup f) \ {b}
             All == (u \cup {head}) \cup ((f \ {b}) \cup {rest})
  <1>1. b \in Blocks!Block /\ b \notin u /\ b \in u \cup f
    BY DEF Parted
  <1>2. /\ head \in Blocks!Block /\ rest \in Blocks!Block /\ head.at = b.at
        /\ Blocks!End(head) = rest.at /\ Blocks!End(rest) = Blocks!End(b)
        /\ b.at < rest.at /\ head # rest
    BY <1>1, CutApart
  <1> HIDE DEF head, rest
  <1>3. /\ b.at <= head.at /\ Blocks!End(head) <= Blocks!End(b)
        /\ b.at <= rest.at /\ Blocks!End(rest) <= Blocks!End(b)
    BY <1>1, <1>2, UserHeapAssumption DEF Blocks!Block, Blocks!End
  <1>4. \A c \in Others : /\ Blocks!Apart(head, c) /\ Blocks!Apart(c, head) /\ c # head
                          /\ Blocks!Apart(rest, c) /\ Blocks!Apart(c, rest) /\ c # rest
    <2> SUFFICES ASSUME NEW c \in Others
                 PROVE  /\ Blocks!Apart(head, c) /\ Blocks!Apart(c, head) /\ c # head
                        /\ Blocks!Apart(rest, c) /\ Blocks!Apart(c, rest) /\ c # rest
      OBVIOUS
    <2>1. c \in Blocks!Block /\ Blocks!Apart(b, c)
      BY <1>1 DEF Parted
    <2> QED BY <1>1, <1>2, <1>3, <2>1, InsideApart
  <1>5. Blocks!Apart(head, rest) /\ Blocks!Apart(rest, head)
    BY <1>2, UserHeapAssumption DEF Blocks!Apart, Blocks!Block, Blocks!End
  <1>6. All = Others \cup {head, rest}
    BY <1>1
  <1>7. \A c, e \in All : c # e => Blocks!Apart(c, e)
    <2>1. \A c, e \in Others : c # e => Blocks!Apart(c, e)
      BY DEF Parted
    <2> HIDE DEF Others, All
    <2> QED BY <1>4, <1>5, <1>6, <2>1
  <1>8. (u \cup {head}) \cap ((f \ {b}) \cup {rest}) = {}
    BY <1>1, <1>2, <1>4 DEF Parted
  <1>9. \A c \in All : Blocks!End(c) <= t
    <2>1. Blocks!End(b) <= t /\ Blocks!End(b) \in Nat /\ t \in Nat
      BY <1>1, UserHeapAssumption DEF Blocks!Block, Blocks!End, Parted
    <2>2. Blocks!End(head) <= t /\ Blocks!End(rest) <= t
      BY <1>2, <1>3, <2>1, UserHeapAssumption DEF Blocks!Block, Blocks!End
    <2>3. \A c \in Others : Blocks!End(c) <= t
      BY DEF Parted
    <2> HIDE DEF Others, All
    <2> QED BY <1>6, <2>2, <2>3
  <1>10. (u \cup {head}) \subseteq Blocks!Block /\ ((f \ {b}) \cup {rest}) \subseteq Blocks!Block /\ t \in Nat
    BY <1>2 DEF Parted
  <1> QED BY <1>7, <1>8, <1>9, <1>10 DEF Parted, head, rest

\* A block at the end of the heap keeps the partition.
LEMMA ExtendKeeps ==
    ASSUME NEW u, NEW f, NEW t, Parted(u, f, t), NEW size \in Sizes
    PROVE  Parted(u \cup {[at |-> t, size |-> size]}, f, t + Header + size)
  <1> DEFINE new == [at |-> t, size |-> size]
  <1>1. t \in Nat /\ size \in Nat \ {0} /\ Header \in Nat \ {0}
    BY UserHeapAssumption DEF Parted
  <1>2. new \in Blocks!Block /\ Blocks!End(new) = t + Header + size
    BY <1>1 DEF Blocks!Block, Blocks!End
  <1>3. \A b \in u \cup f : Blocks!Apart(b, new) /\ Blocks!Apart(new, b) /\ b # new
    BY <1>1, <1>2 DEF Blocks!Apart, Blocks!Block, Blocks!End, Parted
  <1>4. \A b \in (u \cup {new}) \cup f : Blocks!End(b) <= t + Header + size
    BY <1>1, <1>2 DEF Blocks!Block, Blocks!End, Parted
  <1> HIDE DEF new
  <1>5. \A b, c \in (u \cup {new}) \cup f : b # c => Blocks!Apart(b, c)
    BY <1>3 DEF Parted
  <1>6. (u \cup {new}) \cap f = {}
    BY <1>3 DEF Parted
  <1> QED BY <1>1, <1>2, <1>4, <1>5, <1>6 DEF Parted, new

\* Every step of HeapPartition keeps the partition.
LEMMA PartedStep ==
    ASSUME Parted(UsedOf(h), FreeOf(h), h.heap_start), [Blocks!PNext]_(Blocks!pvars)
    PROVE  Parted(UsedOf(h'), FreeOf(h'), h'.heap_start)
  <1>1. CASE \E x \in FreeOf(h) : Blocks!TakeWhole(x)
    BY <1>1, ViewSteps DEF Parted
  <1>2. CASE \E x \in FreeOf(h), size \in Sizes : Blocks!TakePart(x, size)
    BY <1>2, ViewSteps, PartKeeps
  <1>3. CASE \E size \in Sizes : Blocks!Extend(size)
    BY <1>3, ViewSteps, ExtendKeeps
  <1>4. CASE \E x \in UsedOf(h) : Blocks!Release(x)
    BY <1>4, ViewSteps DEF Parted
  <1>5. CASE UNCHANGED Blocks!pvars
    BY <1>5, Views DEF Blocks!pvars
  <1> QED BY <1>1, <1>2, <1>3, <1>4, <1>5, Views DEF Blocks!PNext

\* No byte of the heap belongs to two blocks, in use or free, and none lies
\* where the next new block begins: whatever is allocated, split and freed.
THEOREM PartitionBlocksApart == Blocks!Layout => (Blocks!Partition => []Blocks!BlocksApart)
  <1>1. Blocks!Layout /\ Blocks!PInit => Parted(UsedOf(h), FreeOf(h), h.heap_start)
    BY Views DEF Blocks!Layout, Blocks!PInit, Parted
  <1>2. Parted(UsedOf(h), FreeOf(h), h.heap_start) /\ [Blocks!PNext]_(Blocks!pvars)
          => Parted(UsedOf(h), FreeOf(h), h.heap_start)'
    BY PartedStep
  <1>3. Parted(UsedOf(h), FreeOf(h), h.heap_start) => Blocks!BlocksApart
    BY Views DEF Parted, Blocks!BlocksApart
  <1> QED BY <1>1, <1>2, <1>3, PTL DEF Blocks!Partition

\* The blocks of alloc.c never overlap, whoever calls it and whenever.
THEOREM BlocksNeverOverlap == Spec => []Blocks!BlocksApart
  BY HeapIsPartition, ArgumentsApart, PartitionBlocksApart DEF IsPartition
=============================================================================
