--------------------------- MODULE RunQueueProofs ---------------------------
(***************************************************************************)
(* Proofs about the ready structures of proc.c.  Every operation of        *)
(* ThreadGroups is shown to keep the structures consistent for any number  *)
(* of processes; the theorems about RunQueue follow.                       *)
(***************************************************************************)
EXTENDS RunQueue, TLAPS, Integers, FiniteSetTheorems, WellFoundedInduction

-----------------------------------------------------------------------------
(* Least elements, and what the two array idioms find.                     *)

\* Every nonempty set of naturals has a least member.
LEMMA LeastNat ==
  ASSUME NEW S, S \subseteq Nat, S # {}
  PROVE  \E m \in S : \A n \in S : m <= n
<1> DEFINE R == OpToRel(<, Nat)
<1>1. IsWellFoundedOn(R, Nat)
  BY NatLessThanWellFounded
<1>2. \A m, n \in Nat : <<n, m>> \in R <=> n < m
  BY DEF OpToRel
<1> HIDE DEF R
<1>3. PICK m \in S : \A n \in S : <<n, m>> \notin R
  BY <1>1, WFMin
<1>4. \A n \in S : ~(n < m)
  BY <1>2, <1>3
<1>5. \A n \in S : m <= n
  BY <1>4
<1> QED
  BY <1>5

\* Where the search for a hole of an array stops: a hole, or its end.
LEMMA FirstHoleIsHole ==
  ASSUME NEW size \in Nat, NEW X, NEW a \in [0..size-1 -> X]
  PROVE  /\ FirstHole(a, size) \in 0..size
         /\ FirstHole(a, size) < size => a[FirstHole(a, size)] = Nil
<1> DEFINE H == {i \in 0..size : i < size => a[i] = Nil}
<1>1. size \in H
  OBVIOUS
<1>2. \A i \in H : i \in 0..size /\ (i < size => a[i] = Nil)
  OBVIOUS
<1>3. \A i \in 0..size : (i < size /\ a[i] = Nil) => i \in H
  OBVIOUS
<1> HIDE DEF H
<1>4. PICK m \in H : \A n \in H : m <= n
  <2>1. H \subseteq Nat /\ H # {}
    BY <1>1, <1>2
  <2> QED
    BY <2>1, LeastNat
<1>5. \A j \in 0..m-1 : a[j] # Nil
  BY <1>2, <1>3, <1>4
<1>6. IsFirstHole(a, size, m)
  BY <1>2, <1>4, <1>5 DEF IsFirstHole
<1>7. IsFirstHole(a, size, FirstHole(a, size)) /\ FirstHole(a, size) \in 0..size
  BY <1>2, <1>4, <1>6 DEF FirstHole
<1> QED
  BY <1>7 DEF IsFirstHole

\* The circular search of an array finds a member whenever there is one.
LEMMA FirstFromFinds ==
  ASSUME NEW size \in Nat, NEW from \in 0..size, NEW S, S \subseteq 0..size-1, S # {}
  PROVE  FirstFrom(from, size, S) \in S
<1> DEFINE R == {Distance(from, size, i) : i \in S}
<1>1. R \subseteq Nat /\ R # {}
  <2>1. \A i \in S : Distance(from, size, i) \in Nat
    BY DEF Distance
  <2> QED
    BY <2>1
<1>2. PICK d \in R : \A e \in R : d <= e
  <2> HIDE DEF R
  <2> QED
    BY <1>1, LeastNat
<1>3. PICK i \in S : \A j \in S : Distance(from, size, i) <= Distance(from, size, j)
  BY <1>2
<1> QED
  BY <1>3 DEF FirstFrom

\* Storing in the hole found, or after the end, keeps the array an array.
LEMMA StoreIs ==
  ASSUME NEW size \in Nat, NEW X, NEW a \in [0..size-1 -> X], NEW x \in X,
         NEW i \in 0..size
  PROVE  /\ SizeWith(size, i) \in Nat
         /\ i \in 0..SizeWith(size, i)-1
         /\ size <= SizeWith(size, i)
         /\ Store(a, size, i, x) \in [0..SizeWith(size, i)-1 -> X]
         /\ Store(a, size, i, x)[i] = x
         /\ \A j \in 0..size-1 : j # i => Store(a, size, i, x)[j] = a[j]
         /\ \A j \in 0..SizeWith(size, i)-1 : j # i => j \in 0..size-1
  BY DEF Store, SizeWith

-----------------------------------------------------------------------------
(* The invariant of a kernel state.                                        *)

Fields == { "status", "group", "queue_idx", "priority", "queue", "queue_size",
            "pointer", "ready_count", "proc_count", "gid", "groups",
            "groups_size", "groups_ptr", "killed", "killed_size" }

WellShaped(k) ==
    /\ k = [x \in DOMAIN k |-> k[x]]
    /\ Fields \subseteq DOMAIN k
    /\ k.queue = [g \in Proc |-> k.queue[g]]

KInv(k) == WellShaped(k) /\ GroupsTypeOK(k) /\ RunQueueConsistent(k)

\* The slots of a queue hold different threads: there are at most
\* Cardinality(Proc) of them, so that ready_count cannot wrap.
LEMMA OccupiedBounded ==
  ASSUME NEW k, KInv(k), NEW g \in Proc
  PROVE  /\ IsFiniteSet(Occupied(k, g))
         /\ Cardinality(Occupied(k, g)) \in Nat
         /\ Cardinality(Occupied(k, g)) < UINT_MAX
<1> DEFINE f == [i \in Occupied(k, g) |-> k.queue[g][i]]
<1>1. k.queue[g] \in [0..k.queue_size[g]-1 -> Proc \cup {Nil}] /\ k.queue_size[g] \in Nat
  BY DEF KInv, GroupsTypeOK
<1>2. f \in [Occupied(k, g) -> Proc]
  BY <1>1 DEF Occupied
<1>3. \A i, j \in Occupied(k, g) : f[i] = f[j] => i = j
  BY DEF KInv, RunQueueConsistent, SlotHasReady, Occupied
<1>4. f \in Injection(Occupied(k, g), Proc)
  BY <1>2, <1>3 DEF Injection, IsInjective
<1> HIDE DEF f
<1>5. IsFiniteSet(Occupied(k, g)) /\ Cardinality(Occupied(k, g)) <= Cardinality(Proc)
  BY <1>4, FS_Injection, ProcAssumption
<1> QED
  BY <1>5, FS_CardinalityType, ProcAssumption, UIntAssumption

\* The fields that process_ready_insert assigns.
LEMMA ReadyInsertFields ==
  ASSUME NEW k, WellShaped(k), NEW p \in Proc, NEW g \in Proc, k.group[p] = g
  PROVE  LET r == ReadyInsert(k, p)
             i == FirstHole(k.queue[g], k.queue_size[g])
         IN  /\ WellShaped(r)
             /\ r.status = [k.status EXCEPT ![p] = "READY"]
             /\ r.queue_idx = [k.queue_idx EXCEPT ![p] = i]
             /\ r.ready_count = [k.ready_count EXCEPT ![g] = UIncr(@)]
             /\ r.queue = [k.queue EXCEPT ![g] = Store(@, k.queue_size[g], i, p)]
             /\ r.queue_size = [k.queue_size EXCEPT ![g] = SizeWith(@, i)]
             /\ r.group = k.group /\ r.priority = k.priority /\ r.pointer = k.pointer
             /\ r.proc_count = k.proc_count /\ r.gid = k.gid
             /\ r.groups = k.groups /\ r.groups_size = k.groups_size
             /\ r.groups_ptr = k.groups_ptr
             /\ r.killed = k.killed /\ r.killed_size = k.killed_size
  BY ZenonT(60) DEF WellShaped, Fields, ReadyInsert

\* process_ready_insert of a process that is in no queue keeps the queues sound.
LEMMA ReadyInsertKeeps ==
  ASSUME NEW k, KInv(k), NEW p \in Proc, k.group[p] \in Proc,
         k.status[p] \notin {"READY", "DEAD"}
  PROVE  KInv(ReadyInsert(k, p))
<1> DEFINE g == k.group[p]
           n == k.queue_size[g]
           i == FirstHole(k.queue[g], n)
           r == ReadyInsert(k, p)
<1> SUFFICES KInv(r)
  OBVIOUS
<1>1. g \in Proc /\ g = k.group[p]
  OBVIOUS
<1>2. /\ WellShaped(r)
      /\ r.status = [k.status EXCEPT ![p] = "READY"]
      /\ r.queue_idx = [k.queue_idx EXCEPT ![p] = i]
      /\ r.ready_count = [k.ready_count EXCEPT ![g] = UIncr(@)]
      /\ r.queue = [k.queue EXCEPT ![g] = Store(@, n, i, p)]
      /\ r.queue_size = [k.queue_size EXCEPT ![g] = SizeWith(@, i)]
      /\ r.group = k.group /\ r.priority = k.priority /\ r.pointer = k.pointer
      /\ r.proc_count = k.proc_count /\ r.gid = k.gid
      /\ r.groups = k.groups /\ r.groups_size = k.groups_size
      /\ r.groups_ptr = k.groups_ptr
      /\ r.killed = k.killed /\ r.killed_size = k.killed_size
  BY ReadyInsertFields DEF KInv
<1>3. /\ n \in Nat
      /\ k.queue[g] \in [0..n-1 -> Proc \cup {Nil}]
      /\ i \in 0..n
      /\ i < n => k.queue[g][i] = Nil
  <2>1. n \in Nat /\ k.queue[g] \in [0..n-1 -> Proc \cup {Nil}]
    BY DEF KInv, GroupsTypeOK
  <2> QED
    BY <2>1, FirstHoleIsHole
<1>4. /\ SizeWith(n, i) \in Nat
      /\ i \in 0..SizeWith(n, i)-1
      /\ n <= SizeWith(n, i)
      /\ Store(k.queue[g], n, i, p) \in [0..SizeWith(n, i)-1 -> Proc \cup {Nil}]
      /\ Store(k.queue[g], n, i, p)[i] = p
      /\ \A j \in 0..n-1 : j # i => Store(k.queue[g], n, i, p)[j] = k.queue[g][j]
      /\ \A j \in 0..SizeWith(n, i)-1 : j # i => j \in 0..n-1
  <2> DEFINE X == Proc \cup {Nil}
  <2>1. p \in X /\ k.queue[g] \in [0..n-1 -> X]
    BY <1>3
  <2> SUFFICES /\ SizeWith(n, i) \in Nat
               /\ i \in 0..SizeWith(n, i)-1
               /\ n <= SizeWith(n, i)
               /\ Store(k.queue[g], n, i, p) \in [0..SizeWith(n, i)-1 -> X]
               /\ Store(k.queue[g], n, i, p)[i] = p
               /\ \A j \in 0..n-1 : j # i => Store(k.queue[g], n, i, p)[j] = k.queue[g][j]
               /\ \A j \in 0..SizeWith(n, i)-1 : j # i => j \in 0..n-1
    OBVIOUS
  <2> HIDE DEF n, i, g, X
  <2> QED
    BY <1>3, <2>1, StoreIs
<1>5. k.ready_count[g] = Cardinality(Occupied(k, g))
  BY DEF KInv, RunQueueConsistent, ReadyCounted
<1>6. /\ k.queue = [h \in Proc |-> k.queue[h]]
      /\ k.status \in [Proc -> Status]
      /\ k.queue_idx \in [Proc -> Nat]
      /\ k.queue_size \in [Proc -> Nat]
      /\ k.ready_count \in [Proc -> 0..UINT_MAX]
  BY DEF KInv, GroupsTypeOK, WellShaped
<1>7. /\ IsFiniteSet(Occupied(k, g))
      /\ Cardinality(Occupied(k, g)) \in Nat
      /\ Cardinality(Occupied(k, g)) < UINT_MAX
  BY OccupiedBounded
<1> HIDE DEF r, i, n, g
<1>8. r.queue[g] = Store(k.queue[g], n, i, p) /\ r.queue_size[g] = SizeWith(n, i)
  BY <1>1, <1>2, <1>6 DEF n
<1>9. \A h \in Proc : h # g => r.queue[h] = k.queue[h] /\ r.queue_size[h] = k.queue_size[h]
  BY <1>1, <1>2, <1>6
<1>10. GroupsTypeOK(r)
  <2>1. r.status \in [Proc -> Status]
    BY <1>2, <1>6 DEF Status
  <2>2. r.queue_idx \in [Proc -> Nat] /\ r.queue_size \in [Proc -> Nat]
    <3>1. i \in Nat /\ SizeWith(n, i) \in Nat
      BY <1>3, <1>4
    <3> QED
      BY <3>1, <1>1, <1>2, <1>6 DEF n
  <2>3. \A h \in Proc : r.queue[h] \in [0..r.queue_size[h]-1 -> Proc \cup {Nil}]
    <3>1. r.queue[g] \in [0..r.queue_size[g]-1 -> Proc \cup {Nil}]
      BY <1>4, <1>8
    <3>2. \A h \in Proc : k.queue[h] \in [0..k.queue_size[h]-1 -> Proc \cup {Nil}]
      BY DEF KInv, GroupsTypeOK
    <3> QED
      BY <3>1, <3>2, <1>9
  <2>4. \A h \in Proc : r.pointer[h] <= r.queue_size[h]
    <3>1. \A h \in Proc : k.pointer[h] \in Nat /\ k.pointer[h] <= k.queue_size[h]
      BY DEF KInv, GroupsTypeOK
    <3>2. k.pointer[g] <= n
      BY <3>1, <1>1 DEF n
    <3>3. r.pointer[g] <= r.queue_size[g]
      <4>1. r.pointer[g] = k.pointer[g] /\ k.pointer[g] \in Nat /\ r.queue_size[g] = SizeWith(n, i)
        BY <3>1, <1>1, <1>2, <1>8
      <4>2. n \in Nat /\ SizeWith(n, i) \in Nat /\ n <= SizeWith(n, i)
        BY <1>3, <1>4
      <4> QED
        BY <3>2, <4>1, <4>2
    <3> QED
      BY <3>1, <3>3, <1>2, <1>9
  <2>5. r.ready_count \in [Proc -> 0..UINT_MAX]
    <3>1. UIncr(k.ready_count[g]) \in 0..UINT_MAX
      BY <1>5, <1>7, UIntAssumption DEF UIncr
    <3> QED
      BY <3>1, <1>1, <1>2, <1>6
  <2> QED
    BY <1>2, <2>1, <2>2, <2>3, <2>4, <2>5 DEF KInv, GroupsTypeOK
<1>11. ReadyHasSlot(r)
  <2> SUFFICES ASSUME NEW q \in Proc, r.status[q] = "READY"
               PROVE  /\ r.group[q] \in Proc
                      /\ r.queue_idx[q] \in 0..r.queue_size[r.group[q]]-1
                      /\ r.queue[r.group[q]][r.queue_idx[q]] = q
    BY DEF ReadyHasSlot
  <2>1. CASE q = p
    <3>1. r.group[q] = g /\ r.queue_idx[q] = i
      BY <2>1, <1>1, <1>2, <1>6
    <3> QED
      BY <2>1, <3>1, <1>1, <1>4, <1>8
  <2>2. CASE q # p
    <3>1. /\ k.status[q] = "READY"
          /\ k.queue_idx[q] = r.queue_idx[q]
      BY <2>2, <1>2, <1>6
    <3>2. /\ k.group[q] \in Proc
          /\ k.queue_idx[q] \in 0..k.queue_size[k.group[q]]-1
          /\ k.queue[k.group[q]][k.queue_idx[q]] = q
      BY <3>1 DEF KInv, RunQueueConsistent, ReadyHasSlot
    <3>3. CASE k.group[q] = g
      <4>1. k.queue_idx[q] \in 0..n-1 /\ k.queue[g][k.queue_idx[q]] = q
        BY <3>2, <3>3 DEF n
      <4>2. k.queue_idx[q] # i
        BY <4>1, <1>3, NilAssumption
      <4> QED
        <5> DEFINE j == k.queue_idx[q]
        <5>1. /\ r.queue[g] = Store(k.queue[g], n, i, p) /\ r.queue_size[g] = SizeWith(n, i)
              /\ r.group[q] = g /\ r.queue_idx[q] = j
          BY <3>1, <3>3, <1>2, <1>8
        <5>2. j \in 0..n-1 /\ j # i /\ k.queue[g][j] = q
          BY <4>1, <4>2
        <5> HIDE DEF j
        <5>3. Store(k.queue[g], n, i, p)[j] = q
          BY <5>2, <1>4
        <5>4. j \in 0..SizeWith(n, i)-1
          BY <5>2, <1>3, <1>4
        <5> QED
          BY <5>1, <5>3, <5>4, <1>1
    <3>4. CASE k.group[q] # g
      BY <3>1, <3>2, <3>4, <1>2, <1>9
    <3> QED
      BY <3>3, <3>4
  <2> QED
    BY <2>1, <2>2
<1>12. SlotHasReady(r)
  <2> SUFFICES ASSUME NEW h \in Proc, NEW j \in 0..r.queue_size[h]-1, r.queue[h][j] # Nil
               PROVE  LET q == r.queue[h][j]
                      IN  r.status[q] = "READY" /\ r.group[q] = h /\ r.queue_idx[q] = j
    BY DEF SlotHasReady
  <2>1. CASE h = g /\ j = i
    <3>1. r.queue[h][j] = p
      BY <2>1, <1>4, <1>8
    <3>2. r.status[p] = "READY" /\ r.group[p] = g /\ r.queue_idx[p] = i
      BY <1>1, <1>2, <1>6
    <3> QED
      BY <2>1, <3>1, <3>2
  <2>2. CASE ~(h = g /\ j = i)
    <3>1. j \in 0..k.queue_size[h]-1 /\ r.queue[h][j] = k.queue[h][j]
      BY <2>2, <1>4, <1>8, <1>9 DEF n
    <3>2. PICK q \in Proc : q = k.queue[h][j]
      <4>1. k.queue[h] \in [0..k.queue_size[h]-1 -> Proc \cup {Nil}]
        BY DEF KInv, GroupsTypeOK
      <4> QED
        BY <3>1, <4>1
    <3>3. k.status[q] = "READY" /\ k.group[q] = h /\ k.queue_idx[q] = j
      BY <3>1, <3>2, NilAssumption DEF KInv, RunQueueConsistent, SlotHasReady
    <3>4. q # p
      BY <3>3
    <3> QED
      BY <3>1, <3>2, <3>3, <3>4, <1>2, <1>6
  <2> QED
    BY <2>1, <2>2
<1>13. ReadyCounted(r)
  <2> SUFFICES ASSUME NEW h \in Proc
               PROVE  r.ready_count[h] = Cardinality(Occupied(r, h))
    BY DEF ReadyCounted
  <2>1. CASE h # g
    <3>1. Occupied(r, h) = Occupied(k, h)
      BY <2>1, <1>9 DEF Occupied
    <3> QED
      BY <2>1, <3>1, <1>2, <1>6 DEF KInv, RunQueueConsistent, ReadyCounted
  <2>2. CASE h = g
    <3>1. i \notin Occupied(k, g)
      BY <1>3 DEF Occupied, n
    <3>2. Occupied(r, g) = Occupied(k, g) \cup {i}
      <4>1. ASSUME NEW j \in Occupied(r, g), j # i
            PROVE  j \in Occupied(k, g)
        BY <4>1, <1>4, <1>8 DEF Occupied, n
      <4>2. ASSUME NEW j \in Occupied(k, g)
            PROVE  j \in Occupied(r, g)
        BY <4>2, <3>1, <1>3, <1>4, <1>8 DEF Occupied, n
      <4>3. i \in Occupied(r, g)
        BY <1>4, <1>8, NilAssumption DEF Occupied
      <4> QED
        BY <4>1, <4>2, <4>3
    <3>3. Cardinality(Occupied(r, g)) = Cardinality(Occupied(k, g)) + 1
      BY <3>1, <3>2, <1>7, FS_AddElement
    <3>4. r.ready_count[g] = UIncr(k.ready_count[g])
      BY <1>1, <1>2, <1>6
    <3> QED
      BY <2>2, <3>3, <3>4, <1>5, <1>7 DEF UIncr
  <2> QED
    BY <2>1, <2>2
<1>14. KilledAreDead(r)
  <2>1. \A q \in Proc : k.status[q] = "DEAD" =>
          r.status[q] = "DEAD" /\ r.queue_idx[q] = k.queue_idx[q]
    BY <1>2, <1>6
  <2>2. \A j \in 0..k.killed_size-1 : k.killed[j] # Nil => k.killed[j] \in Proc
    BY DEF KInv, GroupsTypeOK
  <2> QED
    BY <2>1, <2>2, <1>2 DEF KInv, RunQueueConsistent, KilledAreDead
<1>15. HaveGroup(r)
  BY <1>1, <1>2, <1>6 DEF KInv, RunQueueConsistent, HaveGroup, g
<1> QED
  BY <1>2, <1>10, <1>11, <1>12, <1>13, <1>14, <1>15 DEF KInv, RunQueueConsistent

-----------------------------------------------------------------------------
(* ready_remove, with the status its caller stores next.                   *)

Suspend(k, p, s) == [ReadyRemove(k, p) EXCEPT !.status[p] = s]

\* The fields that taking a process from its queue assigns.
LEMMA SuspendFields ==
  ASSUME NEW k, WellShaped(k), NEW p \in Proc, NEW g \in Proc, k.group[p] = g, NEW s
  PROVE  LET r == Suspend(k, p, s)
         IN  /\ WellShaped(r)
             /\ r.status = [k.status EXCEPT ![p] = s]
             /\ r.ready_count = [k.ready_count EXCEPT ![g] = UDecr(@)]
             /\ r.queue = [k.queue EXCEPT ![g] = [@ EXCEPT ![k.queue_idx[p]] = Nil]]
             /\ r.queue_idx = k.queue_idx /\ r.queue_size = k.queue_size
             /\ r.group = k.group /\ r.priority = k.priority /\ r.pointer = k.pointer
             /\ r.proc_count = k.proc_count /\ r.gid = k.gid
             /\ r.groups = k.groups /\ r.groups_size = k.groups_size
             /\ r.groups_ptr = k.groups_ptr
             /\ r.killed = k.killed /\ r.killed_size = k.killed_size
  BY DEF WellShaped, Fields, Suspend, ReadyRemove

\* Taking a ready process from its queue under a new status keeps the queues sound.
LEMMA SuspendKeeps ==
  ASSUME NEW k, KInv(k), NEW p \in Proc, k.status[p] = "READY",
         NEW s \in {"WAIT", "SLEEP", "DEAD"}
  PROVE  KInv(Suspend(k, p, s))
<1> DEFINE g == k.group[p]
           n == k.queue_size[g]
           i == k.queue_idx[p]
           r == Suspend(k, p, s)
<1> SUFFICES KInv(r)
  OBVIOUS
<1>1. /\ g \in Proc /\ g = k.group[p]
      /\ i \in 0..n-1
      /\ k.queue[g][i] = p
  BY DEF KInv, RunQueueConsistent, ReadyHasSlot
<1>2. /\ WellShaped(r)
      /\ r.status = [k.status EXCEPT ![p] = s]
      /\ r.ready_count = [k.ready_count EXCEPT ![g] = UDecr(@)]
      /\ r.queue = [k.queue EXCEPT ![g] = [@ EXCEPT ![i] = Nil]]
      /\ r.queue_idx = k.queue_idx /\ r.queue_size = k.queue_size
      /\ r.group = k.group /\ r.priority = k.priority /\ r.pointer = k.pointer
      /\ r.proc_count = k.proc_count /\ r.gid = k.gid
      /\ r.groups = k.groups /\ r.groups_size = k.groups_size
      /\ r.groups_ptr = k.groups_ptr
      /\ r.killed = k.killed /\ r.killed_size = k.killed_size
  BY <1>1, SuspendFields DEF KInv
<1>3. /\ n \in Nat
      /\ k.queue[g] \in [0..n-1 -> Proc \cup {Nil}]
  BY <1>1 DEF KInv, GroupsTypeOK
<1>4. /\ k.queue = [h \in Proc |-> k.queue[h]]
      /\ k.status \in [Proc -> Status]
      /\ k.ready_count \in [Proc -> 0..UINT_MAX]
  BY DEF KInv, GroupsTypeOK, WellShaped
<1>5. k.ready_count[g] = Cardinality(Occupied(k, g))
  BY <1>1 DEF KInv, RunQueueConsistent, ReadyCounted
<1>6. IsFiniteSet(Occupied(k, g)) /\ Cardinality(Occupied(k, g)) \in Nat
  BY <1>1, OccupiedBounded
<1> HIDE DEF r, i, n, g
<1>7. r.queue[g] = [k.queue[g] EXCEPT ![i] = Nil]
  BY <1>1, <1>2, <1>4
<1>8. /\ r.queue[g] \in [0..n-1 -> Proc \cup {Nil}]
      /\ r.queue[g][i] = Nil
      /\ \A j \in 0..n-1 : j # i => r.queue[g][j] = k.queue[g][j]
  BY <1>1, <1>3, <1>7
<1>9. \A h \in Proc : h # g => r.queue[h] = k.queue[h]
  BY <1>1, <1>2, <1>4
<1>10. i \in Occupied(k, g) /\ Occupied(r, g) = Occupied(k, g) \ {i}
  <2>1. i \in Occupied(k, g)
    BY <1>1, NilAssumption DEF Occupied, n
  <2>2. \A j \in 0..n-1 : r.queue[g][j] # Nil <=> (k.queue[g][j] # Nil /\ j # i)
    BY <1>8
  <2> QED
    BY <2>1, <2>2, <1>2 DEF Occupied, n
<1>11. Cardinality(Occupied(r, g)) = Cardinality(Occupied(k, g)) - 1
  BY <1>6, <1>10, FS_RemoveElement
<1>12. Cardinality(Occupied(k, g)) # 0
  BY <1>6, <1>10, FS_EmptySet
<1>13. r.ready_count[g] = Cardinality(Occupied(r, g))
  <2>1. r.ready_count[g] = UDecr(k.ready_count[g])
    BY <1>1, <1>2, <1>4
  <2> QED
    BY <2>1, <1>5, <1>6, <1>11, <1>12 DEF UDecr
<1>14. GroupsTypeOK(r)
  <2>1. r.status \in [Proc -> Status]
    BY <1>2, <1>4 DEF Status
  <2>2. \A h \in Proc : r.queue[h] \in [0..r.queue_size[h]-1 -> Proc \cup {Nil}]
    <3>1. \A h \in Proc : k.queue[h] \in [0..k.queue_size[h]-1 -> Proc \cup {Nil}]
      BY DEF KInv, GroupsTypeOK
    <3> QED
      BY <3>1, <1>2, <1>8, <1>9 DEF n
  <2>3. r.ready_count \in [Proc -> 0..UINT_MAX]
    <3>1. UDecr(k.ready_count[g]) \in 0..UINT_MAX
      BY <1>1, <1>4, UIntAssumption DEF UDecr
    <3> QED
      BY <3>1, <1>1, <1>2, <1>4
  <2> QED
    BY <1>2, <2>1, <2>2, <2>3 DEF KInv, GroupsTypeOK
<1>15. ReadyHasSlot(r)
  <2> SUFFICES ASSUME NEW q \in Proc, r.status[q] = "READY"
               PROVE  /\ r.group[q] \in Proc
                      /\ r.queue_idx[q] \in 0..r.queue_size[r.group[q]]-1
                      /\ r.queue[r.group[q]][r.queue_idx[q]] = q
    BY DEF ReadyHasSlot
  <2>1. q # p /\ k.status[q] = "READY"
    BY <1>2, <1>4
  <2>2. /\ k.group[q] \in Proc
        /\ k.queue_idx[q] \in 0..k.queue_size[k.group[q]]-1
        /\ k.queue[k.group[q]][k.queue_idx[q]] = q
    BY <2>1 DEF KInv, RunQueueConsistent, ReadyHasSlot
  <2>3. CASE k.group[q] = g
    <3>1. k.queue_idx[q] # i
      BY <2>1, <2>2, <2>3, <1>1
    <3> QED
      BY <2>2, <2>3, <3>1, <1>2, <1>8 DEF n
  <2>4. CASE k.group[q] # g
    BY <2>2, <2>4, <1>2, <1>9
  <2> QED
    BY <2>3, <2>4
<1>16. SlotHasReady(r)
  <2> SUFFICES ASSUME NEW h \in Proc, NEW j \in 0..r.queue_size[h]-1, r.queue[h][j] # Nil
               PROVE  LET q == r.queue[h][j]
                      IN  r.status[q] = "READY" /\ r.group[q] = h /\ r.queue_idx[q] = j
    BY DEF SlotHasReady
  <2>1. j \in 0..k.queue_size[h]-1 /\ ~(h = g /\ j = i) /\ r.queue[h][j] = k.queue[h][j]
    BY <1>2, <1>8, <1>9 DEF n
  <2>2. PICK q \in Proc : q = k.queue[h][j]
    <3>1. k.queue[h] \in [0..k.queue_size[h]-1 -> Proc \cup {Nil}]
      BY DEF KInv, GroupsTypeOK
    <3> QED
      BY <2>1, <3>1
  <2>3. k.status[q] = "READY" /\ k.group[q] = h /\ k.queue_idx[q] = j
    BY <2>1, <2>2, NilAssumption DEF KInv, RunQueueConsistent, SlotHasReady
  <2>4. q # p
    BY <2>1, <2>3 DEF g, i
  <2> QED
    BY <2>1, <2>2, <2>3, <2>4, <1>2, <1>4
<1>17. ReadyCounted(r)
  <2> SUFFICES ASSUME NEW h \in Proc, h # g
               PROVE  r.ready_count[h] = Cardinality(Occupied(r, h))
    BY <1>13 DEF ReadyCounted
  <2>1. Occupied(r, h) = Occupied(k, h)
    BY <1>2, <1>9 DEF Occupied
  <2> QED
    BY <2>1, <1>2, <1>4 DEF KInv, RunQueueConsistent, ReadyCounted
<1>18. KilledAreDead(r)
  <2>1. \A q \in Proc : k.status[q] = "DEAD" => r.status[q] = "DEAD"
    BY <1>2, <1>4
  <2>2. \A j \in 0..k.killed_size-1 : k.killed[j] # Nil => k.killed[j] \in Proc
    BY DEF KInv, GroupsTypeOK
  <2> QED
    BY <2>1, <2>2, <1>2 DEF KInv, RunQueueConsistent, KilledAreDead
<1>19. HaveGroup(r)
  BY <1>1, <1>2, <1>4 DEF KInv, RunQueueConsistent, HaveGroup, g
<1> QED
  BY <1>2, <1>14, <1>15, <1>16, <1>17, <1>18, <1>19 DEF KInv, RunQueueConsistent

-----------------------------------------------------------------------------
(* The killed list.                                                        *)

\* Operations that leave the queues and the threads in them alone.
LEMMA SameQueuesKeep ==
  ASSUME NEW k, KInv(k), NEW r, WellShaped(r), GroupsTypeOK(r), KilledAreDead(r),
         r.queue = k.queue, r.queue_size = k.queue_size, r.ready_count = k.ready_count,
         \A q \in Proc : /\ r.status[q] = "READY" <=> k.status[q] = "READY"
                         /\ k.status[q] = "READY" => /\ r.group[q] = k.group[q]
                                                     /\ r.queue_idx[q] = k.queue_idx[q]
                         /\ r.status[q] # "INVALID" => r.group[q] \in Proc
  PROVE  KInv(r)
<1>1. ReadyHasSlot(r)
  BY DEF KInv, RunQueueConsistent, ReadyHasSlot
<1>2. SlotHasReady(r)
  <2>1. \A g \in Proc : \A i \in 0..k.queue_size[g]-1 :
           k.queue[g][i] # Nil => k.queue[g][i] \in Proc
    <3>1. \A g \in Proc : k.queue[g] \in [0..k.queue_size[g]-1 -> Proc \cup {Nil}]
      BY DEF KInv, GroupsTypeOK
    <3> QED
      BY <3>1, ZenonT(60)
  <2> QED
    BY <2>1 DEF KInv, RunQueueConsistent, SlotHasReady
<1>3. ReadyCounted(r)
  <2>1. \A g \in Proc : Occupied(r, g) = Occupied(k, g)
    BY DEF Occupied
  <2> QED
    BY <2>1 DEF KInv, RunQueueConsistent, ReadyCounted
<1>4. HaveGroup(r)
  BY DEF HaveGroup
<1> QED
  BY <1>1, <1>2, <1>3, <1>4 DEF KInv, RunQueueConsistent

\* Putting a dead process among the killed keeps the queues sound.
LEMMA KilledInsertKeeps ==
  ASSUME NEW k, KInv(k), NEW p \in Proc, k.status[p] = "DEAD",
         \A j \in 0..k.killed_size-1 : k.killed[j] # p
  PROVE  KInv(KilledInsert(k, p))
<1> DEFINE n == k.killed_size
           i == FirstHole(k.killed, n)
           r == KilledInsert(k, p)
           X == Proc \cup {Nil}
<1> SUFFICES KInv(r)
  OBVIOUS
<1>1. /\ WellShaped(r)
      /\ r.status = [k.status EXCEPT ![p] = "DEAD"]
      /\ r.queue_idx = [k.queue_idx EXCEPT ![p] = i]
      /\ r.killed = Store(k.killed, n, i, p)
      /\ r.killed_size = SizeWith(n, i)
      /\ r.queue = k.queue /\ r.queue_size = k.queue_size /\ r.ready_count = k.ready_count
      /\ r.group = k.group /\ r.priority = k.priority /\ r.pointer = k.pointer
      /\ r.proc_count = k.proc_count /\ r.gid = k.gid
      /\ r.groups = k.groups /\ r.groups_size = k.groups_size
      /\ r.groups_ptr = k.groups_ptr
  BY DEF KInv, WellShaped, Fields, KilledInsert
<1>2. n \in Nat /\ k.killed \in [0..n-1 -> X] /\ p \in X
  BY DEF KInv, GroupsTypeOK
<1>3. k.status \in [Proc -> Status] /\ k.queue_idx \in [Proc -> Nat]
  BY DEF KInv, GroupsTypeOK
<1>4. \A j \in 0..n-1 : k.killed[j] # Nil => /\ k.status[k.killed[j]] = "DEAD"
                                             /\ k.queue_idx[k.killed[j]] = j
  BY DEF KInv, RunQueueConsistent, KilledAreDead
<1> HIDE DEF r, i, n, X
<1>5. /\ i \in 0..n
      /\ SizeWith(n, i) \in Nat
      /\ Store(k.killed, n, i, p) \in [0..SizeWith(n, i)-1 -> X]
      /\ Store(k.killed, n, i, p)[i] = p
      /\ \A j \in 0..n-1 : j # i => Store(k.killed, n, i, p)[j] = k.killed[j]
      /\ \A j \in 0..SizeWith(n, i)-1 : j # i => j \in 0..n-1
  <2>1. i \in 0..n
    BY <1>2, FirstHoleIsHole DEF i
  <2> DEFINE a == k.killed
  <2>2. n \in Nat /\ a \in [0..n-1 -> X] /\ p \in X /\ i \in 0..n
    BY <1>2, <2>1
  <2> HIDE DEF a
  <2>3. /\ SizeWith(n, i) \in Nat
        /\ i \in 0..SizeWith(n, i)-1
        /\ n <= SizeWith(n, i)
        /\ Store(a, n, i, p) \in [0..SizeWith(n, i)-1 -> X]
        /\ Store(a, n, i, p)[i] = p
        /\ \A j \in 0..n-1 : j # i => Store(a, n, i, p)[j] = a[j]
        /\ \A j \in 0..SizeWith(n, i)-1 : j # i => j \in 0..n-1
    BY <2>2, StoreIs
  <2> QED
    BY <2>2, <2>3 DEF a
<1>6. GroupsTypeOK(r)
  <2>1. r.status \in [Proc -> Status] /\ r.queue_idx \in [Proc -> Nat]
    BY <1>1, <1>3, <1>5 DEF Status
  <2>2. r.killed_size \in Nat /\ r.killed \in [0..r.killed_size-1 -> Proc \cup {Nil}]
    BY <1>1, <1>5 DEF X
  <2> QED
    BY <1>1, <2>1, <2>2 DEF KInv, GroupsTypeOK
<1>7. KilledAreDead(r)
  <2> SUFFICES ASSUME NEW j \in 0..r.killed_size-1, r.killed[j] # Nil
               PROVE  r.status[r.killed[j]] = "DEAD" /\ r.queue_idx[r.killed[j]] = j
    BY DEF KilledAreDead
  <2>1. CASE j = i
    BY <2>1, <1>1, <1>3, <1>5
  <2>2. CASE j # i
    <3>1. j \in 0..n-1 /\ r.killed[j] = k.killed[j]
      BY <2>2, <1>1, <1>5
    <3>2. PICK q \in Proc : q = k.killed[j]
      BY <3>1, <1>2 DEF X
    <3>3. q # p
      BY <3>1, <3>2 DEF n
    <3> QED
      BY <3>1, <3>2, <3>3, <1>1, <1>3, <1>4, NilAssumption
  <2> QED
    BY <2>1, <2>2
<1>8. \A q \in Proc : /\ r.status[q] = "READY" <=> k.status[q] = "READY"
                      /\ k.status[q] = "READY" => /\ r.group[q] = k.group[q]
                                                  /\ r.queue_idx[q] = k.queue_idx[q]
                      /\ r.status[q] # "INVALID" => r.group[q] \in Proc
  BY <1>1, <1>3 DEF KInv, RunQueueConsistent, HaveGroup
<1>9. WellShaped(r) /\ r.queue = k.queue /\ r.queue_size = k.queue_size
      /\ r.ready_count = k.ready_count
  BY <1>1
<1> QED
  BY <1>6, <1>7, <1>8, <1>9, SameQueuesKeep

\* Taking a process from among the killed keeps the queues sound.
LEMMA KilledRemoveKeeps ==
  ASSUME NEW k, KInv(k), NEW p \in Proc, NEW j \in 0..k.killed_size-1, k.killed[j] = p
  PROVE  KInv(KilledRemove(k, p))
<1> DEFINE r == KilledRemove(k, p)
<1> SUFFICES KInv(r)
  OBVIOUS
<1>1. /\ WellShaped(r)
      /\ r.killed = [k.killed EXCEPT ![k.queue_idx[p]] = Nil]
      /\ r.killed_size = k.killed_size
      /\ r.status = k.status /\ r.queue_idx = k.queue_idx
      /\ r.queue = k.queue /\ r.queue_size = k.queue_size /\ r.ready_count = k.ready_count
      /\ r.group = k.group /\ r.priority = k.priority /\ r.pointer = k.pointer
      /\ r.proc_count = k.proc_count /\ r.gid = k.gid
      /\ r.groups = k.groups /\ r.groups_size = k.groups_size
      /\ r.groups_ptr = k.groups_ptr
  BY DEF KInv, WellShaped, Fields, KilledRemove
<1>2. k.killed_size \in Nat /\ k.killed \in [0..k.killed_size-1 -> Proc \cup {Nil}]
  BY DEF KInv, GroupsTypeOK
<1> HIDE DEF r
<1>3. GroupsTypeOK(r)
  <2>1. r.killed \in [0..r.killed_size-1 -> Proc \cup {Nil}]
    BY <1>1, <1>2, ZenonT(60)
  <2> QED
    BY <1>1, <2>1 DEF KInv, GroupsTypeOK
<1>4. KilledAreDead(r)
  <2>1. \A i \in 0..k.killed_size-1 : r.killed[i] # Nil => r.killed[i] = k.killed[i]
    BY <1>1, <1>2
  <2> QED
    BY <2>1, <1>1 DEF KInv, RunQueueConsistent, KilledAreDead
<1>5. \A q \in Proc : r.status[q] # "INVALID" => r.group[q] \in Proc
  BY <1>1 DEF KInv, RunQueueConsistent, HaveGroup
<1> QED
  BY <1>1, <1>3, <1>4, <1>5, SameQueuesKeep

-----------------------------------------------------------------------------
(* The array of groups.                                                    *)

\* A new group, with no process in its queue yet, keeps the queues sound.
LEMMA NewGroupKeeps ==
  ASSUME NEW k, KInv(k), NEW p \in Proc, k.status[p] = "INVALID"
  PROVE  /\ KInv(NewGroup(k, p))
         /\ NewGroup(k, p).status = k.status
         /\ NewGroup(k, p).group[p] = p
<1> DEFINE n == k.groups_size
           i == FirstHole(k.groups, n)
           r == NewGroup(k, p)
           X == Proc \cup {Nil}
<1> SUFFICES KInv(r) /\ r.status = k.status /\ r.group[p] = p
  OBVIOUS
<1>1. /\ WellShaped(r)
      /\ r.group = [k.group EXCEPT ![p] = p]
      /\ r.groups = Store(k.groups, n, i, p)
      /\ r.groups_size = SizeWith(n, i)
      /\ r.gid = [k.gid EXCEPT ![p] = IF i < n THEN i ELSE @]
      /\ r.killed = k.killed /\ r.killed_size = k.killed_size
      /\ r.status = k.status /\ r.queue_idx = k.queue_idx
      /\ r.queue = k.queue /\ r.queue_size = k.queue_size /\ r.ready_count = k.ready_count
      /\ r.priority = k.priority /\ r.pointer = k.pointer
      /\ r.proc_count = k.proc_count
      /\ r.groups_ptr = k.groups_ptr
  BY DEF KInv, WellShaped, Fields, NewGroup, AddGroup
<1>2. n \in Nat /\ k.groups \in [0..n-1 -> X] /\ p \in X /\ k.groups_ptr \in 0..n
  BY DEF KInv, GroupsTypeOK
<1>3. k.group \in [Proc -> Proc \cup {Nil}] /\ k.gid \in [Proc -> Nat]
  BY DEF KInv, GroupsTypeOK
<1> HIDE DEF r, i, n, X
<1>4. i \in 0..n
  BY <1>2, FirstHoleIsHole DEF i
<1>5. /\ SizeWith(n, i) \in Nat
      /\ n <= SizeWith(n, i)
      /\ Store(k.groups, n, i, p) \in [0..SizeWith(n, i)-1 -> X]
  BY <1>2, <1>4, StoreIs
<1>6. GroupsTypeOK(r)
  <2>1. r.group \in [Proc -> Proc \cup {Nil}]
    BY <1>1, <1>3
  <2>2. r.gid \in [Proc -> Nat]
    BY <1>1, <1>3, <1>4
  <2>3. /\ r.groups_size \in Nat
        /\ r.groups \in [0..r.groups_size-1 -> Proc \cup {Nil}]
        /\ r.groups_ptr \in 0..r.groups_size
    BY <1>1, <1>2, <1>5 DEF X
  <2> QED
    BY <1>1, <2>1, <2>2, <2>3 DEF KInv, GroupsTypeOK
<1>7. \A q \in Proc : /\ r.status[q] = "READY" <=> k.status[q] = "READY"
                      /\ k.status[q] = "READY" => /\ r.group[q] = k.group[q]
                                                  /\ r.queue_idx[q] = k.queue_idx[q]
                      /\ r.status[q] # "INVALID" => r.group[q] \in Proc
  BY <1>1, <1>3 DEF KInv, RunQueueConsistent, HaveGroup
<1>8. KilledAreDead(r)
  BY <1>1 DEF KInv, RunQueueConsistent, KilledAreDead
<1> QED
  BY <1>1, <1>3, <1>6, <1>7, <1>8, SameQueuesKeep

\* group_insert, group_remove and the store of sys_prior touch no queue.
LEMMA GroupFieldsKeep ==
  ASSUME NEW k, KInv(k), NEW p \in Proc, k.group[p] \in Proc
  PROVE  /\ KInv(GroupInsert(k, p)) /\ GroupInsert(k, p).status = k.status
         /\ GroupInsert(k, p).group = k.group
         /\ KInv(GroupRemove(k, p))
         /\ GroupRemove(k, p).killed = k.killed
         /\ GroupRemove(k, p).killed_size = k.killed_size
<1> DEFINE g == k.group[p]
           a == GroupInsert(k, p)
           b == GroupRemove(k, p)
           n == UDecr(k.proc_count[g])
<1>1. /\ UIncr(k.proc_count[g]) \in 0..UINT_MAX
      /\ UDecr(k.proc_count[g]) \in 0..UINT_MAX
  <2>1. k.proc_count[g] \in 0..UINT_MAX
    BY DEF KInv, GroupsTypeOK
  <2> QED
    BY <2>1, UIntAssumption DEF UIncr, UDecr
<1>2. k.proc_count \in [Proc -> 0..UINT_MAX] /\ k.groups \in [0..k.groups_size-1 -> Proc \cup {Nil}]
  BY DEF KInv, GroupsTypeOK
<1>3. /\ WellShaped(a)
      /\ a.proc_count = [k.proc_count EXCEPT ![g] = UIncr(@)]
      /\ a.groups = k.groups /\ a.groups_size = k.groups_size /\ a.groups_ptr = k.groups_ptr
      /\ a.killed = k.killed /\ a.killed_size = k.killed_size
      /\ a.status = k.status /\ a.group = k.group /\ a.queue_idx = k.queue_idx
      /\ a.queue = k.queue /\ a.queue_size = k.queue_size /\ a.ready_count = k.ready_count
      /\ a.priority = k.priority /\ a.pointer = k.pointer /\ a.gid = k.gid
  BY DEF KInv, WellShaped, Fields, GroupInsert
<1>4. /\ WellShaped(b)
      /\ b.proc_count = [k.proc_count EXCEPT ![g] = n]
      /\ b.groups = IF n = 0 THEN [k.groups EXCEPT ![k.gid[g]] = Nil] ELSE k.groups
      /\ b.groups_size = k.groups_size /\ b.groups_ptr = k.groups_ptr
      /\ b.killed = k.killed /\ b.killed_size = k.killed_size
      /\ b.status = k.status /\ b.group = k.group /\ b.queue_idx = k.queue_idx
      /\ b.queue = k.queue /\ b.queue_size = k.queue_size /\ b.ready_count = k.ready_count
      /\ b.priority = k.priority /\ b.pointer = k.pointer /\ b.gid = k.gid
  BY DEF KInv, WellShaped, Fields, GroupRemove
<1> HIDE DEF a, b
<1>5. KInv(a)
  <2>1. a.proc_count \in [Proc -> 0..UINT_MAX]
    BY <1>1, <1>2, <1>3
  <2>2. GroupsTypeOK(a)
    BY <2>1, <1>3 DEF KInv, GroupsTypeOK
  <2>3. KilledAreDead(a)
    BY <1>3 DEF KInv, RunQueueConsistent, KilledAreDead
  <2>4. HaveGroup(a)
    BY <1>3 DEF KInv, RunQueueConsistent, HaveGroup
  <2> QED
    BY <2>2, <2>3, <2>4, <1>3, SameQueuesKeep DEF HaveGroup
<1>6. KInv(b)
  <2>1. b.proc_count \in [Proc -> 0..UINT_MAX]
    BY <1>1, <1>2, <1>4
  <2>2. b.groups \in [0..b.groups_size-1 -> Proc \cup {Nil}]
    <3>1. CASE n = 0
      <4>1. b.groups = [k.groups EXCEPT ![k.gid[g]] = Nil] /\ b.groups_size = k.groups_size
        BY <3>1, <1>4
      <4> HIDE DEF n, g
      <4> QED
        BY <4>1, <1>2
    <3>2. CASE n # 0
      BY <3>2, <1>2, <1>4
    <3> QED
      BY <3>1, <3>2
  <2>3. GroupsTypeOK(b)
    BY <2>1, <2>2, <1>4 DEF KInv, GroupsTypeOK
  <2>4. KilledAreDead(b)
    BY <1>4 DEF KInv, RunQueueConsistent, KilledAreDead
  <2>5. HaveGroup(b)
    BY <1>4 DEF KInv, RunQueueConsistent, HaveGroup
  <2> QED
    BY <2>3, <2>4, <2>5, <1>4, SameQueuesKeep DEF HaveGroup
<1> QED
  BY <1>3, <1>4, <1>5, <1>6 DEF a, b

\* A group may change its priority at any time.
LEMMA PriorityKeeps ==
  ASSUME NEW k, KInv(k), NEW g \in Proc, NEW prior \in Priority
  PROVE  LET r == [k EXCEPT !.priority[g] = prior]
         IN  KInv(r) /\ r.status = k.status /\ r.group = k.group
<1> DEFINE r == [k EXCEPT !.priority[g] = prior]
<1>1. /\ WellShaped(r)
      /\ r.priority = [k.priority EXCEPT ![g] = prior]
      /\ r.groups = k.groups /\ r.groups_size = k.groups_size /\ r.groups_ptr = k.groups_ptr
      /\ r.killed = k.killed /\ r.killed_size = k.killed_size
      /\ r.status = k.status /\ r.group = k.group /\ r.queue_idx = k.queue_idx
      /\ r.queue = k.queue /\ r.queue_size = k.queue_size /\ r.ready_count = k.ready_count
      /\ r.proc_count = k.proc_count /\ r.pointer = k.pointer /\ r.gid = k.gid
  BY DEF KInv, WellShaped, Fields
<1> HIDE DEF r
<1>2. GroupsTypeOK(r)
  BY <1>1, ZenonT(60) DEF KInv, GroupsTypeOK
<1>3. KilledAreDead(r) /\ HaveGroup(r)
  BY <1>1 DEF KInv, RunQueueConsistent, KilledAreDead, HaveGroup
<1>4. KInv(r)
  BY <1>1, <1>2, <1>3, SameQueuesKeep DEF HaveGroup
<1> QED
  BY <1>1, <1>4 DEF r

-----------------------------------------------------------------------------
(* get_group and get_ready.                                                *)

\* The search of the groups of one priority finds a ready process of it.
LEMMA PickFromFinds ==
  ASSUME NEW k, KInv(k), NEW prior \in Priority, Eligible(k, prior) # {}
  PROVE  LET r == PickFrom(k, prior)
         IN  /\ KInv(r.state)
             /\ r.proc \in Proc
             /\ k.status[r.proc] = "READY"
             /\ k.priority[k.group[r.proc]] = prior
<1> DEFINE gi == GroupAt(k, prior)
           g == k.groups[gi]
           i == FirstFrom(k.pointer[g], k.queue_size[g], Occupied(k, g))
           t == PickFrom(k, prior).state
<1>1. /\ k.groups_size \in Nat /\ k.groups_ptr \in 0..k.groups_size
      /\ k.groups \in [0..k.groups_size-1 -> Proc \cup {Nil}]
  BY DEF KInv, GroupsTypeOK
<1>2. gi \in Eligible(k, prior)
  <2>1. Eligible(k, prior) \subseteq 0..k.groups_size-1
    BY DEF Eligible
  <2> QED
    BY <1>1, <2>1, FirstFromFinds DEF GroupAt
<1>3. gi \in 0..k.groups_size-1 /\ g \in Proc /\ k.priority[g] = prior /\ k.ready_count[g] # 0
  BY <1>1, <1>2 DEF Eligible
<1>4. Occupied(k, g) # {}
  <2>1. Cardinality(Occupied(k, g)) # 0
    BY <1>3 DEF KInv, RunQueueConsistent, ReadyCounted
  <2> QED
    BY <2>1, FS_EmptySet
<1>5. /\ k.queue_size[g] \in Nat /\ k.pointer[g] \in 0..k.queue_size[g]
      /\ k.queue[g] \in [0..k.queue_size[g]-1 -> Proc \cup {Nil}]
  <2>1. /\ k.queue_size \in [Proc -> Nat] /\ k.pointer \in [Proc -> Nat]
        /\ \A h \in Proc : k.pointer[h] <= k.queue_size[h]
        /\ \A h \in Proc : k.queue[h] \in [0..k.queue_size[h]-1 -> Proc \cup {Nil}]
    BY DEF KInv, GroupsTypeOK
  <2> HIDE DEF g
  <2>2. k.queue_size[g] \in Nat /\ k.pointer[g] \in Nat /\ k.pointer[g] <= k.queue_size[g]
    BY <1>3, <2>1
  <2> QED
    BY <1>3, <2>1, <2>2
<1>6. i \in Occupied(k, g)
  <2> HIDE DEF g
  <2>1. Occupied(k, g) \subseteq 0..k.queue_size[g]-1
    BY DEF Occupied
  <2> QED
    BY <1>4, <1>5, <2>1, FirstFromFinds
<1>7. PickFrom(k, prior).proc = k.queue[g][i]
  BY <1>4 DEF PickFrom
<1>8. /\ t.groups_ptr = After(gi, k.groups_size)
      /\ t.pointer = [k.pointer EXCEPT ![g] = After(i, k.queue_size[g])]
      /\ WellShaped(t)
      /\ t.groups = k.groups /\ t.groups_size = k.groups_size /\ t.gid = k.gid
      /\ t.killed = k.killed /\ t.killed_size = k.killed_size
      /\ t.status = k.status /\ t.group = k.group /\ t.queue_idx = k.queue_idx
      /\ t.queue = k.queue /\ t.queue_size = k.queue_size /\ t.ready_count = k.ready_count
      /\ t.priority = k.priority /\ t.proc_count = k.proc_count
  <2>1. t = [k EXCEPT !.groups_ptr = After(gi, k.groups_size),
                      !.pointer[g] = After(i, k.queue_size[g])]
    BY <1>4 DEF PickFrom
  <2> HIDE DEF t, g, gi, i
  <2> QED
    BY <2>1 DEF KInv, WellShaped, Fields
<1> HIDE DEF t, g, gi, i
<1>9. KInv(t)
  <2>1. t.groups_ptr \in 0..t.groups_size
    BY <1>1, <1>3, <1>8 DEF After
  <2>2. /\ After(i, k.queue_size[g]) \in Nat
        /\ After(i, k.queue_size[g]) <= k.queue_size[g]
    BY <1>5, <1>6 DEF After, Occupied
  <2>3. /\ t.pointer \in [Proc -> Nat]
        /\ \A h \in Proc : t.pointer[h] <= t.queue_size[h]
    <3>1. k.pointer \in [Proc -> Nat] /\ \A h \in Proc : k.pointer[h] <= k.queue_size[h]
      BY DEF KInv, GroupsTypeOK
    <3>2. t.pointer = [k.pointer EXCEPT ![g] = After(i, k.queue_size[g])]
          /\ t.queue_size = k.queue_size /\ g \in Proc
      BY <1>3, <1>8
    <3> QED
      BY <2>2, <3>1, <3>2
  <2>4. GroupsTypeOK(t)
    BY <2>1, <2>3, <1>8 DEF KInv, GroupsTypeOK
  <2>5. KilledAreDead(t) /\ HaveGroup(t)
    BY <1>8 DEF KInv, RunQueueConsistent, KilledAreDead, HaveGroup
  <2> QED
    BY <2>4, <2>5, <1>8, SameQueuesKeep DEF HaveGroup
<1>10. /\ k.queue[g][i] \in Proc
       /\ k.status[k.queue[g][i]] = "READY"
       /\ k.group[k.queue[g][i]] = g
  BY <1>3, <1>5, <1>6 DEF Occupied, KInv, RunQueueConsistent, SlotHasReady
<1> QED
  BY <1>3, <1>7, <1>9, <1>10 DEF t

\* A thread that can be selected makes its group eligible.
LEMMA SelectableEligible ==
  ASSUME NEW k, KInv(k), NEW p \in Proc, Selectable(k, p)
  PROVE  /\ k.priority[k.group[p]] \in Served
         /\ Eligible(k, k.priority[k.group[p]]) # {}
<1> DEFINE g == k.group[p]
<1>1. /\ g \in Proc
      /\ k.queue_idx[p] \in 0..k.queue_size[g]-1
      /\ k.queue[g][k.queue_idx[p]] = p
  BY DEF Selectable, KInv, RunQueueConsistent, ReadyHasSlot
<1>2. PICK i \in 0..k.groups_size-1 : k.groups[i] = g
  BY DEF Selectable
<1>3. k.queue_idx[p] \in Occupied(k, g)
  BY <1>1, NilAssumption DEF Occupied
<1>4. k.ready_count[g] # 0
  <2>1. Cardinality(Occupied(k, g)) # 0
    BY <1>1, <1>3, OccupiedBounded, FS_EmptySet
  <2> QED
    BY <2>1, <1>1 DEF KInv, RunQueueConsistent, ReadyCounted
<1>5. k.priority[g] \in Served
  BY DEF Selectable
<1> QED
  BY <1>1, <1>2, <1>4, <1>5, NilAssumption DEF Eligible

\* get_ready finds a ready process whenever there is one in a group that it
\* looks at, and one of high priority first.
LEMMA GetReadyFinds ==
  ASSUME NEW k, KInv(k)
  PROVE  LET r == GetReady(k)
         IN  /\ KInv(r.state)
             /\ r.proc # Nil => r.proc \in Proc /\ k.status[r.proc] = "READY"
             /\ (\E p \in Proc : Selectable(k, p)) => r.proc # Nil
             /\ (\E p \in Proc : Selectable(k, p) /\ k.priority[k.group[p]] = "HIGH")
                   => k.priority[k.group[r.proc]] = "HIGH"
<1>1. "HIGH" \in Priority /\ "LOW" \in Priority
  BY DEF Priority, Served
<1>2. \A p \in Proc : Selectable(k, p) =>
         /\ k.priority[k.group[p]] \in Served
         /\ Eligible(k, k.priority[k.group[p]]) # {}
  BY SelectableEligible
<1>3. CASE Eligible(k, "HIGH") # {}
  <2>1. GetReady(k) = PickFrom(k, "HIGH")
    BY <1>3 DEF GetReady
  <2> QED
    BY <2>1, <1>1, <1>3, PickFromFinds, NilAssumption
<1>4. CASE Eligible(k, "HIGH") = {} /\ Eligible(k, "LOW") # {}
  <2>1. GetReady(k) = PickFrom(k, "LOW")
    BY <1>4 DEF GetReady
  <2> QED
    BY <2>1, <1>1, <1>2, <1>4, PickFromFinds, NilAssumption
<1>5. CASE Eligible(k, "HIGH") = {} /\ Eligible(k, "LOW") = {}
  <2>1. GetReady(k) = [proc |-> Nil, state |-> k]
    BY <1>5 DEF GetReady
  <2> QED
    BY <2>1, <1>2, <1>5 DEF Served
<1> QED
  BY <1>3, <1>4, <1>5

-----------------------------------------------------------------------------
(* The steps of RunQueue.                                                  *)

\* A blocked process is in no queue: it may die where it is.
LEMMA BlockedDies ==
  ASSUME NEW k, KInv(k), NEW p \in Proc, k.status[p] \in {"WAIT", "SLEEP"}
  PROVE  KInv([k EXCEPT !.status[p] = "DEAD"])
<1> DEFINE r == [k EXCEPT !.status[p] = "DEAD"]
<1>1. /\ WellShaped(r)
      /\ r.status = [k.status EXCEPT ![p] = "DEAD"]
      /\ r.groups = k.groups /\ r.groups_size = k.groups_size /\ r.groups_ptr = k.groups_ptr
      /\ r.killed = k.killed /\ r.killed_size = k.killed_size
      /\ r.group = k.group /\ r.queue_idx = k.queue_idx
      /\ r.queue = k.queue /\ r.queue_size = k.queue_size /\ r.ready_count = k.ready_count
      /\ r.proc_count = k.proc_count /\ r.pointer = k.pointer /\ r.gid = k.gid
      /\ r.priority = k.priority
  BY DEF KInv, WellShaped, Fields
<1>2. k.status \in [Proc -> Status]
  BY DEF KInv, GroupsTypeOK
<1> HIDE DEF r
<1>3. GroupsTypeOK(r)
  BY <1>1, ZenonT(60) DEF KInv, GroupsTypeOK, Status
<1>4. KilledAreDead(r)
  <2>1. \A j \in 0..k.killed_size-1 : k.killed[j] # Nil => k.killed[j] \in Proc
    BY DEF KInv, GroupsTypeOK
  <2>2. \A q \in Proc : k.status[q] = "DEAD" => r.status[q] = "DEAD"
    BY <1>1, <1>2
  <2> QED
    BY <2>1, <2>2, <1>1 DEF KInv, RunQueueConsistent, KilledAreDead
<1>5. \A q \in Proc : /\ r.status[q] = "READY" <=> k.status[q] = "READY"
                      /\ r.status[q] # "INVALID" => r.group[q] \in Proc
  BY <1>1, <1>2 DEF KInv, RunQueueConsistent, HaveGroup
<1>6. /\ WellShaped(r) /\ r.queue = k.queue /\ r.queue_size = k.queue_size
      /\ r.ready_count = k.ready_count /\ r.group = k.group /\ r.queue_idx = k.queue_idx
  BY <1>1
<1>7. KInv(r)
  BY <1>3, <1>4, <1>5, <1>6, SameQueuesKeep
<1> QED
  BY <1>7 DEF r

\* ready_insert overwrites the status.
LEMMA ReadyInsertOverwrites ==
  ASSUME NEW k, WellShaped(k), NEW p \in Proc, k.status \in [Proc -> Status]
  PROVE  ReadyInsert(k, p) = ReadyInsert([k EXCEPT !.status[p] = "WAIT"], p)
<1> DEFINE w == [k EXCEPT !.status[p] = "WAIT"]
           g == k.group[p]
           i == FirstHole(k.queue[g], k.queue_size[g])
           a == ReadyInsert(k, p)
           b == ReadyInsert(w, p)
<1>1. /\ WellShaped(w) /\ DOMAIN w = DOMAIN k
      /\ \A x \in DOMAIN k : x # "status" => w[x] = k[x]
      /\ w.status = [k.status EXCEPT ![p] = "WAIT"]
      /\ w.group = k.group /\ w.queue = k.queue /\ w.queue_size = k.queue_size
      /\ w.queue_idx = k.queue_idx /\ w.ready_count = k.ready_count
  BY DEF WellShaped, Fields
<1>2. [w.status EXCEPT ![p] = "READY"] = [k.status EXCEPT ![p] = "READY"]
  BY <1>1
<1> HIDE DEF w
<1>3. a = [k EXCEPT !.status = [k.status EXCEPT ![p] = "READY"],
                    !.queue_idx = [k.queue_idx EXCEPT ![p] = i],
                    !.ready_count = [k.ready_count EXCEPT ![g] = UIncr(@)],
                    !.queue = [k.queue EXCEPT ![g] = Store(@, k.queue_size[g], i, p)],
                    !.queue_size = [k.queue_size EXCEPT ![g] = SizeWith(@, i)]]
  BY DEF ReadyInsert, WellShaped, Fields
<1>4. b = [w EXCEPT !.status = [k.status EXCEPT ![p] = "READY"],
                    !.queue_idx = [k.queue_idx EXCEPT ![p] = i],
                    !.ready_count = [k.ready_count EXCEPT ![g] = UIncr(@)],
                    !.queue = [k.queue EXCEPT ![g] = Store(@, k.queue_size[g], i, p)],
                    !.queue_size = [k.queue_size EXCEPT ![g] = SizeWith(@, i)]]
  BY <1>1, <1>2 DEF ReadyInsert, WellShaped, Fields
<1> HIDE DEF a, b, i, g
<1>5. DOMAIN a = DOMAIN k /\ DOMAIN b = DOMAIN k
      /\ a = [x \in DOMAIN a |-> a[x]] /\ b = [x \in DOMAIN b |-> b[x]]
  BY <1>1, <1>3, <1>4
<1>6. \A x \in DOMAIN k : a[x] = b[x]
  BY <1>1, <1>3, <1>4
<1>7. a = b
  BY <1>5, <1>6
<1> QED
  BY <1>7 DEF a, b, w

\* process_create_thread gives a new structure the group of its parent.
LEMMA JoinGroupKeeps ==
  ASSUME NEW k, KInv(k), NEW p \in Proc, k.status[p] = "INVALID", NEW g \in Proc
  PROVE  LET r == [k EXCEPT !.group[p] = g]
         IN  KInv(r) /\ r.status = k.status /\ r.group[p] = g
<1> DEFINE r == [k EXCEPT !.group[p] = g]
<1>1. /\ WellShaped(r)
      /\ r.group = [k.group EXCEPT ![p] = g]
      /\ r.groups = k.groups /\ r.groups_size = k.groups_size /\ r.groups_ptr = k.groups_ptr
      /\ r.killed = k.killed /\ r.killed_size = k.killed_size
      /\ r.status = k.status /\ r.queue_idx = k.queue_idx
      /\ r.proc_count = k.proc_count /\ r.pointer = k.pointer /\ r.gid = k.gid
      /\ r.priority = k.priority
  BY DEF KInv, WellShaped, Fields
<1>2. r.queue = k.queue /\ r.queue_size = k.queue_size /\ r.ready_count = k.ready_count
  BY DEF KInv, WellShaped, Fields
<1>3. k.group \in [Proc -> Proc \cup {Nil}]
  BY DEF KInv, GroupsTypeOK
<1> HIDE DEF r
<1>0. r.group \in [Proc -> Proc \cup {Nil}]
  BY <1>1, <1>3
<1>4. GroupsTypeOK(r)
  BY <1>0, <1>1, <1>2 DEF KInv, GroupsTypeOK
<1>5. KilledAreDead(r)
  BY <1>1 DEF KInv, RunQueueConsistent, KilledAreDead
<1>6. \A q \in Proc : /\ k.status[q] = "READY" => r.group[q] = k.group[q]
                      /\ r.status[q] # "INVALID" => r.group[q] \in Proc
  BY <1>1, <1>3 DEF KInv, RunQueueConsistent, HaveGroup
<1>7. WellShaped(r) /\ r.status = k.status /\ r.queue_idx = k.queue_idx
  BY <1>1
<1>8. KInv(r)
  BY <1>2, <1>4, <1>5, <1>6, <1>7, SameQueuesKeep
<1> QED
  BY <1>1, <1>3, <1>8 DEF r

\* The tables as the kernel clears them are sound.
LEMMA BlankIsConsistent == KInv(BlankGroups)
<1> DEFINE k == BlankGroups
<1>1. WellShaped(k)
  BY DEF BlankGroups, WellShaped, Fields
<1>2. GroupsTypeOK(k)
  BY UIntAssumption DEF BlankGroups, GroupsTypeOK, Status, Priority, Served
<1>3. \A g \in Proc : Occupied(k, g) = {}
  BY DEF BlankGroups, Occupied
<1>4. ReadyCounted(k)
  <2>1. \A g \in Proc : k.ready_count[g] = 0
    BY DEF BlankGroups
  <2> QED
    BY <1>3, <2>1, FS_EmptySet DEF ReadyCounted
<1>5. ReadyHasSlot(k) /\ SlotHasReady(k) /\ KilledAreDead(k) /\ HaveGroup(k)
  BY DEF BlankGroups, ReadyHasSlot, SlotHasReady, KilledAreDead, HaveGroup
<1> QED
  BY <1>1, <1>2, <1>4, <1>5 DEF KInv, RunQueueConsistent

-----------------------------------------------------------------------------
(* The inductive invariant: TypeOK and Consistent, with the shape of the   *)
(* record.                                                                 *)

IInv == KInv(rq) /\ current \in Proc \cup {Nil} /\ threads \in Nat

\* With the first process ready the tables are sound.
LEMMA InitIInv == Init => IInv
<1> SUFFICES ASSUME Init PROVE IInv
  OBVIOUS
<1> DEFINE k == NewGroup(BlankGroups, InitProc)
<1>1. InitProc \in Proc /\ BlankGroups.status[InitProc] = "INVALID"
  BY InitAssumption DEF BlankGroups
<1>2. KInv(k) /\ k.status = BlankGroups.status /\ k.group[InitProc] = InitProc
  BY <1>1, BlankIsConsistent, NewGroupKeeps
<1> HIDE DEF k
<1>3. KInv(ReadyInsert(k, InitProc))
  BY <1>1, <1>2, ReadyInsertKeeps
<1> QED
  BY <1>1, <1>3 DEF Init, IInv, k

\* The choice moves pointers only.
LEMMA GetReadyFields ==
  ASSUME NEW k, WellShaped(k)
  PROVE  LET r == GetReady(k).state
         IN  /\ r.status = k.status /\ r.group = k.group /\ r.priority = k.priority
             /\ r.groups = k.groups /\ r.groups_size = k.groups_size
             /\ r.proc_count = k.proc_count
             /\ r.killed = k.killed /\ r.killed_size = k.killed_size
<1>1. ASSUME NEW prior
      PROVE  LET r == PickFrom(k, prior).state
             IN  /\ r.status = k.status /\ r.group = k.group /\ r.priority = k.priority
                 /\ r.groups = k.groups /\ r.groups_size = k.groups_size
                 /\ r.proc_count = k.proc_count
                 /\ r.killed = k.killed /\ r.killed_size = k.killed_size
  BY DEF WellShaped, Fields, PickFrom
<1> QED
  BY <1>1 DEF GetReady

\* schedule() leaves a consistent state and runs a ready process if it can.
LEMMA RescheduleFinds ==
  ASSUME NEW k, KInv(k), NEW old \in Proc \cup {Nil}, Reschedule(k, old)
  PROVE  /\ KInv(rq')
         /\ current' \in Proc \cup {Nil}
         /\ (\E p \in Proc : Selectable(rq', p)) =>
              /\ current' \in Proc
              /\ rq'.status[current'] = "READY"
              /\ (\E p \in Proc : Selectable(rq', p) /\ rq'.priority[rq'.group[p]] = "HIGH")
                    => rq'.priority[rq'.group[current']] = "HIGH"
<1> DEFINE r == GetReady(k)
<1>1. /\ KInv(r.state)
      /\ r.proc # Nil => r.proc \in Proc /\ k.status[r.proc] = "READY"
      /\ (\E p \in Proc : Selectable(k, p)) => r.proc # Nil
      /\ (\E p \in Proc : Selectable(k, p) /\ k.priority[k.group[p]] = "HIGH")
            => k.priority[k.group[r.proc]] = "HIGH"
  BY GetReadyFinds
<1>2. /\ rq' = r.state
      /\ current' = IF r.proc = Nil THEN old ELSE r.proc
  BY DEF Reschedule
<1>3. /\ rq'.status = k.status /\ rq'.group = k.group /\ rq'.priority = k.priority
      /\ rq'.groups = k.groups /\ rq'.groups_size = k.groups_size
  <2>1. WellShaped(k)
    BY DEF KInv
  <2> QED
    BY <1>2, <2>1, GetReadyFields
<1> HIDE DEF r
<1>4. \A p \in Proc : Selectable(rq', p) <=> Selectable(k, p)
  BY <1>3 DEF Selectable
<1>5. KInv(rq') /\ current' \in Proc \cup {Nil}
  BY <1>1, <1>2
<1>6. ASSUME \E p \in Proc : Selectable(rq', p)
      PROVE  /\ current' = r.proc
             /\ current' \in Proc
             /\ rq'.status[current'] = "READY"
  BY <1>1, <1>2, <1>3, <1>4, <1>6
<1>7. ASSUME \E p \in Proc : Selectable(rq', p) /\ rq'.priority[rq'.group[p]] = "HIGH"
      PROVE  rq'.priority[rq'.group[current']] = "HIGH"
  <2>1. \E p \in Proc : Selectable(k, p) /\ k.priority[k.group[p]] = "HIGH"
    BY <1>3, <1>4, <1>7
  <2>2. k.priority[k.group[r.proc]] = "HIGH"
    BY <1>1, <2>1
  <2> QED
    BY <1>3, <1>6, <1>7, <2>2
<1> QED
  BY <1>5, <1>6, <1>7

\* proc_exit takes the process out of its queue and lists it as killed.
LEMMA KilledKeeps ==
  ASSUME IInv, NEW p \in Proc, Ready(p) \/ Blocked(p)
  PROVE  KInv(Killed(p))
<1> DEFINE k == IF Ready(p) THEN ReadyRemove(rq, p) ELSE rq
           d == [k EXCEPT !.status[p] = "DEAD"]
<1>0. KInv(rq) /\ WellShaped(rq) /\ rq.status \in [Proc -> Status]
  BY DEF IInv, KInv, GroupsTypeOK
<1>1. KInv(d)
  <2>1. CASE Ready(p)
    <3>1. d = Suspend(rq, p, "DEAD")
      BY <2>1 DEF Suspend
    <3> QED
      BY <1>0, <2>1, <3>1, SuspendKeeps DEF Ready
  <2>2. CASE ~Ready(p)
    BY <1>0, <2>2, BlockedDies DEF Blocked
  <2> QED
    BY <2>1, <2>2
<1>2. d.status = [rq.status EXCEPT ![p] = "DEAD"]
      /\ d.killed = rq.killed /\ d.killed_size = rq.killed_size
  BY <1>0 DEF WellShaped, Fields, ReadyRemove
<1>3. \A j \in 0..rq.killed_size-1 : rq.killed[j] # p
  <2>1. \A j \in 0..rq.killed_size-1 : rq.killed[j] # Nil => rq.status[rq.killed[j]] = "DEAD"
    BY <1>0 DEF KInv, RunQueueConsistent, KilledAreDead
  <2> QED
    BY <2>1, NilAssumption DEF Ready, Blocked
<1>4. Killed(p) = KilledInsert(d, p)
  BY DEF Killed
<1> HIDE DEF d
<1>5. KInv(KilledInsert(d, p))
  BY <1>0, <1>1, <1>2, <1>3, KilledInsertKeeps
<1> QED
  BY <1>4, <1>5

\* Every operation of the scheduler keeps the tables sound.
LEMMA NextIInv == IInv /\ [Next]_vars => IInv'
<1> SUFFICES ASSUME IInv, [Next]_vars PROVE IInv'
  OBVIOUS
<1> USE DEF IInv
<1>0. /\ rq.status \in [Proc -> Status] /\ rq.group \in [Proc -> Proc \cup {Nil}]
      /\ WellShaped(rq)
      /\ \A p \in Proc : rq.status[p] # "INVALID" => rq.group[p] \in Proc
  BY DEF KInv, GroupsTypeOK, RunQueueConsistent, HaveGroup
<1>1. ASSUME NEW p \in Proc, CreateProcess(p) PROVE IInv'
  <2> DEFINE k == NewGroup(rq, p)
  <2>1. KInv(k) /\ k.status = rq.status /\ k.group[p] = p
    BY <1>1, NewGroupKeeps DEF CreateProcess
  <2> HIDE DEF k
  <2>2. KInv(ReadyInsert(k, p))
    BY <1>1, <2>1, ReadyInsertKeeps DEF CreateProcess
  <2> QED
    BY <1>1, <2>2 DEF CreateProcess, k
<1>2. ASSUME NEW p \in Proc, CreateThread(p) PROVE IInv'
  <2> DEFINE k == [rq EXCEPT !.group[p] = rq.group[current]]
             a == GroupInsert(k, p)
  <2>1. rq.group[current] \in Proc
    BY <1>0, <1>2 DEF CreateThread, Running, Ready
  <2>2. KInv(k) /\ k.status = rq.status /\ k.group[p] = rq.group[current]
    BY <1>2, <2>1, JoinGroupKeeps DEF CreateThread
  <2> HIDE DEF k
  <2>3. KInv(a) /\ a.status = k.status /\ a.group = k.group
    BY <2>1, <2>2, GroupFieldsKeep
  <2> HIDE DEF a
  <2>4. KInv(ReadyInsert(a, p))
    BY <1>2, <2>1, <2>2, <2>3, ReadyInsertKeeps DEF CreateThread
  <2>5. rq' = ReadyInsert(a, p) /\ threads' = threads + 1 /\ current' = current
    BY <1>2 DEF CreateThread, a, k
  <2> QED
    BY <2>4, <2>5
<1>3. ASSUME NEW s \in {"WAIT", "SLEEP"}, Block(s) PROVE IInv'
  <2>1. current \in Proc /\ rq.status[current] = "READY"
    BY <1>3 DEF Block, Running, Ready
  <2>2. KInv(Suspend(rq, current, s))
    BY <2>1, SuspendKeeps
  <2>3. Reschedule(Suspend(rq, current, s), current) /\ threads' = threads
    BY <1>3 DEF Block, Suspend
  <2> QED
    BY <2>1, <2>2, <2>3, RescheduleFinds
<1>4. ASSUME NEW p \in Proc, Wake(p) PROVE IInv'
  <2>1. KInv(ReadyInsert(rq, p))
    BY <1>0, <1>4, ReadyInsertKeeps DEF Wake, Blocked
  <2> QED
    BY <1>4, <2>1 DEF Wake
<1>5. ASSUME NEW p \in Proc, Exit(p) PROVE IInv'
  <2>1. KInv(Killed(p))
    BY <1>5, KilledKeeps DEF Exit
  <2>2. /\ Reschedule(Killed(p), Nil) \/ (rq' = Killed(p) /\ current' = current)
        /\ threads' = threads
    BY <1>5 DEF Exit
  <2> QED
    BY <2>1, <2>2, RescheduleFinds
<1>10. CASE ExitUnsaved
  <2>1. current \in Proc /\ Ready(current)
    BY <1>0, <1>10, InitAssumption DEF ExitUnsaved, Running
  <2>2. KInv(Killed(current))
    BY <2>1, KilledKeeps
  <2> QED
    BY <1>10, <2>2 DEF ExitUnsaved
<1>6. ASSUME NEW p \in Proc, Clean(p) PROVE IInv'
  <2> DEFINE k == GroupRemove(rq, p)
  <2>1. PICK i \in 0..rq.killed_size-1 : rq.killed[i] = p
    BY <1>6 DEF Clean
  <2>2. rq.status[p] = "DEAD"
    BY <2>1, NilAssumption DEF KInv, RunQueueConsistent, KilledAreDead
  <2>3. KInv(k) /\ k.killed = rq.killed /\ k.killed_size = rq.killed_size
    BY <1>0, <2>2, GroupFieldsKeep
  <2> HIDE DEF k
  <2>4. KInv(KilledRemove(k, p))
    BY <2>1, <2>3, KilledRemoveKeeps
  <2> QED
    BY <1>6, <2>4 DEF Clean, k
<1>7. ASSUME NEW prior \in Priority, SetPriority(prior) PROVE IInv'
  <2> DEFINE c == current
             k == ReadyRemove(rq, c)
             a == [k EXCEPT !.priority[k.group[c]] = prior]
             u == Suspend(rq, c, "WAIT")
             v == [u EXCEPT !.priority[u.group[c]] = prior]
  <2>1. c \in Proc /\ rq.status[c] = "READY" /\ rq.group[c] \in Proc
    BY <1>0, <1>7 DEF SetPriority, Running, Ready
  <2>2. KInv(u) /\ u.group = rq.group /\ u.status = [rq.status EXCEPT ![c] = "WAIT"]
    <3>1. WellShaped(rq) /\ c \in Proc
      BY <1>0, <2>1
    <3>2. KInv(u)
      BY <2>1, <3>1, SuspendKeeps
    <3>3. u.group = rq.group /\ u.status = [rq.status EXCEPT ![c] = "WAIT"]
      BY <3>1 DEF WellShaped, Fields, Suspend, ReadyRemove
    <3> QED
      BY <3>2, <3>3
  <2>3. KInv(v) /\ v.status = u.status /\ v.group = u.group
    <3> HIDE DEF u, c
    <3> QED
      BY <2>1, <2>2, PriorityKeeps
  <2>4. KInv(ReadyInsert(v, c))
    <3> HIDE DEF u, v, c
    <3> QED
      BY <1>0, <2>1, <2>2, <2>3, ReadyInsertKeeps DEF c
  <2>5. WellShaped(a) /\ a.status = rq.status
    BY <1>0 DEF WellShaped, Fields, ReadyRemove
  <2>6. v = [a EXCEPT !.status[c] = "WAIT"]
    BY <1>0 DEF WellShaped, Fields, Suspend, ReadyRemove
  <2>7. ReadyInsert(a, c) = ReadyInsert(v, c)
    <3> HIDE DEF a, v, c
    <3> QED
      BY <1>0, <2>1, <2>5, <2>6, ReadyInsertOverwrites DEF c
  <2> QED
    BY <1>7, <2>4, <2>7 DEF SetPriority
<1>8. CASE Dispatch
  BY <1>8, RescheduleFinds DEF Dispatch
<1>9. CASE UNCHANGED vars
  BY <1>9 DEF vars
<1> QED
  BY <1>1, <1>2, <1>3, <1>4, <1>5, <1>6, <1>7, <1>8, <1>9, <1>10 DEF Next

\* Any number of processes and threads, any sequence of operations: the
\* structures of the scheduler keep their types and agree with the threads
\* (ready_insert, ready_remove, killed_insert, add_group, get_ready).
THEOREM SpecTypeOK == Spec => []TypeOK
<1>1. IInv => TypeOK
  BY DEF IInv, KInv, TypeOK
<1> QED
  BY <1>1, InitIInv, NextIInv, PTL DEF Spec

\* Each READY thread is in exactly the queue slot it remembers and
\* ready_count is exact, for every number of processes.
THEOREM SpecConsistent == Spec => []Consistent
<1>1. IInv => Consistent
  BY DEF IInv, KInv, Consistent
<1> QED
  BY <1>1, InitIInv, NextIInv, PTL DEF Spec

\* Whenever schedule() chooses and a linked group has a ready thread, it runs
\* a ready thread and prefers HIGH groups: no scan of groups or of a queue
\* misses one, however they wrap.
THEOREM SpecDispatchFindsReady == Spec => DispatchFindsReady
<1> DEFINE A == Chooses /\ (\E p \in Proc : Selectable(rq', p)) =>
                  /\ current' \in Proc
                  /\ rq'.status[current'] = "READY"
                  /\ (\E p \in Proc : Selectable(rq', p) /\ rq'.priority[rq'.group[p]] = "HIGH")
                        => rq'.priority[rq'.group[current']] = "HIGH"
<1>1. ASSUME IInv, Chooses
      PROVE  \E k : \E old \in Proc \cup {Nil} : KInv(k) /\ Reschedule(k, old)
  <2>1. CASE Dispatch
    BY <1>1, <2>1 DEF Dispatch, IInv
  <2>2. ASSUME NEW s \in {"WAIT", "SLEEP"}, Block(s)
        PROVE  KInv(Suspend(rq, current, s)) /\ Reschedule(Suspend(rq, current, s), current)
    <3>1. current \in Proc /\ rq.status[current] = "READY"
      BY <1>1, <2>2 DEF IInv, Block, Running, Ready
    <3> QED
      BY <1>1, <2>2, <3>1, SuspendKeeps DEF IInv, Block, Suspend
  <2>3. CASE Exit(current)
    <3>1. current \in Proc
      BY <2>3, InitAssumption DEF Exit
    <3>2. Ready(current) \/ Blocked(current)
      BY <2>3 DEF Exit
    <3>3. KInv(Killed(current)) /\ Reschedule(Killed(current), Nil)
      BY <1>1, <2>3, <3>1, <3>2, KilledKeeps DEF Exit
    <3> QED
      BY <3>3
  <2> QED
    BY <1>1, <2>1, <2>2, <2>3 DEF Chooses, IInv
<1>2. IInv => A
  BY <1>1, RescheduleFinds
<1>3. IInv /\ [Next]_vars => [A]_vars
  BY <1>2
<1> QED
  BY <1>3, InitIInv, NextIInv, PTL DEF Spec, DispatchFindsReady

-----------------------------------------------------------------------------
(* The array of groups as long as no thread was made: create_process links *)
(* each group once, under the process it was made for.  proc_count is 0    *)
(* until clean_process decrements it, which wraps: remove_group is never   *)
(* reached.  A process is cleaned once, since cleaning unlists it.         *)

Listed(k, p) == \E i \in 0..k.killed_size-1 : k.killed[i] = p

OneSlot(k, p) ==
    \E i \in 0..k.groups_size-1 : /\ k.groups[i] = p
                                  /\ \A j \in 0..k.groups_size-1 : k.groups[j] = p => j = i

Linked(k) ==
    /\ \A p \in Proc : k.status[p] # "INVALID" => k.group[p] = p /\ OneSlot(k, p)
    /\ \A i \in 0..k.groups_size-1 : k.groups[i] # Nil => k.status[k.groups[i]] # "INVALID"
    /\ \A p \in Proc : k.proc_count[p] # 0 => k.status[p] = "DEAD" /\ ~Listed(k, p)

LInv == IInv /\ (threads = 0 => Linked(rq))

\* A step that leaves the groups alone, creates and revives nobody, and lists
\* as killed only what was listed or alive.
LEMMA LinkedKeeps ==
  ASSUME NEW k, Linked(k), GroupsTypeOK(k), NEW r,
         r.group = k.group, r.groups = k.groups, r.groups_size = k.groups_size,
         r.proc_count = k.proc_count,
         \A p \in Proc : /\ r.status[p] = "INVALID" <=> k.status[p] = "INVALID"
                         /\ k.status[p] = "DEAD" => r.status[p] = "DEAD"
                         /\ Listed(r, p) => Listed(k, p) \/ k.status[p] # "DEAD"
  PROVE  Linked(r)
<1>1. \A i \in 0..k.groups_size-1 : k.groups[i] # Nil => k.groups[i] \in Proc
  BY DEF GroupsTypeOK
<1>2. \A p \in Proc : OneSlot(r, p) <=> OneSlot(k, p)
  BY DEF OneSlot
<1> QED
  BY <1>1, <1>2 DEF Linked

\* add_group stores the new group in a slot of its own and moves no other.
LEMMA NewGroupLinks ==
  ASSUME NEW k, KInv(k), Linked(k), NEW p \in Proc, k.status[p] = "INVALID"
  PROVE  Linked(ReadyInsert(NewGroup(k, p), p))
<1> DEFINE n == k.groups_size
           i == FirstHole(k.groups, n)
           m == NewGroup(k, p)
           r == ReadyInsert(m, p)
           X == Proc \cup {Nil}
<1> SUFFICES Linked(r)
  OBVIOUS
<1>1. /\ WellShaped(m)
      /\ m.group = [k.group EXCEPT ![p] = p]
      /\ m.groups = Store(k.groups, n, i, p)
      /\ m.groups_size = SizeWith(n, i)
      /\ m.status = k.status /\ m.proc_count = k.proc_count
      /\ m.killed = k.killed /\ m.killed_size = k.killed_size
  BY DEF KInv, WellShaped, Fields, NewGroup, AddGroup
<1>2. n \in Nat /\ k.groups \in [0..n-1 -> X] /\ p \in X
  BY DEF KInv, GroupsTypeOK
<1>3. /\ k.group \in [Proc -> Proc \cup {Nil}] /\ k.status \in [Proc -> Status]
      /\ k.proc_count \in [Proc -> 0..UINT_MAX]
  BY DEF KInv, GroupsTypeOK
<1> HIDE DEF m
<1>4. m.group[p] = p
  BY <1>1, <1>3
<1>5. /\ r.status = [m.status EXCEPT ![p] = "READY"]
      /\ r.group = m.group /\ r.groups = m.groups /\ r.groups_size = m.groups_size
      /\ r.proc_count = m.proc_count
      /\ r.killed = m.killed /\ r.killed_size = m.killed_size
  BY <1>1, <1>4, ReadyInsertFields, ZenonT(60)
<1> HIDE DEF r, i, n, X
<1>6. i \in 0..n /\ (i < n => k.groups[i] = Nil)
  BY <1>2, FirstHoleIsHole DEF i
<1> DEFINE s == r.groups_size
           a == r.groups
<1>7. /\ s \in Nat /\ n <= s
      /\ i \in 0..s-1
      /\ a[i] = p
      /\ \A j \in 0..n-1 : j # i => a[j] = k.groups[j]
      /\ \A j \in 0..s-1 : j # i => j \in 0..n-1
  <2>1. s = SizeWith(n, i) /\ a = Store(k.groups, n, i, p)
    BY <1>1, <1>5
  <2> DEFINE b == k.groups
  <2>2. n \in Nat /\ b \in [0..n-1 -> X] /\ p \in X /\ i \in 0..n
    BY <1>2, <1>6
  <2> HIDE DEF s, a, b
  <2>3. /\ SizeWith(n, i) \in Nat
        /\ i \in 0..SizeWith(n, i)-1
        /\ n <= SizeWith(n, i)
        /\ Store(b, n, i, p) \in [0..SizeWith(n, i)-1 -> X]
        /\ Store(b, n, i, p)[i] = p
        /\ \A j \in 0..n-1 : j # i => Store(b, n, i, p)[j] = b[j]
        /\ \A j \in 0..SizeWith(n, i)-1 : j # i => j \in 0..n-1
    BY <2>2, StoreIs
  <2> QED
    BY <2>1, <2>3 DEF b
<1>8. \A j \in 0..n-1 : k.groups[j] # p
  <2>1. \A j \in 0..n-1 : k.groups[j] # Nil => k.status[k.groups[j]] # "INVALID"
    BY DEF Linked, n
  <2> QED
    BY <2>1, NilAssumption
<1>9. r.status \in [Proc -> Status] /\ r.status[p] = "READY"
      /\ \A q \in Proc : q # p => r.status[q] = k.status[q] /\ r.group[q] = k.group[q]
  BY <1>1, <1>3, <1>5 DEF Status
<1> HIDE DEF s, a
<1>10. OneSlot(r, p)
  BY <1>7, <1>8 DEF OneSlot, s, a
<1>11. ASSUME NEW q \in Proc, q # p, OneSlot(k, q)
       PROVE  OneSlot(r, q)
  <2>1. PICK j \in 0..n-1 : k.groups[j] = q
                            /\ \A l \in 0..n-1 : k.groups[l] = q => l = j
    BY <1>11 DEF OneSlot, n
  <2>2. j # i
    BY <2>1, <1>2, <1>6, NilAssumption
  <2>3. j \in 0..s-1 /\ a[j] = q
    BY <2>1, <2>2, <1>2, <1>7
  <2>4. \A l \in 0..s-1 : a[l] = q => l = j
    BY <2>1, <1>7, <1>11
  <2> QED
    BY <2>3, <2>4 DEF OneSlot, s, a
<1>12. \A q \in Proc : r.status[q] # "INVALID" => r.group[q] = q /\ OneSlot(r, q)
  BY <1>4, <1>5, <1>9, <1>10, <1>11 DEF Linked
<1>13. ASSUME NEW j \in 0..s-1, a[j] # Nil
       PROVE  r.status[a[j]] # "INVALID"
  <2>1. CASE j = i
    BY <2>1, <1>7, <1>9
  <2>2. CASE j # i
    <3>1. j \in 0..n-1 /\ a[j] = k.groups[j]
      BY <2>2, <1>7
    <3>2. k.groups[j] \in Proc /\ k.status[k.groups[j]] # "INVALID"
      BY <3>1, <1>2, <1>13 DEF Linked, n, X
    <3> QED
      BY <3>1, <3>2, <1>8, <1>9
  <2> QED
    BY <2>1, <2>2
<1>14. ASSUME NEW q \in Proc, r.proc_count[q] # 0
       PROVE  r.status[q] = "DEAD" /\ ~Listed(r, q)
  <2>1. k.status[q] = "DEAD" /\ ~Listed(k, q)
    BY <1>1, <1>5, <1>14 DEF Linked
  <2> QED
    BY <2>1, <1>1, <1>5, <1>9 DEF Listed
<1> QED
  BY <1>12, <1>13, <1>14 DEF Linked, s, a

\* clean_process on a listed process: its group's counter is 0 and wraps, so
\* no group is unlinked, and the process is not listed any more.
LEMMA CleanKeepsLinked ==
  ASSUME NEW k, KInv(k), Linked(k), NEW p \in Proc, Listed(k, p)
  PROVE  Linked(KilledRemove(GroupRemove(k, p), p))
<1> DEFINE r == KilledRemove(GroupRemove(k, p), p)
           c == k.queue_idx[p]
<1> SUFFICES Linked(r)
  OBVIOUS
<1>1. PICK i \in 0..k.killed_size-1 : k.killed[i] = p
  BY DEF Listed
<1>2. k.status[p] = "DEAD" /\ c = i
  BY <1>1, NilAssumption DEF KInv, RunQueueConsistent, KilledAreDead
<1>3. k.group[p] = p
  BY <1>2 DEF Linked
<1>4. k.proc_count[p] = 0
  BY DEF Linked
<1>5. UDecr(0) = UINT_MAX /\ UINT_MAX # 0
  BY UIntAssumption, ProcAssumption, FS_CardinalityType DEF UDecr
<1>6. /\ r.group = k.group /\ r.groups = k.groups /\ r.groups_size = k.groups_size
      /\ r.status = k.status
      /\ r.proc_count = [k.proc_count EXCEPT ![p] = UINT_MAX]
      /\ r.killed = [k.killed EXCEPT ![c] = Nil] /\ r.killed_size = k.killed_size
  BY <1>3, <1>4, <1>5 DEF KInv, WellShaped, Fields, GroupRemove, KilledRemove
<1>7. /\ k.proc_count \in [Proc -> 0..UINT_MAX] /\ k.killed_size \in Nat
      /\ k.killed \in [0..k.killed_size-1 -> Proc \cup {Nil}]
      /\ \A j \in 0..k.groups_size-1 : k.groups[j] # Nil => k.groups[j] \in Proc
  BY DEF KInv, GroupsTypeOK
<1> HIDE DEF r, c
<1>8. \A q \in Proc : Listed(r, q) => Listed(k, q)
  BY <1>6, <1>7, NilAssumption DEF Listed
<1>9. ~Listed(r, p)
  <2> SUFFICES ASSUME NEW j \in 0..k.killed_size-1, r.killed[j] = p
               PROVE  FALSE
    BY <1>6 DEF Listed
  <2>1. j # i /\ k.killed[j] = p
    BY <1>2, <1>6, <1>7, NilAssumption
  <2>2. k.queue_idx[p] = j
    BY <2>1, NilAssumption DEF KInv, RunQueueConsistent, KilledAreDead
  <2> QED
    BY <2>1, <2>2, <1>2 DEF c
<1>10. \A q \in Proc : r.proc_count[q] # 0 => r.status[q] = "DEAD" /\ ~Listed(r, q)
  BY <1>2, <1>6, <1>7, <1>8, <1>9 DEF Linked
<1>11. \A q \in Proc : OneSlot(r, q) <=> OneSlot(k, q)
  BY <1>6 DEF OneSlot
<1> QED
  BY <1>6, <1>10, <1>11 DEF Linked

\* killed_insert lists the process and nobody else.
LEMMA KilledInsertLists ==
  ASSUME NEW k, KInv(k), NEW p \in Proc
  PROVE  LET r == KilledInsert(k, p)
         IN  /\ WellShaped(r)
             /\ r.status = [k.status EXCEPT ![p] = "DEAD"]
             /\ r.group = k.group /\ r.proc_count = k.proc_count
             /\ r.groups = k.groups /\ r.groups_size = k.groups_size
             /\ \A q \in Proc : Listed(r, q) => Listed(k, q) \/ q = p
<1> DEFINE n == k.killed_size
           i == FirstHole(k.killed, n)
           r == KilledInsert(k, p)
           X == Proc \cup {Nil}
           a == k.killed
<1>1. /\ WellShaped(r)
      /\ r.status = [k.status EXCEPT ![p] = "DEAD"]
      /\ r.group = k.group /\ r.proc_count = k.proc_count
      /\ r.groups = k.groups /\ r.groups_size = k.groups_size
      /\ r.killed = Store(k.killed, n, i, p)
      /\ r.killed_size = SizeWith(n, i)
  BY DEF KInv, WellShaped, Fields, KilledInsert
<1>2. n \in Nat /\ a \in [0..n-1 -> X] /\ p \in X
  BY DEF KInv, GroupsTypeOK
<1> HIDE DEF r, n, X
<1>3. i \in 0..n
  BY <1>2, FirstHoleIsHole
<1> HIDE DEF i, a
<1>4. /\ Store(a, n, i, p) \in [0..SizeWith(n, i)-1 -> X]
      /\ Store(a, n, i, p)[i] = p
      /\ \A j \in 0..n-1 : j # i => Store(a, n, i, p)[j] = a[j]
      /\ \A j \in 0..SizeWith(n, i)-1 : j # i => j \in 0..n-1
  <2>1. /\ SizeWith(n, i) \in Nat
        /\ i \in 0..SizeWith(n, i)-1
        /\ n <= SizeWith(n, i)
        /\ Store(a, n, i, p) \in [0..SizeWith(n, i)-1 -> X]
        /\ Store(a, n, i, p)[i] = p
        /\ \A j \in 0..n-1 : j # i => Store(a, n, i, p)[j] = a[j]
        /\ \A j \in 0..SizeWith(n, i)-1 : j # i => j \in 0..n-1
    BY <1>2, <1>3, StoreIs
  <2> QED
    BY <2>1
<1>5. ASSUME NEW q \in Proc, Listed(r, q), q # p
      PROVE  Listed(k, q)
  <2>1. PICK j \in 0..SizeWith(n, i)-1 : Store(a, n, i, p)[j] = q
    BY <1>1, <1>5 DEF Listed, a
  <2>2. j # i
    BY <2>1, <1>4, <1>5
  <2>3. j \in 0..n-1 /\ a[j] = q
    BY <2>1, <2>2, <1>4
  <2> QED
    BY <2>3 DEF Listed, a, n
<1> QED
  BY <1>1, <1>5 DEF r

\* schedule() moves pointers only.
LEMMA RescheduleLinks ==
  ASSUME NEW k, KInv(k), Linked(k), NEW old, Reschedule(k, old)
  PROVE  Linked(rq')
<1> DEFINE r == GetReady(k).state
<1>1. /\ r.status = k.status /\ r.group = k.group
      /\ r.groups = k.groups /\ r.groups_size = k.groups_size
      /\ r.proc_count = k.proc_count
      /\ r.killed = k.killed /\ r.killed_size = k.killed_size
  BY GetReadyFields DEF KInv
<1>2. rq' = r
  BY DEF Reschedule
<1> HIDE DEF r
<1>3. GroupsTypeOK(k)
  BY DEF KInv
<1>4. \A p \in Proc : Listed(r, p) => Listed(k, p)
  BY <1>1 DEF Listed
<1>5. Linked(r)
  BY <1>1, <1>3, <1>4, LinkedKeeps
<1> QED
  BY <1>2, <1>5

\* A living process that waits, sleeps or is woken stays where it is linked.
LEMMA SuspendLinks ==
  ASSUME NEW k, KInv(k), Linked(k), NEW p \in Proc, k.status[p] = "READY",
         NEW s \in {"WAIT", "SLEEP", "DEAD"}
  PROVE  Linked(Suspend(k, p, s))
<1> DEFINE r == Suspend(k, p, s)
<1>1. WellShaped(k) /\ k.group[p] \in Proc
  BY DEF KInv, RunQueueConsistent, ReadyHasSlot
<1>0. PICK g \in Proc : k.group[p] = g
  BY <1>1
<1>2. /\ WellShaped(r)
      /\ r.status = [k.status EXCEPT ![p] = s]
      /\ r.ready_count = [k.ready_count EXCEPT ![g] = UDecr(@)]
      /\ r.queue = [k.queue EXCEPT ![g] = [@ EXCEPT ![k.queue_idx[p]] = Nil]]
      /\ r.queue_idx = k.queue_idx /\ r.queue_size = k.queue_size
      /\ r.group = k.group /\ r.priority = k.priority /\ r.pointer = k.pointer
      /\ r.proc_count = k.proc_count /\ r.gid = k.gid
      /\ r.groups = k.groups /\ r.groups_size = k.groups_size
      /\ r.groups_ptr = k.groups_ptr
      /\ r.killed = k.killed /\ r.killed_size = k.killed_size
  BY <1>1, <1>0, SuspendFields
<1> HIDE DEF r
<1>3. GroupsTypeOK(k) /\ k.status \in [Proc -> Status]
  BY DEF KInv, GroupsTypeOK
<1>4. \A q \in Proc : Listed(r, q) => Listed(k, q)
  BY <1>2 DEF Listed
<1>5. Linked(r)
  BY <1>2, <1>3, <1>4, LinkedKeeps
<1> QED
  BY <1>5 DEF r

\* process_ready_insert keeps every process in a group that the array of
\* groups holds.
LEMMA ReadyInsertLinks ==
  ASSUME NEW k, KInv(k), Linked(k), NEW p \in Proc, k.group[p] \in Proc,
         k.status[p] \notin {"INVALID", "DEAD"}
  PROVE  Linked(ReadyInsert(k, p))
<1> DEFINE r == ReadyInsert(k, p)
<1>1. WellShaped(k)
  BY DEF KInv
<1>0. PICK g \in Proc : k.group[p] = g
  OBVIOUS
<1> DEFINE i == FirstHole(k.queue[g], k.queue_size[g])
<1>2. /\ WellShaped(r)
      /\ r.status = [k.status EXCEPT ![p] = "READY"]
      /\ r.queue_idx = [k.queue_idx EXCEPT ![p] = i]
      /\ r.ready_count = [k.ready_count EXCEPT ![g] = UIncr(@)]
      /\ r.queue = [k.queue EXCEPT ![g] = Store(@, k.queue_size[g], i, p)]
      /\ r.queue_size = [k.queue_size EXCEPT ![g] = SizeWith(@, i)]
      /\ r.group = k.group /\ r.priority = k.priority /\ r.pointer = k.pointer
      /\ r.proc_count = k.proc_count /\ r.gid = k.gid
      /\ r.groups = k.groups /\ r.groups_size = k.groups_size
      /\ r.groups_ptr = k.groups_ptr
      /\ r.killed = k.killed /\ r.killed_size = k.killed_size
  BY <1>1, <1>0, ReadyInsertFields
<1> HIDE DEF r
<1>3. GroupsTypeOK(k) /\ k.status \in [Proc -> Status]
  BY DEF KInv, GroupsTypeOK
<1>4. \A q \in Proc : Listed(r, q) => Listed(k, q)
  BY <1>2 DEF Listed
<1>5. Linked(r)
  BY <1>2, <1>3, <1>4, LinkedKeeps
<1> QED
  BY <1>5 DEF r

\* proc_exit leaves the group of the dead process linked.
LEMMA KilledLinks ==
  ASSUME IInv, Linked(rq), NEW p \in Proc, Ready(p) \/ Blocked(p)
  PROVE  Linked(Killed(p))
<1> DEFINE k == IF Ready(p) THEN ReadyRemove(rq, p) ELSE rq
           d == [k EXCEPT !.status[p] = "DEAD"]
           e == KilledInsert(d, p)
<1>0. /\ KInv(rq) /\ WellShaped(rq) /\ GroupsTypeOK(rq)
      /\ rq.status \in [Proc -> Status] /\ rq.status[p] # "INVALID" /\ rq.status[p] # "DEAD"
  BY DEF IInv, KInv, GroupsTypeOK, Ready, Blocked
<1>1. KInv(d) /\ Linked(d)
  <2>1. CASE Ready(p)
    <3>1. d = Suspend(rq, p, "DEAD")
      BY <2>1 DEF Suspend
    <3> QED
      BY <1>0, <2>1, <3>1, SuspendKeeps, SuspendLinks DEF Ready
  <2>2. CASE ~Ready(p)
    <3> DEFINE f == [rq EXCEPT !.status[p] = "DEAD"]
    <3>1. KInv(f)
      BY <1>0, <2>2, BlockedDies DEF Blocked
    <3>2. /\ f.status = [rq.status EXCEPT ![p] = "DEAD"]
          /\ f.group = rq.group /\ f.proc_count = rq.proc_count
          /\ f.groups = rq.groups /\ f.groups_size = rq.groups_size
          /\ f.killed = rq.killed /\ f.killed_size = rq.killed_size
      BY <1>0 DEF WellShaped, Fields
    <3>3. d = f
      BY <2>2
    <3> HIDE DEF f, d
    <3>4. \A q \in Proc : Listed(f, q) => Listed(rq, q)
      BY <3>2 DEF Listed
    <3>5. Linked(f)
      BY <1>0, <3>2, <3>4, LinkedKeeps
    <3> QED
      BY <3>1, <3>3, <3>5
  <2> QED
    BY <2>1, <2>2
<1>2. /\ d.status = [rq.status EXCEPT ![p] = "DEAD"]
      /\ d.group = rq.group /\ d.proc_count = rq.proc_count
      /\ d.groups = rq.groups /\ d.groups_size = rq.groups_size
      /\ d.killed = rq.killed /\ d.killed_size = rq.killed_size
  BY <1>0 DEF WellShaped, Fields, ReadyRemove
<1>3. \A j \in 0..rq.killed_size-1 : rq.killed[j] # p
  <2>1. \A j \in 0..rq.killed_size-1 : rq.killed[j] # Nil => rq.status[rq.killed[j]] = "DEAD"
    BY <1>0 DEF KInv, RunQueueConsistent, KilledAreDead
  <2> QED
    BY <2>1, <1>0, NilAssumption
<1>4. Killed(p) = e
  BY DEF Killed
<1> HIDE DEF d, e
<1>6. /\ e.status = [d.status EXCEPT ![p] = "DEAD"]
      /\ e.group = d.group /\ e.proc_count = d.proc_count
      /\ e.groups = d.groups /\ e.groups_size = d.groups_size
      /\ \A q \in Proc : Listed(e, q) => Listed(d, q) \/ q = p
  BY <1>1, KilledInsertLists DEF e
<1>7. Linked(e)
  <2>1. \A q \in Proc : Listed(d, q) => Listed(rq, q)
    BY <1>2 DEF Listed
  <2>2. \A q \in Proc : /\ e.status[q] = "INVALID" <=> rq.status[q] = "INVALID"
                        /\ rq.status[q] = "DEAD" => e.status[q] = "DEAD"
                        /\ Listed(e, q) => Listed(rq, q) \/ rq.status[q] # "DEAD"
    BY <1>0, <1>2, <1>6, <2>1
  <2>3. /\ e.group = rq.group /\ e.proc_count = rq.proc_count
        /\ e.groups = rq.groups /\ e.groups_size = rq.groups_size
    BY <1>2, <1>6
  <2> QED
    BY <1>0, <2>2, <2>3, LinkedKeeps
<1> QED
  BY <1>4, <1>7

\* The first process is in the first group.
LEMMA InitLInv == Init => LInv
<1> SUFFICES ASSUME Init PROVE LInv
  OBVIOUS
<1> DEFINE b == BlankGroups
<1>1. InitProc \in Proc /\ b.status[InitProc] = "INVALID"
  BY InitAssumption DEF BlankGroups
<1>2. Linked(b)
  BY DEF BlankGroups, Linked
<1>3. KInv(b)
  BY BlankIsConsistent
<1>4. rq = ReadyInsert(NewGroup(b, InitProc), InitProc)
  BY DEF Init
<1> HIDE DEF b
<1>5. Linked(rq)
  BY <1>1, <1>2, <1>3, <1>4, NewGroupLinks
<1> QED
  BY <1>5, InitIInv DEF LInv

\* Every operation keeps the groups linked, as long as no process has threads.
LEMMA NextLInv == LInv /\ [Next]_vars => LInv'
<1> SUFFICES ASSUME LInv, [Next]_vars, threads' = 0 PROVE Linked(rq)'
  BY NextIInv DEF LInv
<1>0. /\ IInv /\ KInv(rq)
      /\ \A p \in Proc : rq.status[p] # "INVALID" => rq.group[p] \in Proc
  BY DEF LInv, IInv, KInv, RunQueueConsistent, HaveGroup
<1>1. ASSUME NEW p \in Proc, CreateThread(p) PROVE FALSE
  BY <1>0, <1>1 DEF CreateThread, IInv
<1>2. threads = 0 /\ Linked(rq)
  <2>1. threads = 0
    <3>1. CASE UNCHANGED vars
      BY <3>1 DEF vars
    <3>2. CASE Next
      BY <3>2, <1>1 DEF Next, CreateProcess, Block, Wake, Exit, ExitUnsaved, Clean,
                             SetPriority, Dispatch
    <3> QED
      BY <3>1, <3>2
  <2> QED
    BY <2>1 DEF LInv
<1>3. ASSUME NEW p \in Proc, CreateProcess(p) PROVE Linked(rq)'
  BY <1>0, <1>2, <1>3, NewGroupLinks DEF CreateProcess
<1>4. ASSUME NEW s \in {"WAIT", "SLEEP"}, Block(s) PROVE Linked(rq)'
  <2>1. current \in Proc /\ rq.status[current] = "READY"
    BY <1>0, <1>4 DEF Block, Running, Ready, IInv
  <2>2. KInv(Suspend(rq, current, s)) /\ Linked(Suspend(rq, current, s))
    BY <1>0, <1>2, <2>1, SuspendKeeps, SuspendLinks
  <2>3. Reschedule(Suspend(rq, current, s), current)
    BY <1>4 DEF Block, Suspend
  <2> QED
    BY <2>2, <2>3, RescheduleLinks
<1>5. ASSUME NEW p \in Proc, Wake(p) PROVE Linked(rq)'
  BY <1>0, <1>2, <1>5, ReadyInsertLinks DEF Wake, Blocked
<1>6. ASSUME NEW p \in Proc, Exit(p) PROVE Linked(rq)'
  <2>1. KInv(Killed(p)) /\ Linked(Killed(p))
    BY <1>0, <1>2, <1>6, KilledKeeps, KilledLinks DEF Exit
  <2>2. Reschedule(Killed(p), Nil) \/ rq' = Killed(p)
    BY <1>6 DEF Exit
  <2> QED
    BY <2>1, <2>2, RescheduleLinks
<1>11. CASE ExitUnsaved
  <2>1. current \in Proc /\ Ready(current)
    BY <1>0, <1>11, InitAssumption DEF ExitUnsaved, Running, IInv
  <2>2. Linked(Killed(current))
    BY <1>0, <1>2, <2>1, KilledLinks
  <2> QED
    BY <1>11, <2>2 DEF ExitUnsaved
<1>7. ASSUME NEW p \in Proc, Clean(p) PROVE Linked(rq)'
  BY <1>0, <1>2, <1>7, CleanKeepsLinked DEF Clean, Listed
<1>8. ASSUME NEW prior \in Priority, SetPriority(prior) PROVE Linked(rq)'
  <2> DEFINE k == ReadyRemove(rq, current)
             a == [k EXCEPT !.priority[k.group[current]] = prior]
             r == ReadyInsert(a, current)
  <2>1. current \in Proc /\ rq.status[current] = "READY" /\ rq.group[current] \in Proc
    BY <1>0, <1>8 DEF SetPriority, Running, Ready, IInv
  <2>2. WellShaped(rq) /\ GroupsTypeOK(rq) /\ rq.status \in [Proc -> Status]
    BY <1>0 DEF KInv, GroupsTypeOK
  <2>3. /\ WellShaped(a)
        /\ a.status = rq.status /\ a.group = rq.group /\ a.proc_count = rq.proc_count
        /\ a.groups = rq.groups /\ a.groups_size = rq.groups_size
        /\ a.killed = rq.killed /\ a.killed_size = rq.killed_size
    BY <2>2 DEF WellShaped, Fields, ReadyRemove
  <2> HIDE DEF a
  <2>4. PICK g \in Proc : a.group[current] = g
    BY <2>1, <2>3
  <2>5. /\ r.status = [a.status EXCEPT ![current] = "READY"]
        /\ r.group = a.group /\ r.proc_count = a.proc_count
        /\ r.groups = a.groups /\ r.groups_size = a.groups_size
        /\ r.killed = a.killed /\ r.killed_size = a.killed_size
    <3> DEFINE i == FirstHole(a.queue[g], a.queue_size[g])
    <3>1. /\ WellShaped(r)
          /\ r.status = [a.status EXCEPT ![current] = "READY"]
          /\ r.queue_idx = [a.queue_idx EXCEPT ![current] = i]
          /\ r.ready_count = [a.ready_count EXCEPT ![g] = UIncr(@)]
          /\ r.queue = [a.queue EXCEPT ![g] = Store(@, a.queue_size[g], i, current)]
          /\ r.queue_size = [a.queue_size EXCEPT ![g] = SizeWith(@, i)]
          /\ r.group = a.group /\ r.priority = a.priority /\ r.pointer = a.pointer
          /\ r.proc_count = a.proc_count /\ r.gid = a.gid
          /\ r.groups = a.groups /\ r.groups_size = a.groups_size
          /\ r.groups_ptr = a.groups_ptr
          /\ r.killed = a.killed /\ r.killed_size = a.killed_size
      BY <2>1, <2>3, <2>4, ReadyInsertFields, SMTT(30)
    <3> QED
      BY <3>1
  <2>6. rq' = r
    BY <1>8 DEF SetPriority, a
  <2> HIDE DEF r
  <2>7. \A q \in Proc : r.status[q] = rq.status[q] /\ (Listed(r, q) => Listed(rq, q))
    BY <2>1, <2>2, <2>3, <2>5 DEF Listed
  <2>8. Linked(r)
    <3>1. /\ r.group = rq.group /\ r.proc_count = rq.proc_count
          /\ r.groups = rq.groups /\ r.groups_size = rq.groups_size
      BY <2>3, <2>5
    <3> QED
      BY <3>1, <1>2, <2>2, <2>7, LinkedKeeps
  <2> QED
    BY <2>6, <2>8
<1>9. CASE Dispatch
  BY <1>0, <1>2, <1>9, RescheduleLinks DEF Dispatch
<1>10. CASE UNCHANGED vars
  BY <1>2, <1>10 DEF vars
<1> QED
  BY <1>1, <1>3, <1>4, <1>5, <1>6, <1>7, <1>8, <1>9, <1>10, <1>11 DEF Next

\* As long as no thread was made, every living process has its group in
\* exactly one slot of `groups`, however many processes were created, died and
\* were cleaned: clean_process never unlinks the group of another one, so that
\* get_group can find each process that becomes ready.
THEOREM SpecGroupsLinked == Spec => []GroupsLinked
<1>1. LInv => GroupsLinked
  <2> SUFFICES ASSUME LInv, threads = 0, NEW p \in Proc,
                      rq.status[p] \in {"READY", "WAIT", "SLEEP"}
               PROVE  Cardinality({i \in 0..rq.groups_size-1 : rq.groups[i] = rq.group[p]}) = 1
    BY DEF GroupsLinked
  <2>1. rq.group[p] = p /\ OneSlot(rq, p)
    BY DEF LInv, Linked
  <2>2. PICK i \in 0..rq.groups_size-1 :
           rq.groups[i] = p /\ \A j \in 0..rq.groups_size-1 : rq.groups[j] = p => j = i
    BY <2>1 DEF OneSlot
  <2>3. {j \in 0..rq.groups_size-1 : rq.groups[j] = p} = {i}
    BY <2>2
  <2> QED
    BY <2>1, <2>3, FS_Singleton
<1> QED
  BY <1>1, InitLInv, NextLInv, PTL DEF Spec
=============================================================================
