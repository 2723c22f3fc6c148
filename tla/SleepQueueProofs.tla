-------------------------- MODULE SleepQueueProofs --------------------------
(***************************************************************************)
(* Proofs about sleeping and waking, for any number of processes asleep    *)
(* and any requests: until a process is inserted between two others the    *)
(* delta list of proc.c is sound, and nobody is woken earlier by more      *)
(* ticks than there were sleepers before it.                               *)
(***************************************************************************)
EXTENDS SleepQueue, TLAPS, FiniteSetTheorems

-----------------------------------------------------------------------------
(* Induction along the loops of schedule() and sleep_insert.               *)

\* A nonempty set of naturals has a least element.
LEMMA LeastNat ==
  ASSUME NEW S, S \subseteq Nat, S # {}
  PROVE  \E m \in S : \A n \in S : m <= n
  <1> DEFINE R == OpToRel(<, Nat)
  <1>1. IsWellFoundedOn(R, Nat)
    BY NatLessThanWellFounded
  <1>2. \A m, n \in Nat : <<n, m>> \in R <=> n < m
    BY DEF OpToRel
  <1> HIDE DEF R
  <1>3. PICK m \in S : \A n \in S : <<n, m>> \notin R
    BY <1>1, WFMin
  <1>4. \A n \in S : ~(n < m)
    BY <1>2, <1>3
  <1>5. \A n \in S : m <= n
    BY <1>4
  <1> QED BY <1>5

\* Induction along a loop from k to n, with the rounds that go well as a set.
LEMMA LoopInduction ==
  ASSUME NEW k \in Nat, NEW n \in Nat, NEW S, k \in S,
         \A i \in k+1..n : i - 1 \in S => i \in S
  PROVE  \A i \in k..n : i \in S
  <1> DEFINE Bad == {i \in k..n : i \notin S}
  <1> SUFFICES ASSUME Bad # {} PROVE FALSE
    OBVIOUS
  <1>1. Bad \subseteq Nat
    OBVIOUS
  <1>2. PICK m \in Bad : \A i \in Bad : m <= i
    <2> HIDE DEF Bad
    <2> QED BY <1>1, LeastNat
  <1>3. m \in k+1..n /\ m - 1 \in k..n
    BY <1>2
  <1>4. m - 1 \in S
    BY <1>2, <1>3
  <1> QED BY <1>2, <1>3, <1>4

-----------------------------------------------------------------------------
(* The loop of schedule().                                                 *)

\* f holds the states after each of the first m turns.
TurnsFrom(k, m, f) == f = [n \in 0..m |-> IF n = 0 THEN k ELSE Turn(f[n - 1])]

\* The loop has a state after each of its turns.
LEMMA TurnsExist ==
  ASSUME NEW k, NEW z \in Nat
  PROVE  \E f : TurnsFrom(k, z, f)
<1> DEFINE Has(m) == \E f : TurnsFrom(k, m, f)
           S == {m \in 0..z : Has(m)}
<1>1. 0 \in S
  <2>1. TurnsFrom(k, 0, [n \in 0..0 |-> k])
    BY DEF TurnsFrom
  <2> QED
    BY <2>1
<1>2. ASSUME NEW i \in 0+1..z, i - 1 \in S PROVE i \in S
  <2>1. PICK f : TurnsFrom(k, i - 1, f)
    BY <1>2
  <2> DEFINE g == [n \in 0..i |-> IF n = i THEN Turn(f[i - 1]) ELSE f[n]]
  <2>2. ASSUME NEW n \in 0..i
        PROVE  g[n] = IF n = 0 THEN k ELSE Turn(g[n - 1])
    <3>1. i - 1 \in 0..i-1 /\ i # 0
      OBVIOUS
    <3>2. \A j \in 0..i-1 : f[j] = IF j = 0 THEN k ELSE Turn(f[j - 1])
      BY <2>1 DEF TurnsFrom
    <3>3. CASE n = i
      BY <3>1, <3>3
    <3>4. CASE n = 0
      BY <3>1, <3>2, <3>4
    <3>5. CASE n # i /\ n # 0
      <4>1. n \in 0..i-1 /\ n - 1 \in 0..i /\ n - 1 # i
        BY <3>5
      <4>2. g[n] = f[n] /\ g[n - 1] = f[n - 1]
        BY <3>5, <4>1
      <4> QED
        BY <3>2, <3>5, <4>1, <4>2
    <3> QED
      BY <3>3, <3>4, <3>5
  <2>3. g = [n \in 0..i |-> g[n]]
    OBVIOUS
  <2> HIDE DEF g
  <2>4. TurnsFrom(k, i, g)
    BY <2>2, <2>3 DEF TurnsFrom
  <2> QED
    BY <2>4
<1> HIDE DEF S
<1>3. \A m \in 0..z : m \in S
  BY <1>1, <1>2, LoopInduction
<1> QED
  BY <1>3 DEF S

\* What every turn keeps holds when the first sleeper is decremented at last.
LEMMA CountDownIs ==
  ASSUME NEW k, k.sleep_size \in Nat
  PROVE  \E f : TurnsFrom(k, k.sleep_size, f) /\ CountDown(k) = Ticked(f[k.sleep_size])
<1> DEFINE z == k.sleep_size
           t == CHOOSE f : f = [n \in 0..z |->
                  IF n = 0 THEN k ELSE CHOOSE j \in {Turn(before) : before \in {f[n - 1]}} : TRUE]
           u == CHOOSE f : TurnsFrom(k, z, f)
<1>1. CountDown(k) = Ticked(t[z])
  BY DEF CountDown
<1>2. \A x : (CHOOSE j \in {Turn(before) : before \in {x}} : TRUE) = Turn(x)
  OBVIOUS
<1>3. t = u
  <2>1. \A f : [n \in 0..z |-> IF n = 0 THEN k
                  ELSE CHOOSE j \in {Turn(before) : before \in {f[n - 1]}} : TRUE]
               = [n \in 0..z |-> IF n = 0 THEN k ELSE Turn(f[n - 1])]
    BY <1>2
  <2> QED
    BY <2>1 DEF TurnsFrom
<1> HIDE DEF t
<1>4. TurnsFrom(k, z, u)
  BY TurnsExist
<1> HIDE DEF u
<1> QED
  BY <1>1, <1>3, <1>4

-----------------------------------------------------------------------------
(* The invariant of a kernel state: every process is a group of its own,   *)
(* with one slot in its queue, and the array holds the sleepers, each in   *)
(* the slot it remembers.                                                  *)

SFields == { "status", "group", "queue_idx", "queue", "queue_size", "ready_count",
             "sleep", "sleep_size", "sleep_time" }

Shaped(k) ==
    /\ k = [x \in DOMAIN k |-> k[x]]
    /\ SFields \subseteq DOMAIN k

Calm(k) ==
    /\ Shaped(k)
    /\ k.group = [p \in Proc |-> p]
    /\ k.status \in [Proc -> {"READY", "SLEEP"}]
    /\ k.queue_idx \in [Proc -> Nat]
    /\ k.queue_size = [g \in Proc |-> 1]
    /\ k.queue = [g \in Proc |-> [i \in {0} |-> IF k.status[g] = "READY" THEN g ELSE Nil]]
    /\ \A p \in Proc : k.status[p] = "READY" => k.queue_idx[p] = 0
    /\ k.sleep_time \in [Proc -> 0..UINT_MAX]

Lined(k) ==
    /\ k.sleep_size \in 0..MAX_PROCESSES-1
    /\ k.sleep = [i \in Slots |-> k.sleep[i]]
    /\ \A i \in 0..k.sleep_size-1 :
         k.sleep[i] \in Proc /\ k.status[k.sleep[i]] = "SLEEP" /\ k.queue_idx[k.sleep[i]] = i
    /\ \A i \in Slots : i >= k.sleep_size => k.sleep[i] = Nil
    /\ \A p \in Proc : k.status[p] = "SLEEP" =>
         k.queue_idx[p] \in 0..k.sleep_size-1 /\ k.sleep[k.queue_idx[p]] = p

\* A queue of one slot that holds nobody takes the process in that slot.
LEMMA SingleSlot ==
  ASSUME NEW p \in Proc
  PROVE  /\ FirstHole([i \in {0} |-> Nil], 1) = 0
         /\ Store([i \in {0} |-> Nil], 1, 0, p) = [i \in {0} |-> p]
         /\ SizeWith(1, 0) = 1
<1> DEFINE e == [i \in {0} |-> Nil]
<1>1. \A i \in 0..1 : IsFirstHole(e, 1, i) <=> i = 0
  BY DEF IsFirstHole
<1>2. FirstHole(e, 1) = 0
  <2> HIDE DEF e
  <2> QED
    BY <1>1 DEF FirstHole
<1>3. 0..0 = {0}
  OBVIOUS
<1> QED
  BY <1>2, <1>3 DEF Store, SizeWith

\* The fields that process_ready_insert assigns.
LEMMA ReadyInsertIs ==
  ASSUME NEW k, Shaped(k), NEW p \in Proc, NEW g \in Proc, k.group[p] = g
  PROVE  LET r == ReadyInsert(k, p)
             i == FirstHole(k.queue[g], k.queue_size[g])
         IN  /\ Shaped(r)
             /\ r.status = [k.status EXCEPT ![p] = "READY"]
             /\ r.queue_idx = [k.queue_idx EXCEPT ![p] = i]
             /\ r.queue = [k.queue EXCEPT ![g] = Store(@, k.queue_size[g], i, p)]
             /\ r.queue_size = [k.queue_size EXCEPT ![g] = SizeWith(@, i)]
             /\ r.group = k.group /\ r.sleep = k.sleep /\ r.sleep_size = k.sleep_size
             /\ r.sleep_time = k.sleep_time
  BY ZenonT(60) DEF Shaped, SFields, ReadyInsert

\* The fields that process_ready_remove assigns.
LEMMA ReadyRemoveIs ==
  ASSUME NEW k, Shaped(k), NEW p \in Proc, NEW g \in Proc, k.group[p] = g
  PROVE  LET r == ReadyRemove(k, p)
         IN  /\ Shaped(r)
             /\ r.queue = [k.queue EXCEPT ![g] = [@ EXCEPT ![k.queue_idx[p]] = Nil]]
             /\ r.status = k.status /\ r.queue_idx = k.queue_idx /\ r.queue_size = k.queue_size
             /\ r.group = k.group /\ r.sleep = k.sleep /\ r.sleep_size = k.sleep_size
             /\ r.sleep_time = k.sleep_time
  BY DEF Shaped, SFields, ReadyRemove

\* sleep_remove touches the array, its size and the indices.
LEMMA SleepRemoveIs ==
  ASSUME NEW k, Shaped(k), NEW p \in Proc
  PROVE  LET r == sleep_remove(k, p)
             from == k.queue_idx[p]
             rest(i) == IF i \in Slots \ {from} THEN k.sleep[i] ELSE Nil
             moved == IF k.sleep_size > 1 THEN from..k.sleep_size-1 ELSE {}
             now(i) == IF i \in moved THEN rest(i + 1) ELSE rest(i)
         IN  /\ Shaped(r)
             /\ r.sleep = [i \in Slots |-> now(i)]
             /\ r.sleep_size = Cardinality({i \in 0..k.sleep_size-1 : now(i) # Nil})
             /\ r.queue_idx = [q \in Proc |-> IF {i \in moved : now(i) = q} = {} THEN k.queue_idx[q]
                                             ELSE Max({i \in moved : now(i) = q})]
             /\ r.status = k.status /\ r.queue = k.queue /\ r.queue_size = k.queue_size
             /\ r.group = k.group /\ r.sleep_time = k.sleep_time
  BY DEF Shaped, SFields, sleep_remove

\* A tick takes one from the time of the first sleeper and nothing else.
LEMMA TickedIs ==
  ASSUME NEW k, Shaped(k), k.sleep_size # 0
  PROVE  LET r == Ticked(k)
         IN  /\ Shaped(r)
             /\ r.sleep_time = [k.sleep_time EXCEPT ![k.sleep[0]] = UDecr(@)]
             /\ r.status = k.status /\ r.queue_idx = k.queue_idx /\ r.queue = k.queue
             /\ r.queue_size = k.queue_size /\ r.group = k.group
             /\ r.sleep = k.sleep /\ r.sleep_size = k.sleep_size
  BY DEF Shaped, SFields, Ticked

-----------------------------------------------------------------------------
(* Waking.                                                                 *)

\* A process that wakes goes back to its place in its own queue.
LEMMA WakeKeeps ==
  ASSUME NEW s, Calm(s), NEW p \in Proc, s.status[p] = "SLEEP"
  PROVE  LET r == ReadyInsert(s, p)
         IN  /\ Calm(r)
             /\ r.status = [s.status EXCEPT ![p] = "READY"]
             /\ r.queue_idx = [s.queue_idx EXCEPT ![p] = 0]
             /\ r.sleep = s.sleep /\ r.sleep_size = s.sleep_size /\ r.sleep_time = s.sleep_time
<1> DEFINE r == ReadyInsert(s, p)
<1>1. Shaped(s) /\ s.group[p] = p /\ s.queue_size[p] = 1 /\ s.queue[p] = [i \in {0} |-> Nil]
  BY NilAssumption DEF Calm
<1>2. /\ Shaped(r)
      /\ r.status = [s.status EXCEPT ![p] = "READY"]
      /\ r.queue_idx = [s.queue_idx EXCEPT ![p] = 0]
      /\ r.queue = [s.queue EXCEPT ![p] = [i \in {0} |-> p]]
      /\ r.queue_size = [s.queue_size EXCEPT ![p] = 1]
      /\ r.group = s.group /\ r.sleep = s.sleep /\ r.sleep_size = s.sleep_size
      /\ r.sleep_time = s.sleep_time
  <2> DEFINE e == s.queue[p]
             i == FirstHole(e, s.queue_size[p])
  <2>1. /\ Shaped(r)
        /\ r.status = [s.status EXCEPT ![p] = "READY"]
        /\ r.queue_idx = [s.queue_idx EXCEPT ![p] = i]
        /\ r.queue = [s.queue EXCEPT ![p] = Store(@, s.queue_size[p], i, p)]
        /\ r.queue_size = [s.queue_size EXCEPT ![p] = SizeWith(@, i)]
        /\ r.group = s.group /\ r.sleep = s.sleep /\ r.sleep_size = s.sleep_size
        /\ r.sleep_time = s.sleep_time
    BY <1>1, ReadyInsertIs
  <2> HIDE DEF r
  <2>2. i = 0
    BY <1>1, SingleSlot
  <2>3. Store(s.queue[p], s.queue_size[p], i, p) = [j \in {0} |-> p]
    BY <1>1, <2>2, SingleSlot
  <2>4. SizeWith(s.queue_size[p], i) = 1
    BY <1>1, <2>2, SingleSlot
  <2> HIDE DEF i, e
  <2>5. /\ r.queue = [s.queue EXCEPT ![p] = [j \in {0} |-> p]]
        /\ r.queue_size = [s.queue_size EXCEPT ![p] = 1]
    BY <2>1, <2>3, <2>4
  <2> QED
    BY <2>1, <2>2, <2>5
<1> HIDE DEF r
<1>3. r.queue = [g \in Proc |-> [i \in {0} |-> IF r.status[g] = "READY" THEN g ELSE Nil]]
  <2>1. r.queue = [g \in Proc |-> r.queue[g]]
    BY <1>2 DEF Calm
  <2>2. ASSUME NEW g \in Proc
        PROVE  r.queue[g] = [i \in {0} |-> IF r.status[g] = "READY" THEN g ELSE Nil]
    <3>1. CASE g = p
      BY <1>2, <3>1 DEF Calm
    <3>2. CASE g # p
      <4>1. r.queue[g] = s.queue[g] /\ r.status[g] = s.status[g]
        BY <1>2, <3>2 DEF Calm
      <4> QED
        BY <4>1 DEF Calm
    <3> QED
      BY <3>1, <3>2
  <2> QED
    BY <2>1, <2>2
<1>4. /\ r.status \in [Proc -> {"READY", "SLEEP"}] /\ r.queue_idx \in [Proc -> Nat]
      /\ r.queue_size = [g \in Proc |-> 1]
      /\ \A q \in Proc : r.status[q] = "READY" => r.queue_idx[q] = 0
  BY <1>2 DEF Calm
<1> QED
  BY <1>2, <1>3, <1>4 DEF Calm, r

\* The first sleeper leaves the array: the others move down one slot each.
LEMMA FirstRemoved ==
  ASSUME NEW k, Calm(k), Lined(k), k.sleep_size > 0
  PROVE  LET a == k.sleep[0]
             r == sleep_remove(k, a)
         IN  /\ Shaped(r)
             /\ r.sleep = [i \in Slots |-> IF i < k.sleep_size - 1 THEN k.sleep[i + 1] ELSE Nil]
             /\ r.sleep_size = k.sleep_size - 1
             /\ r.queue_idx \in [Proc -> Nat]
             /\ \A q \in Proc : r.queue_idx[q] = IF k.status[q] = "SLEEP" /\ q # a
                                                 THEN k.queue_idx[q] - 1 ELSE k.queue_idx[q]
             /\ r.status = k.status /\ r.queue = k.queue /\ r.queue_size = k.queue_size
             /\ r.group = k.group /\ r.sleep_time = k.sleep_time
<1> DEFINE a == k.sleep[0]
           r == sleep_remove(k, a)
           n == k.sleep_size
           rest(i) == IF i \in Slots \ {k.queue_idx[a]} THEN k.sleep[i] ELSE Nil
           moved == IF n > 1 THEN k.queue_idx[a]..n-1 ELSE {}
           now(i) == IF i \in moved THEN rest(i + 1) ELSE rest(i)
           at(q) == {i \in moved : now(i) = q}
           next(i) == IF i < n - 1 THEN k.sleep[i + 1] ELSE Nil
<1>0. /\ MAX_PROCESSES \in Nat /\ n \in Nat /\ n > 0 /\ n < MAX_PROCESSES
      /\ a \in Proc /\ k.queue_idx[a] = 0 /\ Shaped(k) /\ 0 \in 0..n-1
      /\ k.status \in [Proc -> {"READY", "SLEEP"}] /\ k.queue_idx \in [Proc -> Nat]
      /\ \A i \in 0..n-1 : k.sleep[i] \in Proc /\ k.queue_idx[k.sleep[i]] = i
                           /\ k.status[k.sleep[i]] = "SLEEP"
      /\ \A i \in Slots : i >= n => k.sleep[i] = Nil
      /\ \A p \in Proc : k.status[p] = "SLEEP" =>
           k.queue_idx[p] \in 0..n-1 /\ k.sleep[k.queue_idx[p]] = p
  <2>1. MAX_PROCESSES \in Nat /\ n \in 0..MAX_PROCESSES-1 /\ n > 0
    BY SleepAssumption DEF Lined
  <2>2. n \in Nat /\ n < MAX_PROCESSES /\ 0 \in 0..n-1
    BY <2>1
  <2> HIDE DEF n
  <2> QED
    BY <2>1, <2>2 DEF Lined, Calm, n
<1>1. /\ Shaped(r)
      /\ r.sleep = [i \in Slots |-> now(i)]
      /\ r.sleep_size = Cardinality({i \in 0..n-1 : now(i) # Nil})
      /\ r.queue_idx = [q \in Proc |-> IF at(q) = {} THEN k.queue_idx[q] ELSE Max(at(q))]
      /\ r.status = k.status /\ r.queue = k.queue /\ r.queue_size = k.queue_size
      /\ r.group = k.group /\ r.sleep_time = k.sleep_time
  BY <1>0, SleepRemoveIs
<1> HIDE DEF r, a
<1>2. \A i \in Slots : now(i) = next(i)
  <2> SUFFICES ASSUME NEW i \in Slots PROVE now(i) = next(i)
    OBVIOUS
  <2>0. i \in Nat /\ i < MAX_PROCESSES
    BY <1>0 DEF Slots
  <2>1. CASE i < n - 1
    <3>1. i \in moved /\ i + 1 \in Slots /\ i + 1 # 0
      BY <1>0, <2>0, <2>1 DEF Slots
    <3> QED
      BY <1>0, <2>1, <3>1
  <2>2. CASE i = n - 1
    <3>1. CASE n > 1
      <4>1. i \in moved /\ i + 1 \in Slots /\ i + 1 >= n
        BY <1>0, <2>0, <2>2, <3>1 DEF Slots
      <4> QED
        BY <1>0, <2>0, <2>2, <4>1
    <3>2. CASE n = 1
      BY <1>0, <2>0, <2>2, <3>2
    <3> QED
      BY <1>0, <3>1, <3>2
  <2>3. CASE i > n - 1
    BY <1>0, <2>0, <2>3
  <2> QED
    BY <1>0, <2>0, <2>1, <2>2, <2>3
<1>3. \A i \in moved : i \in Slots
  BY <1>0 DEF Slots
<1> HIDE DEF rest, now
<1>4. r.sleep = [i \in Slots |-> next(i)]
  BY <1>1, <1>2
<1>5. r.sleep_size = n - 1
  <2>1. {i \in 0..n-1 : now(i) # Nil} = 0..n-2
    <3>1. \A i \in 0..n-1 : i \in Slots
      BY <1>0 DEF Slots
    <3>2. \A i \in 0..n-2 : i + 1 \in 0..n-1 /\ i < n - 1 /\ i \in 0..n-1
      BY <1>0
    <3>3. \A i \in 0..n-2 : k.sleep[i + 1] # Nil
      BY <1>0, <3>2, NilAssumption
    <3>4. \A i \in 0..n-2 : now(i) # Nil
      BY <1>2, <3>1, <3>2, <3>3
    <3>5. \A i \in 0..n-1 : i \notin 0..n-2 => now(i) = Nil
      BY <1>0, <1>2, <3>1
    <3> QED
      BY <3>2, <3>4, <3>5
  <2>2. Cardinality(0..n-2) = n - 1
    <3>1. n - 2 \in Int /\ 0 \in Int /\ (0 > n - 2 <=> n = 1) /\ (n - 2) - 0 + 1 = n - 1
      BY <1>0
    <3>2. Cardinality(0..n-2) = IF 0 > n - 2 THEN 0 ELSE (n - 2) - 0 + 1
      BY <3>1, FS_Interval
    <3> QED
      BY <3>1, <3>2
  <2> QED
    BY <1>1, <2>1, <2>2
<1>6. ASSUME NEW q \in Proc
      PROVE  /\ r.queue_idx[q] = IF k.status[q] = "SLEEP" /\ q # a
                                 THEN k.queue_idx[q] - 1 ELSE k.queue_idx[q]
             /\ r.queue_idx[q] \in Nat
  <2>0. r.queue_idx[q] = IF at(q) = {} THEN k.queue_idx[q] ELSE Max(at(q))
    BY <1>1
  <2>1. \A i \in at(q) : /\ i \in 0..n-2 /\ k.sleep[i + 1] = q
                         /\ k.status[q] = "SLEEP" /\ k.queue_idx[q] = i + 1
    <3> SUFFICES ASSUME NEW i \in at(q)
                 PROVE  /\ i \in 0..n-2 /\ k.sleep[i + 1] = q
                        /\ k.status[q] = "SLEEP" /\ k.queue_idx[q] = i + 1
      OBVIOUS
    <3>1. i \in moved /\ now(i) = q /\ i \in Slots
      BY <1>3
    <3>2. next(i) = q /\ q # Nil
      BY <1>2, <3>1, NilAssumption
    <3>3. i < n - 1 /\ k.sleep[i + 1] = q
      BY <3>2
    <3>4. i \in 0..n-2 /\ i + 1 \in 0..n-1
      BY <1>0, <3>1, <3>3 DEF Slots
    <3> QED
      BY <1>0, <3>3, <3>4
  <2>2. CASE k.status[q] = "SLEEP" /\ q # a
    <3> DEFINE i == k.queue_idx[q] - 1
    <3>1. k.queue_idx[q] \in 0..n-1 /\ k.sleep[k.queue_idx[q]] = q
      BY <1>0, <2>2
    <3>2. k.queue_idx[q] # 0
      BY <2>2, <3>1 DEF a
    <3>3. i \in 0..n-2 /\ i + 1 = k.queue_idx[q] /\ i \in moved /\ i \in Slots
      BY <1>0, <3>1, <3>2 DEF Slots
    <3>4. now(i) = q
      <4>1. next(i) = k.sleep[i + 1] /\ k.sleep[i + 1] = q
        BY <1>0, <3>1, <3>3
      <4>2. now(i) = next(i)
        BY <1>2, <3>3
      <4> QED
        BY <4>1, <4>2
    <3>5. at(q) = {i}
      BY <1>0, <2>1, <3>3, <3>4
    <3> HIDE DEF i, at
    <3>6. Max({i}) = i
      BY <3>3 DEF Max
    <3>7. r.queue_idx[q] = i
      BY <2>0, <3>5, <3>6
    <3> QED
      BY <1>0, <2>2, <3>3, <3>7 DEF i
  <2>3. CASE ~(k.status[q] = "SLEEP" /\ q # a)
    <3>1. at(q) = {}
      <4> SUFFICES ASSUME NEW i \in at(q) PROVE FALSE
        OBVIOUS
      <4>1. q = a /\ k.queue_idx[q] = i + 1 /\ i \in 0..n-2
        BY <2>1, <2>3
      <4> QED
        BY <1>0, <4>1
    <3> QED
      BY <1>0, <2>0, <2>3, <3>1
  <2> QED
    BY <2>2, <2>3
<1>7. r.queue_idx \in [Proc -> Nat]
  <2>1. r.queue_idx = [q \in Proc |-> r.queue_idx[q]]
    BY <1>1
  <2> QED
    BY <1>6, <2>1
<1> QED
  BY <1>1, <1>4, <1>5, <1>6, <1>7 DEF r, a

\* The first sleeper wakes.
LEMMA FirstAwake ==
  ASSUME NEW k, Calm(k), Lined(k), k.sleep_size > 0
  PROVE  LET a == k.sleep[0]
             r == process_awake(k, a)
         IN  /\ Calm(r) /\ Lined(r)
             /\ r.status = [k.status EXCEPT ![a] = "READY"]
             /\ r.sleep = [i \in Slots |-> IF i < k.sleep_size - 1 THEN k.sleep[i + 1] ELSE Nil]
             /\ r.sleep_size = k.sleep_size - 1
             /\ r.sleep_time = k.sleep_time
<1> DEFINE a == k.sleep[0]
           n == k.sleep_size
           s == sleep_remove(k, a)
           r == ReadyInsert(s, a)
           l == [i \in Slots |-> IF i < n - 1 THEN k.sleep[i + 1] ELSE Nil]
<1>0. /\ MAX_PROCESSES \in Nat /\ n \in Nat /\ n > 0 /\ n < MAX_PROCESSES
      /\ a \in Proc /\ k.queue_idx[a] = 0 /\ k.status[a] = "SLEEP" /\ 0 \in 0..n-1
      /\ k.status \in [Proc -> {"READY", "SLEEP"}]
      /\ \A i \in 0..n-1 : k.sleep[i] \in Proc /\ k.queue_idx[k.sleep[i]] = i
                           /\ k.status[k.sleep[i]] = "SLEEP"
      /\ \A p \in Proc : k.status[p] = "SLEEP" =>
           k.queue_idx[p] \in 0..n-1 /\ k.sleep[k.queue_idx[p]] = p
  <2>1. MAX_PROCESSES \in Nat /\ n \in 0..MAX_PROCESSES-1 /\ n > 0
    BY SleepAssumption DEF Lined
  <2>2. n \in Nat /\ n < MAX_PROCESSES /\ 0 \in 0..n-1
    BY <2>1
  <2> HIDE DEF n
  <2> QED
    BY <2>1, <2>2 DEF Lined, Calm, n
<1>1. /\ Shaped(s) /\ s.sleep = l /\ s.sleep_size = n - 1
      /\ s.queue_idx \in [Proc -> Nat]
      /\ \A q \in Proc : s.queue_idx[q] = IF k.status[q] = "SLEEP" /\ q # a
                                          THEN k.queue_idx[q] - 1 ELSE k.queue_idx[q]
      /\ s.status = k.status /\ s.queue = k.queue /\ s.queue_size = k.queue_size
      /\ s.group = k.group /\ s.sleep_time = k.sleep_time
  BY FirstRemoved
<1> HIDE DEF s
<1>2. Calm(s)
  <2>1. \A p \in Proc : s.status[p] = "READY" => s.queue_idx[p] = 0
    <3> SUFFICES ASSUME NEW p \in Proc, s.status[p] = "READY" PROVE s.queue_idx[p] = 0
      OBVIOUS
    <3>1. k.status[p] = "READY" /\ k.queue_idx[p] = 0
      BY <1>1 DEF Calm
    <3> QED
      BY <1>1, <3>1
  <2> QED
    BY <1>1, <2>1, SMTT(30) DEF Calm
<1>3. /\ Calm(r)
      /\ r.status = [s.status EXCEPT ![a] = "READY"]
      /\ r.queue_idx = [s.queue_idx EXCEPT ![a] = 0]
      /\ r.sleep = s.sleep /\ r.sleep_size = s.sleep_size /\ r.sleep_time = s.sleep_time
  BY <1>0, <1>1, <1>2, WakeKeeps
<1> HIDE DEF r
<1>4. \A p \in Proc : r.status[p] = "SLEEP" <=> k.status[p] = "SLEEP" /\ p # a
  BY <1>0, <1>1, <1>3
<1>5. \A p \in Proc : k.status[p] = "SLEEP" /\ p # a => r.queue_idx[p] = k.queue_idx[p] - 1
  BY <1>1, <1>3
<1>6. Lined(r)
  <2>1. r.sleep_size \in 0..MAX_PROCESSES-1 /\ r.sleep_size = n - 1 /\ r.sleep = l
    BY <1>0, <1>1, <1>3
  <2>2. ASSUME NEW i \in 0..r.sleep_size-1
        PROVE  r.sleep[i] \in Proc /\ r.status[r.sleep[i]] = "SLEEP" /\ r.queue_idx[r.sleep[i]] = i
    <3>1. i \in Slots /\ i < n - 1 /\ i + 1 \in 0..n-1 /\ i + 1 # 0 /\ i \in Int
      BY <1>0, <2>1 DEF Slots
    <3>2. r.sleep[i] = k.sleep[i + 1]
      BY <2>1, <3>1
    <3>3. /\ k.sleep[i + 1] \in Proc /\ k.queue_idx[k.sleep[i + 1]] = i + 1
          /\ k.status[k.sleep[i + 1]] = "SLEEP"
      BY <1>0, <3>1
    <3>4. k.sleep[i + 1] # a
      BY <1>0, <3>1, <3>3
    <3> HIDE DEF a
    <3> QED
      BY <1>4, <1>5, <3>1, <3>2, <3>3, <3>4
  <2>3. ASSUME NEW p \in Proc, r.status[p] = "SLEEP"
        PROVE  r.queue_idx[p] \in 0..r.sleep_size-1 /\ r.sleep[r.queue_idx[p]] = p
    <3>1. k.status[p] = "SLEEP" /\ p # a
      BY <1>4, <2>3
    <3>2. k.queue_idx[p] \in 0..n-1 /\ k.sleep[k.queue_idx[p]] = p
      BY <1>0, <3>1
    <3>3. k.queue_idx[p] # 0
      BY <3>1, <3>2
    <3>4. r.queue_idx[p] = k.queue_idx[p] - 1
      BY <1>5, <3>1
    <3>5. /\ r.queue_idx[p] \in 0..n-2 /\ r.queue_idx[p] + 1 = k.queue_idx[p]
          /\ r.queue_idx[p] \in Slots /\ r.queue_idx[p] < n - 1
      BY <1>0, <3>2, <3>3, <3>4 DEF Slots
    <3>6. r.sleep[r.queue_idx[p]] = k.sleep[k.queue_idx[p]]
      BY <2>1, <3>5
    <3> QED
      BY <1>0, <2>1, <3>2, <3>5, <3>6
  <2>4. \A i \in Slots : i >= r.sleep_size => r.sleep[i] = Nil
    BY <1>0, <2>1 DEF Slots
  <2>5. r.sleep = [i \in Slots |-> r.sleep[i]]
    BY <2>1
  <2> QED
    BY <2>1, <2>2, <2>3, <2>4, <2>5 DEF Lined
<1> QED
  BY <1>1, <1>3, <1>6 DEF process_awake, r, s

-----------------------------------------------------------------------------
(* What is left of the requests.                                           *)

\* B[i] is the sum of the deltas before slot i.
Sums(k, B) ==
    /\ B \in [0..k.sleep_size -> Nat]
    /\ B[0] = 0
    /\ \A i \in 0..k.sleep_size-1 : B[i + 1] = B[i] + k.sleep_time[k.sleep[i]]

\* A sleeper waits no less than what is left of its request, but for one tick
\* for each of those before it that were woken.
Owed(k, l, h, B) ==
    \A i \in 0..k.sleep_size-1 :
        h[k.sleep[i]] >= i /\ l[k.sleep[i]] <= B[i + 1] + h[k.sleep[i]] - i

\* Within one schedule() (e = 1) the request of the woken has a tick more left.
Fit(k, l, h, e) ==
    /\ Calm(k) /\ Lined(k)
    /\ l \in [Proc -> Nat] /\ h \in [Proc -> Nat]
    /\ \A p \in Proc : k.status[p] = "READY" => l[p] <= h[p] + e
    /\ \E B : Sums(k, B) /\ Owed(k, l, h, B)

\* A tick leaves the array of sleepers as it is.
LEMMA TickKeeps ==
  ASSUME NEW k, Calm(k), Lined(k), k.sleep_size > 0
  PROVE  LET r == Ticked(k)
         IN  /\ Calm(r) /\ Lined(r)
             /\ r.sleep_time = [k.sleep_time EXCEPT ![k.sleep[0]] = UDecr(@)]
             /\ r.status = k.status /\ r.sleep = k.sleep /\ r.sleep_size = k.sleep_size
<1> DEFINE r == Ticked(k)
<1>0. k.sleep_size # 0 /\ k.sleep[0] \in Proc
  <2>1. k.sleep_size \in Nat
    BY SleepAssumption DEF Lined
  <2>2. 0 \in 0..k.sleep_size-1
    BY <2>1
  <2> QED
    BY <2>2 DEF Lined
<1>1. /\ Shaped(r)
      /\ r.sleep_time = [k.sleep_time EXCEPT ![k.sleep[0]] = UDecr(@)]
      /\ r.status = k.status /\ r.queue_idx = k.queue_idx /\ r.queue = k.queue
      /\ r.queue_size = k.queue_size /\ r.group = k.group
      /\ r.sleep = k.sleep /\ r.sleep_size = k.sleep_size
  BY <1>0, TickedIs DEF Calm
<1> HIDE DEF r
<1>2. \A n \in 0..UINT_MAX : UDecr(n) \in 0..UINT_MAX
  BY UIntAssumption DEF UDecr
<1>3. r.sleep_time \in [Proc -> 0..UINT_MAX]
  BY <1>0, <1>1, <1>2 DEF Calm
<1>4. Calm(r)
  BY <1>1, <1>3 DEF Calm
<1>5. Lined(r)
  BY <1>1 DEF Lined
<1> QED
  BY <1>1, <1>4, <1>5 DEF r

\* The largest unsigned number is not zero.
LEMMA UIntPositive == UINT_MAX \in Nat /\ UINT_MAX > 0
<1>1. Cardinality(Proc) \in Nat
  BY ProcAssumption, FS_CardinalityType
<1> QED
  BY <1>1, UIntAssumption

\* The first sleeper pays one tick with its last turn, and so does every sum
\* of deltas; the ones behind it move up.
LEMMA TurnFits ==
  ASSUME NEW k, NEW l, NEW h, Fit(k, l, h, 1)
  PROVE  Fit(Turn(k), l, h, 1)
<1>1. CASE ~Due(k)
  BY <1>1 DEF Turn
<1>2. CASE Due(k)
  <2> DEFINE d == Ticked(k)
             a == k.sleep[0]
             n == k.sleep_size
             r == process_awake(d, a)
  <2>0. /\ Calm(k) /\ Lined(k) /\ n \in Nat /\ n > 0 /\ MAX_PROCESSES \in Nat /\ n < MAX_PROCESSES
        /\ a \in Proc /\ k.status[a] = "SLEEP" /\ 0 \in 0..n-1
        /\ k.sleep_time \in [Proc -> 0..UINT_MAX]
        /\ l \in [Proc -> Nat] /\ h \in [Proc -> Nat]
        /\ k.status \in [Proc -> {"READY", "SLEEP"}]
    <3>1. MAX_PROCESSES \in Nat /\ n \in 0..MAX_PROCESSES-1 /\ n > 0
      BY <1>2, SleepAssumption DEF Fit, Lined, Due
    <3>2. n \in Nat /\ n < MAX_PROCESSES /\ 0 \in 0..n-1
      BY <3>1
    <3> QED
      BY <3>1, <3>2 DEF Fit, Lined, Calm
  <2>1. Turn(k) = r
    BY <1>2 DEF Turn
  <2>2. k.sleep_time[a] = 1
    <3>1. UDecr(k.sleep_time[a]) = 0 /\ k.sleep_time[a] \in 0..UINT_MAX
      BY <1>2, <2>0 DEF Due
    <3> QED
      BY <3>1, UIntPositive DEF UDecr
  <2>3. /\ Calm(d) /\ Lined(d)
        /\ d.sleep_time = [k.sleep_time EXCEPT ![a] = UDecr(@)]
        /\ d.status = k.status /\ d.sleep = k.sleep /\ d.sleep_size = n
    BY <2>0, TickKeeps
  <2> HIDE DEF d
  <2>4. /\ Calm(r) /\ Lined(r)
        /\ r.status = [k.status EXCEPT ![a] = "READY"]
        /\ r.sleep = [i \in Slots |-> IF i < n - 1 THEN k.sleep[i + 1] ELSE Nil]
        /\ r.sleep_size = n - 1
        /\ r.sleep_time = [k.sleep_time EXCEPT ![a] = UDecr(@)]
    BY <2>0, <2>3, FirstAwake
  <2> HIDE DEF r
  <2>5. PICK B : Sums(k, B) /\ Owed(k, l, h, B)
    BY DEF Fit
  <2>6. /\ B \in [0..n -> Nat] /\ B[0] = 0 /\ B[1] = 1
        /\ \A i \in 0..n-1 : B[i + 1] = B[i] + k.sleep_time[k.sleep[i]]
    <3>1. /\ B \in [0..n -> Nat] /\ B[0] = 0
          /\ \A i \in 0..n-1 : B[i + 1] = B[i] + k.sleep_time[k.sleep[i]]
      BY <2>5 DEF Sums
    <3>2. B[0 + 1] = B[0] + k.sleep_time[k.sleep[0]]
      BY <2>0, <3>1
    <3> QED
      BY <2>2, <3>1, <3>2
  <2>7. /\ \A i \in 0..n-1 : k.sleep[i] \in Proc /\ k.queue_idx[k.sleep[i]] = i
        /\ \A i \in 0..n-1 : h[k.sleep[i]] >= i /\ l[k.sleep[i]] <= B[i + 1] + h[k.sleep[i]] - i
    BY <2>0, <2>5 DEF Lined, Owed
  <2>8. \A i \in 0..n-2 : /\ i \in Int /\ i + 1 \in 0..n-1 /\ i + 1 # 0 /\ i \in Slots
                          /\ i < n - 1 /\ i + 1 \in 0..n /\ i + 2 \in 0..n
                          /\ (i + 1) + 1 = i + 2
    BY <2>0 DEF Slots
  <2>9. \A i \in 0..n-2 : r.sleep[i] = k.sleep[i + 1] /\ k.sleep[i + 1] # a
    <3> SUFFICES ASSUME NEW i \in 0..n-2 PROVE r.sleep[i] = k.sleep[i + 1] /\ k.sleep[i + 1] # a
      OBVIOUS
    <3>1. r.sleep[i] = k.sleep[i + 1]
      BY <2>4, <2>8
    <3>2. k.queue_idx[a] = 0 /\ k.queue_idx[k.sleep[i + 1]] = i + 1
      BY <2>0, <2>7, <2>8
    <3> QED
      BY <2>8, <3>1, <3>2
  <2> DEFINE C == [i \in 0..n-1 |-> B[i + 1] - 1]
  <2> HIDE DEF a
  <2>10. \A i \in 0..n-1 : B[i + 1] \in Nat /\ B[i + 1] >= 1
    <3> DEFINE S == {i \in 0..n-1 : B[i + 1] >= 1}
    <3>1. 0 \in S
      BY <2>0, <2>6
    <3>2. ASSUME NEW i \in 0+1..n-1, i - 1 \in S PROVE i \in S
      <4>1. i \in 0..n-1 /\ (i - 1) + 1 = i /\ B[i] >= 1 /\ i \in 0..n /\ i + 1 \in 0..n
        BY <2>0, <3>2
      <4>2. B[i + 1] = B[i] + k.sleep_time[k.sleep[i]]
        BY <2>6, <4>1
      <4>3. k.sleep[i] \in Proc
        BY <2>7, <4>1
      <4>4. k.sleep_time[k.sleep[i]] \in Nat
        BY <2>0, <4>3, UIntPositive
      <4> QED
        BY <2>6, <4>1, <4>2, <4>4
    <3> HIDE DEF S
    <3>3. n - 1 \in Nat
      BY <2>0
    <3>4. \A i \in 0..n-1 : i \in S
      BY <3>1, <3>2, <3>3, LoopInduction
    <3>5. \A i \in 0..n-1 : i + 1 \in 0..n
      BY <2>0
    <3> QED
      BY <2>6, <3>4, <3>5 DEF S
  <2>11. Sums(r, C)
    <3>1. C \in [0..r.sleep_size -> Nat]
      BY <2>0, <2>4, <2>10
    <3>2. C[0] = 0
      BY <2>0, <2>6
    <3>3. ASSUME NEW i \in 0..n-2 PROVE C[i + 1] = C[i] + r.sleep_time[r.sleep[i]]
      <4>1. C[i] = B[i + 1] - 1 /\ C[i + 1] = B[(i + 1) + 1] - 1
        BY <2>0, <2>8
      <4>2. B[(i + 1) + 1] = B[i + 1] + k.sleep_time[k.sleep[i + 1]]
        BY <2>6, <2>8
      <4>3. k.sleep[i + 1] \in Proc /\ k.sleep_time[k.sleep[i + 1]] \in Nat
        BY <2>0, <2>7, <2>8, UIntPositive
      <4>4. r.sleep_time[r.sleep[i]] = k.sleep_time[k.sleep[i + 1]]
        BY <2>0, <2>4, <2>9, <4>3
      <4>5. B[i + 1] \in Nat
        BY <2>6, <2>8
      <4> QED
        BY <4>1, <4>2, <4>3, <4>4, <4>5
    <3> HIDE DEF C
    <3>4. r.sleep_size-1 = n-2 /\ r.sleep_size = n - 1
      BY <2>0, <2>4
    <3> QED
      BY <3>1, <3>2, <3>3, <3>4 DEF Sums
  <2>12. Owed(r, l, h, C)
    <3>1. ASSUME NEW i \in 0..n-2
          PROVE  h[r.sleep[i]] >= i /\ l[r.sleep[i]] <= C[i + 1] + h[r.sleep[i]] - i
      <4> DEFINE p == k.sleep[i + 1]
      <4>1. C[i + 1] = B[i + 2] - 1 /\ B[i + 2] \in Nat
        BY <2>0, <2>6, <2>8
      <4>2. p \in Proc /\ h[p] >= i + 1 /\ l[p] <= B[i + 2] + h[p] - (i + 1) /\ r.sleep[i] = p
        BY <2>7, <2>8, <2>9
      <4>3. h[p] \in Nat /\ l[p] \in Nat
        BY <2>0, <4>2
      <4> HIDE DEF p, C
      <4> QED
        BY <2>8, <4>1, <4>2, <4>3
    <3> HIDE DEF C
    <3>2. r.sleep_size-1 = n-2
      BY <2>0, <2>4
    <3> QED
      BY <3>1, <3>2 DEF Owed
  <2>13. ASSUME NEW p \in Proc, r.status[p] = "READY" PROVE l[p] <= h[p] + 1
    <3>1. CASE p = a
      <4>1. l[a] <= B[0 + 1] + h[a] - 0
        BY <2>0, <2>7 DEF a
      <4> QED
        BY <2>0, <2>6, <3>1, <4>1
    <3>2. CASE p # a
      <4>1. k.status[p] = "READY"
        BY <2>4, <2>13, <3>2
      <4> QED
        BY <4>1 DEF Fit
    <3> QED
      BY <3>1, <3>2
  <2> HIDE DEF C
  <2>14. \E D : Sums(r, D) /\ Owed(r, l, h, D)
    BY <2>11, <2>12
  <2> QED
    BY <2>0, <2>1, <2>4, <2>13, <2>14 DEF Fit
<1> QED
  BY <1>1, <1>2

\* The decrement of the first sleeper that is left pays for this tick; when it
\* wraps, the sums only grow.
LEMMA LastTickFits ==
  ASSUME NEW k, NEW l, NEW h, Fit(k, l, h, 1)
  PROVE  Fit(Ticked(k), OneLess(l), h, 0)
<1> DEFINE r == Ticked(k)
           m == OneLess(l)
           n == k.sleep_size
<1>0. /\ Calm(k) /\ Lined(k) /\ n \in Nat
      /\ k.sleep_time \in [Proc -> 0..UINT_MAX]
      /\ l \in [Proc -> Nat] /\ h \in [Proc -> Nat]
      /\ k.status \in [Proc -> {"READY", "SLEEP"}]
  <2>1. n \in Nat
    BY SleepAssumption DEF Fit, Lined
  <2> QED
    BY <2>1 DEF Fit, Calm
<1>1. /\ m \in [Proc -> Nat]
      /\ \A p \in Proc : m[p] = IF l[p] = 0 THEN 0 ELSE l[p] - 1
  BY <1>0 DEF OneLess
<1>2. \A p \in Proc : k.status[p] = "READY" => m[p] <= h[p] + 0
  <2> SUFFICES ASSUME NEW p \in Proc, k.status[p] = "READY" PROVE m[p] <= h[p]
    BY <1>0
  <2>1. l[p] <= h[p] + 1 /\ l[p] \in Nat /\ h[p] \in Nat
    BY <1>0 DEF Fit
  <2> QED
    BY <1>1, <2>1
<1> HIDE DEF r, m
<1>3. CASE n = 0
  <2>1. r = k
    BY <1>3 DEF Ticked, r
  <2>2. \A B : Owed(k, m, h, B)
    BY <1>3 DEF Owed
  <2>3. PICK B : Sums(k, B)
    BY DEF Fit
  <2> QED
    BY <1>0, <1>1, <1>2, <2>1, <2>2, <2>3 DEF Fit, r, m
<1>4. CASE n > 0
  <2> DEFINE a == k.sleep[0]
             x == UDecr(k.sleep_time[a])
  <2>0. a \in Proc /\ 0 \in 0..n-1 /\ k.queue_idx[a] = 0
        /\ \A i \in 0..n-1 : k.sleep[i] \in Proc /\ k.queue_idx[k.sleep[i]] = i
    <3>1. 0 \in 0..n-1
      BY <1>0, <1>4
    <3> QED
      BY <1>0, <3>1 DEF Lined
  <2>1. k.sleep_time[a] \in Nat /\ x \in Nat /\ x >= k.sleep_time[a] - 1
    <3>1. k.sleep_time[a] \in 0..UINT_MAX
      BY <1>0, <2>0
    <3> QED
      BY <3>1, UIntPositive DEF UDecr
  <2>2. /\ Calm(r) /\ Lined(r)
        /\ r.sleep_time = [k.sleep_time EXCEPT ![a] = x]
        /\ r.status = k.status /\ r.sleep = k.sleep /\ r.sleep_size = n
    <3>1. /\ Calm(r) /\ Lined(r)
          /\ r.sleep_time = [k.sleep_time EXCEPT ![a] = UDecr(@)]
          /\ r.status = k.status /\ r.sleep = k.sleep /\ r.sleep_size = n
      BY <1>0, <1>4, TickKeeps DEF r
    <3> QED
      BY <1>0, <2>0, <3>1
  <2>3. PICK B : Sums(k, B) /\ Owed(k, l, h, B)
    BY DEF Fit
  <2>4. /\ B \in [0..n -> Nat] /\ B[0] = 0
        /\ \A i \in 0..n-1 : B[i + 1] = B[i] + k.sleep_time[k.sleep[i]]
        /\ \A i \in 0..n-1 : h[k.sleep[i]] >= i /\ l[k.sleep[i]] <= B[i + 1] + h[k.sleep[i]] - i
    BY <2>3 DEF Sums, Owed
  <2> DEFINE c == x - k.sleep_time[a]
             C == [i \in 0..n |-> IF i = 0 THEN 0 ELSE B[i] + c]
  <2>5. c \in Int /\ c >= 0 - 1
    BY <2>1
  <2> HIDE DEF x, a
  <2>6. \A i \in 0..n-1 : i + 1 \in 0..n /\ i + 1 # 0 /\ i \in 0..n /\ B[i + 1] + c \in Nat
    <3> DEFINE S == {i \in 0..n-1 : B[i + 1] + c \in Nat}
    <3>1. 0 \in S
      <4>1. B[0 + 1] = B[0] + k.sleep_time[k.sleep[0]]
        BY <2>0, <2>4
      <4> QED
        BY <2>0, <2>1, <2>4, <4>1 DEF a
    <3>2. ASSUME NEW i \in 0+1..n-1, i - 1 \in S PROVE i \in S
      <4>1. i \in 0..n-1 /\ (i - 1) + 1 = i /\ B[i] + c \in Nat /\ i \in 0..n /\ i + 1 \in 0..n
        BY <1>0, <3>2
      <4>2. B[i + 1] = B[i] + k.sleep_time[k.sleep[i]]
        BY <2>4, <4>1
      <4>3. k.sleep[i] \in Proc
        BY <2>0, <4>1
      <4>4. k.sleep_time[k.sleep[i]] \in Nat
        BY <1>0, <4>3, UIntPositive
      <4>5. B[i] \in Nat
        BY <2>4, <4>1
      <4> HIDE DEF c
      <4> QED
        BY <2>5, <4>1, <4>2, <4>4, <4>5
    <3> HIDE DEF S, c
    <3>3. n - 1 \in Nat
      BY <1>0, <1>4
    <3>4. \A i \in 0..n-1 : i \in S
      BY <3>1, <3>2, <3>3, LoopInduction
    <3> QED
      BY <1>0, <3>4 DEF S
  <2> HIDE DEF c
  <2>7. C[0] = 0 /\ \A i \in 0..n-1 : C[i + 1] = B[i + 1] + c
    BY <1>0, <2>6
  <2>8. Sums(r, C)
    <3>1. C \in [0..n -> Nat]
      <4> SUFFICES ASSUME NEW i \in 0..n PROVE (IF i = 0 THEN 0 ELSE B[i] + c) \in Nat
        OBVIOUS
      <4>1. CASE i # 0
        <5>1. i - 1 \in 0..n-1 /\ (i - 1) + 1 = i
          BY <1>0, <4>1
        <5>2. B[(i - 1) + 1] + c \in Nat
          BY <2>6, <5>1
        <5> QED
          BY <4>1, <5>1, <5>2
      <4> QED
        BY <4>1
    <3> HIDE DEF C
    <3>2. ASSUME NEW i \in 0..n-1 PROVE C[i + 1] = C[i] + r.sleep_time[r.sleep[i]]
      <4>1. C[i + 1] = B[i + 1] + c /\ B[i + 1] = B[i] + k.sleep_time[k.sleep[i]]
        BY <2>4, <2>7
      <4>2. CASE i = 0
        <5>1. r.sleep_time[r.sleep[0]] = x
          BY <1>0, <2>0, <2>2 DEF a
        <5>2. C[i] = 0 /\ B[i] = 0
          BY <2>4, <2>7, <4>2
        <5>3. k.sleep_time[k.sleep[i]] = k.sleep_time[a]
          BY <4>2 DEF a
        <5> QED
          BY <2>1, <4>1, <4>2, <5>1, <5>2, <5>3 DEF c
      <4>3. CASE i # 0
        <5>1. i - 1 \in 0..n-1 /\ (i - 1) + 1 = i /\ i \in 0..n-1
          BY <1>0, <4>3
        <5>2. C[i] = B[i] + c
          BY <2>7, <5>1
        <5>3. k.sleep[i] \in Proc /\ k.sleep[i] # a
          BY <2>0, <4>3
        <5>4. r.sleep_time[r.sleep[i]] = k.sleep_time[k.sleep[i]]
          BY <1>0, <2>2, <5>3
        <5>5. B[i] \in Nat
          <6>1. i \in 0..n
            BY <1>0, <5>1
          <6> QED
            BY <2>4, <6>1
        <5>6. k.sleep_time[k.sleep[i]] \in Nat
          BY <1>0, <5>3, UIntPositive
        <5> QED
          BY <2>5, <4>1, <5>2, <5>4, <5>5, <5>6
      <4> QED
        BY <4>2, <4>3
    <3> QED
      BY <2>2, <2>7, <3>1, <3>2 DEF Sums
  <2> HIDE DEF C
  <2>9. Owed(r, m, h, C)
    <3> SUFFICES ASSUME NEW i \in 0..n-1
                 PROVE  h[k.sleep[i]] >= i /\ m[k.sleep[i]] <= C[i + 1] + h[k.sleep[i]] - i
      BY <2>2 DEF Owed
    <3> DEFINE p == k.sleep[i]
    <3>1. p \in Proc /\ h[p] >= i /\ l[p] <= B[i + 1] + h[p] - i /\ i \in Int
      BY <2>0, <2>4
    <3>2. h[p] \in Nat /\ l[p] \in Nat /\ m[p] = IF l[p] = 0 THEN 0 ELSE l[p] - 1
      BY <1>0, <1>1, <3>1
    <3>3. C[i + 1] = B[i + 1] + c /\ B[i + 1] + c \in Nat /\ B[i + 1] \in Nat
      BY <2>4, <2>6, <2>7
    <3> HIDE DEF p
    <3> QED
      BY <2>5, <3>1, <3>2, <3>3 DEF p
  <2>10. \E D : Sums(r, D) /\ Owed(r, m, h, D)
    BY <2>8, <2>9
  <2>11. \A p \in Proc : r.status[p] = "READY" => m[p] <= h[p] + 0
    BY <1>2, <2>2
  <2> QED
    BY <1>0, <1>1, <2>2, <2>10, <2>11 DEF Fit, r, m
<1> QED
  BY <1>0, <1>3, <1>4

\* schedule() takes a tick off every request, whoever it wakes.
LEMMA CountDownFits ==
  ASSUME NEW k, NEW l, NEW h, Fit(k, l, h, 0)
  PROVE  Fit(CountDown(k), OneLess(l), h, 0)
<1> DEFINE n == k.sleep_size
<1>1. n \in Nat
  BY SleepAssumption DEF Fit, Lined
<1>2. Fit(k, l, h, 1)
  <2>1. \A p \in Proc : k.status[p] = "READY" => l[p] <= h[p] + 1
    <3> SUFFICES ASSUME NEW p \in Proc, k.status[p] = "READY" PROVE l[p] <= h[p] + 1
      OBVIOUS
    <3>1. l[p] <= h[p] + 0 /\ l[p] \in Nat /\ h[p] \in Nat
      BY DEF Fit
    <3> QED
      BY <3>1
  <2> QED
    BY <2>1 DEF Fit
<1>3. PICK f : TurnsFrom(k, n, f) /\ CountDown(k) = Ticked(f[n])
  BY <1>1, CountDownIs
<1>4. \A i \in 0..n : f[i] = IF i = 0 THEN k ELSE Turn(f[i - 1])
  BY <1>3 DEF TurnsFrom
<1> DEFINE S == {i \in 0..n : Fit(f[i], l, h, 1)}
<1>5. 0 \in S
  BY <1>1, <1>2, <1>4
<1>6. ASSUME NEW i \in 0+1..n, i - 1 \in S PROVE i \in S
  <2>1. i \in 0..n /\ f[i] = Turn(f[i - 1]) /\ Fit(f[i - 1], l, h, 1)
    BY <1>1, <1>4, <1>6
  <2>2. Fit(Turn(f[i - 1]), l, h, 1)
    BY <2>1, TurnFits
  <2> QED
    BY <2>1, <2>2
<1> HIDE DEF S
<1>7. \A i \in 0..n : i \in S
  BY <1>1, <1>5, <1>6, LoopInduction
<1>8. Fit(f[n], l, h, 1)
  BY <1>1, <1>7 DEF S
<1> QED
  BY <1>3, <1>8, LastTickFits

-----------------------------------------------------------------------------
(* Going to sleep.                                                         *)

\* A number smaller than the modulus is its own remainder.
LEMMA ModSmall ==
  ASSUME NEW n \in Nat, NEW m \in 0..n
  PROVE  m % (n + 1) = m
<1> DEFINE d == n + 1
           q == m \div d
           r == m % d
<1>1. d \in Nat /\ d > 0 /\ m \in Nat /\ m < d
  OBVIOUS
<1> HIDE DEF d
<1>2. q \in Int /\ r \in 0..d-1 /\ m = d * q + r
  BY <1>1
<1> HIDE DEF q, r
<1>3. q = 0
  BY <1>1, <1>2
<1> QED
  BY <1>1, <1>2, <1>3 DEF r, d

\* Quotient and remainder of an integer.
LEMMA Division ==
  ASSUME NEW s \in Int, NEW w \in Nat, w > 0
  PROVE  s % w \in 0..w-1 /\ s \div w \in Int /\ s = w * (s \div w) + (s % w)
  OBVIOUS

\* What is asked for is reached by the deltas before the new sleeper, b in all,
\* and its own: the sum that sleep_insert subtracts is the remainder of b.
LEMMA Reached ==
  ASSUME NEW b \in Nat, NEW t \in 0..UINT_MAX
  PROVE  LET d == USub(t, b % (UINT_MAX + 1))
         IN  d \in 0..UINT_MAX /\ t <= b + d
<1> DEFINE w == UINT_MAX + 1
           r == b % w
           d == (t - r) % w
           q == b \div w
           v == (t - r) \div w
<1>0. USub(t, r) = d
  BY DEF USub
<1>1. w \in Nat /\ w > 0 /\ t \in Int /\ t >= 0 /\ t < w /\ UINT_MAX = w - 1
  BY UIntPositive
<1> HIDE DEF w
<1>2. r \in 0..w-1 /\ q \in Int /\ b = w * q + r
  BY <1>1
<1>3. t - r \in Int
  BY <1>1, <1>2
<1> HIDE DEF r, q
<1>4. d \in 0..w-1 /\ v \in Int /\ t - r = w * v + d
  BY <1>1, <1>3, Division
<1> HIDE DEF d, v
<1>5. q >= 0
  <2>1. w * q > 0 - w
    BY <1>1, <1>2
  <2> QED
    BY <1>1, <1>2, <2>1
<1>6. v <= 0
  <2>1. w * v < w
    BY <1>1, <1>2, <1>4
  <2> QED
    BY <1>1, <1>4, <2>1
<1>7. w * q >= 0 /\ w * v <= 0
  BY <1>1, <1>2, <1>4, <1>5, <1>6
<1>8. t <= b + d
  BY <1>1, <1>2, <1>4, <1>7
<1> QED
  BY <1>0, <1>1, <1>4, <1>8 DEF r, w

\* The sum that sleep_insert runs up to slot i.
LEMMA DeltaBeforeIs ==
  ASSUME NEW k, k.sleep_size \in Nat, NEW B, Sums(k, B), NEW i \in 0..k.sleep_size
  PROVE  DeltaBefore(k, i) = B[i] % (UINT_MAX + 1)
<1> DEFINE t == k.sleep_time
           IsSum(f) == f = [n \in 0..i |-> IF n = 0 THEN 0
                                           ELSE f[n - 1] + t[k.sleep[n - 1]]]
           sum == CHOOSE f : IsSum(f)
           w == [n \in 0..i |-> B[n]]
<1>1. DeltaBefore(k, i) = sum[i] % (UINT_MAX + 1)
  BY DEF DeltaBefore
<1>2. ASSUME NEW n \in 0..i
      PROVE  w[n] = IF n = 0 THEN 0 ELSE w[n - 1] + t[k.sleep[n - 1]]
  <2>1. CASE n = 0
    BY <2>1 DEF Sums
  <2>2. CASE n # 0
    <3>1. n - 1 \in 0..k.sleep_size-1 /\ n - 1 \in 0..i /\ (n - 1) + 1 = n
      BY <2>2
    <3>2. B[(n - 1) + 1] = B[n - 1] + t[k.sleep[n - 1]]
      BY <3>1 DEF Sums
    <3> QED
      BY <2>2, <3>1, <3>2
  <2> QED
    BY <2>1, <2>2
<1>3. IsSum(w)
  BY <1>2
<1>4. IsSum(sum)
  <2> HIDE DEF w, IsSum
  <2> QED
    BY <1>3
<1> HIDE DEF sum
<1>5. \A n \in 0..i : sum[n] = IF n = 0 THEN 0 ELSE sum[n - 1] + t[k.sleep[n - 1]]
  BY <1>4
<1> DEFINE S == {n \in 0..i : sum[n] = w[n]}
<1>6. 0 \in S
  <2>1. 0 \in 0..i
    OBVIOUS
  <2>2. w[0] = 0 /\ sum[0] = 0
    BY <1>2, <1>5, <2>1
  <2> QED
    BY <2>1, <2>2
<1>7. ASSUME NEW n \in 0+1..i, n - 1 \in S PROVE n \in S
  <2>1. n \in 0..i /\ n # 0
    BY <1>7
  <2> HIDE DEF w
  <2>2. sum[n - 1] = w[n - 1]
    BY <1>7
  <2> QED
    BY <1>2, <1>5, <2>1, <2>2
<1> HIDE DEF S
<1>8. i \in Nat /\ i \in 0..i
  OBVIOUS
<1>9. \A n \in 0..i : n \in S
  BY <1>6, <1>7, <1>8, LoopInduction
<1>10. sum[i] = B[i]
  BY <1>8, <1>9 DEF S
<1> QED
  BY <1>1, <1>10

\* The least of some naturals.
LEMMA MinIs ==
  ASSUME NEW S, S \subseteq Nat, S # {}
  PROVE  Min(S) \in S /\ \A n \in S : Min(S) <= n
  BY LeastNat DEF Min

\* What process_sleep makes of the caller before sleep_insert: out of its
\* queue, but READY.
Leaving(k, p, t) == [ReadyRemove(k, p) EXCEPT !.sleep_time[p] = t]

\* The fields that process_sleep assigns before it calls sleep_insert.
LEMMA LeavingIs ==
  ASSUME NEW k, Calm(k), NEW p \in Proc, k.status[p] = "READY", NEW t \in 0..UINT_MAX
  PROVE  LET r == Leaving(k, p, t)
         IN  /\ Shaped(r)
             /\ r.queue = [k.queue EXCEPT ![p] = [i \in {0} |-> Nil]]
             /\ r.sleep_time = [k.sleep_time EXCEPT ![p] = t]
             /\ r.status = k.status /\ r.queue_idx = k.queue_idx /\ r.queue_size = k.queue_size
             /\ r.group = k.group /\ r.sleep = k.sleep /\ r.sleep_size = k.sleep_size
<1> DEFINE s == ReadyRemove(k, p)
<1>1. Shaped(k) /\ k.group[p] = p /\ k.queue_idx[p] = 0 /\ k.queue[p] = [i \in {0} |-> p]
  BY DEF Calm
<1>2. /\ Shaped(s)
      /\ s.queue = [k.queue EXCEPT ![p] = [@ EXCEPT ![k.queue_idx[p]] = Nil]]
      /\ s.status = k.status /\ s.queue_idx = k.queue_idx /\ s.queue_size = k.queue_size
      /\ s.group = k.group /\ s.sleep = k.sleep /\ s.sleep_size = k.sleep_size
      /\ s.sleep_time = k.sleep_time
  BY <1>1, ReadyRemoveIs
<1>3. [k.queue[p] EXCEPT ![k.queue_idx[p]] = Nil] = [i \in {0} |-> Nil]
  BY <1>1
<1> HIDE DEF s
<1>4. s.queue = [k.queue EXCEPT ![p] = [i \in {0} |-> Nil]]
  BY <1>2, <1>3
<1>5. LET r == [s EXCEPT !.sleep_time[p] = t]
      IN  /\ Shaped(r) /\ r.sleep_time = [s.sleep_time EXCEPT ![p] = t]
          /\ r.queue = s.queue
          /\ r.status = s.status /\ r.queue_idx = s.queue_idx /\ r.queue_size = s.queue_size
          /\ r.group = s.group /\ r.sleep = s.sleep /\ r.sleep_size = s.sleep_size
  BY <1>2 DEF Shaped, SFields
<1> QED
  BY <1>2, <1>4, <1>5 DEF Leaving, s

\* The caller is stored in a slot of the array, whatever the slot is.
LEMMA StoredKeeps ==
  ASSUME NEW k, Calm(k), NEW p \in Proc, NEW d \in 0..UINT_MAX, NEW i \in Nat,
         NEW r, Shaped(r),
         r.queue = [k.queue EXCEPT ![p] = [j \in {0} |-> Nil]],
         r.sleep_time = [k.sleep_time EXCEPT ![p] = d],
         r.status = [k.status EXCEPT ![p] = "SLEEP"],
         r.queue_idx = [k.queue_idx EXCEPT ![p] = i],
         r.queue_size = k.queue_size, r.group = k.group
  PROVE  Calm(r)
<1>1. /\ r.status \in [Proc -> {"READY", "SLEEP"}] /\ r.queue_idx \in [Proc -> Nat]
      /\ r.sleep_time \in [Proc -> 0..UINT_MAX]
      /\ r.group = [q \in Proc |-> q] /\ r.queue_size = [g \in Proc |-> 1]
      /\ \A q \in Proc : r.status[q] = "READY" => r.queue_idx[q] = 0
  BY DEF Calm
<1>2. ASSUME NEW g \in Proc
      PROVE  r.queue[g] = [j \in {0} |-> IF r.status[g] = "READY" THEN g ELSE Nil]
  <2>1. CASE g = p
    BY <2>1 DEF Calm
  <2>2. CASE g # p
    <3>1. r.queue[g] = k.queue[g] /\ r.status[g] = k.status[g]
      BY <2>2 DEF Calm
    <3> QED
      BY <3>1 DEF Calm
  <2> QED
    BY <2>1, <2>2
<1>3. r.queue = [g \in Proc |-> r.queue[g]]
  BY DEF Calm
<1>4. r.queue = [g \in Proc |-> [j \in {0} |-> IF r.status[g] = "READY" THEN g ELSE Nil]]
  BY <1>2, <1>3
<1> QED
  BY <1>1, <1>4 DEF Calm

\* While one process runs there is a slot left for it: the sleepers are others.
LEMMA RoomLeft ==
  ASSUME NEW k, Calm(k), Lined(k), NEW p \in Proc, k.status[p] = "READY"
  PROVE  k.sleep_size \in Nat /\ k.sleep_size + 1 < MAX_PROCESSES
<1> DEFINE n == k.sleep_size
           T == Proc \ {p}
           f == [i \in 0..n-1 |-> k.sleep[i]]
<1>1. n \in Nat
  BY SleepAssumption DEF Lined
<1>2. \A i \in 0..n-1 : k.sleep[i] \in T /\ k.queue_idx[k.sleep[i]] = i
  BY DEF Lined
<1> HIDE DEF n, T
<1>3. f \in Injection(0..n-1, T)
  <2>1. f \in [0..n-1 -> T]
    BY <1>2
  <2>2. \A i, j \in 0..n-1 : f[i] = f[j] => i = j
    BY <1>2
  <2> HIDE DEF f
  <2> QED
    BY <2>1, <2>2 DEF Injection, IsInjective
<1> HIDE DEF f
<1>4. /\ IsFiniteSet(T) /\ Cardinality(T) = Cardinality(Proc) - 1
      /\ Cardinality(Proc) \in Nat
  BY ProcAssumption, FS_RemoveElement, FS_CardinalityType DEF T
<1>5. Cardinality(0..n-1) <= Cardinality(T)
  BY <1>3, <1>4, FS_Injection
<1>6. Cardinality(0..n-1) = n
  <2>1. n - 1 \in Int /\ (0 > n - 1 <=> n = 0) /\ (n - 1) - 0 + 1 = n
    BY <1>1
  <2>2. Cardinality(0..n-1) = IF 0 > n - 1 THEN 0 ELSE (n - 1) - 0 + 1
    BY <2>1, FS_Interval
  <2> QED
    BY <2>1, <2>2
<1> QED
  BY <1>1, <1>4, <1>5, <1>6, SleepAssumption DEF n

\* Unless there is a sleeper in the slot the caller goes to, that is the slot
\* after the last sleeper, and the scan stopped there or one before.
LEMMA SlotIs ==
  ASSUME NEW k, NEW t, k.sleep_size \in Nat, k.sleep_size > 0, ~Between(k, t)
  PROVE  /\ SlotFor(k, t) = k.sleep_size
         /\ StopAt(k, t) \in {k.sleep_size - 1, k.sleep_size}
<1> DEFINE n == k.sleep_size
           S == Reaches(k, t)
<1>1. S \subseteq 0..n-1
  BY DEF Reaches
<1>2. IF S = {} THEN SlotFor(k, t) = n /\ StopAt(k, t) = n
      ELSE SlotFor(k, t) = Min(S) + 1 /\ StopAt(k, t) = Min(S)
  BY DEF SlotFor, StopAt
<1>3. ~(SlotFor(k, t) < n)
  BY DEF Between
<1> HIDE DEF S
<1>4. S # {} => Min(S) \in 0..n-1
  <2>1. S \subseteq Nat
    BY <1>1
  <2> QED
    BY <1>1, <2>1, MinIs
<1> QED
  BY <1>2, <1>3, <1>4

\* What sleep_insert assigns when it moves no sleeper.
LEMMA InsertIs ==
  ASSUME NEW s, Shaped(s), NEW p \in Proc, s.sleep_size \in Nat,
         s.sleep_time \in [Proc -> 0..UINT_MAX],
         ~Between(s, s.sleep_time[p]),
         s.sleep_size \in Slots, s.sleep[s.sleep_size] = Nil
  PROVE  LET r == sleep_insert(s, p)
             n == s.sleep_size
             d == IF n = 0 THEN s.sleep_time[p]
                  ELSE USub(s.sleep_time[p], DeltaBefore(s, StopAt(s, s.sleep_time[p])))
         IN  /\ Shaped(r)
             /\ r.status = [s.status EXCEPT ![p] = "SLEEP"]
             /\ r.sleep_time = [s.sleep_time EXCEPT ![p] = d]
             /\ r.sleep = [s.sleep EXCEPT ![n] = p]
             /\ r.queue_idx = [s.queue_idx EXCEPT ![p] = n]
             /\ r.sleep_size = n + 1
             /\ r.queue = s.queue /\ r.queue_size = s.queue_size /\ r.group = s.group
<1> DEFINE r == sleep_insert(s, p)
           n == s.sleep_size
           t == s.sleep_time[p]
           e == USub(t, DeltaBefore(s, StopAt(s, t)))
<1>1. CASE n = 0
  <2>1. r = [s EXCEPT !.status[p] = "SLEEP", !.sleep[0] = p, !.queue_idx[p] = 0, !.sleep_size = 1]
    BY <1>1 DEF sleep_insert
  <2> HIDE DEF r
  <2>2. /\ Shaped(r)
        /\ r.status = [s.status EXCEPT ![p] = "SLEEP"]
        /\ r.sleep_time = s.sleep_time
        /\ r.sleep = [s.sleep EXCEPT ![0] = p]
        /\ r.queue_idx = [s.queue_idx EXCEPT ![p] = 0]
        /\ r.sleep_size = 1
        /\ r.queue = s.queue /\ r.queue_size = s.queue_size /\ r.group = s.group
    BY <2>1, ZenonT(60) DEF Shaped, SFields
  <2>3. s.sleep_time = [s.sleep_time EXCEPT ![p] = t]
    OBVIOUS
  <2>4. n + 1 = 1
    BY <1>1
  <2> QED
    BY <1>1, <2>2, <2>3, <2>4 DEF r
<1>2. CASE n # 0
  <2>1. SlotFor(s, t) = n
    BY <1>2, SlotIs
  <2>2. Smear(s, n, e) = s
    BY DEF Smear
  <2>3. r = [Smear(s, SlotFor(s, t), e) EXCEPT
               !.status[p] = "SLEEP", !.sleep_time[p] = e, !.sleep[SlotFor(s, t)] = p,
               !.queue_idx[p] = SlotFor(s, t), !.sleep_size = @ + 1]
    BY <1>2 DEF sleep_insert
  <2> HIDE DEF r, e
  <2>4. r = [s EXCEPT !.status[p] = "SLEEP", !.sleep_time[p] = e, !.sleep[n] = p,
                      !.queue_idx[p] = n, !.sleep_size = @ + 1]
    BY <2>1, <2>2, <2>3
  <2>5. /\ Shaped(r)
        /\ r.status = [s.status EXCEPT ![p] = "SLEEP"]
        /\ r.sleep_time = [s.sleep_time EXCEPT ![p] = e]
        /\ r.sleep = [s.sleep EXCEPT ![n] = p]
        /\ r.queue_idx = [s.queue_idx EXCEPT ![p] = n]
        /\ r.sleep_size = n + 1
        /\ r.queue = s.queue /\ r.queue_size = s.queue_size /\ r.group = s.group
    BY <2>4, ZenonT(60) DEF Shaped, SFields
  <2> QED
    BY <1>2, <2>5 DEF r, e
<1> QED
  BY <1>1, <1>2

\* Going to sleep behind all sleepers: what was asked for is reached with the
\* delta of the caller.
LEMMA SleepFits ==
  ASSUME NEW k, NEW l, NEW h, Fit(k, l, h, 0), NEW p \in Proc, k.status[p] = "READY",
         NEW t \in 0..UINT_MAX, ~Between(Leaving(k, p, t), t)
  PROVE  Fit(sleep_insert(Leaving(k, p, t), p),
             [l EXCEPT ![p] = t], [h EXCEPT ![p] = k.sleep_size], 0)
<1> DEFINE s == Leaving(k, p, t)
           r == sleep_insert(s, p)
           n == k.sleep_size
           m == [l EXCEPT ![p] = t]
           g == [h EXCEPT ![p] = n]
           d == IF n = 0 THEN t ELSE USub(t, DeltaBefore(s, StopAt(s, t)))
<1>0. /\ Calm(k) /\ Lined(k) /\ t \in Nat /\ UINT_MAX \in Nat
      /\ l \in [Proc -> Nat] /\ h \in [Proc -> Nat]
      /\ k.sleep_time \in [Proc -> 0..UINT_MAX]
      /\ k.status \in [Proc -> {"READY", "SLEEP"}] /\ k.queue_idx \in [Proc -> Nat]
  BY UIntPositive DEF Fit, Calm
<1>1. n \in Nat /\ n + 1 < MAX_PROCESSES /\ n \in Slots /\ MAX_PROCESSES \in Nat
  <2>1. n \in Nat /\ n + 1 < MAX_PROCESSES
    BY <1>0, RoomLeft
  <2> QED
    BY <2>1, SleepAssumption DEF Slots
<1>2. /\ Shaped(s)
      /\ s.queue = [k.queue EXCEPT ![p] = [i \in {0} |-> Nil]]
      /\ s.sleep_time = [k.sleep_time EXCEPT ![p] = t]
      /\ s.status = k.status /\ s.queue_idx = k.queue_idx /\ s.queue_size = k.queue_size
      /\ s.group = k.group /\ s.sleep = k.sleep /\ s.sleep_size = n
  BY <1>0, LeavingIs
<1>3. /\ \A i \in 0..n-1 : /\ k.sleep[i] \in Proc /\ k.status[k.sleep[i]] = "SLEEP"
                           /\ k.queue_idx[k.sleep[i]] = i /\ k.sleep[i] # p
      /\ \A i \in Slots : i >= n => k.sleep[i] = Nil
      /\ k.sleep = [i \in Slots |-> k.sleep[i]]
      /\ \A q \in Proc : k.status[q] = "SLEEP" =>
           k.queue_idx[q] \in 0..n-1 /\ k.sleep[k.queue_idx[q]] = q
  BY <1>0 DEF Lined
<1> HIDE DEF s
<1>4. s.sleep_time[p] = t /\ s.sleep[n] = Nil
  BY <1>0, <1>1, <1>2, <1>3
<1>5. /\ Shaped(r)
      /\ r.status = [s.status EXCEPT ![p] = "SLEEP"]
      /\ r.sleep_time = [s.sleep_time EXCEPT ![p] = d]
      /\ r.sleep = [s.sleep EXCEPT ![n] = p]
      /\ r.queue_idx = [s.queue_idx EXCEPT ![p] = n]
      /\ r.sleep_size = n + 1
      /\ r.queue = s.queue /\ r.queue_size = s.queue_size /\ r.group = s.group
  <2>1. ~Between(s, s.sleep_time[p]) /\ s.sleep_size \in Nat /\ s.sleep_size \in Slots
        /\ s.sleep[s.sleep_size] = Nil
    BY <1>1, <1>2, <1>4 DEF s
  <2>2. s.sleep_time \in [Proc -> 0..UINT_MAX]
    BY <1>0, <1>2
  <2> DEFINE z == s.sleep_size
             e == IF z = 0 THEN s.sleep_time[p]
                  ELSE USub(s.sleep_time[p], DeltaBefore(s, StopAt(s, s.sleep_time[p])))
  <2>3. /\ Shaped(r)
        /\ r.status = [s.status EXCEPT ![p] = "SLEEP"]
        /\ r.sleep_time = [s.sleep_time EXCEPT ![p] = e]
        /\ r.sleep = [s.sleep EXCEPT ![z] = p]
        /\ r.queue_idx = [s.queue_idx EXCEPT ![p] = z]
        /\ r.sleep_size = z + 1
        /\ r.queue = s.queue /\ r.queue_size = s.queue_size /\ r.group = s.group
    BY <1>2, <2>1, <2>2, InsertIs
  <2>4. z = n /\ e = d
    BY <1>2, <1>4
  <2> HIDE DEF z, e, d, n, r
  <2> QED
    BY <2>3, <2>4
<1> HIDE DEF r
<1>6. PICK B : Sums(k, B) /\ Owed(k, l, h, B)
  BY DEF Fit
<1>7. /\ B \in [0..n -> Nat] /\ B[0] = 0 /\ B[n] \in Nat
      /\ \A i \in 0..n-1 : B[i + 1] = B[i] + k.sleep_time[k.sleep[i]]
      /\ \A i \in 0..n-1 : h[k.sleep[i]] >= i /\ l[k.sleep[i]] <= B[i + 1] + h[k.sleep[i]] - i
  BY <1>1, <1>6 DEF Sums, Owed
<1>8. d \in 0..UINT_MAX /\ t <= B[n] + d
  <2>1. CASE n = 0
    BY <1>0, <1>7, <2>1
  <2>2. CASE n # 0
    <3> DEFINE at == StopAt(s, t)
    <3>1. at \in {n - 1, n}
      BY <1>1, <1>2, <2>2, SlotIs DEF s
    <3>2. at \in 0..n /\ B[at] \in Nat /\ B[at] <= B[n]
      <4>1. n - 1 \in 0..n-1 /\ n - 1 \in 0..n /\ n \in 0..n /\ (n - 1) + 1 = n
        BY <1>1, <2>2
      <4>2. B[(n - 1) + 1] = B[n - 1] + k.sleep_time[k.sleep[n - 1]]
        BY <1>7, <4>1
      <4>3. k.sleep_time[k.sleep[n - 1]] \in Nat /\ B[n - 1] \in Nat
        <5>1. k.sleep[n - 1] \in Proc
          BY <1>3, <4>1
        <5>2. k.sleep_time[k.sleep[n - 1]] \in 0..UINT_MAX
          BY <1>0, <5>1
        <5>3. B[n - 1] \in Nat
          BY <1>7, <4>1
        <5> QED
          BY <1>0, <5>2, <5>3
      <4>4. B[n - 1] <= B[n]
        BY <1>7, <4>1, <4>2, <4>3
      <4> HIDE DEF at
      <4> QED
        BY <1>7, <3>1, <4>1, <4>3, <4>4
    <3> HIDE DEF at
    <3>3. Sums(s, B)
      <4>1. ASSUME NEW i \in 0..n-1 PROVE B[i + 1] = B[i] + s.sleep_time[s.sleep[i]]
        <5>1. k.sleep[i] \in Proc /\ k.sleep[i] # p /\ s.sleep[i] = k.sleep[i]
          BY <1>2, <1>3
        <5>2. s.sleep_time[s.sleep[i]] = k.sleep_time[k.sleep[i]]
          BY <1>0, <1>2, <5>1
        <5> QED
          BY <1>7, <5>2
      <4> QED
        BY <1>2, <1>7, <4>1 DEF Sums
    <3>4. DeltaBefore(s, at) = B[at] % (UINT_MAX + 1)
      BY <1>1, <1>2, <3>2, <3>3, DeltaBeforeIs
    <3>5. d = USub(t, B[at] % (UINT_MAX + 1))
      BY <2>2, <3>4 DEF at
    <3> HIDE DEF d
    <3>6. d \in 0..UINT_MAX /\ t <= B[at] + d
      BY <3>2, <3>5, Reached
    <3> QED
      BY <1>0, <1>7, <3>2, <3>6
  <2> QED
    BY <2>1, <2>2
<1> HIDE DEF d
<1>9. /\ r.queue = [k.queue EXCEPT ![p] = [j \in {0} |-> Nil]]
      /\ r.sleep_time = [k.sleep_time EXCEPT ![p] = d]
      /\ r.status = [k.status EXCEPT ![p] = "SLEEP"]
      /\ r.queue_idx = [k.queue_idx EXCEPT ![p] = n]
      /\ r.queue_size = k.queue_size /\ r.group = k.group
      /\ r.sleep = [k.sleep EXCEPT ![n] = p] /\ r.sleep_size = n + 1
  <2>1. [[k.sleep_time EXCEPT ![p] = t] EXCEPT ![p] = d] = [k.sleep_time EXCEPT ![p] = d]
    OBVIOUS
  <2> QED
    BY <1>2, <1>5, <2>1
<1>10. Calm(r)
  <2> HIDE DEF n
  <2>1. /\ Calm(k) /\ d \in 0..UINT_MAX /\ n \in Nat /\ Shaped(r)
        /\ r.queue = [k.queue EXCEPT ![p] = [j \in {0} |-> Nil]]
        /\ r.sleep_time = [k.sleep_time EXCEPT ![p] = d]
        /\ r.status = [k.status EXCEPT ![p] = "SLEEP"]
        /\ r.queue_idx = [k.queue_idx EXCEPT ![p] = n]
        /\ r.queue_size = k.queue_size /\ r.group = k.group
    BY <1>0, <1>1, <1>5, <1>8, <1>9
  <2> QED
    BY <2>1, StoredKeeps
<1>11. r.sleep[n] = p /\ \A i \in 0..n-1 : r.sleep[i] = k.sleep[i] /\ i \in Slots /\ i # n
  BY <1>1, <1>3, <1>9 DEF Slots
<1>12. /\ r.status[p] = "SLEEP" /\ r.queue_idx[p] = n /\ r.sleep_time[p] = d
       /\ \A q \in Proc : q # p => /\ r.status[q] = k.status[q] /\ r.queue_idx[q] = k.queue_idx[q]
                                   /\ r.sleep_time[q] = k.sleep_time[q]
                                   /\ m[q] = l[q] /\ g[q] = h[q]
       /\ m[p] = t /\ g[p] = n /\ m \in [Proc -> Nat] /\ g \in [Proc -> Nat]
  BY <1>0, <1>1, <1>9
<1> HIDE DEF m, g
<1>13. Lined(r)
  <2>1. r.sleep_size \in 0..MAX_PROCESSES-1
    BY <1>1, <1>9
  <2>2. ASSUME NEW i \in 0..r.sleep_size-1
        PROVE  r.sleep[i] \in Proc /\ r.status[r.sleep[i]] = "SLEEP" /\ r.queue_idx[r.sleep[i]] = i
    <3>1. i = n \/ i \in 0..n-1
      BY <1>1, <1>9
    <3>2. CASE i = n
      BY <1>11, <1>12, <3>2
    <3>3. CASE i \in 0..n-1
      <4>1. r.sleep[i] = k.sleep[i] /\ k.sleep[i] \in Proc /\ k.sleep[i] # p
            /\ k.status[k.sleep[i]] = "SLEEP" /\ k.queue_idx[k.sleep[i]] = i
        BY <1>3, <1>11, <3>3
      <4> QED
        BY <1>12, <4>1
    <3> QED
      BY <3>1, <3>2, <3>3
  <2>3. ASSUME NEW i \in Slots, i >= r.sleep_size PROVE r.sleep[i] = Nil
    <3>1. i >= n /\ i # n
      BY <1>1, <1>9, <2>3 DEF Slots
    <3> QED
      BY <1>3, <1>9, <3>1
  <2>4. ASSUME NEW q \in Proc, r.status[q] = "SLEEP"
        PROVE  r.queue_idx[q] \in 0..r.sleep_size-1 /\ r.sleep[r.queue_idx[q]] = q
    <3>1. \A i \in 0..n-1 : i \in 0..r.sleep_size-1
      BY <1>1, <1>9
    <3>2. n \in 0..r.sleep_size-1
      BY <1>1, <1>9
    <3>3. CASE q = p
      BY <1>11, <1>12, <3>2, <3>3
    <3>4. CASE q # p
      <4>1. k.status[q] = "SLEEP" /\ r.queue_idx[q] = k.queue_idx[q]
        BY <1>12, <2>4, <3>4
      <4>2. k.queue_idx[q] \in 0..n-1 /\ k.sleep[k.queue_idx[q]] = q
        BY <1>3, <4>1
      <4> QED
        BY <1>11, <3>1, <4>1, <4>2
    <3> QED
      BY <3>3, <3>4
  <2>5. r.sleep = [i \in Slots |-> r.sleep[i]]
    BY <1>3, <1>9
  <2> QED
    BY <2>1, <2>2, <2>3, <2>4, <2>5 DEF Lined
<1> DEFINE C == [i \in 0..n+1 |-> IF i = n + 1 THEN B[n] + d ELSE B[i]]
<1>14. /\ C \in [0..n+1 -> Nat] /\ C[n + 1] = B[n] + d
       /\ \A i \in 0..n : C[i] = B[i]
  <2>1. \A i \in 0..n+1 : i # n + 1 => i \in 0..n
    BY <1>1
  <2>2. B[n] + d \in Nat
    BY <1>0, <1>7, <1>8
  <2> QED
    BY <1>1, <1>7, <2>1, <2>2
<1> HIDE DEF C
<1>15. Sums(r, C)
  <2>1. ASSUME NEW i \in 0..n PROVE C[i + 1] = C[i] + r.sleep_time[r.sleep[i]]
    <3>1. CASE i = n
      BY <1>11, <1>12, <1>14, <3>1
    <3>2. CASE i # n
      <4>1. i \in 0..n-1 /\ i + 1 \in 0..n
        BY <1>1, <3>2
      <4>2. r.sleep_time[r.sleep[i]] = k.sleep_time[k.sleep[i]]
        <5>1. r.sleep[i] = k.sleep[i] /\ k.sleep[i] \in Proc /\ k.sleep[i] # p
          BY <1>3, <1>11, <4>1
        <5> QED
          BY <1>12, <5>1
      <4> QED
        BY <1>7, <1>14, <4>1, <4>2
    <3> QED
      BY <3>1, <3>2
  <2>2. r.sleep_size-1 = n /\ r.sleep_size = n + 1 /\ 0 \in 0..n
    BY <1>1, <1>9
  <2> QED
    BY <1>7, <1>14, <2>1, <2>2 DEF Sums
<1>16. Owed(r, m, g, C)
  <2>1. ASSUME NEW i \in 0..n
        PROVE  g[r.sleep[i]] >= i /\ m[r.sleep[i]] <= C[i + 1] + g[r.sleep[i]] - i
    <3>1. CASE i = n
      <4>1. t <= C[n + 1] + n - n
        BY <1>0, <1>1, <1>7, <1>8, <1>14
      <4> QED
        BY <1>1, <1>11, <1>12, <3>1, <4>1
    <3>2. CASE i # n
      <4>1. i \in 0..n-1 /\ i + 1 \in 0..n
        BY <1>1, <3>2
      <4>2. r.sleep[i] = k.sleep[i] /\ k.sleep[i] \in Proc /\ k.sleep[i] # p
        BY <1>3, <1>11, <4>1
      <4>3. m[k.sleep[i]] = l[k.sleep[i]] /\ g[k.sleep[i]] = h[k.sleep[i]] /\ C[i + 1] = B[i + 1]
        BY <1>12, <1>14, <4>1, <4>2
      <4> QED
        BY <1>7, <4>1, <4>2, <4>3
    <3> QED
      BY <3>1, <3>2
  <2>2. r.sleep_size-1 = n
    BY <1>1, <1>9
  <2> QED
    BY <2>1, <2>2 DEF Owed
<1>17. ASSUME NEW q \in Proc, r.status[q] = "READY" PROVE m[q] <= g[q] + 0
  <2>1. q # p /\ k.status[q] = "READY"
    BY <1>12, <1>17
  <2> QED
    BY <1>12, <2>1 DEF Fit
<1>18. \E D : Sums(r, D) /\ Owed(r, m, g, D)
  BY <1>15, <1>16
<1>19. Fit(r, m, g, 0)
  BY <1>10, <1>12, <1>13, <1>17, <1>18 DEF Fit
<1> QED
  BY <1>19 DEF r, m, g, s

\* Nobody sleeps at first.
LEMMA InitFits == Init => Fit(sq, left, ahead, 0)
<1> SUFFICES ASSUME Init PROVE Fit(sq, left, ahead, 0)
  OBVIOUS
<1>1. /\ Shaped(sq)
      /\ sq.status = [p \in Proc |-> "READY"] /\ sq.group = [p \in Proc |-> p]
      /\ sq.queue_idx = [p \in Proc |-> 0]
      /\ sq.queue = [g \in Proc |-> [i \in {0} |-> g]]
      /\ sq.queue_size = [g \in Proc |-> 1]
      /\ sq.sleep = [i \in Slots |-> Nil] /\ sq.sleep_size = 0
      /\ sq.sleep_time = [p \in Proc |-> 0]
  BY DEF Init, BlankSleep, Shaped, SFields
<1>2. left = [p \in Proc |-> 0] /\ ahead = [p \in Proc |-> 0] /\ UINT_MAX \in Nat
  BY UIntAssumption DEF Init
<1>3. Calm(sq)
  BY <1>1, <1>2 DEF Calm
<1>4. Lined(sq)
  <2>1. 0 \in 0..MAX_PROCESSES-1
    <3>1. Cardinality(Proc) \in Nat
      BY ProcAssumption, FS_CardinalityType
    <3> QED
      BY <3>1, SleepAssumption
  <2> QED
    BY <1>1, <2>1 DEF Lined
<1>5. \E B : Sums(sq, B) /\ Owed(sq, left, ahead, B)
  <2>1. Sums(sq, [i \in 0..0 |-> 0])
    BY <1>1 DEF Sums
  <2>2. \A B : Owed(sq, left, ahead, B)
    BY <1>1 DEF Owed
  <2> QED
    BY <2>1, <2>2
<1> QED
  BY <1>1, <1>2, <1>3, <1>4, <1>5 DEF Fit

\* The invariant, until a process is inserted between two sleepers.
Fits == ~smeared => Fit(sq, left, ahead, 0)

\* Every step keeps it.
LEMMA NextFits == Fits /\ [Next]_vars => Fits'
<1> SUFFICES ASSUME Fits, [Next]_vars, ~smeared' PROVE Fit(sq', left', ahead', 0)
  BY DEF Fits
<1>1. ASSUME NEW p \in Proc, NEW ticks \in Durations, process_sleep(p, ticks)
      PROVE  Fit(sq', left', ahead', 0)
  <2> DEFINE s == Leaving(sq, p, ticks)
             k == sleep_insert(s, p)
             l == [left EXCEPT ![p] = ticks]
             h == [ahead EXCEPT ![p] = sq.sleep_size]
  <2>1. /\ sq' = CountDown(k) /\ left' = OneLess(l) /\ ahead' = h
        /\ smeared' = Between(s, ticks) /\ sq.status[p] = "READY" /\ ~smeared
    BY <1>1 DEF process_sleep, Leaving
  <2>2. ticks \in 0..UINT_MAX /\ Fit(sq, left, ahead, 0)
    BY <2>1, SleepAssumption DEF Fits
  <2>3. Fit(k, l, h, 0)
    BY <2>1, <2>2, SleepFits
  <2> HIDE DEF k, l, h
  <2> QED
    BY <2>1, <2>3, CountDownFits
<1>2. CASE schedule
  BY <1>2, CountDownFits DEF schedule, Fits
<1>3. CASE UNCHANGED vars
  BY <1>3 DEF vars, Fits
<1> QED
  BY <1>1, <1>2, <1>3 DEF Next

\* Slots and sleepers agree, however many sleep and for how long: sleep_remove
\* moves the ones behind up with their queue_idx, and as long as sleep_insert
\* finds the slot it wants empty it copies nobody.
THEOREM SpecListedOnce == Spec => []ListedOnce
<1>1. Fits => ListedOnce
  <2> SUFFICES ASSUME Lined(sq) PROVE SleepersListedOnce(sq)
    BY DEF Fits, Fit, ListedOnce
  <2> QED
    BY NilAssumption DEF Lined, SleepersListedOnce
<1>2. Init => Fits
  BY InitFits DEF Fits
<1> QED
  BY <1>1, <1>2, NextFits, PTL DEF Spec

\* Nobody is woken while more ticks of its request are left than there were
\* sleepers before it: a tick is taken twice only for a sleeper that moves up
\* to the first slot because the one before it was woken in the same call.
THEOREM SpecEarlyByThoseAhead == Spec => []EarlyByThoseAhead
<1>1. Fits => EarlyByThoseAhead
  <2> SUFFICES ASSUME Fit(sq, left, ahead, 0), NEW p \in Proc, left[p] > ahead[p]
               PROVE  sq.status[p] = "SLEEP"
    BY DEF Fits, EarlyByThoseAhead, Sleepers
  <2>1. left[p] \in Nat /\ ahead[p] \in Nat /\ sq.status[p] \in {"READY", "SLEEP"}
    BY DEF Fit, Calm
  <2>2. sq.status[p] = "READY" => left[p] <= ahead[p] + 0
    BY DEF Fit
  <2> QED
    BY <2>1, <2>2
<1>2. Init => Fits
  BY InitFits DEF Fits
<1> QED
  BY <1>1, <1>2, NextFits, PTL DEF Spec
=============================================================================
