----------------------------- MODULE SleepList -----------------------------
(***************************************************************************)
(* The array of sleeping processes (proc.c: sleep_procs, sleep_insert,     *)
(* sleep_remove) as operators on a kernel state k with the fields of       *)
(* BlankSleep.  A slot holds a process whose sleep_time is a delta to the  *)
(* slot before it.  schedule() counts the first slot down.                 *)
(***************************************************************************)
EXTENDS ThreadGroups, Integers, FiniteSetsExt

CONSTANT MAX_PROCESSES   \* the length of sleep_procs

Slots == 0..MAX_PROCESSES-1

BlankSleep == [
    sleep      |-> [i \in Slots |-> Nil],
    sleep_size |-> 0,
    sleep_time |-> [p \in Proc |-> 0] ]

USub(m, n) == (m - n) % (UINT_MAX + 1)

\* The sum of the deltas before slot i.
DeltaBefore(k, i) ==
    LET sum[n \in 0..i] == IF n = 0 THEN 0 ELSE sum[n - 1] + k.sleep_time[k.sleep[n - 1]]
    IN  sum[i] % (UINT_MAX + 1)

\* The slots at which sleep_insert may stop scanning, for a request of t ticks.
Reaches(k, t) ==
    {i \in 0..k.sleep_size-1 :
        (DeltaBefore(k, i) + k.sleep_time[k.sleep[i]]) % (UINT_MAX + 1) >= t}

\* The slot it stops at, or the size when none is far enough, and the slot it
\* inserts at.
StopAt(k, t) == IF Reaches(k, t) = {} THEN k.sleep_size ELSE Min(Reaches(k, t))
SlotFor(k, t) == IF Reaches(k, t) = {} THEN k.sleep_size ELSE Min(Reaches(k, t)) + 1

\* The last loop of sleep_insert copies an occupied slot upwards: each copy
\* overwrites the next slot before that one is moved, so the process found at
\* `from` fills the array, and its delta shrinks with every copy.
Smear(k, from, t) ==
    LET e == k.sleep[from]
        n == MAX_PROCESSES - 1 - from
    IN  IF e = Nil THEN k
        ELSE [k EXCEPT !.sleep = [i \in Slots |-> IF i > from THEN e ELSE @[i]],
                       !.sleep_time[e] = USub(@, n * t),
                       !.queue_idx[e] = IF n = 0 THEN @ ELSE MAX_PROCESSES - 1]

sleep_insert(k, p) ==
    IF k.sleep_size = 0
    THEN [k EXCEPT !.status[p] = "SLEEP", !.sleep[0] = p, !.queue_idx[p] = 0, !.sleep_size = 1]
    ELSE LET slot == SlotFor(k, k.sleep_time[p])
             t == USub(k.sleep_time[p], DeltaBefore(k, StopAt(k, k.sleep_time[p])))
         IN  [Smear(k, slot, t) EXCEPT !.status[p] = "SLEEP",
                                       !.sleep_time[p] = t,
                                       !.sleep[slot] = p,
                                       !.queue_idx[p] = slot,
                                       !.sleep_size = @ + 1]

\* Faulty: the moved sleepers keep their old queue_idx.
SleepRemoveKeepsIndex(k, p) ==
    LET from == k.queue_idx[p]
        n == k.sleep_size
    IN  [k EXCEPT !.sleep = [i \in Slots |-> IF i < from THEN @[i]
                                             ELSE IF i + 1 < n THEN @[i + 1] ELSE Nil],
                  !.sleep_size = n - 1]

\* The slots from the removed one on move down; the size shrinks by the number
\* of empty slots left below it.
sleep_remove(k, p) ==
    LET from == k.queue_idx[p]
        rest(i) == IF i \in Slots \ {from} THEN k.sleep[i] ELSE Nil
        moved == IF k.sleep_size > 1 THEN from..k.sleep_size-1 ELSE {}
        now(i) == IF i \in moved THEN rest(i + 1) ELSE rest(i)
        at(q) == {i \in moved : now(i) = q}
    IN  [k EXCEPT !.sleep = [i \in Slots |-> now(i)],
                  !.queue_idx = [q \in Proc |-> IF at(q) = {} THEN @[q] ELSE Max(at(q))],
                  !.sleep_size = Cardinality({i \in 0..@-1 : now(i) # Nil})]

process_awake(k, p) == ReadyInsert(sleep_remove(k, p), p)

\* Faulty: the decremented time is tested, but not stored.
TickLost(k) ==
    IF k.sleep_size = 0 \/ UDecr(k.sleep_time[k.sleep[0]]) # 0 THEN k
    ELSE [k EXCEPT !.sleep_time[k.sleep[0]] = 0]

\* The first sleeper's time is decremented; it wraps.
Ticked(k) == IF k.sleep_size = 0 THEN k ELSE [k EXCEPT !.sleep_time[k.sleep[0]] = UDecr(@)]

\* Faulty: wakes at one tick left.
DueEarly(k) == k.sleep_size > 0 /\ UDecr(k.sleep_time[k.sleep[0]]) <= 1

Due(k) == k.sleep_size > 0 /\ UDecr(k.sleep_time[k.sleep[0]]) = 0

\* The loop at the head of schedule(): as long as the first sleeper is due it
\* is decremented and woken; the one after those is decremented.
Turn(k) == IF Due(k) THEN process_awake(Ticked(k), k.sleep[0]) ELSE k

\* (CHOOSE binds the state before each turn, for TLC to evaluate it once.)
CountDown(k) ==
    LET turn[n \in 0..k.sleep_size] ==
          IF n = 0 THEN k ELSE CHOOSE j \in {Turn(before) : before \in {turn[n - 1]}} : TRUE
    IN  Ticked(turn[k.sleep_size])

\* Every sleeping process is in exactly the slot it remembers, and the slots
\* below the size hold nothing else.
SleepersListedOnce(k) ==
    /\ \A i \in 0..k.sleep_size-1 :
         k.sleep[i] # Nil /\ k.status[k.sleep[i]] = "SLEEP" /\ k.queue_idx[k.sleep[i]] = i
    /\ \A p \in Proc : k.status[p] = "SLEEP" =>
         \E i \in 0..k.sleep_size-1 : k.sleep[i] = p
=============================================================================
