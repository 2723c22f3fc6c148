---------------------------- MODULE ThreadGroups ----------------------------
(***************************************************************************)
(* The scheduler's data structures (os/kernel/arch/i386/proc/proc.c): one  *)
(* thread group per process, each with its own array of ready threads, the *)
(* array `groups` the scheduler walks round-robin, and the array of killed *)
(* processes that wait to be cleaned.  Every C function is an operator     *)
(* from kernel states to kernel states: a record k with at least the       *)
(* fields of BlankGroups.  The record carries other fields in module       *)
(* Kernel, which these operators leave alone.                              *)
(*                                                                         *)
(* A process structure is a member of Proc; kfree() releases nothing, so a *)
(* structure is never reused.  A group is named by the process that        *)
(* create_process() made it for.  An array is a function on 0..size-1, and *)
(* Nil is the null pointer.                                                *)
(***************************************************************************)
EXTENDS Naturals, FiniteSets

CONSTANTS
    Proc,     \* the process structures the system may allocate
    Nil,      \* the null pointer
    UINT_MAX  \* largest value of the unsigned counters

ASSUME NilAssumption == Nil \notin Proc
ASSUME ProcAssumption == IsFiniteSet(Proc)
ASSUME UIntAssumption == UINT_MAX \in Nat /\ Cardinality(Proc) < UINT_MAX

Status == {"INVALID", "READY", "DEAD", "WAIT", "SLEEP"}
\* The priorities get_ready looks for; "OTHER" is any other number, which
\* sys_prior stores as well.
Served == {"HIGH", "LOW"}
Priority == Served \cup {"OTHER"}

\* Unsigned increment and decrement: they wrap.
UIncr(n) == IF n = UINT_MAX THEN 0 ELSE n + 1
UDecr(n) == IF n = 0 THEN UINT_MAX ELSE n - 1

-----------------------------------------------------------------------------
(* The two idioms of every array in proc.c.                                *)

\* The first null slot of array a, or the slot after its last one.
IsFirstHole(a, size, i) ==
    /\ i \in 0..size
    /\ i < size => a[i] = Nil
    /\ \A j \in 0..i-1 : a[j] # Nil
FirstHole(a, size) == CHOOSE i \in 0..size : IsFirstHole(a, size, i)

Store(a, size, i, x) ==
    [j \in 0..(IF i = size THEN size ELSE size - 1) |-> IF j = i THEN x ELSE a[j]]

SizeWith(size, i) == IF i = size THEN size + 1 ELSE size

\* The slot a circular scan that starts at `from` reaches first in Found.
Distance(from, size, i) == IF i >= from THEN i - from ELSE i + size - from
FirstFrom(from, size, Found) ==
    CHOOSE i \in Found : \A j \in Found : Distance(from, size, i) <= Distance(from, size, j)

\* Faulty: the scan starts again where it stopped.
AfterStays(i, size) == i
After(i, size) == IF i + 1 >= size THEN 0 ELSE i + 1

-----------------------------------------------------------------------------
BlankGroups == [
    status       |-> [p \in Proc |-> "INVALID"],
    group        |-> [p \in Proc |-> Nil],
    queue_idx    |-> [p \in Proc |-> 0],
    priority     |-> [g \in Proc |-> "LOW"],
    queue        |-> [g \in Proc |-> [i \in 0..0-1 |-> Nil]],
    queue_size   |-> [g \in Proc |-> 0],
    pointer      |-> [g \in Proc |-> 0],
    ready_count  |-> [g \in Proc |-> 0],
    proc_count   |-> [g \in Proc |-> 0],
    gid          |-> [g \in Proc |-> 0],
    groups       |-> [i \in 0..0-1 |-> Nil],
    groups_size  |-> 0,
    groups_ptr   |-> 0,
    killed       |-> [i \in 0..0-1 |-> Nil],
    killed_size  |-> 0 ]

\* add_group: only a group stored in a hole learns its index.
AddGroup(k, g) ==
    LET i == FirstHole(k.groups, k.groups_size)
    IN  [k EXCEPT !.groups = Store(@, k.groups_size, i, g),
                  !.groups_size = SizeWith(@, i),
                  !.gid[g] = IF i < k.groups_size THEN i ELSE @]

\* The part of create_process that makes the thread group of p.
NewGroup(k, p) == AddGroup([k EXCEPT !.group[p] = p], p)

ReadyInsert(k, p) ==
    LET g == k.group[p]
        i == FirstHole(k.queue[g], k.queue_size[g])
    IN  [k EXCEPT !.status[p] = "READY",
                  !.queue_idx[p] = i,
                  !.ready_count[g] = UIncr(@),
                  !.queue[g] = Store(@, k.queue_size[g], i, p),
                  !.queue_size[g] = SizeWith(@, i)]

\* Faulty: the thread is uncounted but stays in its slot.
ReadyRemoveKeepsSlot(k, p) == [k EXCEPT !.ready_count[k.group[p]] = UDecr(@)]
ReadyRemove(k, p) ==
    LET g == k.group[p]
    IN  [k EXCEPT !.ready_count[g] = UDecr(@),
                  !.queue[g] = [@ EXCEPT ![k.queue_idx[p]] = Nil]]

WaitInsert(k, p) == [k EXCEPT !.status[p] = "WAIT"]

\* Only threads are counted: create_process never calls group_insert.
GroupInsert(k, p) == [k EXCEPT !.proc_count[k.group[p]] = UIncr(@)]

\* Faulty: the counter is tested before it is decremented.
GroupRemoveUncounted(k, p) ==
    LET g == k.group[p]
    IN  [k EXCEPT !.proc_count[g] = UDecr(@),
                  !.groups = IF k.proc_count[g] = 0 THEN [@ EXCEPT ![k.gid[g]] = Nil] ELSE @]

\* group_remove with remove_group: the slot cleared is the one gid names.
GroupRemove(k, p) ==
    LET g == k.group[p]
        n == UDecr(k.proc_count[g])
    IN  [k EXCEPT !.proc_count[g] = n,
                  !.groups = IF n = 0 THEN [@ EXCEPT ![k.gid[g]] = Nil] ELSE @]

KilledInsert(k, p) ==
    LET i == FirstHole(k.killed, k.killed_size)
    IN  [k EXCEPT !.status[p] = "DEAD",
                  !.queue_idx[p] = i,
                  !.killed = Store(@, k.killed_size, i, p),
                  !.killed_size = SizeWith(@, i)]

KilledRemove(k, p) == [k EXCEPT !.killed = [@ EXCEPT ![k.queue_idx[p]] = Nil]]

-----------------------------------------------------------------------------
(* The scheduler's choice.                                                 *)

\* Faulty: the scan of groups ends at the last slot instead of wrapping.
EligibleAhead(k, prior) ==
    {i \in k.groups_ptr..k.groups_size-1 : /\ k.groups[i] # Nil
                                           /\ k.priority[k.groups[i]] = prior
                                           /\ k.ready_count[k.groups[i]] # 0}

Eligible(k, prior) ==
    {i \in 0..k.groups_size-1 : /\ k.groups[i] # Nil
                                /\ k.priority[k.groups[i]] = prior
                                /\ k.ready_count[k.groups[i]] # 0}

\* get_group: the index found; groups_ptr, shared by both priorities, moves
\* past it, and stays where it was when nothing is found.
GroupAt(k, prior) == FirstFrom(k.groups_ptr, k.groups_size, Eligible(k, prior))

Occupied(k, g) == {i \in 0..k.queue_size[g]-1 : k.queue[g][i] # Nil}

\* get_ready, for the priority that has an eligible group.
PickFrom(k, prior) ==
    LET gi == GroupAt(k, prior)
        g == k.groups[gi]
        i == FirstFrom(k.pointer[g], k.queue_size[g], Occupied(k, g))
        found == Occupied(k, g) # {}
    IN  [ proc  |-> IF found THEN k.queue[g][i] ELSE Nil,
          state |-> [k EXCEPT !.groups_ptr = After(gi, k.groups_size),
                              !.pointer[g] = IF found THEN After(i, k.queue_size[g]) ELSE @] ]

GetReady(k) ==
    IF Eligible(k, "HIGH") # {} THEN PickFrom(k, "HIGH")
    ELSE IF Eligible(k, "LOW") # {} THEN PickFrom(k, "LOW")
    ELSE [proc |-> Nil, state |-> k]

-----------------------------------------------------------------------------
(* What the structures promise each other, for any kernel state k.         *)

GroupsTypeOK(k) ==
    /\ k.status \in [Proc -> Status]
    /\ k.group \in [Proc -> Proc \cup {Nil}]
    /\ k.queue_idx \in [Proc -> Nat]
    /\ k.priority \in [Proc -> Priority]
    /\ k.queue_size \in [Proc -> Nat]
    /\ \A g \in Proc : k.queue[g] \in [0..k.queue_size[g]-1 -> Proc \cup {Nil}]
    /\ k.pointer \in [Proc -> Nat]
    /\ \A g \in Proc : k.pointer[g] <= k.queue_size[g]
    /\ k.ready_count \in [Proc -> 0..UINT_MAX]
    /\ k.proc_count \in [Proc -> 0..UINT_MAX]
    /\ k.gid \in [Proc -> Nat]
    /\ k.groups_size \in Nat
    /\ k.groups \in [0..k.groups_size-1 -> Proc \cup {Nil}]
    /\ k.groups_ptr \in 0..k.groups_size
    /\ k.killed_size \in Nat
    /\ k.killed \in [0..k.killed_size-1 -> Proc \cup {Nil}]

\* A READY thread sits in its group's queue at the slot it remembers.
ReadyHasSlot(k) ==
    \A p \in Proc : k.status[p] = "READY" =>
        /\ k.group[p] \in Proc
        /\ k.queue_idx[p] \in 0..k.queue_size[k.group[p]]-1
        /\ k.queue[k.group[p]][k.queue_idx[p]] = p

\* A used slot belongs to a READY thread of that group that remembers it.
SlotHasReady(k) ==
    \A g \in Proc : \A i \in 0..k.queue_size[g]-1 :
        LET p == k.queue[g][i]
        IN  p # Nil => /\ k.status[p] = "READY"
                       /\ k.group[p] = g
                       /\ k.queue_idx[p] = i

ReadyCounted(k) ==
    \A g \in Proc : k.ready_count[g] = Cardinality(Occupied(k, g))

\* An entry of the killed list is a dead process that remembers its entry.
KilledAreDead(k) ==
    \A i \in 0..k.killed_size-1 :
        k.killed[i] # Nil => /\ k.status[k.killed[i]] = "DEAD"
                             /\ k.queue_idx[k.killed[i]] = i

\* Every process that was created has a group.
HaveGroup(k) == \A p \in Proc : k.status[p] # "INVALID" => k.group[p] \in Proc

RunQueueConsistent(k) ==
    /\ HaveGroup(k)
    /\ ReadyHasSlot(k)
    /\ SlotHasReady(k)
    /\ ReadyCounted(k)
    /\ KilledAreDead(k)
=============================================================================
