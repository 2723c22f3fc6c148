------------------------------ MODULE UserHeap ------------------------------
(***************************************************************************)
(* libc/stdlib/alloc.c: the heap of a process, shared by its threads under *)
(* the spin lock memory_lock, and the memory that sys_sbrk maps for it.    *)
(* A thread's calls into the allocator are a stack of frames: a signal may *)
(* arrive at any instruction, and its handler runs on top of what it       *)
(* interrupts (the shell's handler closes files, which frees them).        *)
(*                                                                         *)
(* Addresses are bytes; 0 is the null pointer and InUse the mark           *)
(* 0xAABBCCDD of a block that is not in the free list.  The guard byte is  *)
(* left out: programs are assumed to stay inside their blocks.             *)
(***************************************************************************)
EXTENDS Integers, Sequences, FiniteSets, SequencesExt

CONSTANTS
    Thread,        \* the threads of the process
    MainThread,    \* the one that execute() makes
    Handling,      \* the threads with a signal handler that allocates or frees
    Header,        \* sizeof(mem_t)
    USER_HEAP,     \* the address of the heap
    USER_HEAP_SIZE,\* what create_process maps of it
    Page,          \* 4096
    Sizes,         \* the sizes programs ask for
    ArgSizes,      \* the sizes of the blocks execute() lays out
    Limit          \* bound: the heap is not asked to grow past this address

ASSUME UserHeapAssumption ==
    /\ MainThread \in Thread
    /\ Handling \subseteq Thread
    /\ Header \in Nat \ {0}
    /\ USER_HEAP \in Nat \ {0}
    /\ Page \in Nat \ {0}
    /\ USER_HEAP_SIZE \in Nat \ {0}
    /\ Sizes \subseteq Nat \ {0}
    /\ ArgSizes \in Seq(Nat \ {0})

InUse == -1

VARIABLES
    h,            \* the heap: headers, free_list, heap_start, heap_size, max_allocation
    memory_lock,  \* 0 or 1
    frames,       \* per thread, the calls it is in, the running one last
    live,         \* the blocks the program holds
    mapped        \* per thread, proc->heap_size: bytes mapped; 0 before it exists

vars == <<h, memory_lock, frames, live, mapped>>

-----------------------------------------------------------------------------
\* The list operations of alloc.c, from heaps to heaps.

Valid(k, p) == USER_HEAP <= p /\ p <= USER_HEAP + k.heap_size

EndOf(k, b) == b + Header + k.mem[b].size

\* free_insert, after the list's head: the last block whose successor is not
\* below b.
LastBelow(k, b) ==
    LET last[c \in DOMAIN k.mem] ==
          LET next == k.mem[c].next
          IN  IF Valid(k, next) /\ next < b THEN last[next] ELSE c
    IN  last[k.free_list]

\* Faulty: the block that follows is not told of its new predecessor.
free_insert_OneWay(k, b) ==
    LET head == ~Valid(k, k.free_list) \/ k.free_list > b
        before == IF head THEN 0 ELSE LastBelow(k, b)
        after == IF head THEN k.free_list ELSE k.mem[before].next
    IN  [k EXCEPT !.free_list = IF head THEN b ELSE @,
                  !.mem = [c \in DOMAIN @ |->
                      CASE c = b      -> [@[b] EXCEPT !.prev = before,
                                              !.next = IF Valid(k, after) THEN after ELSE 0]
                        [] c = before -> [@[c] EXCEPT !.next = b]
                        [] OTHER      -> @[c]]]

\* free_insert: keep the list sorted by address.
free_insert(k, b) ==
    LET head == ~Valid(k, k.free_list) \/ k.free_list > b
        before == IF head THEN 0 ELSE LastBelow(k, b)
        after == IF head THEN k.free_list ELSE k.mem[before].next
    IN  [k EXCEPT !.free_list = IF head THEN b ELSE @,
                  !.mem = [c \in DOMAIN @ |->
                      CASE c = b      -> [@[b] EXCEPT !.prev = before,
                                              !.next = IF Valid(k, after) THEN after ELSE 0]
                        [] c = before -> [@[c] EXCEPT !.next = b]
                        [] c = after  -> [@[c] EXCEPT !.prev = b]
                        [] OTHER      -> @[c]]]

\* free_remove: b keeps its own pointers.
free_remove(k, b) ==
    LET before == k.mem[b].prev
        after == k.mem[b].next
    IN  [k EXCEPT !.free_list = IF Valid(k, before) THEN @
                                ELSE IF Valid(k, after) THEN after ELSE 0,
                  !.mem = [c \in DOMAIN @ |->
                      CASE c = before -> [@[c] EXCEPT !.next = IF Valid(k, after) THEN after ELSE 0]
                        [] c = after  -> [@[c] EXCEPT !.prev = IF Valid(k, before) THEN before ELSE 0]
                        [] OTHER      -> @[c]]]

Serves(k, b, size) == k.mem[b].size = size \/ k.mem[b].size > size + Header

\* Faulty: the walk gives up at the first block that does not serve.
free_block_HeadOnly(k, size) ==
    IF Valid(k, k.free_list) /\ Serves(k, k.free_list, size) THEN k.free_list ELSE 0

\* free_block's choice: the first block of the list that has the size or can
\* be split; 0 when there is none.
free_block(k, size) ==
    LET seek[c \in DOMAIN k.mem \cup {0, InUse}] ==
          IF ~Valid(k, c) THEN 0
          ELSE IF Serves(k, c, size) THEN c ELSE seek[k.mem[c].next]
    IN  seek[k.free_list]

\* split: a header for the rest of block b behind its first `size` bytes.
split(k, b, size) ==
    LET rest == b + Header + size
        header == [size |-> k.mem[b].size - size - Header, prev |-> 0, next |-> 0]
    IN  [k EXCEPT !.mem = [c \in DOMAIN @ \cup {rest} |->
            CASE c = rest -> header [] c = b -> [@[b] EXCEPT !.size = size] [] OTHER -> @[c]]]

\* Faulty: the block keeps the pointers it had in the list.
MarkUsed_Not(k, b) == k

MarkUsed(k, b) == [k EXCEPT !.mem[b].prev = InUse, !.mem[b].next = InUse]

\* The part of free_block and malloc that takes block b for a request.
TakeFree(k, b, size) ==
    LET r == free_remove(k, b)
    IN  MarkUsed(IF k.mem[b].size = size THEN r
                 ELSE free_insert(split(r, b, size), b + Header + size), b)

\* A new block at heap_start.
NewBlock(k, size) ==
    [k EXCEPT !.mem = [c \in DOMAIN @ \cup {k.heap_start} |->
                         IF c = k.heap_start
                         THEN [size |-> size, prev |-> InUse, next |-> InUse] ELSE @[c]],
              !.heap_start = @ + Header + size]

\* __unsafe_free: a block that is listed already, or larger than anything
\* malloc ever gave, is left alone.
__unsafe_free(k, b) ==
    IF \/ ~Valid(k, b)
       \/ k.mem[b].size > k.max_allocation
       \/ k.mem[b].prev # InUse \/ k.mem[b].next # InUse
    THEN k
    ELSE free_insert(k, b)

-----------------------------------------------------------------------------
\* Where execute() lays the argument blocks, one behind the other, and
\* fix_user_heap, which walks them to the first header of size 0.
ArgAt[i \in 1..Len(ArgSizes)+1] ==
    IF i = 1 THEN USER_HEAP ELSE ArgAt[i-1] + Header + ArgSizes[i-1]

\* The argument blocks lie in what create_process maps (execute looks at no
\* bound).
ASSUME ArgsFit == ArgAt[Len(ArgSizes)+1] <= USER_HEAP + USER_HEAP_SIZE

InitialHeap ==
    [mem            |-> [a \in {ArgAt[i] : i \in 1..Len(ArgSizes)} |->
                           [size |-> ArgSizes[CHOOSE i \in 1..Len(ArgSizes) : ArgAt[i] = a],
                            prev |-> InUse, next |-> InUse]],
     free_list      |-> 0,
     heap_start     |-> ArgAt[Len(ArgSizes)+1],
     heap_size      |-> USER_HEAP_SIZE,
     max_allocation |-> 0]

Init ==
    /\ h = InitialHeap
    /\ memory_lock = 0
    /\ frames = [t \in Thread |-> <<>>]
    /\ live = DOMAIN h.mem
    /\ mapped = [t \in Thread |-> IF t = MainThread THEN USER_HEAP_SIZE ELSE 0]

Exists(t) == mapped[t] > 0
Running(t) == frames[t] # <<>>
Frame(t) == frames[t][Len(frames[t])]
InFrame(t, pc) == Running(t) /\ Frame(t).pc = pc
SetFrame(t, f) == frames' = [frames EXCEPT ![t][Len(frames[t])] = f]
GoTo(t, pc) == SetFrame(t, [Frame(t) EXCEPT !.pc = pc])

\* The calls under way: of each thread its own and its handler's.
Calls == {c \in Thread \X (1..2) : c[2] <= Len(frames[c[1]])}
Call(c) == frames[c[1]][c[2]]

\* A bound on what they may still add to the heap.
Pending == Cardinality(Calls)
LargestSize == CHOOSE s \in Sizes : \A r \in Sizes : r <= s
RoomLeft == h.heap_start + (Pending + 1) * (Header + LargestSize) <= Limit

-----------------------------------------------------------------------------
\* A thread calls malloc (old = 0), realloc or free (size = 0), or its signal
\* handler does so on top of a call.  What it passes to free or realloc is a
\* block it holds, which nobody else may use from now on.
Enter(t, size, old) ==
    /\ Exists(t)
    /\ Len(frames[t]) < (IF t \in Handling THEN 2 ELSE 1)
    /\ old # 0 => old \in live
    /\ size # 0 => RoomLeft
    /\ frames' = [frames EXCEPT ![t] =
          Append(@, [pc |-> "lock", size |-> size, old |-> old, block |-> 0])]
    /\ live' = live \ {old}
    /\ UNCHANGED <<h, memory_lock, mapped>>

\* lock: the test-and-set succeeds, or the thread yields and tries again.
lock(t) ==
    /\ InFrame(t, "lock")
    /\ memory_lock = 0
    /\ memory_lock' = 1
    /\ GoTo(t, IF Frame(t).size = 0 THEN "give back" ELSE "enough")
    /\ UNCHANGED <<h, live, mapped>>

Spin(t) ==
    /\ InFrame(t, "lock")
    /\ memory_lock = 1
    /\ UNCHANGED vars

\* heap_size += 4096 and sys_sbrk, which maps the new frame for each thread of
\* the group.
sbrk(t) ==
    /\ h' = [h EXCEPT !.heap_size = @ + Page]
    /\ mapped' = [u \in Thread |-> IF Exists(u) THEN mapped[u] + Page ELSE 0]

\* The first loop of __unsafe_malloc, then max_allocation.
GrowForSize(t) ==
    /\ InFrame(t, "enough")
    /\ Frame(t).size >= h.heap_size
    /\ sbrk(t)
    /\ UNCHANGED <<memory_lock, frames, live>>

RaiseMaximum(t) ==
    /\ InFrame(t, "enough")
    /\ Frame(t).size < h.heap_size
    /\ h' = [h EXCEPT !.max_allocation = IF Frame(t).size > @ THEN Frame(t).size ELSE @]
    /\ GoTo(t, "search")
    /\ UNCHANGED <<memory_lock, live, mapped>>

\* free_block walks the list and then takes what it found.
Search(t) ==
    /\ InFrame(t, "search")
    /\ LET b == free_block(h, Frame(t).size)
       IN  SetFrame(t, [Frame(t) EXCEPT !.block = b, !.pc = IF b = 0 THEN "room" ELSE "take"])
    /\ UNCHANGED <<h, memory_lock, live, mapped>>

AfterMalloc(t) == IF Frame(t).old = 0 THEN "unlock" ELSE "give back"

Take(t) ==
    /\ InFrame(t, "take")
    /\ h' = TakeFree(h, Frame(t).block, Frame(t).size)
    /\ GoTo(t, AfterMalloc(t))
    /\ UNCHANGED <<memory_lock, live, mapped>>

\* The second loop: the end of the new block must lie below the heap's end.
NoRoom(size) == h.heap_start + Header + size >= USER_HEAP + h.heap_size

GrowForBlock(t) ==
    /\ InFrame(t, "room")
    /\ NoRoom(Frame(t).size)
    /\ sbrk(t)
    /\ UNCHANGED <<memory_lock, frames, live>>

EnoughRoom(t) ==
    /\ InFrame(t, "room")
    /\ ~NoRoom(Frame(t).size)
    /\ GoTo(t, "new")
    /\ UNCHANGED <<h, memory_lock, live, mapped>>

MakeNew(t) ==
    /\ InFrame(t, "new")
    /\ h' = NewBlock(h, Frame(t).size)
    /\ SetFrame(t, [Frame(t) EXCEPT !.block = h.heap_start, !.pc = AfterMalloc(t)])
    /\ UNCHANGED <<memory_lock, live, mapped>>

\* __unsafe_free of the block passed to free or realloc.
GiveBack(t) ==
    /\ InFrame(t, "give back")
    /\ h' = __unsafe_free(h, Frame(t).old)
    /\ GoTo(t, "unlock")
    /\ UNCHANGED <<memory_lock, live, mapped>>

\* A pointer that was freed before is freed again while it is still listed.
FreeTwice(t, b) ==
    /\ InFrame(t, "give back")
    /\ b \in DOMAIN h.mem
    /\ h.mem[b].next # InUse
    /\ h' = __unsafe_free(h, b)
    /\ UNCHANGED <<memory_lock, frames, live, mapped>>

\* Faulty: realloc returns without unlocking.
unlock_NotRealloc(t) ==
    /\ InFrame(t, "unlock")
    /\ memory_lock' = IF Frame(t).size # 0 /\ Frame(t).old # 0 THEN 1 ELSE 0
    /\ live' = live \cup ({Frame(t).block} \ {0})
    /\ frames' = [frames EXCEPT ![t] = Front(@)]
    /\ UNCHANGED <<h, mapped>>

\* unlock, and the call returns what it got.
unlock(t) ==
    /\ InFrame(t, "unlock")
    /\ memory_lock' = 0
    /\ live' = live \cup ({Frame(t).block} \ {0})
    /\ frames' = [frames EXCEPT ![t] = Front(@)]
    /\ UNCHANGED <<h, mapped>>

\* process_create_thread: the copy of the creator has its heap, and is in the
\* group before it runs.
CreateThread(t, new) ==
    /\ Exists(t)
    /\ ~Running(t)
    /\ ~Exists(new)
    /\ mapped' = [mapped EXCEPT ![new] = mapped[t]]
    /\ UNCHANGED <<h, memory_lock, frames, live>>

Step(t) ==
    \/ lock(t) \/ Spin(t) \/ unlock(t)
    \/ GrowForSize(t) \/ RaiseMaximum(t)
    \/ Search(t) \/ Take(t)
    \/ GrowForBlock(t) \/ EnoughRoom(t) \/ MakeNew(t)
    \/ GiveBack(t)

Next ==
    \/ \E t \in Thread : Step(t)
    \/ \E t \in Thread, size \in Sizes : Enter(t, size, 0)
    \/ \E t \in Thread, b \in live :
          \/ Enter(t, 0, b)
          \/ \E size \in Sizes : Enter(t, size, b)
    \/ \E t \in Thread, b \in DOMAIN h.mem : FreeTwice(t, b)
    \/ \E t, new \in Thread : CreateThread(t, new)

\* Every thread that is ready gets the processor again and again.
Spec == Init /\ [][Next]_vars /\ \A t \in Thread : WF_vars(Step(t))

-----------------------------------------------------------------------------
Listed == {b \in DOMAIN h.mem : h.mem[b].next # InUse}

\* Type correctness of the heap, the lock and the calls.
TypeOK ==
    /\ \A b \in DOMAIN h.mem :
          /\ h.mem[b].size \in Nat \ {0}
          /\ {h.mem[b].prev, h.mem[b].next} \subseteq DOMAIN h.mem \cup {0, InUse}
    /\ h.free_list \in DOMAIN h.mem \cup {0}
    /\ h.heap_start \in Nat /\ h.heap_size \in Nat /\ h.max_allocation \in Nat
    /\ memory_lock \in {0, 1}
    /\ \A t \in Thread : Len(frames[t]) <= (IF t \in Handling THEN 2 ELSE 1)
    /\ live \subseteq DOMAIN h.mem

\* What mem_check looks for: each header names the next, from the start of the
\* heap to heap_start, and nothing else is a header.
Tiled ==
    /\ \A b \in DOMAIN h.mem : EndOf(h, b) \in DOMAIN h.mem \cup {h.heap_start}
    /\ \A b \in DOMAIN h.mem :
          b = USER_HEAP \/ \E c \in DOMAIN h.mem : EndOf(h, c) = b

\* The free list, from free_list along the next pointers, has each free block
\* once, in the order of addresses, and the prev pointers are its reverse; so a
\* block that was freed can be found.
FreeListSound ==
    LET after(b) == {c \in Listed : c > b}
    IN  /\ h.free_list = 0 <=> Listed = {}
        /\ Listed # {} => /\ h.free_list \in Listed
                          /\ after(h.free_list) = Listed \ {h.free_list}
                          /\ h.mem[h.free_list].prev = 0
        /\ \A b \in Listed :
              LET n == h.mem[b].next
              IN  IF after(b) = {} THEN n = 0
                  ELSE n \in after(b) /\ after(n) = after(b) \ {n} /\ h.mem[n].prev = b

\* A block that the program holds is in use, and malloc never hands out one that
\* somebody holds or is about to get: two threads and a handler cannot share one.
Getting == {c \in Calls : Call(c).pc \in {"give back", "unlock"} /\ Call(c).block # 0}
HeldIsUsed ==
    /\ live \cap Listed = {}
    /\ \A c \in Getting : Call(c).block \notin live \cup Listed

\* Each thread that exists can reach all of the heap: what one thread has added
\* with sys_sbrk is mapped for the others, also for those that are made later.
MappedForAll ==
    \A t \in Thread : Exists(t) =>
        /\ h.heap_start <= USER_HEAP + mapped[t]
        /\ mapped[t] = h.heap_size

\* The heap as its three views have it: the headers that tile it, the free list
\* through them, and the pages that the threads have.  Each call leaves them in
\* agreement, though every thread and handler changes them.
HeapSound == TypeOK /\ Tiled /\ FreeListSound /\ MappedForAll

\* A handler on top of a call that holds the lock waits for what it interrupts.
SelfBlocked(t) ==
    /\ Len(frames[t]) = 2
    /\ frames[t][1].pc # "lock"
    /\ frames[t][2].pc = "lock"

\* The lock is always released, and so a call returns, unless a signal handler
\* calls the allocator on top of the call that holds the lock.
LockReleased ==
    memory_lock = 1 ~> (memory_lock = 0 \/ \E t \in Thread : SelfBlocked(t))

\* The heap keeps what HeapPartition promises: blocks never overlap, and it does not
\* grow while a free block serves.
AsBlock(b) == [at |-> b, size |-> h.mem[b].size]
Blocks == INSTANCE HeapPartition WITH
    Laid <- {[at |-> ArgAt[i], size |-> ArgSizes[i]] : i \in 1..Len(ArgSizes)},
    Start <- ArgAt[Len(ArgSizes)+1],
    used <- {AsBlock(b) : b \in DOMAIN h.mem \ Listed},
    free <- {AsBlock(b) : b \in Listed},
    top <- h.heap_start
IsPartition == Blocks!Partition
=============================================================================
