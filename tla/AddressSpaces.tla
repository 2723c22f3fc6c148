---------------------------- MODULE AddressSpaces ----------------------------
(***************************************************************************)
(* The user part of the page directories: create_process and               *)
(* process_create_thread (proc.c), sys_sbrk (syscall.c), the shared blocks *)
(* (proc.c, copy_region in paging.c), on the frame stack of pmm.c, which   *)
(* nothing in these paths pushes a frame back to.                          *)
(*                                                                         *)
(* Pages are numbers.  As in memory.h the stack lies below the heap, and   *)
(* the heap below the shared region.  A positive frame is one popped from  *)
(* the frame stack; page a mapped to frame 0 becomes the physical page of  *)
(* the same number, written -a (there is no memory at that address).       *)
(***************************************************************************)
EXTENDS Integers, Sequences

CONSTANTS
    Pid,
    Heap,     \* the first page of the heap; the pages below are the stack's
    HeapPages,\* the pages of a heap at first
    Shm,      \* the first page of the shared region
    ShmEnd,   \* the page after the shared region
    Top,      \* bound: the last page of the model
    Unit,     \* the units of size in a page
    Sizes,    \* the sizes of blocks
    Brks,     \* the pages asked for with sbrk
    MaxFrames,\* bound: the frames of the machine
    MaxCalls  \* bound: calls about shared blocks

Page == 1..Top
Stack == 1..Heap-1
ShmPage == Shm..Top

ASSUME Layout ==
    /\ Heap \in Nat /\ HeapPages \in Nat /\ Shm \in Nat /\ ShmEnd \in Nat /\ Top \in Nat
    /\ 1 < Heap /\ Heap + HeapPages <= Shm /\ Shm < ShmEnd /\ ShmEnd <= Top + 1
    /\ Unit \in Nat \ {0} /\ Sizes \subseteq Nat /\ Brks \subseteq Nat /\ MaxFrames \in Nat /\ MaxCalls \in Nat

VARIABLES
    esp,   \* the frames popped so far: 1..esp
    group, \* pid -> its thread group, 0 for a free pid
    made,  \* counts the groups made
    heap,  \* pid -> heap_size, in pages
    space, \* pid -> the page directory: page -> frame, 0 if not present
    blocks,\* pid -> shmem_blocks: [offset, size, shows]
    bytes, \* pid -> shmem_bytes
    calls  \* counts the calls about shared blocks

vars == <<esp, group, made, heap, space, blocks, bytes, calls>>

Live == {p \in Pid : group[p] # 0}

Init ==
    /\ esp = 0 /\ made = 0 /\ calls = 0
    /\ group = [p \in Pid |-> 0]
    /\ heap = [p \in Pid |-> 0]
    /\ space = [p \in Pid |-> [a \in Page |-> 0]]
    /\ blocks = [p \in Pid |-> <<>>]
    /\ bytes = [p \in Pid |-> 0]

-----------------------------------------------------------------------------
\* kralloc of an interval of pages: each gets the next frame of the stack.
Fresh(first, a) == esp + 1 + a - first

\* create_process: a heap, a stack and all of the shared region.
create_process(p) ==
    /\ p \notin Live /\ esp + ShmEnd <= MaxFrames
    /\ esp' = esp + ShmEnd
    /\ made' = made + 1
    /\ group' = [group EXCEPT ![p] = made + 1]
    /\ heap' = [heap EXCEPT ![p] = HeapPages]
    /\ space' = [space EXCEPT ![p] =
                   [a \in Page |-> IF a \in Stack \cup Heap..Heap+HeapPages-1 \cup Shm..ShmEnd-1
                                   THEN Fresh(1, a) ELSE 0]]
    /\ blocks' = [blocks EXCEPT ![p] = <<>>]
    /\ bytes' = [bytes EXCEPT ![p] = 0]
    /\ UNCHANGED calls

\* Faulty: the thread keeps the stack of its creator.
SharesStack(p, t) ==
    /\ p \in Live /\ t \notin Live
    /\ group' = [group EXCEPT ![t] = group[p]]
    /\ heap' = [heap EXCEPT ![t] = heap[p]]
    /\ space' = [space EXCEPT ![t] = space[p]]
    /\ blocks' = [blocks EXCEPT ![t] = blocks[p]]
    /\ bytes' = [bytes EXCEPT ![t] = Len(blocks[p])]
    /\ UNCHANGED <<esp, made, calls>>

\* process_create_thread: a copy of p's mappings with a stack of its own; of
\* the blocks, shmem_bytes gets their number.
process_create_thread(p, t) ==
    /\ p \in Live /\ t \notin Live /\ esp + Heap <= MaxFrames
    /\ esp' = esp + Heap
    /\ group' = [group EXCEPT ![t] = group[p]]
    /\ heap' = [heap EXCEPT ![t] = heap[p]]
    /\ space' = [space EXCEPT ![t] =
                   [a \in Page |-> IF a \in Stack THEN Fresh(1, a) ELSE space[p][a]]]
    /\ blocks' = [blocks EXCEPT ![t] = blocks[p]]
    /\ bytes' = [bytes EXCEPT ![t] = Len(blocks[p])]
    /\ UNCHANGED <<made, calls>>

NoSpace == [a \in Page |-> 0]

\* clean_process: nobody reaches the directory any more; no frame is freed.
clean_process(p) ==
    /\ p \in Live
    /\ group' = [group EXCEPT ![p] = 0]
    /\ heap' = [heap EXCEPT ![p] = 0]
    /\ space' = [space EXCEPT ![p] = NoSpace]
    /\ blocks' = [blocks EXCEPT ![p] = <<>>]
    /\ bytes' = [bytes EXCEPT ![p] = 0]
    /\ UNCHANGED <<esp, made, calls>>

\* Faulty: only the caller gets the page.
GrowsCaller(p, n) ==
    /\ p \in Live /\ esp < MaxFrames /\ Heap + heap[p] + n <= Shm
    /\ esp' = esp + 1
    /\ heap' = [heap EXCEPT ![p] = @ + n]
    /\ space' = [space EXCEPT ![p] =
                   [a \in Page |-> IF a \in Heap+heap[p]..Heap+heap[p]+n-1 THEN esp + 1 ELSE @[a]]]
    /\ UNCHANGED <<group, made, blocks, bytes, calls>>

\* sys_sbrk of n pages: one frame, mapped at every new page of every member of
\* the group.  Bound: the heap ends before the shared region (nothing checks it).
sys_sbrk(p, n) ==
    LET New(q) == Heap+heap[q]..Heap+heap[q]+n-1
    IN  /\ p \in Live /\ esp < MaxFrames
        /\ \A q \in Live : group[q] = group[p] => Heap + heap[q] + n <= Shm
        /\ esp' = esp + 1
        /\ heap' = [q \in Pid |-> IF group[q] = group[p] THEN heap[q] + n ELSE heap[q]]
        /\ space' = [q \in Pid |->
                       [a \in Page |-> IF group[q] = group[p] /\ a \in New(q)
                                       THEN esp + 1 ELSE space[q][a]]]
        /\ UNCHANGED <<group, made, blocks, bytes, calls>>

-----------------------------------------------------------------------------
(* Shared blocks.                                                          *)

Counted == calls < MaxCalls /\ calls' = calls + 1

\* process_create_shared; `shows` is auxiliary: what an opened block was to show.
process_create_shared(p, n, shows) ==
    /\ blocks' = [blocks EXCEPT ![p] = Append(@, [offset |-> bytes[p], size |-> n, shows |-> shows])]
    /\ bytes' = [bytes EXCEPT ![p] = @ + n]

sys_shmem_create(p, n) ==
    /\ p \in Live /\ Counted /\ Shm * Unit + bytes[p] + n <= Top * Unit
    /\ process_create_shared(p, n, {})
    /\ UNCHANGED <<esp, group, made, heap, space>>

\* The pages that copy_region copies: those of the block, and one more if the
\* block ends where a page does.
Region(offset, n) ==
    {a \in ShmPage : (a - Shm + 1) * Unit > offset /\ (a - Shm) * Unit <= offset + n}

First(offset) == Shm + offset \div Unit

\* kmpalloc: frame 0 is taken for no frame.
Mapped(f, a) == IF f = 0 THEN -a ELSE f

\* Faulty: does not copy the first page.
CopyLess(p, t, from, n, to) ==
    LET i(a) == a - First(to) + First(from)
    IN  [a \in Page |->
           IF a \in ShmPage /\ i(a) \in Region(from, n) /\ i(a) # First(from)
           THEN Mapped(space[t][i(a)], a) ELSE space[p][a]]

\* copy_region from t at `from` to p at `to`.
copy_region(p, t, from, n, to) ==
    LET i(a) == a - First(to) + First(from)
    IN  [a \in Page |->
           IF a \in ShmPage /\ i(a) \in Region(from, n)
           THEN Mapped(space[t][i(a)], a) ELSE space[p][a]]

\* The pages a block of size n at `to` has, with the frames they should show,
\* if the owner's block begins with a page.
Shown(t, from, n, to) ==
    IF from % Unit # 0 THEN {}
    ELSE {<<a, space[t][a - First(to) + First(from)]>> :
            a \in {b \in ShmPage : b - First(to) + First(from) \in Region(from, n - 1)}}

\* process_open_shmem.  An id or a pid that does not exist is read through a
\* null pointer; the callers of the model name existing ones, of another
\* process.
sys_shmem_open(p, t, id) ==
    LET b == blocks[t][id]
    IN  /\ p \in Live /\ t \in Live /\ p # t /\ Counted
        /\ Shm * Unit + bytes[p] + b.size < Top * Unit
        /\ process_create_shared(p, b.size, Shown(t, b.offset, b.size, bytes[p]))
        /\ space' = [space EXCEPT ![p] = copy_region(p, t, b.offset, b.size, bytes[p])]
        /\ UNCHANGED <<esp, group, made, heap>>

\* process_reset_shmem forgets the blocks; the mappings stay.
sys_shmem_reset(p) ==
    /\ p \in Live /\ Counted
    /\ blocks' = [blocks EXCEPT ![p] = <<>>]
    /\ bytes' = [bytes EXCEPT ![p] = 0]
    /\ UNCHANGED <<esp, group, made, heap, space>>

Next ==
    \/ \E p \in Pid : create_process(p)
    \/ \E p, t \in Pid : process_create_thread(p, t)
    \/ \E p \in Pid : clean_process(p)
    \/ \E p \in Pid, n \in Brks : sys_sbrk(p, n)
    \/ \E p \in Pid, n \in Sizes : sys_shmem_create(p, n)
    \/ \E p, t \in Pid : \E id \in 1..Len(blocks[t]) : sys_shmem_open(p, t, id)
    \/ \E p \in Pid : sys_shmem_reset(p)

Spec == Init /\ [][Next]_vars

-----------------------------------------------------------------------------
\* Type correctness.
TypeOK ==
    /\ esp \in Nat /\ made \in Nat
    /\ group \in [Pid -> 0..made]
    /\ heap \in [Pid -> Nat]
    /\ space \in [Pid -> [Page -> Int]]
    /\ blocks \in [Pid -> Seq([offset : Nat, size : Nat, shows : SUBSET (Page \X Int)])]
    /\ bytes \in [Pid -> Nat] /\ calls \in Nat

\* The memory below the shared region is private, whatever is shared, grown,
\* ended and started again: a frame of a process's stack or heap is nowhere in
\* the space of a process of another group, and its stack is its own.
PrivateMemory ==
    \A p, q \in Live : \A a \in 1..Shm-1 : \A b \in Page :
        p # q /\ space[p][a] # 0 /\ space[p][a] = space[q][b] =>
            group[p] = group[q] /\ a \notin Stack

\* The threads of a group have one heap: sbrk, called by any of them, gives all
\* of them the same page, and a new thread gets the heap as it has become.
HeapsAgree ==
    \A p, q \in Live : group[p] = group[q] =>
        /\ heap[p] = heap[q]
        /\ \A a \in Heap..Shm-1 : space[p][a] = space[q][a]

\* A process whose blocks follow each other on page boundaries (not a thread
\* made after its creator had blocks) finds at each block it opened the frames
\* of the block's owner, though copy_region maps a page too many.
Contiguous(p) ==
    \A i \in DOMAIN blocks[p] :
        /\ blocks[p][i].offset % Unit = 0
        /\ blocks[p][i].offset = IF i = 1 THEN 0 ELSE blocks[p][i-1].offset + blocks[p][i-1].size

BlocksShow ==
    \A p \in Live : Contiguous(p) =>
        \A i \in DOMAIN blocks[p] : \A m \in blocks[p][i].shows :
            m[2] # 0 => space[p][m[1]] = m[2]
=============================================================================
