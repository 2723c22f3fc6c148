--------------------------- MODULE HeapPartition ---------------------------
(***************************************************************************)
(* What the heaps of alloc.c and kheap.c promise: the memory below `top`   *)
(* is cut into blocks that are in use or free.  A block in use belongs to  *)
(* one caller and stays where it is until it is freed; free blocks are cut *)
(* smaller and taken again, never joined.  Free space of the right size is *)
(* taken before the heap grows.                                            *)
(***************************************************************************)
EXTENDS Integers

CONSTANTS
    Header,   \* sizeof(mem_t)
    Sizes,    \* the sizes that are asked for
    Laid,     \* the blocks of the program's arguments, laid out before it runs
    Start     \* where they end

VARIABLES
    used,   \* the blocks in use, as [at |-> address, size |-> bytes behind the header]
    free,   \* the free blocks
    top     \* where the next new block begins, heap_start

pvars == <<used, free, top>>

Block == [at : Nat, size : Nat \ {0}]

End(b) == b.at + Header + b.size

\* No byte, header included, belongs to both.
Apart(b, c) == End(b) <= c.at \/ End(c) <= b.at

\* What an instance has to provide: argument blocks that lie apart.
Layout ==
    /\ Header \in Nat \ {0}
    /\ Sizes \subseteq Nat \ {0}
    /\ Laid \subseteq Block
    /\ Start \in Nat
    /\ \A b, c \in Laid : b # c => Apart(b, c)
    /\ \A b \in Laid : End(b) <= Start

\* A free block serves a request of its own size, or a smaller one if what
\* remains can hold a header and a byte.
Fits(b, size) == b.size = size \/ b.size > size + Header

\* The two pieces of a block that is cut.
Part(b, size) == [b EXCEPT !.size = size]
Remainder(b, size) == [at |-> b.at + Header + size, size |-> b.size - size - Header]

-----------------------------------------------------------------------------
PInit ==
    /\ used = Laid
    /\ free = {}
    /\ top = Start

TakeWhole(b) ==
    /\ b \in free
    /\ b.size \in Sizes
    /\ used' = used \cup {b}
    /\ free' = free \ {b}
    /\ UNCHANGED top

TakePart(b, size) ==
    /\ b \in free
    /\ b.size > size + Header
    /\ used' = used \cup {Part(b, size)}
    /\ free' = (free \ {b}) \cup {Remainder(b, size)}
    /\ UNCHANGED top

Extend(size) ==
    /\ \A b \in free : ~Fits(b, size)
    /\ used' = used \cup {[at |-> top, size |-> size]}
    /\ top' = top + Header + size
    /\ UNCHANGED free

Release(b) ==
    /\ b \in used
    /\ used' = used \ {b}
    /\ free' = free \cup {b}
    /\ UNCHANGED top

PNext ==
    \/ \E b \in free : TakeWhole(b)
    \/ \E b \in free, size \in Sizes : TakePart(b, size)
    \/ \E size \in Sizes : Extend(size)
    \/ \E b \in used : Release(b)

Partition == PInit /\ [][PNext]_pvars

-----------------------------------------------------------------------------
\* No byte belongs to two blocks, be they in use or free, and none lies at or
\* above the place where the next block begins.
BlocksApart ==
    /\ \A b, c \in used \cup free : b # c => Apart(b, c)
    /\ used \cap free = {}
    /\ \A b \in used \cup free : End(b) <= top
=============================================================================
