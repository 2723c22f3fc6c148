------------------------------ MODULE PipeRing ------------------------------
(***************************************************************************)
(* The ring buffer of a pipe (os/kernel/fs/pipe.c).  The handlers run with *)
(* interrupts off on the only CPU, so each call is one step; the loops     *)
(* over single bytes are written by what they leave behind.  The cell at   *)
(* write_ptr is never used, which tells a full ring from an empty one.     *)
(***************************************************************************)
EXTENDS Integers, Sequences

CONSTANTS
    Byte,      \* the values a byte may take
    Zero,      \* the byte memset stores
    Size,      \* buffer_size of pipe_create
    Messages,  \* the byte sequences writers write
    Requests   \* the numbers of bytes readers ask for

ASSUME PipeAssumption ==
    /\ Zero \in Byte
    /\ Size \in Nat \ {0}
    /\ Messages \subseteq Seq(Byte)
    /\ Requests \subseteq Nat

VARIABLES
    buffer,     \* buffer[0..Size-1]
    read_ptr,   \* the cell the next read takes
    write_ptr,  \* the cell the next write fills
    returned    \* the last call's return value and the bytes it handed over

vars == <<buffer, read_ptr, write_ptr, returned>>

Cells == 0..Size-1
Least(m, n) == IF m <= n THEN m ELSE n

\* Where a pointer stands after n single steps, each of which wraps at Size.
Forward(ptr, n) == IF ptr + n >= Size THEN ptr + n - Size ELSE ptr + n

\* The number of single steps from ptr to cell c.
Steps(ptr, c) == IF c >= ptr THEN c - ptr ELSE c + Size - ptr

\* The n bytes of buffer b from cell ptr on.
Window(b, ptr, n) == [i \in 1..n |-> b[Forward(ptr, i - 1)]]

-----------------------------------------------------------------------------
pipe_unread ==
    IF read_ptr = write_ptr THEN 0
    ELSE IF read_ptr > write_ptr THEN Size - read_ptr + write_ptr
         ELSE write_ptr - read_ptr

\* Faulty: no spare cell in an empty ring.
AvailableToTheBrim ==
    IF read_ptr = write_ptr THEN Size
    ELSE IF read_ptr > write_ptr THEN read_ptr - write_ptr - 1
         ELSE Size - write_ptr + read_ptr - 1

pipe_available ==
    IF read_ptr = write_ptr THEN Size - 1
    ELSE IF read_ptr > write_ptr THEN read_ptr - write_ptr - 1
         ELSE Size - write_ptr + read_ptr - 1

\* pipe_create: an empty, zeroed buffer.
Init ==
    /\ buffer = [c \in Cells |-> Zero]
    /\ read_ptr = 0
    /\ write_ptr = 0
    /\ returned = [count |-> 0, bytes |-> <<>>]

\* Faulty: writes on when the ring is full.
WriteAll(data) ==
    /\ buffer' = [c \in Cells |-> IF Steps(write_ptr, c) < Len(data)
                                  THEN data[Steps(write_ptr, c) + 1]
                                  ELSE buffer[c]]
    /\ write_ptr' = Forward(write_ptr, Len(data))
    /\ returned' = [count |-> Len(data), bytes |-> <<>>]
    /\ UNCHANGED read_ptr

pipe_write(data) ==
    LET n == Least(Len(data), pipe_available)
    IN  /\ buffer' = [c \in Cells |-> IF Steps(write_ptr, c) < n
                                      THEN data[Steps(write_ptr, c) + 1]
                                      ELSE buffer[c]]
        /\ write_ptr' = Forward(write_ptr, n)
        /\ returned' = [count |-> n, bytes |-> <<>>]
        /\ UNCHANGED read_ptr

pipe_read(size) ==
    LET n == Least(size, pipe_unread)
    IN  /\ read_ptr' = Forward(read_ptr, n)
        /\ returned' = [count |-> n, bytes |-> Window(buffer, read_ptr, n)]
        /\ UNCHANGED <<buffer, write_ptr>>

\* pipe_ioctl with PIPE_IOCTL_CLEAR.
Clear ==
    /\ buffer' = [c \in Cells |-> Zero]
    /\ read_ptr' = 0
    /\ write_ptr' = 0
    /\ returned' = [count |-> 0, bytes |-> <<>>]

Next ==
    \/ \E data \in Messages : pipe_write(data)
    \/ \E size \in Requests : pipe_read(size)
    \/ Clear

Spec == Init /\ [][Next]_vars

-----------------------------------------------------------------------------
\* Type correctness: both pointers stay inside the buffer.
TypeOK ==
    /\ buffer \in [Cells -> Byte]
    /\ read_ptr \in Cells
    /\ write_ptr \in Cells
    /\ returned \in [count : Nat, bytes : Seq(Byte)]

\* pipe_unread and pipe_available, computed apart by pipe_read and
\* pipe_write, always divide the ring without its one spare cell.
SpaceAccounted == pipe_unread + pipe_available = Size - 1

\* The bytes a reader has yet to see, in the order it will see them.
Unread == Window(buffer, read_ptr, pipe_unread)

Fifo == INSTANCE BoundedFifo WITH contents <- Unread, Capacity <- Size - 1

\* The ring is a bounded FIFO: a reader gets every byte that a write counted,
\* once and in order, and a short count means the pipe was full or empty.
IsFifo == Fifo!Spec
=============================================================================
