---------------------------- MODULE BoundedFifo ----------------------------
(***************************************************************************)
(* What a pipe promises the processes at its two ends: a first-in          *)
(* first-out store of at most Capacity bytes.  A write stores the longest  *)
(* prefix of its bytes that fits and returns its length, a read takes the  *)
(* oldest bytes there are, up to the number asked for, and no byte is      *)
(* lost, repeated or reordered.                                            *)
(***************************************************************************)
EXTENDS Naturals, Sequences

CONSTANTS
    Byte,      \* the values a byte may take
    Capacity,  \* the most bytes the store holds
    Messages,  \* the byte sequences writers write
    Requests   \* the numbers of bytes readers ask for

VARIABLES
    contents,  \* the stored bytes, the oldest first
    returned   \* the last call's return value and the bytes it handed over

Least(m, n) == IF m <= n THEN m ELSE n

Init ==
    /\ contents = <<>>
    /\ returned = [count |-> 0, bytes |-> <<>>]

Put(data) ==
    LET n == Least(Len(data), Capacity - Len(contents))
    IN  /\ contents' = contents \o SubSeq(data, 1, n)
        /\ returned' = [count |-> n, bytes |-> <<>>]

Take(size) ==
    LET n == Least(size, Len(contents))
    IN  /\ contents' = SubSeq(contents, n + 1, Len(contents))
        /\ returned' = [count |-> n, bytes |-> SubSeq(contents, 1, n)]

\* The contents may be discarded as a whole.
Discard ==
    /\ contents' = <<>>
    /\ returned' = [count |-> 0, bytes |-> <<>>]

Next ==
    \/ \E data \in Messages : Put(data)
    \/ \E size \in Requests : Take(size)
    \/ Discard

Spec == Init /\ [][Next]_<<contents, returned>>
=============================================================================
