--------------------------- MODULE PipeRingProofs ---------------------------
(***************************************************************************)
(* Theorems about the ring buffer for every size, alphabet, set of         *)
(* messages and set of requests.  TypeOK is inductive as it stands, and    *)
(* the refinement needs it alone.                                          *)
(***************************************************************************)
EXTENDS PipeRing, SequenceTheorems, TLAPS

\* A write or a read moves its pointer by at most what the ring can give.
LEMMA Counts ==
  ASSUME TypeOK
  PROVE  /\ pipe_unread \in 0..Size-1
         /\ pipe_available = Size - 1 - pipe_unread
         /\ write_ptr = Forward(read_ptr, pipe_unread)
BY PipeAssumption DEF TypeOK, Cells, pipe_unread, pipe_available, Forward

\* Advancing an index stays in the ring.
LEMMA ForwardStays ==
  ASSUME NEW c \in Cells, NEW n \in 0..Size-1
  PROVE  Forward(c, n) \in Cells
BY PipeAssumption DEF Cells, Forward

\* A function from 1..n is a sequence of length n.
LEMMA FunctionIsSeq ==
  ASSUME NEW S, NEW n \in Nat, NEW f \in [1..n -> S]
  PROVE  f \in Seq(S) /\ Len(f) = n
<1>1. f \in Seq(S)
  BY SeqDef
<1> QED
  BY <1>1, LenProperties

\* A window of the buffer is a sequence of bytes.
LEMMA WindowIsSeq ==
  ASSUME NEW b \in [Cells -> Byte], NEW r \in Cells, NEW n \in 0..Size
  PROVE  /\ Window(b, r, n) \in Seq(Byte)
         /\ Len(Window(b, r, n)) = n
         /\ \A i \in 1..n : Window(b, r, n)[i] = b[Forward(r, i - 1)]
<1>0. n \in Nat /\ Size \in Nat
  BY PipeAssumption
<1>1. \A i \in 1..n : Forward(r, i - 1) \in Cells
  BY <1>0 DEF Forward, Cells
<1>2. Window(b, r, n) \in [1..n -> Byte]
  BY <1>1 DEF Window
<1>3. \A i \in 1..n : Window(b, r, n)[i] = b[Forward(r, i - 1)]
  BY DEF Window
<1> QED
  BY <1>0, <1>2, <1>3, FunctionIsSeq

\* An empty ring is well formed.
LEMMA InitTypeOK == Init => TypeOK
BY PipeAssumption DEF Init, TypeOK, Cells

\* Every operation keeps the ring well formed.
LEMMA NextTypeOK == TypeOK /\ [Next]_vars => TypeOK'
<1> SUFFICES ASSUME TypeOK, [Next]_vars
             PROVE  TypeOK'
  OBVIOUS
<1>0. /\ pipe_unread \in 0..Size-1
      /\ pipe_available \in 0..Size-1
      /\ Size \in Nat
  BY Counts, PipeAssumption
<1>1. ASSUME NEW data \in Messages, pipe_write(data) PROVE TypeOK'
  <2> DEFINE n == Least(Len(data), pipe_available)
  <2>1. data \in Seq(Byte) /\ Len(data) \in Nat
    BY PipeAssumption
  <2>2. n \in 0..Size-1 /\ n <= Len(data)
    BY <1>0, <2>1 DEF Least
  <2>3. write_ptr' \in Cells
    BY <1>1, <2>2, ForwardStays DEF pipe_write, TypeOK
  <2>4. ASSUME NEW c \in Cells, Steps(write_ptr, c) < n
        PROVE  data[Steps(write_ptr, c) + 1] \in Byte
    <3>1. Steps(write_ptr, c) + 1 \in 1..Len(data)
      <4>1. Steps(write_ptr, c) \in Nat
        BY <1>0 DEF Steps, TypeOK, Cells
      <4> QED
        BY <2>1, <2>2, <2>4, <4>1
    <3> QED
      BY <2>1, <3>1
  <2>5. buffer' \in [Cells -> Byte]
    BY <1>1, <2>4 DEF pipe_write, TypeOK
  <2>6. returned' \in [count : Nat, bytes : Seq(Byte)]
    BY <1>1, <2>2 DEF pipe_write
  <2> QED
    BY <1>1, <2>3, <2>5, <2>6 DEF TypeOK, pipe_write
<1>2. ASSUME NEW size \in Requests, pipe_read(size) PROVE TypeOK'
  <2> DEFINE n == Least(size, pipe_unread)
             b == Window(buffer, read_ptr, n)
  <2>1. n \in 0..Size-1
    BY <1>0, PipeAssumption DEF Least
  <2>2. read_ptr' \in Cells
    BY <1>2, <2>1, ForwardStays DEF pipe_read, TypeOK
  <2>3. b \in Seq(Byte)
    <3> HIDE DEF n
    <3>1. n \in 0..Size
      BY <2>1, PipeAssumption
    <3> QED
      BY <3>1, WindowIsSeq DEF TypeOK
  <2>4. returned' = [count |-> n, bytes |-> b]
    BY <1>2 DEF pipe_read
  <2>5. returned' \in [count : Nat, bytes : Seq(Byte)]
    <3> HIDE DEF n, b
    <3> QED
      BY <2>1, <2>3, <2>4
  <2> QED
    BY <1>2, <2>2, <2>5 DEF TypeOK, pipe_read
<1>3. CASE Clear
  BY <1>3, PipeAssumption DEF Clear, TypeOK, Cells
<1>4. CASE UNCHANGED vars
  BY <1>4 DEF vars, TypeOK
<1> QED
  BY <1>1, <1>2, <1>3, <1>4 DEF Next

\* pipe_read and pipe_write never move a pointer out of the buffer.
THEOREM SpecTypeOK == Spec => []TypeOK
BY InitTypeOK, NextTypeOK, PTL DEF Spec

\* The two counts divide a ring of any size without its spare cell.
THEOREM SpecSpaceAccounted == Spec => []SpaceAccounted
<1>1. TypeOK => SpaceAccounted
  BY Counts, PipeAssumption DEF SpaceAccounted
<1> QED
  BY <1>1, InitTypeOK, NextTypeOK, PTL DEF Spec

-----------------------------------------------------------------------------
(* The refinement.  After a write the unread window is longer by the bytes *)
(* accepted; a read splits it into the bytes given and the bytes left.     *)

\* Advancing twice is advancing by the sum.
LEMMA ForwardTwice ==
  ASSUME NEW r \in Cells, NEW m \in Nat, NEW n \in Nat, m + n <= Size
  PROVE  Forward(Forward(r, m), n) = Forward(r, m + n)
BY PipeAssumption DEF Forward, Cells

\* How far an index in the ring is from another after an advance.
LEMMA StepsBack ==
  ASSUME NEW r \in Cells, NEW m \in Nat, NEW i \in Nat, m < Size, i < Size
  PROVE  Steps(Forward(r, m), Forward(r, i)) = IF i >= m THEN i - m ELSE i + Size - m
BY PipeAssumption DEF Forward, Cells, Steps

\* Buffer c is buffer b after the n first bytes of data were stored behind the
\* u unread ones that start at cell r.
StoredBehind(b, c, r, u, data, n) ==
    /\ b \in [Cells -> Byte] /\ c \in [Cells -> Byte] /\ r \in Cells
    /\ u \in Nat /\ n \in Nat /\ u + n <= Size - 1
    /\ data \in Seq(Byte) /\ n <= Len(data)
    /\ \A j \in Cells :
          c[j] = IF Steps(Forward(r, u), j) < n
                 THEN data[Steps(Forward(r, u), j) + 1] ELSE b[j]

\* Sequence s with the n first bytes of data added.
Extended(s, data, n) == s \o SubSeq(data, 1, n)

\* A write behind the unread bytes leaves them and adds what it stored.
LEMMA WriteExtends ==
  ASSUME NEW b, NEW c, NEW r, NEW u, NEW data, NEW n, StoredBehind(b, c, r, u, data, n)
  PROVE  Window(c, r, u + n) = Extended(Window(b, r, u), data, n)
<1> USE DEF StoredBehind, Extended
<1> DEFINE w == Forward(r, u)
           s == Window(b, r, u)
           t == SubSeq(data, 1, n)
           x == Window(c, r, u + n)
<1> SUFFICES x = s \o t
  OBVIOUS
<1>0. Size \in Nat \ {0} /\ Len(data) \in Nat
  BY PipeAssumption
<1>1. s \in Seq(Byte) /\ Len(s) = u /\ \A i \in 1..u : s[i] = b[Forward(r, i - 1)]
  <2>1. u \in 0..Size
    BY <1>0
  <2> QED
    BY <2>1, WindowIsSeq
<1>2. t \in Seq(Byte) /\ Len(t) = n /\ \A i \in 1..n : t[i] = data[i]
  <2>1. \A i \in 1..n : data[i] \in Byte
    BY <1>0
  <2> QED
    BY <1>0, <2>1, SubSeqProperties
<1>3. /\ x \in Seq(Byte) /\ Len(x) = u + n
      /\ \A i \in 1..(u + n) : x[i] = c[Forward(r, i - 1)]
  <2>1. u + n \in 0..Size
    BY <1>0
  <2> QED
    BY <2>1, WindowIsSeq
<1>4. /\ s \o t \in Seq(Byte) /\ Len(s \o t) = u + n
      /\ \A i \in 1..(u + n) : (s \o t)[i] = IF i <= u THEN s[i] ELSE t[i - u]
  <2> HIDE DEF s, t
  <2>1. Len(s) = u /\ Len(t) = n /\ s \in Seq(Byte) /\ t \in Seq(Byte)
    BY <1>1, <1>2
  <2> QED
    BY <2>1, ConcatProperties, ZenonT(60)
<1>5. ASSUME NEW i \in 1..(u + n) PROVE x[i] = (s \o t)[i]
  <2> DEFINE j == Forward(r, i - 1)
  <2>1. j \in Cells
    BY <1>0 DEF Forward, Cells
  <2>2. Steps(w, j) = IF i - 1 >= u THEN i - 1 - u ELSE i - 1 + Size - u
    <3>1. i - 1 \in Nat /\ i - 1 < Size /\ u < Size
      BY <1>0
    <3> QED
      BY <3>1, StepsBack
  <2>3. x[i] = IF Steps(w, j) < n THEN data[Steps(w, j) + 1] ELSE b[j]
    BY <1>3, <2>1
  <2> HIDE DEF x, s, t, j
  <2>4. CASE i <= u
    <3>2. Steps(w, j) \in Int /\ ~(Steps(w, j) < n)
      BY <1>0, <2>2, <2>4
    <3>3. x[i] = b[j]
      BY <2>3, <3>2
    <3>4. i \in 1..u /\ (s \o t)[i] = s[i]
      BY <1>4, <2>4
    <3>5. s[i] = b[j]
      BY <1>1, <3>4 DEF j
    <3> QED
      BY <3>3, <3>4, <3>5
  <2>5. CASE ~(i <= u)
    <3>1. Steps(w, j) = i - 1 - u /\ i - u \in 1..n
      BY <1>0, <2>2, <2>5
    <3>2. x[i] = data[i - u]
      BY <2>3, <3>1
    <3>3. (s \o t)[i] = data[i - u]
      BY <1>2, <1>4, <2>5, <3>1
    <3> QED
      BY <3>2, <3>3
  <2> QED
    BY <2>4, <2>5
<1> HIDE DEF x, s, t
<1> QED
  BY <1>3, <1>4, <1>5, SeqEqual

\* What a read takes and what it leaves make up what was there.
LEMMA ReadSplits ==
  ASSUME NEW b \in [Cells -> Byte], NEW r \in Cells, NEW u \in 0..Size-1, NEW n \in 0..u
  PROVE  /\ Window(b, r, n) = SubSeq(Window(b, r, u), 1, n)
         /\ Window(b, Forward(r, n), u - n) = SubSeq(Window(b, r, u), n + 1, u)
<1> DEFINE s == Window(b, r, u)
           x == Window(b, r, n)
           q == Forward(r, n)
           y == Window(b, q, u - n)
           x2 == SubSeq(s, 1, n)
           y2 == SubSeq(s, n + 1, u)
<1>0. Size \in Nat \ {0} /\ n \in Nat /\ u \in Nat
  BY PipeAssumption
<1>1. s \in Seq(Byte) /\ Len(s) = u /\ \A i \in 1..u : s[i] = b[Forward(r, i - 1)]
  <2>1. u \in 0..Size
    BY <1>0
  <2> QED
    BY <2>1, WindowIsSeq
<1>2. x \in Seq(Byte) /\ Len(x) = n /\ \A i \in 1..n : x[i] = b[Forward(r, i - 1)]
  <2>1. n \in 0..Size
    BY <1>0
  <2> QED
    BY <2>1, WindowIsSeq
<1>3. q \in Cells
  BY <1>0 DEF Forward, Cells
<1>4. y \in Seq(Byte) /\ Len(y) = u - n /\ \A i \in 1..(u - n) : y[i] = b[Forward(q, i - 1)]
  <2>1. u - n \in 0..Size
    BY <1>0
  <2> HIDE DEF q
  <2> QED
    BY <1>3, <2>1, WindowIsSeq
<1>5. \A i \in 1..(u - n) : Forward(q, i - 1) = Forward(r, n + i - 1)
  BY <1>0 DEF Forward, Cells
<1> HIDE DEF s, x, y, q
<1>6. x2 \in Seq(Byte) /\ Len(x2) = n /\ \A i \in 1..n : x2[i] = s[i]
  <2>1. \A i \in 1..n : s[i] \in Byte
    BY <1>0, <1>1
  <2> QED
    BY <1>0, <2>1, SubSeqProperties
<1>7. y2 \in Seq(Byte) /\ Len(y2) = u - n /\ \A i \in 1..(u - n) : y2[i] = s[n + i]
  <2>1. \A i \in (n + 1)..u : s[i] \in Byte
    BY <1>0, <1>1
  <2> QED
    BY <1>0, <2>1, SubSeqProperties
<1> HIDE DEF x2, y2
<1>8. \A i \in 1..n : x[i] = x2[i]
  <2>1. \A i \in 1..n : i \in 1..u
    BY <1>0
  <2> QED
    BY <1>1, <1>2, <1>6, <2>1
<1>9. \A i \in 1..(u - n) : y[i] = y2[i]
  <2> SUFFICES ASSUME NEW i \in 1..(u - n)
               PROVE  y[i] = y2[i]
    OBVIOUS
  <2>1. n + i \in 1..u /\ (n + i) - 1 = n + i - 1
    BY <1>0
  <2>2. s[n + i] = b[Forward(r, n + i - 1)]
    BY <1>1, <2>1
  <2> QED
    BY <1>4, <1>5, <1>7, <2>2
<1>10. x = x2
  BY <1>2, <1>6, <1>8, SeqEqual
<1>11. y = y2
  BY <1>4, <1>7, <1>9, SeqEqual
<1> QED
  BY <1>10, <1>11 DEF x, x2, y, y2, s, q

\* Every step of the ring is a step of the bounded queue, or changes nothing of it.
LEMMA StepRefines ==
  ASSUME TypeOK, TypeOK', [Next]_vars
  PROVE  [Fifo!Next]_<<Unread, returned>>
<1> DEFINE u == pipe_unread
<1>0. /\ Size \in Nat \ {0} /\ u \in 0..Size-1
      /\ pipe_available = Size - 1 - u
      /\ write_ptr = Forward(read_ptr, u)
      /\ buffer \in [Cells -> Byte] /\ buffer' \in [Cells -> Byte]
      /\ read_ptr \in Cells
  BY Counts, PipeAssumption DEF TypeOK
<1>1. Len(Unread) = u
  <2>1. u \in 0..Size
    BY <1>0
  <2> QED
    BY <1>0, <2>1, WindowIsSeq DEF Unread
<1>2. ASSUME NEW data \in Messages, pipe_write(data) PROVE Fifo!Put(data)
  <2> DEFINE n == Least(Len(data), pipe_available)
  <2>1. data \in Seq(Byte) /\ Len(data) \in Nat
    BY PipeAssumption
  <2>2. n \in Nat /\ n <= Len(data) /\ u + n <= Size - 1
    BY <1>0, <2>1 DEF Least
  <2>3. /\ read_ptr' = read_ptr
        /\ write_ptr' = Forward(write_ptr, n)
        /\ buffer' = [c \in Cells |-> IF Steps(write_ptr, c) < n
                                      THEN data[Steps(write_ptr, c) + 1]
                                      ELSE buffer[c]]
        /\ returned' = [count |-> n, bytes |-> <<>>]
    BY <1>2 DEF pipe_write
  <2>4. Fifo!Least(Len(data), Size - 1 - Len(Unread)) = n
    BY <1>0, <1>1 DEF Fifo!Least, Least
  <2> HIDE DEF n, u
  <2>5. write_ptr' = Forward(read_ptr, u + n)
    BY <1>0, <2>2, <2>3, ForwardTwice
  <2>6. pipe_unread' = u + n
    BY <1>0, <2>2, <2>3, <2>5 DEF pipe_unread, Forward, Cells
  <2>7. Window(buffer', read_ptr, u + n) = Extended(Window(buffer, read_ptr, u), data, n)
    <3>1. u \in Nat /\ buffer' \in [Cells -> Byte] /\ buffer \in [Cells -> Byte]
      BY <1>0
    <3>2. write_ptr = Forward(read_ptr, u) /\ read_ptr \in Cells
      BY <1>0 DEF u
    <3>3. \A j \in Cells :
            buffer'[j] = IF Steps(Forward(read_ptr, u), j) < n
                         THEN data[Steps(Forward(read_ptr, u), j) + 1] ELSE buffer[j]
      BY <2>3, <3>2
    <3>4. StoredBehind(buffer, buffer', read_ptr, u, data, n)
      BY <2>1, <2>2, <3>1, <3>2, <3>3 DEF StoredBehind
    <3> QED
      BY <3>4, WriteExtends
  <2>8. Unread' = Extended(Unread, data, n)
    BY <2>3, <2>6, <2>7 DEF Unread, u
  <2> QED
    BY <2>3, <2>4, <2>8 DEF Fifo!Put, Extended
<1>3. ASSUME NEW size \in Requests, pipe_read(size) PROVE Fifo!Take(size)
  <2> DEFINE n == Least(size, pipe_unread)
  <2>1. n \in 0..u /\ n \in Nat
    BY <1>0, PipeAssumption DEF Least
  <2>2. /\ read_ptr' = Forward(read_ptr, n)
        /\ buffer' = buffer /\ write_ptr' = write_ptr
        /\ returned' = [count |-> n, bytes |-> Window(buffer, read_ptr, n)]
    BY <1>3 DEF pipe_read
  <2>3. Fifo!Least(size, Len(Unread)) = n
    BY <1>1 DEF Fifo!Least, Least
  <2> HIDE DEF n, u
  <2>4. pipe_unread' = u - n
    BY <1>0, <2>1, <2>2 DEF pipe_unread, Forward, Cells
  <2>5. /\ Window(buffer, read_ptr, n) = SubSeq(Window(buffer, read_ptr, u), 1, n)
        /\ Window(buffer, Forward(read_ptr, n), u - n)
             = SubSeq(Window(buffer, read_ptr, u), n + 1, u)
    BY <1>0, <2>1, ReadSplits
  <2>6. Unread' = SubSeq(Unread, n + 1, Len(Unread))
    BY <1>1, <2>2, <2>4, <2>5 DEF Unread, u
  <2>7. returned' = [count |-> n, bytes |-> SubSeq(Unread, 1, n)]
    BY <2>2, <2>5 DEF Unread, u
  <2> QED
    BY <2>3, <2>6, <2>7 DEF Fifo!Take
<1>4. CASE Clear
  <2>1. pipe_unread' = 0
    BY <1>4 DEF Clear, pipe_unread
  <2>2. Unread' = <<>>
    BY <2>1 DEF Unread, Window
  <2> QED
    BY <1>4, <2>2 DEF Clear, Fifo!Next, Fifo!Discard
<1>5. CASE UNCHANGED vars
  BY <1>5 DEF vars, Unread, pipe_unread
<1> QED
  BY <1>2, <1>3, <1>4, <1>5 DEF Next, Fifo!Next

\* pipe_read and pipe_write implement a bounded FIFO, for every ring size:
\* readers get every counted byte, once and in order, across every wrap.
THEOREM SpecIsFifo == Spec => IsFifo
<1>1. Init => Fifo!Init
  <2> SUFFICES ASSUME Init
               PROVE  Fifo!Init
    OBVIOUS
  <2>1. pipe_unread = 0
    BY DEF Init, pipe_unread
  <2>2. Unread = <<>>
    BY <2>1 DEF Unread, Window
  <2> QED
    BY <2>2 DEF Init, Fifo!Init
<1> QED
  BY <1>1, InitTypeOK, NextTypeOK, StepRefines, PTL DEF Spec, IsFifo, Fifo!Spec
=============================================================================
