------------------------ MODULE AddressSpacesProofs ------------------------
(***************************************************************************)
(* Below the shared region memory is private, and the threads of a group   *)
(* have one heap, for any number of processes, pages, frames and sizes.    *)
(* The shared calls are why PrivateMemory is not inductive: copy_region    *)
(* carries frames from one space to another, so it must be known that no   *)
(* frame below the region is also in a region (Apart), that nothing below  *)
(* it was mapped without a frame (Positive), that frames are fresh         *)
(* (Bounded), and that the heaps end where the region begins (HeapEnds).   *)
(* What opened blocks show needs that blocks follow each other (Rising):   *)
(* the page too many that copy_region maps is behind all earlier ones.     *)
(***************************************************************************)
EXTENDS AddressSpaces, SequenceTheorems, TLAPS

Low == 1..Shm-1

Types ==
    /\ esp \in Nat /\ made \in Nat
    /\ group \in [Pid -> 0..made]
    /\ heap \in [Pid -> Nat]
    /\ space \in [Pid -> [Page -> Int]]

Bounded == \A p \in Pid : \A a \in Page : space[p][a] <= esp

Positive == \A p \in Pid : \A a \in Low : space[p][a] >= 0

HeapEnds == \A p \in Live : Heap + heap[p] <= Shm

Apart == \A p, q \in Live : \A a \in Low : \A b \in ShmPage :
             space[p][a] = space[q][b] => space[p][a] = 0

LowApart == \A p, q \in Live : \A a, b \in Low :
                space[p][a] # 0 /\ space[p][a] = space[q][b] =>
                    IF a \in Stack THEN p = q /\ a = b ELSE group[p] = group[q]

IInv == Types /\ Bounded /\ Positive /\ HeapEnds /\ Apart /\ LowApart /\ HeapsAgree

\* The pages of the model: those below the region, and the region's.
LEMMA Pages ==
    ASSUME Layout
    PROVE  /\ Low \subseteq Page /\ ShmPage \subseteq Page /\ Stack \subseteq Low
           /\ \A a \in Page : a \in Low \/ a \in ShmPage
           /\ \A a \in Low, b \in ShmPage : a < b
           /\ \A b \in ShmPage : b \notin Stack
  BY DEF Layout, Low, Page, ShmPage, Stack

\* What the types and Bounded say of one entry of a directory.
LEMMA Entry ==
    ASSUME Types, Bounded, NEW q \in Pid, NEW a \in Page
    PROVE  space[q][a] \in Int /\ space[q][a] <= esp /\ esp \in Nat
  BY DEF Types, Bounded

\* Nothing is mapped before the first process.
LEMMA InitIInv == Layout /\ Init => IInv
  BY DEF Layout, Init, IInv, Types, Bounded, Positive, HeapEnds, Apart, LowApart, HeapsAgree,
         Live, Page, Low

\* create_process: every frame is new, and so is the group.
LEMMA CreateIInv ==
    ASSUME Layout, IInv, NEW p \in Pid, create_process(p)
    PROVE  IInv'
  <1> USE DEF Live
  <1>1. Types /\ Bounded /\ Positive /\ HeapEnds /\ Apart /\ LowApart /\ HeapsAgree
    BY DEF IInv
  <1>2. /\ esp' = esp + ShmEnd /\ made' = made + 1 /\ group[p] = 0
        /\ \A q \in Pid : q # p => space'[q] = space[q] /\ group'[q] = group[q] /\ heap'[q] = heap[q]
        /\ group'[p] = made + 1 /\ heap'[p] = HeapPages
        /\ \A a \in Page : space'[p][a] = 0 \/ (space'[p][a] = esp + a /\ a < ShmEnd)
        /\ \A a \in Page : space'[p][a] \in Int
    BY <1>1 DEF create_process, Types, Fresh, Layout, Stack, Page
  <1>3. Types'
    BY <1>1, <1>2 DEF create_process, Types, Fresh, Layout, Page
  <1>4. Bounded'
    <2> SUFFICES ASSUME NEW q \in Pid, NEW a \in Page
                 PROVE  space'[q][a] <= esp'
      BY DEF Bounded
    <2>1. space[q][a] \in Int /\ space[q][a] <= esp /\ esp \in Nat
      BY <1>1, Entry
    <2>2. CASE q = p
      BY <1>2, <2>1, <2>2 DEF Page, Layout
    <2>3. CASE q # p
      BY <1>2, <2>1, <2>3 DEF Layout
    <2> QED BY <2>2, <2>3
  <1>5. Positive'
    <2> SUFFICES ASSUME NEW q \in Pid, NEW a \in Low
                 PROVE  space'[q][a] >= 0
      BY DEF Positive
    <2>1. a \in Page /\ esp \in Nat
      BY <1>1, Pages DEF Types
    <2>2. CASE q = p
      BY <1>2, <2>1, <2>2 DEF Page
    <2>3. CASE q # p
      BY <1>1, <1>2, <2>3 DEF Positive
    <2> QED BY <2>2, <2>3
  <1>6. HeapEnds'
    BY <1>1, <1>2 DEF HeapEnds, Layout
  <1>7. Apart'
    <2> SUFFICES ASSUME NEW q \in Live', NEW r \in Live', NEW a \in Low, NEW b \in ShmPage,
                        space'[q][a] = space'[r][b], space'[q][a] # 0
                 PROVE  FALSE
      BY DEF Apart
    <2>1. a \in Page /\ b \in Page /\ a < b
      BY Pages
    <2>2. CASE q = p /\ r = p
      BY <1>1, <1>2, <2>1, <2>2, SMTT(60) DEF Types, Page
    <2>0. /\ space[q][a] \in Int /\ space[q][a] <= esp
          /\ space[r][b] \in Int /\ space[r][b] <= esp /\ esp \in Nat
      BY <1>1, <2>1, Entry
    <2>3. CASE q = p /\ r # p
      <3>1. space'[p][a] = esp + a /\ space'[r][b] = space[r][b]
        BY <1>2, <2>1, <2>3
      <3> QED BY <2>0, <2>1, <2>3, <3>1 DEF Page
    <2>4. CASE q # p /\ r = p
      <3>1. space'[p][b] = esp + b /\ space'[q][a] = space[q][a]
        BY <1>2, <2>1, <2>4
      <3> QED BY <2>0, <2>1, <2>4, <3>1 DEF Page
    <2>5. CASE q # p /\ r # p
      BY <1>1, <1>2, <2>5 DEF Apart
    <2> QED BY <2>2, <2>3, <2>4, <2>5
  <1>8. LowApart'
    <2> SUFFICES ASSUME NEW q \in Live', NEW r \in Live', NEW a \in Low, NEW b \in Low,
                        space'[q][a] = space'[r][b], space'[q][a] # 0
                 PROVE  IF a \in Stack THEN q = r /\ a = b ELSE group'[q] = group'[r]
      BY DEF LowApart
    <2>1. a \in Page /\ b \in Page
      BY Pages
    <2>0. /\ space[q][a] \in Int /\ space[q][a] <= esp
          /\ space[r][b] \in Int /\ space[r][b] <= esp /\ esp \in Nat
      BY <1>1, <2>1, Entry
    <2>2. CASE q = p /\ r = p
      <3>1. space'[p][a] = esp + a /\ space'[p][b] = esp + b
        BY <1>2, <2>1, <2>2
      <3> QED BY <2>0, <2>1, <2>2, <3>1 DEF Page
    <2>3. CASE q = p /\ r # p
      <3>1. space'[p][a] = esp + a /\ space'[r][b] = space[r][b]
        BY <1>2, <2>1, <2>3
      <3> QED BY <2>0, <2>1, <2>3, <3>1 DEF Page
    <2>4. CASE q # p /\ r = p
      <3>1. space'[p][b] = esp + b /\ space'[q][a] = space[q][a]
        BY <1>2, <2>1, <2>4
      <3> QED BY <2>0, <2>1, <2>4, <3>1 DEF Page
    <2>5. CASE q # p /\ r # p
      BY <1>1, <1>2, <2>5 DEF LowApart
    <2> QED BY <2>2, <2>3, <2>4, <2>5
  <1>9. HeapsAgree'
    BY <1>1, <1>2 DEF HeapsAgree, Types
  <1> QED BY <1>3, <1>4, <1>5, <1>6, <1>7, <1>8, <1>9 DEF IInv

\* process_create_thread: below the region the thread has its creator's frames,
\* and new ones for the stack.
LEMMA ThreadIInv ==
    ASSUME Layout, IInv, NEW p \in Pid, NEW t \in Pid, process_create_thread(p, t)
    PROVE  IInv'
  <1> USE DEF Live
  <1>1. Types /\ Bounded /\ Positive /\ HeapEnds /\ Apart /\ LowApart /\ HeapsAgree
    BY DEF IInv
  <1>2. /\ esp' = esp + Heap /\ made' = made /\ group[p] # 0 /\ group[t] = 0 /\ p # t
        /\ \A q \in Pid : q # t => space'[q] = space[q] /\ group'[q] = group[q] /\ heap'[q] = heap[q]
        /\ group'[t] = group[p] /\ heap'[t] = heap[p]
        /\ \A a \in Page : space'[t][a] = IF a \in Stack THEN esp + a ELSE space[p][a]
    <2>1. \A a \in Stack : Fresh(1, a) = esp + a
      BY <1>1 DEF Fresh, Types, Stack, Layout
    <2> QED BY <1>1, <2>1 DEF process_create_thread, Types
  <1>0. esp \in Nat /\ Heap \in Nat /\ \A a \in Stack : a \in Nat /\ 0 < a /\ a < Heap
    BY <1>1 DEF Types, Layout, Stack
  <1>3. Types'
    <2>1. \A a \in Page : esp + 1 + a - 1 \in Int /\ space[p][a] \in Int
      BY <1>1 DEF Types, Page
    <2>2. esp' \in Nat /\ group[p] \in 0..made /\ heap[p] \in Nat
      BY <1>1, <1>2 DEF Types, Layout
    <2>3. [a \in Page |-> IF a \in Stack THEN Fresh(1, a) ELSE space[p][a]] \in [Page -> Int]
      BY <2>1 DEF Fresh
    <2> QED BY <1>1, <1>2, <2>2, <2>3 DEF process_create_thread, Types
  <1>4. Bounded'
    <2> SUFFICES ASSUME NEW q \in Pid, NEW a \in Page
                 PROVE  space'[q][a] <= esp'
      BY DEF Bounded
    <2>1. /\ space[q][a] \in Int /\ space[q][a] <= esp
          /\ space[p][a] \in Int /\ space[p][a] <= esp
      BY <1>1, Entry
    <2>2. CASE q = t
      BY <1>0, <1>2, <2>1, <2>2
    <2>3. CASE q # t
      BY <1>0, <1>2, <2>1, <2>3
    <2> QED BY <2>2, <2>3
  <1>5. Positive'
    <2> SUFFICES ASSUME NEW q \in Pid, NEW a \in Low
                 PROVE  space'[q][a] >= 0
      BY DEF Positive
    <2>1. a \in Page
      BY Pages
    <2>2. CASE q = t
      BY <1>0, <1>1, <1>2, <2>1, <2>2 DEF Positive
    <2>3. CASE q # t
      BY <1>1, <1>2, <2>3 DEF Positive
    <2> QED BY <2>2, <2>3
  <1>6. HeapEnds'
    BY <1>1, <1>2 DEF HeapEnds
  <1>7. Apart'
    <2> SUFFICES ASSUME NEW q \in Live', NEW r \in Live', NEW a \in Low, NEW b \in ShmPage,
                        space'[q][a] = space'[r][b], space'[q][a] # 0
                 PROVE  FALSE
      BY DEF Apart
    <2>1. a \in Page /\ b \in Page /\ b \notin Stack
      BY Pages
    <2> DEFINE s == IF r = t THEN p ELSE r
               o == IF q = t THEN p ELSE q
    <2>2. s \in Live /\ o \in Live /\ space'[r][b] = space[s][b]
      BY <1>2, <2>1
    <2>3. CASE q = t /\ a \in Stack
      <3>1. space'[q][a] = esp + a
        BY <1>2, <2>1, <2>3
      <3>2. space[s][b] \in Int /\ space[s][b] <= esp
        BY <1>1, <2>1, <2>2, Entry
      <3> QED BY <1>0, <2>2, <2>3, <3>1, <3>2
    <2>4. CASE ~(q = t /\ a \in Stack)
      <3>1. space'[q][a] = space[o][a]
        BY <1>2, <2>1, <2>4
      <3> QED BY <1>1, <2>2, <3>1 DEF Apart
    <2> QED BY <2>3, <2>4
  <1>8. LowApart'
    <2> SUFFICES ASSUME NEW q \in Live', NEW r \in Live', NEW a \in Low, NEW b \in Low,
                        space'[q][a] = space'[r][b], space'[q][a] # 0
                 PROVE  IF a \in Stack THEN q = r /\ a = b ELSE group'[q] = group'[r]
      BY DEF LowApart
    <2>1. a \in Page /\ b \in Page
      BY Pages
    <2> DEFINE s == IF r = t THEN p ELSE r
               o == IF q = t THEN p ELSE q
    <2>2. /\ s \in Live /\ o \in Live /\ group'[q] = group[o] /\ group'[r] = group[s]
          /\ space[s][b] \in Int /\ space[s][b] <= esp
          /\ space[o][a] \in Int /\ space[o][a] <= esp
      <3>1. s \in Live /\ o \in Live /\ group'[q] = group[o] /\ group'[r] = group[s]
        BY <1>2
      <3> QED BY <1>1, <2>1, <3>1, Entry
    <2>3. /\ space'[q][a] = IF q = t /\ a \in Stack THEN esp + a ELSE space[o][a]
          /\ space'[r][b] = IF r = t /\ b \in Stack THEN esp + b ELSE space[s][b]
      BY <1>2, <2>1
    <2>4. CASE q = t /\ a \in Stack
      <3>1. space'[q][a] = esp + a /\ a \in Nat /\ 0 < a
        BY <1>0, <2>3, <2>4
      <3>2. CASE r = t /\ b \in Stack
        <4>1. space'[r][b] = esp + b /\ b \in Nat
          BY <1>0, <2>3, <3>2
        <4>2. esp + a = esp + b
          BY <3>1, <4>1
        <4>3. a = b
          BY <1>0, <3>1, <4>1, <4>2
        <4> QED BY <2>4, <3>2, <4>3
      <3>3. CASE ~(r = t /\ b \in Stack)
        <4>1. esp + a = space[s][b]
          BY <2>3, <3>1, <3>3
        <4>2. esp + a > esp
          BY <1>0, <3>1
        <4> QED BY <1>0, <2>2, <3>1, <4>1, <4>2
      <3> QED BY <3>2, <3>3
    <2>5. CASE ~(q = t /\ a \in Stack) /\ r = t /\ b \in Stack
      <3>1. space'[q][a] = space[o][a] /\ space'[r][b] = esp + b /\ b \in Nat /\ 0 < b
        BY <1>0, <2>3, <2>5
      <3>2. esp + b = space[o][a]
        BY <3>1
      <3>3. esp + b > esp
        BY <1>0, <3>1
      <3> QED BY <1>0, <2>2, <3>2, <3>3
    <2>6. CASE ~(q = t /\ a \in Stack) /\ ~(r = t /\ b \in Stack)
      <3>1. space[o][a] # 0 /\ space[o][a] = space[s][b]
        BY <2>3, <2>6
      <3>2. IF a \in Stack THEN o = s /\ a = b ELSE group[o] = group[s]
        BY <1>1, <2>2, <3>1 DEF LowApart
      <3> QED BY <2>2, <2>6, <3>2
    <2> QED BY <2>4, <2>5, <2>6
  <1>9. HeapsAgree'
    <2> SUFFICES ASSUME NEW q \in Live', NEW r \in Live', group'[q] = group'[r]
                 PROVE  /\ heap'[q] = heap'[r]
                        /\ \A a \in Heap..Shm-1 : space'[q][a] = space'[r][a]
      BY DEF HeapsAgree
    <2>1. \A a \in Heap..Shm-1 : a \in Page /\ a \notin Stack
      BY DEF Layout, Page, Stack
    <2> DEFINE s == IF r = t THEN p ELSE r
               o == IF q = t THEN p ELSE q
    <2>2. /\ s \in Live /\ o \in Live /\ group[s] = group[o]
          /\ heap'[r] = heap[s] /\ heap'[q] = heap[o]
          /\ \A a \in Heap..Shm-1 : space'[r][a] = space[s][a] /\ space'[q][a] = space[o][a]
      BY <1>2, <2>1
    <2> QED BY <1>1, <2>2 DEF HeapsAgree
  <1> QED BY <1>3, <1>4, <1>5, <1>6, <1>7, <1>8, <1>9 DEF IInv

\* clean_process: there is less to say.
LEMMA CleanIInv ==
    ASSUME Layout, IInv, NEW p \in Pid, clean_process(p)
    PROVE  IInv'
  <1> USE DEF Live
  <1>1. Types /\ Bounded /\ Positive /\ HeapEnds /\ Apart /\ LowApart /\ HeapsAgree
    BY DEF IInv
  <1>2. /\ esp' = esp /\ esp \in Nat /\ group'[p] = 0
        /\ \A q \in Pid : q # p => space'[q] = space[q] /\ group'[q] = group[q] /\ heap'[q] = heap[q]
        /\ \A a \in Page : space'[p][a] = 0
    BY <1>1 DEF clean_process, Types, NoSpace
  <1>3. Types'
    BY <1>1 DEF clean_process, Types, NoSpace
  <1>4. Bounded'
    BY <1>1, <1>2 DEF Bounded
  <1>5. Positive'
    BY <1>1, <1>2, Pages DEF Positive
  <1>6. \A q \in Live' : q \in Live /\ q # p
    BY <1>2
  <1> QED BY <1>1, <1>2, <1>3, <1>4, <1>5, <1>6 DEF IInv, HeapEnds, Apart, LowApart, HeapsAgree

\* sys_sbrk: the new frame is above the stacks of the group, below its region.
LEMMA SbrkIInv ==
    ASSUME Layout, IInv, NEW p \in Pid, NEW n \in Brks, sys_sbrk(p, n)
    PROVE  IInv'
  <1> USE DEF Live
  <1> DEFINE New(q) == Heap+heap[q]..Heap+heap[q]+n-1
             Member(q) == group[q] = group[p]
  <1>1. Types /\ Bounded /\ Positive /\ HeapEnds /\ Apart /\ LowApart /\ HeapsAgree
    BY DEF IInv
  <1>2. /\ esp' = esp + 1 /\ made' = made /\ group' = group
        /\ \A q \in Pid : heap'[q] = IF Member(q) THEN heap[q] + n ELSE heap[q]
        /\ \A q \in Pid : \A a \in Page :
              space'[q][a] = IF Member(q) /\ a \in New(q) THEN esp + 1 ELSE space[q][a]
        /\ \A q \in Pid : Member(q) => q \in Live /\ Heap + heap[q] + n <= Shm
    BY DEF sys_sbrk
  <1>0. esp \in Nat /\ n \in Nat /\ Heap \in Nat /\ Shm \in Nat /\ \A q \in Pid : heap[q] \in Nat
    BY <1>1 DEF Types, Layout
  <1>9. \A q \in Pid : Member(q) => \A a \in New(q) : a >= Heap /\ a < Shm /\ a \notin Stack /\ a \notin ShmPage
    <2> SUFFICES ASSUME NEW q \in Pid, Member(q), NEW a \in New(q)
                 PROVE  a >= Heap /\ a < Shm /\ a \notin Stack /\ a \notin ShmPage
      OBVIOUS
    <2>1. heap[q] \in Nat /\ Heap + heap[q] + n <= Shm
      BY <1>0, <1>2
    <2>2. a \in Int /\ a >= Heap + heap[q] /\ a <= Heap + heap[q] + n - 1
      BY <1>0, <2>1
    <2>3. a >= Heap /\ a < Shm
      BY <1>0, <2>1, <2>2
    <2> QED BY <1>0, <2>2, <2>3 DEF Stack, ShmPage
  <1>3. Types'
    <2>1. esp + 1 \in Int /\ \A q \in Pid : heap[q] + n \in Nat
      BY <1>0
    <2>2. heap' \in [Pid -> Nat]
      BY <1>0, <2>1 DEF sys_sbrk
    <2>3. space' \in [Pid -> [Page -> Int]]
      BY <1>1, <2>1 DEF sys_sbrk, Types
    <2> QED BY <1>0, <1>1, <1>2, <2>2, <2>3 DEF Types
  <1>4. Bounded'
    <2> SUFFICES ASSUME NEW q \in Pid, NEW a \in Page
                 PROVE  space'[q][a] <= esp'
      BY DEF Bounded
    <2>1. space[q][a] \in Int /\ space[q][a] <= esp
      BY <1>1, Entry
    <2> QED BY <1>0, <1>2, <2>1
  <1>5. Positive'
    BY <1>0, <1>1, <1>2, Pages DEF Positive
  <1>6. HeapEnds'
    <2> SUFFICES ASSUME NEW q \in Live'
                 PROVE  Heap + heap'[q] <= Shm
      BY DEF HeapEnds
    <2>1. CASE Member(q)
      BY <1>0, <1>2, <2>1
    <2>2. CASE ~Member(q)
      BY <1>1, <1>2, <2>2 DEF HeapEnds
    <2> QED BY <2>1, <2>2
  <1>7. Apart'
    <2> SUFFICES ASSUME NEW q \in Live', NEW r \in Live', NEW a \in Low, NEW b \in ShmPage,
                        space'[q][a] = space'[r][b], space'[q][a] # 0
                 PROVE  FALSE
      BY DEF Apart
    <2>1. a \in Page /\ b \in Page /\ q \in Live /\ r \in Live
      BY <1>2, Pages
    <2>2. space'[r][b] = space[r][b]
      BY <1>2, <1>9, <2>1
    <2>3. space[r][b] \in Int /\ space[r][b] <= esp
      BY <1>1, <2>1, Entry
    <2>4. space'[q][a] = space[q][a]
      BY <1>0, <1>2, <2>1, <2>2, <2>3
    <2> QED BY <1>1, <2>1, <2>2, <2>4 DEF Apart
  <1>8. LowApart'
    <2> SUFFICES ASSUME NEW q \in Live', NEW r \in Live', NEW a \in Low, NEW b \in Low,
                        space'[q][a] = space'[r][b], space'[q][a] # 0
                 PROVE  IF a \in Stack THEN q = r /\ a = b ELSE group'[q] = group'[r]
      BY DEF LowApart
    <2>1. a \in Page /\ b \in Page /\ q \in Live /\ r \in Live /\ group' = group
      BY <1>2, Pages
    <2>2. /\ space[q][a] \in Int /\ space[q][a] <= esp
          /\ space[r][b] \in Int /\ space[r][b] <= esp
      BY <1>1, <2>1, Entry
    <2>3. CASE Member(q) /\ a \in New(q)
      <3>1. space'[q][a] = esp + 1 /\ a \notin Stack
        BY <1>2, <1>9, <2>1, <2>3
      <3>2. CASE ~Member(r)
        <4>1. space'[r][b] = space[r][b]
          BY <1>2, <2>1, <3>2
        <4>2. space[r][b] = esp + 1
          BY <3>1, <4>1
        <4> QED BY <1>0, <2>2, <4>2
      <3> QED BY <2>1, <2>3, <3>1, <3>2
    <2>4. CASE ~(Member(q) /\ a \in New(q))
      <3>1. space'[q][a] = space[q][a]
        BY <1>2, <2>1, <2>4
      <3>2. space'[r][b] = space[r][b] \/ space'[r][b] = esp + 1
        BY <1>2, <2>1
      <3>3. esp + 1 # space[q][a]
        BY <1>0, <2>2
      <3>4. space'[r][b] = space[r][b]
        BY <3>1, <3>2, <3>3
      <3>5. space[q][a] # 0 /\ space[q][a] = space[r][b]
        BY <3>1, <3>4
      <3>6. IF a \in Stack THEN q = r /\ a = b ELSE group[q] = group[r]
        BY <1>1, <2>1, <3>5 DEF LowApart
      <3> QED BY <2>1, <3>6
    <2> QED BY <2>3, <2>4
  <1>10. HeapsAgree'
    <2> SUFFICES ASSUME NEW q \in Live', NEW r \in Live', group'[q] = group'[r]
                 PROVE  /\ heap'[q] = heap'[r]
                        /\ \A a \in Heap..Shm-1 : space'[q][a] = space'[r][a]
      BY DEF HeapsAgree
    <2>1. /\ q \in Live /\ r \in Live /\ group[q] = group[r]
          /\ \A a \in Heap..Shm-1 : a \in Page
      BY <1>2 DEF Layout, Page
    <2>2. heap[q] = heap[r] /\ \A a \in Heap..Shm-1 : space[q][a] = space[r][a]
      BY <1>1, <2>1 DEF HeapsAgree
    <2> QED BY <1>2, <2>1, <2>2
  <1> QED BY <1>3, <1>4, <1>5, <1>6, <1>7, <1>8, <1>10 DEF IInv

\* sys_shmem_open: what it maps into p's region comes from the region of t, or
\* is no frame at all.
LEMMA OpenIInv ==
    ASSUME Layout, IInv, NEW p \in Pid, NEW t \in Pid, NEW id \in 1..Len(blocks[t]),
           sys_shmem_open(p, t, id)
    PROVE  IInv'
  <1> USE DEF Live
  <1>1. Types /\ Bounded /\ Positive /\ HeapEnds /\ Apart /\ LowApart /\ HeapsAgree
    BY DEF IInv
  <1>2. /\ esp' = esp /\ group' = group /\ made' = made /\ heap' = heap /\ p \in Live /\ t \in Live
        /\ \E from, n, to : space' = [space EXCEPT ![p] = copy_region(p, t, from, n, to)]
    BY DEF sys_shmem_open
  <1>3. PICK from, n, to : space' = [space EXCEPT ![p] = copy_region(p, t, from, n, to)]
    BY <1>2
  <1>4. /\ \A q \in Pid : q # p => space'[q] = space[q]
        /\ \A a \in Low : space'[p][a] = space[p][a]
        /\ \A a \in ShmPage : \/ space'[p][a] = space[p][a]
                              \/ \E c \in ShmPage : space'[p][a] = Mapped(space[t][c], a)
    <2>1. space'[p] = copy_region(p, t, from, n, to) /\ \A q \in Pid : q # p => space'[q] = space[q]
      BY <1>1, <1>3 DEF Types
    <2>2. \A a \in Low : a \in Page /\ a \notin ShmPage
      BY Pages DEF Low, ShmPage, Layout
    <2>3. Region(from, n) \subseteq ShmPage /\ ShmPage \subseteq Page
      BY Pages DEF Region
    <2> QED BY <2>1, <2>2, <2>3 DEF copy_region
  <1>5. \A f \in Int, a \in Page : Mapped(f, a) \in Int /\ (Mapped(f, a) = f \/ (f = 0 /\ Mapped(f, a) < 0))
    BY DEF Mapped, Page
  <1>6. Types'
    <2>1. \A a \in Page : space'[p][a] \in Int
      <3>1. \A q \in Pid : \A a \in Page : space[q][a] \in Int
        BY <1>1 DEF Types
      <3>2. \A c \in ShmPage, a \in Page : Mapped(space[t][c], a) \in Int
        BY <1>5, <3>1, Pages
      <3>3. \A a \in ShmPage : space'[p][a] \in Int
        BY <1>4, <3>1, <3>2, Pages
      <3> QED BY <1>4, <3>1, <3>3, Pages
    <2>2. space'[p] = copy_region(p, t, from, n, to)
      BY <1>1, <1>3 DEF Types
    <2>3. copy_region(p, t, from, n, to) \in [Page -> Int]
      BY <2>1, <2>2 DEF copy_region
    <2>4. space' \in [Pid -> [Page -> Int]]
      BY <1>1, <1>3, <2>3 DEF Types
    <2> QED BY <1>1, <1>2, <2>4 DEF Types
  <1>7. Bounded'
    <2> SUFFICES ASSUME NEW q \in Pid, NEW a \in Page
                 PROVE  space'[q][a] <= esp'
      BY DEF Bounded
    <2>1. space[q][a] \in Int /\ space[q][a] <= esp /\ esp \in Nat
      BY <1>1, Entry
    <2>2. \A c \in ShmPage : space[t][c] \in Int /\ space[t][c] <= esp
      BY <1>1, Entry, Pages
    <2>3. CASE q = p /\ a \in ShmPage
      <3>1. CASE space'[p][a] = space[p][a]
        BY <1>2, <2>1, <2>3, <3>1
      <3>2. CASE \E c \in ShmPage : space'[p][a] = Mapped(space[t][c], a)
        <4>1. PICK c \in ShmPage : space'[p][a] = Mapped(space[t][c], a)
          BY <3>2
        <4>2. Mapped(space[t][c], a) \in Int /\ Mapped(space[t][c], a) <= esp
          BY <1>5, <2>1, <2>2, SMTT(30)
        <4> QED BY <1>2, <2>3, <4>1, <4>2
      <3> QED BY <1>4, <2>3, <3>1, <3>2
    <2>4. CASE ~(q = p /\ a \in ShmPage)
      BY <1>2, <1>4, <2>1, <2>4, Pages
    <2> QED BY <2>3, <2>4
  <1>8. Positive'
    BY <1>1, <1>4 DEF Positive
  <1>9. Apart'
    <2> SUFFICES ASSUME NEW q \in Live', NEW r \in Live', NEW a \in Low, NEW b \in ShmPage,
                        space'[q][a] = space'[r][b], space'[q][a] # 0
                 PROVE  FALSE
      BY DEF Apart
    <2>1. q \in Live /\ r \in Live /\ space'[q][a] = space[q][a] /\ a \in Page /\ b \in Page
      BY <1>2, <1>4, Pages
    <2>2. CASE space'[r][b] = space[r][b]
      BY <1>1, <2>1, <2>2, ZenonT(60) DEF Apart
    <2>3. CASE r = p /\ \E c \in ShmPage : space'[p][b] = Mapped(space[t][c], b)
      <3>1. PICK c \in ShmPage : space'[p][b] = Mapped(space[t][c], b)
        BY <2>3
      <3>2. space[t][c] \in Int /\ space[q][a] \in Int /\ space[q][a] >= 0
        BY <1>1, <2>1, Entry, Pages DEF Positive
      <3>3. space[q][a] = Mapped(space[t][c], b)
        BY <2>1, <2>3, <3>1
      <3>4. Mapped(space[t][c], b) = space[t][c]
        BY <1>5, <2>1, <3>2, <3>3
      <3> QED BY <1>1, <1>2, <2>1, <3>3, <3>4 DEF Apart
    <2> QED BY <1>4, <2>1, <2>2, <2>3
  <1>10. \A q \in Pid : \A a \in Low : space'[q][a] = space[q][a]
    BY <1>4
  <1>11. LowApart'
    BY <1>1, <1>2, <1>10 DEF LowApart
  <1>12. HeapsAgree'
    <2>1. \A a \in Heap..Shm-1 : a \in Low
      BY DEF Low, Layout
    <2> QED BY <1>1, <1>2, <1>10, <2>1 DEF HeapsAgree
  <1> QED BY <1>1, <1>2, <1>6, <1>7, <1>8, <1>9, <1>11, <1>12 DEF IInv, HeapEnds

\* Every action, and the stutter, preserves the invariant.
LEMMA NextIInv == Layout /\ IInv /\ [Next]_vars => IInv'
  <1> SUFFICES ASSUME Layout, IInv, [Next]_vars
               PROVE  IInv'
    OBVIOUS
  <1>1. ASSUME UNCHANGED <<esp, group, made, heap, space>>
        PROVE  IInv'
    BY <1>1 DEF IInv, Types, Bounded, Positive, HeapEnds, Apart, LowApart, HeapsAgree, Live
  <1>2. ASSUME NEW p \in Pid, create_process(p) PROVE IInv'
    BY <1>2, CreateIInv
  <1>3. ASSUME NEW p \in Pid, NEW t \in Pid, process_create_thread(p, t) PROVE IInv'
    BY <1>3, ThreadIInv
  <1>4. ASSUME NEW p \in Pid, clean_process(p) PROVE IInv'
    BY <1>4, CleanIInv
  <1>5. ASSUME NEW p \in Pid, NEW n \in Brks, sys_sbrk(p, n) PROVE IInv'
    BY <1>5, SbrkIInv
  <1>6. ASSUME NEW p \in Pid, NEW n \in Sizes, sys_shmem_create(p, n) PROVE IInv'
    BY <1>1, <1>6 DEF sys_shmem_create
  <1>7. ASSUME NEW p \in Pid, NEW t \in Pid, NEW id \in 1..Len(blocks[t]), sys_shmem_open(p, t, id)
        PROVE  IInv'
    BY <1>7, OpenIInv
  <1>8. ASSUME NEW p \in Pid, sys_shmem_reset(p) PROVE IInv'
    BY <1>1, <1>8 DEF sys_shmem_reset
  <1>9. CASE UNCHANGED vars
    BY <1>1, <1>9 DEF vars
  <1> QED BY <1>2, <1>3, <1>4, <1>5, <1>6, <1>7, <1>8, <1>9 DEF Next

\* A frame below the region is found neither in a region (Apart) nor below it in
\* another group (LowApart).
LEMMA IInvPrivate == ASSUME Layout, IInv PROVE PrivateMemory
  <1> SUFFICES ASSUME NEW p \in Live, NEW q \in Live, NEW a \in 1..Shm-1, NEW b \in Page,
                      p # q, space[p][a] # 0, space[p][a] = space[q][b]
               PROVE  group[p] = group[q] /\ a \notin Stack
    BY DEF PrivateMemory
  <1>1. a \in Low /\ (b \in Low \/ b \in ShmPage)
    BY Pages DEF Low
  <1>2. CASE b \in ShmPage
    BY <1>1, <1>2 DEF IInv, Apart
  <1>3. CASE b \in Low
    <2>1. IF a \in Stack THEN p = q /\ a = b ELSE group[p] = group[q]
      BY <1>1, <1>3 DEF IInv, LowApart
    <2> QED BY <2>1
  <1> QED BY <1>1, <1>2, <1>3

\* No process finds in its space a frame of the stack or the heap of another,
\* but for the heap of its own group, whatever create_process, sys_sbrk,
\* process_open_shmem and clean_process are called, in any order.
THEOREM SpecPrivateMemory == Spec => []PrivateMemory
  <1>1. Init => IInv
    BY Layout, InitIInv
  <1>2. IInv /\ [Next]_vars => IInv'
    BY Layout, NextIInv
  <1>3. IInv => PrivateMemory
    BY Layout, IInvPrivate
  <1> QED BY <1>1, <1>2, <1>3, PTL DEF Spec

\* The members of a thread group always have one heap: sys_sbrk of one of them
\* and process_create_thread keep their page directories the same there.
THEOREM SpecHeapsAgree == Spec => []HeapsAgree
  <1>1. Init => IInv
    BY Layout, InitIInv
  <1>2. IInv /\ [Next]_vars => IInv'
    BY Layout, NextIInv
  <1>3. IInv => HeapsAgree
    BY DEF IInv
  <1> QED BY <1>1, <1>2, <1>3, PTL DEF Spec

-----------------------------------------------------------------------------
(* The shared blocks.                                                      *)

BlockRec == [offset : Nat, size : Nat, shows : SUBSET (Page \X Int)]

BlockTypes ==
    /\ blocks \in [Pid -> Seq(BlockRec)]
    /\ bytes \in [Pid -> Nat]
    /\ calls \in Nat

EndOf(b) == b.offset + b.size

\* No block ends above a later one.
Rising(s) == \A i, j \in DOMAIN s : i <= j => EndOf(s[i]) <= EndOf(s[j])

\* Page a of the region begins below the end of block b.
Below(b, a) == a \in ShmPage /\ (a - Shm) * Unit < EndOf(b)

Showing(p) ==
    \A i \in DOMAIN blocks[p] : \A m \in blocks[p][i].shows :
        Below(blocks[p][i], m[1]) /\ (m[2] # 0 => space[p][m[1]] = m[2])

\* Later blocks lie behind earlier ones, so that what they map leaves the
\* earlier ones alone.
BlocksIInv ==
    /\ BlockTypes
    /\ \A p \in Live : Contiguous(p) => Rising(blocks[p]) /\ Showing(p)

\* Multiplication by the units of a page keeps an order.
LEMMA TimesUnit ==
    ASSUME Layout, NEW a \in Int, NEW b \in Int, a <= b
    PROVE  a * Unit <= b * Unit
  <1>1. Unit \in Nat
    BY DEF Layout
  <1>2. b = a + (b - a) /\ b - a \in Nat
    OBVIOUS
  <1>3. ASSUME NEW d \in Nat PROVE d * Unit >= 0 /\ (a + d) * Unit = a * Unit + d * Unit
    BY <1>1
  <1> QED BY <1>1, <1>2, <1>3

\* The page that an offset lies in.
LEMMA FirstIs ==
    ASSUME Layout, NEW x \in Nat
    PROVE  /\ First(x) - Shm \in Nat /\ First(x) \in Int
           /\ (First(x) - Shm) * Unit <= x
           /\ x % Unit = 0 => (First(x) - Shm) * Unit = x
  <1>1. Unit \in Nat \ {0} /\ Shm \in Nat
    BY DEF Layout
  <1>2. x \div Unit \in Nat
    BY <1>1
  <1>3. (x \div Unit) * Unit <= x
    BY <1>1
  <1>4. x % Unit = 0 => (x \div Unit) * Unit = x
    BY <1>1
  <1>5. First(x) - Shm = x \div Unit /\ First(x) \in Int
    BY <1>1, <1>2 DEF First
  <1> QED BY <1>2, <1>3, <1>4, <1>5

\* copy_region to an offset on a page boundary changes no page below it.
LEMMA CopiesBehind ==
    ASSUME Layout, NEW from \in Nat, NEW n \in Nat, NEW to \in Nat, to % Unit = 0,
           NEW a \in ShmPage, a - First(to) + First(from) \in Region(from, n)
    PROVE  to <= (a - Shm) * Unit
  <1> DEFINE i == a - First(to) + First(from)
             f == First(from) - Shm
             x == i - Shm
  <1>1. /\ f \in Nat /\ f * Unit <= from /\ First(from) \in Int
        /\ First(to) \in Int /\ (First(to) - Shm) * Unit = to
    BY FirstIs
  <1>2. a \in Int /\ Shm \in Nat /\ Unit \in Nat
    BY DEF ShmPage, Layout
  <1>3. x \in Int /\ (x + 1) * Unit > from
    BY <1>1, <1>2 DEF Region
  <1>4. f <= x
    <2> SUFFICES ASSUME x + 1 <= f PROVE FALSE
      BY <1>1, <1>3
    <2>1. (x + 1) * Unit <= f * Unit
      BY <1>1, <1>3, TimesUnit
    <2>2. (x + 1) * Unit \in Int /\ f * Unit \in Int
      BY <1>1, <1>2, <1>3
    <2> HIDE DEF x, f
    <2> QED BY <1>1, <1>3, <2>1, <2>2
  <1>5. First(to) - Shm <= a - Shm
    BY <1>1, <1>2, <1>4
  <1>6. (First(to) - Shm) * Unit <= (a - Shm) * Unit
    BY <1>1, <1>2, <1>5, TimesUnit
  <1> QED BY <1>1, <1>6

\* A page that a block of size n at `to` shows is copied and lies in the block.
ShownAt(t, from, n, to, m) ==
    /\ m[1] \in ShmPage /\ (m[1] - Shm) * Unit < to + n
    /\ m[1] - First(to) + First(from) \in Region(from, n)
    /\ m[2] = space[t][m[1] - First(to) + First(from)]

\* The pages that a block is to show lie in it.
LEMMA ShownBelow ==
    ASSUME Layout, NEW t, NEW from \in Nat, NEW n \in Nat, NEW to \in Nat, to % Unit = 0,
           NEW m \in Shown(t, from, n, to)
    PROVE  ShownAt(t, from, n, to, m)
  <1>1. /\ from % Unit = 0 /\ m[1] \in ShmPage
        /\ m[1] - First(to) + First(from) \in Region(from, n - 1)
        /\ m[2] = space[t][m[1] - First(to) + First(from)]
    BY DEF Shown
  <1> DEFINE a == m[1]
             f == First(from) - Shm
             g == First(to) - Shm
  <1>2. a \in Int /\ Shm \in Nat /\ Unit \in Nat
    BY <1>1 DEF ShmPage, Layout
  <1>3. f \in Nat /\ g \in Nat /\ f * Unit = from /\ g * Unit = to
        /\ First(from) \in Int /\ First(to) \in Int
    BY <1>1, FirstIs
  <1>4. (a - Shm - g + f) * Unit <= from + n - 1
    <2> DEFINE i == a - First(to) + First(from)
    <2>1. i - Shm = a - Shm - g + f
      BY <1>2, <1>3
    <2>2. i \in Region(from, n - 1)
      BY <1>1
    <2> HIDE DEF i
    <2>3. (i - Shm) * Unit <= from + (n - 1)
      BY <2>2 DEF Region
    <2>4. from + (n - 1) = from + n - 1
      OBVIOUS
    <2> HIDE DEF a, f, g
    <2> QED BY <2>1, <2>3, <2>4
  <1>5. (a - Shm - g + f) * Unit = (a - Shm) * Unit - g * Unit + f * Unit
    BY <1>2, <1>3
  <1>6. (a - Shm) * Unit \in Int
    BY <1>2
  <1>7. (a - Shm) * Unit < to + n
    <2> HIDE DEF a, f, g
    <2> QED BY <1>3, <1>4, <1>5, <1>6
  <1>8. a - First(to) + First(from) \in Region(from, n)
    <2>1. \A i \in ShmPage : (i - Shm) * Unit \in Int
      BY <1>2 DEF ShmPage
    <2> QED BY <1>1, <2>1 DEF Region
  <1> QED BY <1>1, <1>7, <1>8 DEF ShownAt

\* A process with the blocks of r, and r's region, shows what r does.
LEMMA KeepsShowing ==
    ASSUME BlocksIInv, NEW q \in Pid, NEW r \in Live, blocks'[q] = blocks[r],
           \A a \in ShmPage : space'[q][a] = space[r][a]
    PROVE  Contiguous(q)' => Rising(blocks'[q]) /\ Showing(q)'
  <1> SUFFICES ASSUME Contiguous(q)' PROVE Rising(blocks'[q]) /\ Showing(q)'
    OBVIOUS
  <1>1. Contiguous(r)
    BY DEF Contiguous
  <1>2. Rising(blocks[r]) /\ Showing(r)
    BY <1>1 DEF BlocksIInv
  <1>3. Showing(q)'
    BY <1>2 DEF Showing, Below
  <1> QED BY <1>2, <1>3

\* A block is added behind the others, and what is mapped for it lies behind them.
LEMMA AddsBlock ==
    ASSUME Layout, BlocksIInv, NEW p \in Live, NEW b \in BlockRec,
           blocks'[p] = Append(blocks[p], b),
           b.offset % Unit = 0 =>
              /\ \A a \in ShmPage : (a - Shm) * Unit < b.offset => space'[p][a] = space[p][a]
              /\ \A m \in b.shows : Below(b, m[1]) /\ (m[2] # 0 => space'[p][m[1]] = m[2])
    PROVE  Contiguous(p)' => Rising(blocks'[p]) /\ Showing(p)'
  <1> SUFFICES ASSUME Contiguous(p)' PROVE Rising(blocks'[p]) /\ Showing(p)'
    OBVIOUS
  <1> DEFINE s == blocks[p]
             n == Len(s)
             r == blocks'[p]
  <1>1. s \in Seq(BlockRec) /\ n \in Nat /\ DOMAIN s = 1..n
    <2>1. s \in Seq(BlockRec)
      BY DEF BlocksIInv, BlockTypes, Live
    <2> HIDE DEF s
    <2> QED BY <2>1
  <1>2. /\ r \in Seq(BlockRec) /\ DOMAIN r = 1..n+1 /\ r[n+1] = b
        /\ \A i \in 1..n : r[i] = s[i] /\ i \in 1..n+1
    <2>1. r = Append(s, b)
      OBVIOUS
    <2> HIDE DEF s, r
    <2>2. /\ r \in Seq(BlockRec) /\ Len(r) = n + 1
          /\ \A i \in 1..n : r[i] = s[i]
          /\ r[n+1] = b
      BY <1>1, <2>1, AppendProperties
    <2> QED BY <1>1, <2>2
  <1>3. \A i \in 1..n+1 : /\ r[i].offset % Unit = 0
                         /\ r[i].offset = IF i = 1 THEN 0 ELSE r[i-1].offset + r[i-1].size
    BY <1>2 DEF Contiguous
  <1> HIDE DEF n
  <1>4. Contiguous(p)
    <2>1. ASSUME NEW i \in 1..n
          PROVE  /\ s[i].offset % Unit = 0
                 /\ s[i].offset = IF i = 1 THEN 0 ELSE s[i-1].offset + s[i-1].size
      <3>1. r[i] = s[i] /\ i \in 1..n+1
        BY <1>2
      <3>2. i # 1 => r[i-1] = s[i-1]
        <4> DEFINE j == i - 1
        <4>1. i # 1 => j \in 1..n
          BY <1>1
        <4> HIDE DEF j
        <4>2. i # 1 => r[j] = s[j]
          BY <1>2, <4>1
        <4> QED BY <4>2 DEF j
      <3> HIDE DEF r, s
      <3> QED BY <1>3, <3>1, <3>2
    <2> QED BY <1>1, <2>1 DEF Contiguous
  <1>5. Rising(s) /\ Showing(p)
    BY <1>4 DEF BlocksIInv
  <1>6. b.offset % Unit = 0 /\ b.offset \in Nat /\ b.size \in Nat /\ n + 1 \in 1..n+1
    <2>1. n + 1 \in 1..n+1
      BY <1>1
    <2> QED BY <1>2, <1>3, <2>1 DEF BlockRec
  <1>7. ASSUME NEW i \in 1..n
        PROVE  EndOf(s[i]) <= b.offset /\ EndOf(s[i]) \in Nat
    <2>1. n \in 1..n /\ n + 1 # 1 /\ n + 1 - 1 = n /\ i <= n
      BY <1>1
    <2>2. b.offset = EndOf(s[n])
      <3> DEFINE j == n + 1
      <3>1. j \in 1..n+1 /\ j # 1 /\ j - 1 = n /\ r[j] = b
        BY <1>2, <1>6, <2>1
      <3> HIDE DEF j, r, s
      <3>2. r[j].offset = r[j-1].offset + r[j-1].size
        BY <1>3, <3>1
      <3>3. r[j-1] = s[n]
        BY <1>2, <2>1, <3>1
      <3> QED BY <3>1, <3>2, <3>3 DEF EndOf
    <2>3. EndOf(s[i]) <= EndOf(s[n])
      BY <1>1, <1>5, <2>1 DEF Rising
    <2>4. s[i] \in BlockRec
      BY <1>1
    <2>5. EndOf(s[i]) \in Nat
      BY <2>4 DEF EndOf, BlockRec
    <2> QED BY <2>2, <2>3, <2>5
  <1>8. EndOf(b) \in Nat /\ b.offset <= EndOf(b)
    BY <1>6 DEF EndOf
  <1>9. Rising(r)
    <2> SUFFICES ASSUME NEW i \in 1..n+1, NEW j \in 1..n+1, i <= j
                 PROVE  EndOf(r[i]) <= EndOf(r[j])
      BY <1>2 DEF Rising
    <2>1. CASE j \in 1..n
      <3>1. i \in 1..n
        BY <1>1, <2>1
      <3> QED BY <1>1, <1>2, <1>5, <2>1, <3>1 DEF Rising
    <2>2. CASE i \in 1..n /\ j = n + 1
      <3>1. EndOf(s[i]) <= b.offset /\ EndOf(s[i]) \in Nat
        BY <1>7, <2>2
      <3>2. r[i] = s[i] /\ r[j] = b
        BY <1>2, <2>2
      <3> HIDE DEF r, s
      <3> QED BY <1>6, <1>8, <3>1, <3>2
    <2>3. CASE i = n + 1 /\ j = n + 1
      BY <1>2, <1>8, <2>3
    <2> QED BY <1>1, <2>1, <2>2, <2>3
  <1>10. Showing(p)'
    <2> SUFFICES ASSUME NEW i \in 1..n+1, NEW m \in r[i].shows
                 PROVE  Below(r[i], m[1]) /\ (m[2] # 0 => space'[p][m[1]] = m[2])
      BY <1>2 DEF Showing, Below
    <2>1. CASE i = n + 1
      BY <1>2, <1>6, <2>1
    <2>2. CASE i \in 1..n
      <3>1. Below(s[i], m[1]) /\ (m[2] # 0 => space[p][m[1]] = m[2])
        BY <1>1, <1>2, <1>5, <2>2 DEF Showing
      <3>2. m[1] \in ShmPage /\ (m[1] - Shm) * Unit < b.offset
        <4>1. (m[1] - Shm) * Unit \in Int /\ m[1] \in ShmPage /\ (m[1] - Shm) * Unit < EndOf(s[i])
          BY <3>1 DEF Below, ShmPage, Layout
        <4> QED BY <1>6, <1>7, <2>2, <4>1
      <3>3. space'[p][m[1]] = space[p][m[1]]
        BY <1>6, <3>2
      <3> QED BY <1>2, <2>2, <3>1, <3>3
    <2> QED BY <1>1, <2>1, <2>2
  <1> QED BY <1>9, <1>10

\* The types of the blocks are kept.
LEMMA NextBlockTypes ==
    ASSUME Layout, IInv, BlockTypes, Next
    PROVE  BlockTypes'
  <1>1. /\ blocks \in [Pid -> Seq(BlockRec)] /\ bytes \in [Pid -> Nat] /\ calls \in Nat
        /\ space \in [Pid -> [Page -> Int]]
        /\ \A n \in Sizes : n \in Nat
    BY DEF BlockTypes, IInv, Types, Layout
  <1>2. ASSUME NEW p \in Pid, create_process(p) \/ clean_process(p)
        PROVE  BlockTypes'
    <2>1. <<>> \in Seq(BlockRec)
      OBVIOUS
    <2>2. CASE create_process(p)
      BY <1>1, <2>1, <2>2 DEF create_process, BlockTypes
    <2>3. CASE clean_process(p)
      BY <1>1, <2>1, <2>3 DEF clean_process, BlockTypes
    <2> QED BY <1>2, <2>2, <2>3
  <1>3. ASSUME NEW p \in Pid, NEW t \in Pid, process_create_thread(p, t)
        PROVE  BlockTypes'
    BY <1>1, <1>3 DEF process_create_thread, BlockTypes
  <1>4. ASSUME NEW p \in Pid, NEW n \in Brks, sys_sbrk(p, n)
        PROVE  BlockTypes'
    BY <1>1, <1>4 DEF sys_sbrk, BlockTypes
  <1>5. ASSUME NEW p \in Pid, NEW n \in Nat, NEW shows \in SUBSET (Page \X Int),
               Counted, process_create_shared(p, n, shows)
        PROVE  BlockTypes'
    <2> DEFINE b == [offset |-> bytes[p], size |-> n, shows |-> shows]
    <2>1. b \in BlockRec
      BY <1>1 DEF BlockRec
    <2> HIDE DEF b
    <2>2. Append(blocks[p], b) \in Seq(BlockRec) /\ bytes[p] + n \in Nat
      BY <1>1, <2>1
    <2>3. blocks' = [blocks EXCEPT ![p] = Append(blocks[p], b)] /\ bytes' = [bytes EXCEPT ![p] = bytes[p] + n]
      BY <1>5 DEF process_create_shared, b
    <2> QED BY <1>1, <1>5, <2>2, <2>3 DEF BlockTypes, Counted
  <1>6. ASSUME NEW p \in Pid, NEW n \in Sizes, sys_shmem_create(p, n)
        PROVE  BlockTypes'
    BY <1>1, <1>5, <1>6 DEF sys_shmem_create
  <1>7. ASSUME NEW p \in Pid, NEW t \in Pid, NEW id \in 1..Len(blocks[t]), sys_shmem_open(p, t, id)
        PROVE  BlockTypes'
    <2> DEFINE b == blocks[t][id]
               shows == Shown(t, b.offset, b.size, bytes[p])
    <2>0. b \in BlockRec
      BY <1>1
    <2>1. b.size \in Nat
      BY <2>0 DEF BlockRec
    <2>2. shows \subseteq Page \X Int
      <3>1. \A a \in ShmPage : a \in Page
        BY Pages
      <3>2. \A i \in Page : space[t][i] \in Int
        BY <1>1
      <3>3. \A from, n : Region(from, n) \subseteq Page
        BY <3>1 DEF Region
      <3> HIDE DEF b
      <3> QED BY <3>1, <3>2, <3>3 DEF Shown
    <2>3. Counted /\ process_create_shared(p, b.size, shows)
      BY <1>7 DEF sys_shmem_open
    <2> HIDE DEF b, shows
    <2> QED BY <1>5, <2>1, <2>2, <2>3
  <1>8. ASSUME NEW p \in Pid, sys_shmem_reset(p)
        PROVE  BlockTypes'
    <2>1. <<>> \in Seq(BlockRec)
      OBVIOUS
    <2> QED BY <1>1, <1>8, <2>1 DEF sys_shmem_reset, Counted, BlockTypes
  <1> QED BY <1>2, <1>3, <1>4, <1>6, <1>7, <1>8 DEF Next

\* Opening a block maps the frames of its owner behind the other blocks.
LEMMA OpenShows ==
    ASSUME Layout, IInv, BlocksIInv, BlockTypes', NEW p \in Pid, NEW t \in Pid,
           NEW id \in 1..Len(blocks[t]), sys_shmem_open(p, t, id)
    PROVE  Contiguous(p)' => Rising(blocks'[p]) /\ Showing(p)'
  <1> DEFINE o == blocks[t][id]
             from == o.offset
             n == o.size
             to == bytes[p]
             shows == Shown(t, from, n, to)
             b == [offset |-> to, size |-> n, shows |-> shows]
  <1>1. /\ p \in Live /\ from \in Nat /\ n \in Nat /\ to \in Nat
        /\ blocks'[p] = Append(blocks[p], b)
        /\ \A a \in Page : space'[p][a] = copy_region(p, t, from, n, to)[a]
    <2>1. o \in BlockRec
      BY DEF BlocksIInv, BlockTypes
    <2>2. from \in Nat /\ n \in Nat /\ to \in Nat
      BY <2>1 DEF BlocksIInv, BlockTypes, BlockRec
    <2>3. blocks'[p] = Append(blocks[p], b)
      BY DEF sys_shmem_open, process_create_shared, BlocksIInv, BlockTypes
    <2>4. \A a \in Page : space'[p][a] = copy_region(p, t, from, n, to)[a]
      BY DEF sys_shmem_open, IInv, Types
    <2> QED BY <2>2, <2>3, <2>4 DEF sys_shmem_open
  <1>2. shows \subseteq Page \X Int
    <2>1. \A a \in ShmPage : a \in Page
      BY Pages
    <2>2. \A i \in Page : space[t][i] \in Int
      BY DEF IInv, Types
    <2>3. \A x, y : Region(x, y) \subseteq Page
      BY <2>1 DEF Region
    <2> HIDE DEF from, n, to
    <2> QED BY <2>1, <2>2, <2>3 DEF Shown
  <1> HIDE DEF from, n, to, shows
  <1>3. b \in BlockRec /\ b.offset = to /\ b.shows = shows /\ b.size = n
    BY <1>1, <1>2 DEF BlockRec
  <1> HIDE DEF b
  <1>4. \A a \in ShmPage : space'[p][a] = IF a - First(to) + First(from) \in Region(from, n)
                                          THEN Mapped(space[t][a - First(to) + First(from)], a)
                                          ELSE space[p][a]
    BY <1>1, Pages DEF copy_region
  <1>5. ASSUME b.offset % Unit = 0, NEW a \in ShmPage, (a - Shm) * Unit < b.offset
        PROVE  space'[p][a] = space[p][a]
    <2>1. a - First(to) + First(from) \notin Region(from, n)
      <3> SUFFICES ASSUME a - First(to) + First(from) \in Region(from, n) PROVE FALSE
        OBVIOUS
      <3>1. to <= (a - Shm) * Unit
        BY <1>1, <1>3, <1>5, CopiesBehind
      <3>2. (a - Shm) * Unit \in Int
        BY DEF ShmPage, Layout
      <3> QED BY <1>1, <1>3, <1>5, <3>1, <3>2
    <2> QED BY <1>4, <2>1
  <1>6. ASSUME b.offset % Unit = 0, NEW m \in b.shows
        PROVE  Below(b, m[1]) /\ (m[2] # 0 => space'[p][m[1]] = m[2])
    <2>1. /\ m[1] \in ShmPage /\ (m[1] - Shm) * Unit < to + n
          /\ m[1] - First(to) + First(from) \in Region(from, n)
          /\ m[2] = space[t][m[1] - First(to) + First(from)]
      <3>1. to % Unit = 0 /\ m \in Shown(t, from, n, to)
        BY <1>3, <1>6 DEF shows
      <3>2. ShownAt(t, from, n, to, m)
        BY <1>1, <3>1, ShownBelow
      <3> QED BY <3>2 DEF ShownAt
    <2>2. Below(b, m[1])
      BY <1>3, <2>1 DEF Below, EndOf
    <2>3. space'[p][m[1]] = Mapped(m[2], m[1])
      BY <1>4, <2>1
    <2> QED BY <2>2, <2>3 DEF Mapped
  <1> QED BY <1>1, <1>3, <1>5, <1>6, AddsBlock

\* Every call keeps what opened blocks show.
LEMMA NextBlocksIInv ==
    ASSUME Layout, IInv, BlocksIInv, Next
    PROVE  BlocksIInv'
  <1>1. /\ blocks \in [Pid -> Seq(BlockRec)] /\ bytes \in [Pid -> Nat]
        /\ space \in [Pid -> [Page -> Int]] /\ \A a \in ShmPage : a \in Page
    BY Pages DEF IInv, Types, BlocksIInv, BlockTypes
  <1>2. BlockTypes'
    BY NextBlockTypes DEF BlocksIInv
  <1>3. ASSUME NEW q \in Live, blocks'[q] = blocks[q],
               \A a \in ShmPage : space'[q][a] = space[q][a]
        PROVE  Contiguous(q)' => Rising(blocks'[q]) /\ Showing(q)'
    BY <1>3, KeepsShowing DEF Live
  <1>4. ASSUME NEW q \in Live', blocks'[q] = <<>>
        PROVE  Contiguous(q)' => Rising(blocks'[q]) /\ Showing(q)'
    BY <1>4 DEF Rising, Showing
  <1> SUFFICES ASSUME NEW q \in Live' PROVE Contiguous(q)' => Rising(blocks'[q]) /\ Showing(q)'
    BY <1>2 DEF BlocksIInv
  <1>5. ASSUME NEW p \in Pid, create_process(p) \/ clean_process(p)
        PROVE  Contiguous(q)' => Rising(blocks'[q]) /\ Showing(q)'
    <2>1. CASE q = p
      <3>1. blocks'[p] = <<>>
        BY <1>1, <1>5 DEF create_process, clean_process
      <3> QED BY <1>4, <2>1, <3>1
    <2>2. CASE q # p
      <3>1. q \in Live /\ blocks'[q] = blocks[q] /\ space'[q] = space[q]
        BY <1>1, <1>5, <2>2 DEF create_process, clean_process, Live, IInv, Types
      <3> QED BY <1>3, <3>1
    <2> QED BY <2>1, <2>2
  <1>6. ASSUME NEW p \in Pid, NEW t \in Pid, process_create_thread(p, t)
        PROVE  Contiguous(q)' => Rising(blocks'[q]) /\ Showing(q)'
    <2>1. CASE q = t
      <3>1. p \in Live /\ blocks'[t] = blocks[p] /\ \A a \in ShmPage : space'[t][a] = space[p][a]
        <4>1. \A a \in ShmPage : a \notin Stack
          BY Pages
        <4> QED BY <1>1, <1>6, <4>1 DEF process_create_thread
      <3> QED BY <2>1, <3>1, KeepsShowing
    <2>2. CASE q # t
      <3>1. q \in Live /\ blocks'[q] = blocks[q] /\ space'[q] = space[q]
        BY <1>1, <1>6, <2>2 DEF process_create_thread, Live, IInv, Types
      <3> QED BY <1>3, <3>1
    <2> QED BY <2>1, <2>2
  <1>7. ASSUME NEW p \in Pid, NEW n \in Brks, sys_sbrk(p, n)
        PROVE  Contiguous(q)' => Rising(blocks'[q]) /\ Showing(q)'
    <2>1. q \in Live /\ blocks'[q] = blocks[q]
      BY <1>7 DEF sys_sbrk, Live
    <2>2. ASSUME NEW a \in ShmPage PROVE space'[q][a] = space[q][a]
      <3>1. heap[q] \in Nat /\ n \in Nat /\ Heap \in Nat /\ Shm \in Nat /\ Top \in Nat
        BY <2>1 DEF IInv, Types, Live, Layout
      <3>2. group[q] = group[p] => a \notin Heap+heap[q]..Heap+heap[q]+n-1
        <4> SUFFICES ASSUME group[q] = group[p] PROVE a \notin Heap+heap[q]..Heap+heap[q]+n-1
          OBVIOUS
        <4>1. Heap + heap[q] + n <= Shm
          BY <1>7, <2>1 DEF sys_sbrk
        <4> QED BY <3>1, <4>1 DEF ShmPage
      <3> QED BY <1>1, <1>7, <2>1, <3>2 DEF sys_sbrk, Live
    <2> QED BY <1>3, <2>1, <2>2
  <1>8. ASSUME NEW p \in Pid, NEW n \in Sizes, sys_shmem_create(p, n)
        PROVE  Contiguous(q)' => Rising(blocks'[q]) /\ Showing(q)'
    <2> DEFINE b == [offset |-> bytes[p], size |-> n, shows |-> {}]
    <2>1. /\ p \in Live /\ q \in Live /\ space' = space
          /\ blocks' = [blocks EXCEPT ![p] = Append(blocks[p], b)]
      BY <1>8 DEF sys_shmem_create, process_create_shared, Live
    <2>2. b \in BlockRec /\ b.shows = {}
      BY <1>1 DEF BlockRec, Layout
    <2> HIDE DEF b
    <2>3. CASE q = p
      <3>1. blocks'[p] = Append(blocks[p], b)
        BY <1>1, <2>1
      <3> QED BY <2>1, <2>2, <2>3, <3>1, AddsBlock
    <2>4. CASE q # p
      BY <1>1, <1>3, <2>1, <2>4
    <2> QED BY <2>3, <2>4
  <1>9. ASSUME NEW p \in Pid, NEW t \in Pid, NEW id \in 1..Len(blocks[t]), sys_shmem_open(p, t, id)
        PROVE  Contiguous(q)' => Rising(blocks'[q]) /\ Showing(q)'
    <2>1. CASE q = p
      BY <1>2, <1>9, <2>1, OpenShows
    <2>2. CASE q # p
      <3>1. q \in Live /\ blocks'[q] = blocks[q] /\ space'[q] = space[q]
        BY <1>1, <1>9, <2>2 DEF sys_shmem_open, process_create_shared, Live
      <3> QED BY <1>3, <3>1
    <2> QED BY <2>1, <2>2
  <1>10. ASSUME NEW p \in Pid, sys_shmem_reset(p)
         PROVE  Contiguous(q)' => Rising(blocks'[q]) /\ Showing(q)'
    <2>1. CASE q = p
      <3>1. blocks'[p] = <<>>
        BY <1>1, <1>10 DEF sys_shmem_reset
      <3> QED BY <1>4, <2>1, <3>1
    <2>2. CASE q # p
      <3>1. q \in Live /\ blocks'[q] = blocks[q] /\ space'[q] = space[q]
        BY <1>1, <1>10, <2>2 DEF sys_shmem_reset, Live
      <3> QED BY <1>3, <3>1
    <2> QED BY <2>1, <2>2
  <1> QED BY <1>5, <1>6, <1>7, <1>8, <1>9, <1>10 DEF Next

\* A process that opened blocks of whole pages finds there the frames of their
\* owners, for any sizes and numbers of blocks, pages and processes: the page too
\* many that copy_region maps is never one of an earlier block.
THEOREM SpecBlocksShow == Spec => []BlocksShow
  <1>1. Init => IInv /\ BlocksIInv
    <2> SUFFICES ASSUME Init PROVE IInv /\ BlocksIInv
      OBVIOUS
    <2>1. IInv
      BY Layout, InitIInv
    <2>2. Live = {}
      BY DEF Init, Live
    <2>3. BlockTypes
      BY DEF Init, BlockTypes
    <2> QED BY <2>1, <2>2, <2>3 DEF BlocksIInv
  <1>2. IInv /\ BlocksIInv /\ [Next]_vars => IInv' /\ BlocksIInv'
    <2> SUFFICES ASSUME IInv, BlocksIInv, [Next]_vars PROVE IInv' /\ BlocksIInv'
      OBVIOUS
    <2>1. IInv'
      BY Layout, NextIInv
    <2>2. CASE Next
      BY Layout, <2>1, <2>2, NextBlocksIInv
    <2>3. CASE UNCHANGED vars
      BY <2>1, <2>3 DEF vars, BlocksIInv, BlockTypes, Live, Contiguous, Rising, Showing, Below
    <2> QED BY <2>1, <2>2, <2>3
  <1>3. BlocksIInv => BlocksShow
    BY DEF BlocksIInv, BlocksShow, Showing
  <1> QED BY <1>1, <1>2, <1>3, PTL DEF Spec
=============================================================================
