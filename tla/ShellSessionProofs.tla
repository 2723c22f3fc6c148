-------------------------- MODULE ShellSessionProofs --------------------------
(***************************************************************************)
(* Proofs about the shell's session: how in_exec, the handler and the      *)
(* lines typed keep the shell from starting a second program, and why what *)
(* it prints is what it read of its programs' pipes, each byte once, in    *)
(* order, and all but what follows a zero byte, for any number of          *)
(* programs, bytes and lines and any size of the pipes.                    *)
(***************************************************************************)
EXTENDS ShellSession, TLAPS, FiniteSetTheorems

Life == {"none", "alive", "dead", "clean"}
Streams == {"stdout", "stderr", "stdin"}

KidType == [life : Life, out : Seq(Kid \X Nat), wrote : Nat, nuls : SUBSET Nat, err : {0, 1}, in : {0, 1},
            found : SUBSET Streams]

TypeOK ==
    /\ pc \in {"poll", "print", "input", "line", "forward", "exec", "execd", "free"} \cup Streams
    /\ handler \in {"none", "end", "spin"} \cup Streams
    /\ pending \in BOOLEAN /\ in_exec \in BOOLEAN /\ locked \in BOOLEAN
    /\ kids \in [Kid -> KidType]

Alive(g) == kids[g].life = "alive"
NoneAlive == \A g \in Kid : ~Alive(g)

\* A program runs under in_exec, but for the moment between execv and the
\* store of the flag; while main is about to start one, or a death is being
\* handled, none runs.
IInv ==
    /\ TypeOK
    /\ \A g, h \in Kid : Alive(g) /\ Alive(h) => g = h
    /\ in_exec \/ pc = "execd" \/ NoneAlive
    /\ pc = "exec" \/ pending \/ handler # "none" => NoneAlive

\* Stream lists the three streams that the shell opens for a child.
LEMMA StreamNames == ToSet(Stream) = Streams
<1>1. DOMAIN Stream = {1, 2, 3}
  BY DEF Stream
<1>2. Stream[1] = "stdout" /\ Stream[2] = "stderr" /\ Stream[3] = "stdin"
  BY DEF Stream
<1> HIDE DEF Stream
<1> QED
  BY <1>1, <1>2 DEF ToSet, Streams

\* Before the first line no child lives.
LEMMA InitIInv == Init => IInv
<1>1. <<>> \in Seq(Kid \X Nat)
  OBVIOUS
<1>2. Child \in KidType
  BY <1>1, StreamNames DEF Child, KidType, Life
<1>3. Child.life = "none"
  BY DEF Child
<1> QED
  BY <1>2, <1>3 DEF Init, IInv, TypeOK, Alive, NoneAlive

SameLives == \A g \in Kid : kids'[g].life = kids[g].life
SameBytes ==
    \A g \in Kid : /\ kids'[g].out = kids[g].out /\ kids'[g].wrote = kids[g].wrote
                   /\ kids'[g].nuls = kids[g].nuls

\* A store in one field of a child's record leaves the others as they are.
LEMMA StoreOut ==
  ASSUME TypeOK, NEW f, NEW o \in Seq(Kid \X Nat),
         kids' = [kids EXCEPT ![f].out = o]
  PROVE  /\ kids' \in [Kid -> KidType] /\ SameLives
         /\ \A g \in Kid : /\ kids'[g].out = IF g = f THEN o ELSE kids[g].out
                           /\ kids'[g].wrote = kids[g].wrote /\ kids'[g].nuls = kids[g].nuls
<1>1. \A r \in KidType : /\ [r EXCEPT !.out = o] \in KidType /\ [r EXCEPT !.out = o].life = r.life
                         /\ [r EXCEPT !.out = o].out = o /\ [r EXCEPT !.out = o].wrote = r.wrote
                         /\ [r EXCEPT !.out = o].nuls = r.nuls
  BY DEF KidType
<1>2. kids \in [Kid -> KidType]
  BY DEF TypeOK
<1>3. \A g \in Kid : kids'[g] = IF g = f THEN [kids[g] EXCEPT !.out = o] ELSE kids[g]
  BY <1>2
<1>4. DOMAIN kids' = Kid /\ kids' = [g \in Kid |-> kids'[g]]
  BY <1>2
<1> HIDE DEF KidType
<1>5. \A g \in Kid : kids[g] \in KidType
  BY <1>2
<1>6. ASSUME NEW g \in Kid
      PROVE  /\ kids'[g] \in KidType /\ kids'[g].life = kids[g].life
             /\ kids'[g].wrote = kids[g].wrote /\ kids'[g].nuls = kids[g].nuls
             /\ kids'[g].out = IF g = f THEN o ELSE kids[g].out
  <2>1. CASE g = f
    <3> DEFINE r == kids[g]
    <3>1. r \in KidType
      BY <1>5
    <3>2. kids'[g] = [r EXCEPT !.out = o]
      BY <1>3, <2>1
    <3> HIDE DEF r
    <3>3. kids'[g] \in KidType /\ kids'[g].out = o
          /\ kids'[g].life = r.life /\ kids'[g].wrote = r.wrote /\ kids'[g].nuls = r.nuls
      BY <1>1, <3>1, <3>2
    <3> QED
      BY <2>1, <3>3 DEF r
  <2>2. CASE g # f
    BY <1>3, <1>5, <2>2
  <2> QED
    BY <2>1, <2>2
<1>7. kids' \in [Kid -> KidType]
  BY <1>4, <1>6
<1> QED
  BY <1>6, <1>7 DEF SameLives

\* Storing one of a child's two flags changes neither its life nor its bytes.
LEMMA StoreFlag ==
  ASSUME TypeOK, NEW f, NEW b \in {0, 1},
         \/ kids' = [kids EXCEPT ![f].err = b]
         \/ kids' = [kids EXCEPT ![f].in = b]
  PROVE  kids' \in [Kid -> KidType] /\ SameLives /\ SameBytes
<1>1. \A r \in KidType :
         \A q \in {[r EXCEPT !.err = b], [r EXCEPT !.in = b]} :
            /\ q \in KidType /\ q.life = r.life /\ q.out = r.out
            /\ q.wrote = r.wrote /\ q.nuls = r.nuls
  BY DEF KidType
<1>2. kids \in [Kid -> KidType]
  BY DEF TypeOK
<1>3. \A g \in Kid : \/ kids'[g] = kids[g]
                    \/ kids'[g] = [kids[g] EXCEPT !.err = b]
                    \/ kids'[g] = [kids[g] EXCEPT !.in = b]
  BY <1>2
<1>4. kids' = [g \in Kid |-> kids'[g]]
  BY <1>2
<1> HIDE DEF KidType
<1>5. \A g \in Kid : kids[g] \in KidType
  BY <1>2
<1>6. \A g \in Kid : /\ kids'[g] \in KidType /\ kids'[g].life = kids[g].life
                    /\ kids'[g].out = kids[g].out /\ kids'[g].wrote = kids[g].wrote
                    /\ kids'[g].nuls = kids[g].nuls
  BY <1>1, <1>3, <1>5, ZenonT(60)
<1> QED
  BY <1>4, <1>6 DEF SameLives, SameBytes

\* A child is started, dies or is cleaned; the others live on.
LEMMA StoreLife ==
  ASSUME TypeOK, NEW f, NEW l \in Life,
         kids' = [kids EXCEPT ![f].life = l]
  PROVE  /\ kids' \in [Kid -> KidType]
         /\ \A g \in Kid : kids'[g].life = IF g = f THEN l ELSE kids[g].life
         /\ SameBytes
<1>1. \A r \in KidType : /\ [r EXCEPT !.life = l] \in KidType /\ [r EXCEPT !.life = l].life = l
                         /\ [r EXCEPT !.life = l].out = r.out /\ [r EXCEPT !.life = l].wrote = r.wrote
                         /\ [r EXCEPT !.life = l].nuls = r.nuls
  BY DEF KidType
<1>2. kids \in [Kid -> KidType]
  BY DEF TypeOK
<1>3. \A g \in Kid : kids'[g] = IF g = f THEN [kids[g] EXCEPT !.life = l] ELSE kids[g]
  BY <1>2
<1>4. kids' = [g \in Kid |-> kids'[g]]
  BY <1>2
<1> HIDE DEF KidType
<1>5. \A g \in Kid : kids[g] \in KidType
  BY <1>2
<1>6. ASSUME NEW g \in Kid
      PROVE  /\ kids'[g] \in KidType
             /\ kids'[g].out = kids[g].out /\ kids'[g].wrote = kids[g].wrote
             /\ kids'[g].nuls = kids[g].nuls
             /\ kids'[g].life = IF g = f THEN l ELSE kids[g].life
  <2>1. CASE g = f
    <3> DEFINE r == kids[g]
    <3>1. r \in KidType
      BY <1>5
    <3>2. kids'[g] = [r EXCEPT !.life = l]
      BY <1>3, <2>1
    <3> HIDE DEF r
    <3>3. kids'[g] \in KidType /\ kids'[g].life = l
          /\ kids'[g].out = r.out /\ kids'[g].wrote = r.wrote /\ kids'[g].nuls = r.nuls
      BY <1>1, <3>1, <3>2
    <3> QED
      BY <2>1, <3>3 DEF r
  <2>2. CASE g # f
    BY <1>3, <1>5, <2>2
  <2> QED
    BY <2>1, <2>2
<1>7. kids' \in [Kid -> KidType]
  BY <1>4, <1>6
<1> QED
  BY <1>6, <1>7 DEF SameBytes

\* The pipe of g took its next byte.
Took(g) ==
    /\ kids'[g].out = Append(kids[g].out, Byte(g))
    /\ kids'[g].wrote = kids[g].wrote + 1
    /\ kids[g].nuls \subseteq kids'[g].nuls

\* A write to stdout appends a byte and counts it, or the full pipe drops it.
LEMMA StoreByte ==
  ASSUME TypeOK, NEW g \in Kid, child_write(g)
  PROVE  /\ kids' \in [Kid -> KidType] /\ SameLives
         /\ \A h \in Kid : h # g => kids'[h] = kids[h]
         /\ kids' = kids \/ Took(g)
<1>1. kids \in [Kid -> KidType]
  BY DEF TypeOK
<1> SUFFICES ASSUME kids' # kids
             PROVE  /\ kids' \in [Kid -> KidType] /\ SameLives /\ Took(g)
                    /\ \A h \in Kid : h # g => kids'[h] = kids[h]
  BY <1>1 DEF SameLives
<1>2. kids[g].out \in Seq(Kid \X Nat) /\ kids[g].wrote \in Nat /\ kids[g].nuls \in SUBSET Nat
  BY <1>1 DEF KidType
<1>3. Byte(g) \in Kid \X Nat
  BY <1>2 DEF Byte
<1> DEFINE o == Append(kids[g].out, Byte(g))
           n == kids[g].wrote + 1
<1>4. PICK zero \in {{}, {n}} :
         kids' = [kids EXCEPT ![g].out = o, ![g].wrote = n, ![g].nuls = @ \cup zero]
  BY DEF child_write
<1> DEFINE z == kids[g].nuls \cup zero
           r == [kids[g] EXCEPT !.out = o, !.wrote = n, !.nuls = z]
<1>5. o \in Seq(Kid \X Nat) /\ n \in Nat /\ z \in SUBSET Nat /\ kids[g].nuls \subseteq z
  BY <1>2, <1>3
<1>6. kids' = [kids EXCEPT ![g] = r]
  BY <1>1, <1>4
<1> HIDE DEF o, n, z
<1>7. r \in KidType /\ r.life = kids[g].life /\ r.out = o /\ r.wrote = n /\ r.nuls = z
  BY <1>1, <1>5 DEF KidType
<1> HIDE DEF KidType, r
<1>8. /\ kids' \in [Kid -> KidType] /\ kids'[g] = r
      /\ \A h \in Kid : h # g => kids'[h] = kids[h]
  BY <1>1, <1>6, <1>7
<1>9. SameLives
  BY <1>7, <1>8 DEF SameLives
<1>10. Took(g)
  BY <1>5, <1>7, <1>8 DEF Took, o, n
<1> QED
  BY <1>8, <1>9, <1>10

\* clean_process removes streams, and cleans the dead process if it can.
LEMMA CleanLives ==
  ASSUME TypeOK, NEW g \in Kid, clean_process(g)
  PROVE  /\ kids' \in [Kid -> KidType]
         /\ \A h \in Kid : kids'[h].life = "alive" <=> kids[h].life = "alive"
         /\ \A h \in Kid : kids'[h].life = "none" <=> kids[h].life = "none"
         /\ SameBytes
<1> DEFINE full == {i \in 1..3 : HasData(g, Stream[i])}
           left == {Stream[i] : i \in {i \in 1..3 : \E j \in full : j <= i}}
           fs == kids[g].found \cap left
           l == IF full = {} THEN "clean" ELSE kids[g].life
           r == [kids[g] EXCEPT !.found = fs, !.life = l]
<1>1. kids \in [Kid -> KidType]
  BY DEF TypeOK
<1>2. kids' = [kids EXCEPT ![g] = r] /\ kids[g].life = "dead"
  BY <1>1 DEF clean_process
<1>3. kids[g].found \subseteq Streams /\ kids[g].life \in Life
  BY <1>1 DEF KidType
<1>4. fs \in SUBSET Streams /\ l \in {"dead", "clean"}
  BY <1>2, <1>3
<1> HIDE DEF fs, l
<1>5. /\ r \in KidType /\ r.life = l /\ r.out = kids[g].out /\ r.wrote = kids[g].wrote
      /\ r.nuls = kids[g].nuls
  BY <1>1, <1>4 DEF KidType, Life
<1> HIDE DEF KidType, r
<1> QED
  BY <1>1, <1>2, <1>4, <1>5 DEF SameBytes

\* Every step of the shell, of a child and of the kernel keeps one child at most.
LEMMA NextIInv == IInv /\ [Next]_vars => IInv'
<1> SUFFICES ASSUME IInv, [Next]_vars PROVE IInv'
  OBVIOUS
<1>0. TypeOK
  BY DEF IInv
<1>1. <<>> \in Seq(Kid \X Nat)
  OBVIOUS
\* Steps of main and the handler that leave in_exec and the lives as they are.
<1>2. ASSUME SameLives, kids' \in [Kid -> KidType], in_exec' = in_exec,
             pc' \in {"poll", "print", "input", "line", "forward", "free"} \cup Streams,
             pc # "execd", locked' \in BOOLEAN,
             handler' \in {"none", "end", "spin"} \cup Streams, pending' \in BOOLEAN,
             pending' \/ handler' # "none" => pending \/ handler # "none"
      PROVE  IInv'
  BY <1>0, <1>2 DEF IInv, TypeOK, SameLives, Alive, NoneAlive, Streams
<1>3. CASE poll
  <2>1. SameLives /\ kids' \in [Kid -> KidType]
    <3>1. CASE files["stdout"] = 0
      BY <1>0, <1>3, <3>1 DEF poll, Running, SameLives, TypeOK
    <3>2. CASE files["stdout"] # 0
      BY <1>0, <1>1, <1>3, <3>2, StoreOut DEF poll, Running
    <3> QED
      BY <3>1, <3>2
  <2> QED
    BY <1>0, <1>2, <1>3, <2>1 DEF poll, Running, shell, aux, TypeOK
<1>4. CASE print
  BY <1>0, <1>2, <1>4 DEF print, Running, shell, aux, TypeOK, SameLives
<1>5. CASE input
  BY <1>0, <1>2, <1>5 DEF input, Running, shell, aux, TypeOK, SameLives
<1>6. CASE line
  BY <1>0, <1>6 DEF line, Running, shell, aux, IInv, TypeOK, Alive, NoneAlive
<1>7. CASE forward
  <2>1. SameLives /\ kids' \in [Kid -> KidType]
    BY <1>0, <1>7, StoreFlag DEF forward, SameLives, TypeOK
  <2> QED
    BY <1>0, <1>2, <1>7, <2>1 DEF forward, Running, shell, aux, TypeOK
<1>8. CASE execv
  <2>1. CASE UNCHANGED kids
    BY <1>0, <1>8, <2>1 DEF execv, Running, shell, aux, IInv, TypeOK, Alive, NoneAlive
  <2>2. CASE kids' = [kids EXCEPT ![Newest + 1].life = "alive"] /\ pc' = "execd"
    <3> DEFINE n == Newest + 1
    <3> HIDE DEF n
    <3>1. /\ kids' \in [Kid -> KidType]
          /\ \A g \in Kid : kids'[g].life = IF g = n THEN "alive" ELSE kids[g].life
      BY <1>0, <2>2, StoreLife DEF Life, n
    <3>2. NoneAlive
      BY <1>8 DEF IInv, execv, Running
    <3>3. \A g \in Kid : kids'[g].life = "alive" => g = n
      BY <3>1, <3>2 DEF NoneAlive, Alive
    <3> QED
      BY <1>0, <1>8, <2>2, <3>1, <3>3 DEF execv, Running, shell, aux, IInv, TypeOK, Alive
  <2> QED
    BY <1>8, <2>1, <2>2 DEF execv
<1>9. CASE execd
  BY <1>0, <1>9 DEF execd, Running, shell, aux, IInv, TypeOK, Alive, NoneAlive, Streams
<1>10. ASSUME NEW s \in Streams, fopen(s) PROVE IInv'
  <2>1. pc' \in {"free"} \cup Streams /\ pc # "execd"
    BY <1>10 DEF fopen, Running, After, Streams
  <2> QED
    BY <1>0, <1>2, <1>10, <2>1 DEF fopen, aux, TypeOK, SameLives
<1>11. CASE take_signal
  BY <1>0, <1>11 DEF take_signal, main, shell, IInv, TypeOK, Alive, NoneAlive, Streams
<1>12. CASE sigexit
  BY <1>0, <1>12 DEF sigexit, main, aux, IInv, TypeOK, Alive, NoneAlive
<1>13. ASSUME NEW s \in Streams, drain(s) PROVE IInv'
  <2>1. SameLives /\ kids' \in [Kid -> KidType]
    <3>1. CASE files[s] # 0 /\ s = "stdout"
      BY <1>0, <1>1, <1>13, <3>1, StoreOut DEF drain, Drained
    <3>2. CASE files[s] # 0 /\ s = "stderr"
      BY <1>0, <1>13, <3>2, StoreFlag DEF drain, Drained
    <3>3. CASE files[s] = 0 \/ s = "stdin"
      BY <1>0, <1>13, <3>3 DEF drain, Drained, SameLives, TypeOK
    <3> QED
      BY <3>1, <3>2, <3>3 DEF Streams
  <2>2. handler # "none" /\ handler' \in {"end", "spin"} \cup Streams
    BY <1>13 DEF drain, After, Streams
  <2> QED
    BY <1>0, <1>13, <2>1, <2>2 DEF drain, main, aux, IInv, TypeOK, SameLives, Alive, NoneAlive
\* The children's steps: none lives that did not, and main stands still.
<1>14. ASSUME kids' \in [Kid -> KidType], UNCHANGED <<Session, pending>>,
              \A g \in Kid : kids'[g].life = "alive" => kids[g].life = "alive"
       PROVE  IInv'
  BY <1>0, <1>14 DEF Session, main, shell, IInv, TypeOK, Alive, NoneAlive
<1>15. ASSUME NEW g \in Kid, child_write(g) PROVE IInv'
  BY <1>0, <1>14, <1>15, StoreByte DEF child_write, SameLives
<1>16. ASSUME NEW g \in Kid, child_error(g) \/ child_read(g) PROVE IInv'
  <2>1. SameLives /\ kids' \in [Kid -> KidType]
    BY <1>0, <1>16, StoreFlag DEF child_error, child_read
  <2> QED
    BY <1>14, <1>16, <2>1 DEF child_error, child_read, SameLives
<1>17. ASSUME NEW g \in Kid, proc_exit(g) PROVE IInv'
  <2>1. /\ kids' \in [Kid -> KidType]
        /\ \A h \in Kid : kids'[h].life = IF h = g THEN "dead" ELSE kids[h].life
    BY <1>0, <1>17, StoreLife DEF proc_exit, Life
  <2>2. \A h \in Kid : ~(kids'[h].life = "alive")
    BY <1>17, <2>1 DEF proc_exit, IInv, Alive
  <2> QED
    BY <1>0, <1>17, <2>1, <2>2 DEF proc_exit, Session, main, shell, IInv, TypeOK, Alive, NoneAlive
<1>18. ASSUME NEW g \in Kid, clean_process(g) PROVE IInv'
  BY <1>0, <1>14, <1>18, CleanLives DEF clean_process
<1>19. CASE type
  BY <1>0, <1>19 DEF type, main, shell, IInv, TypeOK, Alive, NoneAlive
<1>20. CASE enter_heap \/ free
  <2>1. pc' \in {"poll", "free"} \cup Streams /\ pc # "execd"
    BY <1>20, StreamNames DEF enter_heap, free, Running, main, Streams
  <2> QED
    BY <1>0, <1>2, <1>20, <2>1 DEF enter_heap, free, Running, main, aux, TypeOK, SameLives
<1>21. CASE UNCHANGED vars
  BY <1>0, <1>21 DEF vars, main, shell, IInv, TypeOK, Alive, NoneAlive
<1> QED
  BY <1>3, <1>4, <1>5, <1>6, <1>7, <1>8, <1>9, <1>10, <1>11, <1>12, <1>13, <1>15, <1>16,
     <1>17, <1>18, <1>19, <1>20, <1>21, StreamNames DEF Next

\* The shell never has two programs running, whatever is typed while one runs
\* and wherever SIG_CHILD finds main: a line is a command only when in_exec is
\* clear, the handler clears it only after a death, and main stands still from
\* the death to the end of the handler.
THEOREM SpecOneChild == Spec => []OneChild
<1>1. IInv => OneChild
  <2> SUFFICES ASSUME IInv PROVE OneChild
    OBVIOUS
  <2> DEFINE A == {g \in Kid : kids[g].life = "alive"}
  <2>1. CASE A = {}
    BY <2>1, FS_EmptySet DEF OneChild
  <2>2. ASSUME NEW g \in A PROVE OneChild
    <3>1. A = {g}
      BY <2>2 DEF IInv, Alive
    <3>2. Cardinality(A) = 1
      BY <3>1, FS_Singleton
    <3> QED
      BY <3>2 DEF OneChild
  <2> QED
    BY <2>1, <2>2
<1> QED
  BY <1>1, InitIInv, NextIInv, PTL DEF Spec

-----------------------------------------------------------------------------
(* Which child's output is read.  The structure of a session: children are *)
(* started in order, all but the newest one have ended and been read to    *)
(* the end, and the newest one's stdout is followed: main is about to open *)
(* it, has it open, or the handler is about to read it.                    *)

Following(g) ==
    \/ pc \in {"execd", "stdout"}
    \/ /\ files["stdout"] = g
       /\ handler \in {"none", "stdout"}
       /\ Alive(g) \/ pending \/ handler = "stdout" \/ pc \in {"stderr", "stdin", "free", "poll"}

InOrder ==
    /\ Newest \in 0..MaxExecs
    /\ \A g \in Kid : kids[g].life # "none" <=> g <= Newest
    /\ \A g \in Kid : g # Newest => kids[g].out = <<>> /\ ~Alive(g)

FilesOK == files = [s \in Streams |-> files[s]] /\ files["stdout"] \in 0..Newest

Held ==
    /\ buf # <<>> => pc = "print"
    /\ ~torn /\ handler # "none" => buf = <<>>

SInv ==
    /\ IInv
    /\ InOrder
    /\ FilesOK
    /\ Held
    /\ \A g \in Kid : kids[g].out # <<>> \/ Alive(g) => Following(g)

\* Child n is the newest when the children started are 1..n.
LEMMA StartedCount ==
  ASSUME NEW k, NEW n \in 0..MaxExecs, \A g \in Kid : k[g].life # "none" <=> g <= n
  PROVE  Cardinality({g \in Kid : k[g].life # "none"}) = n
<1>1. {g \in Kid : k[g].life # "none"} = 1..n
  BY BoundsAssumption DEF Kid
<1>2. Cardinality(1..n) = n
  BY BoundsAssumption, FS_Interval
<1> QED
  BY <1>1, <1>2

\* The invariant about the pipes and the newest child holds of a fresh shell.
LEMMA InitSInv == Init => SInv
<1> SUFFICES ASSUME Init PROVE SInv
  OBVIOUS
<1>1. \A g \in Kid : kids[g] = Child
  BY DEF Init
<1>2. \A g \in Kid : kids[g].life = "none" /\ kids[g].out = <<>>
  BY <1>1 DEF Child
<1>3. Newest = 0
  <2>1. \A g \in Kid : kids[g].life # "none" <=> g <= 0
    BY <1>2 DEF Kid
  <2> QED
    BY <2>1, StartedCount, BoundsAssumption DEF Newest
<1>4. InOrder
  BY <1>2, <1>3, BoundsAssumption DEF InOrder, Alive, Kid
<1>5. FilesOK /\ Held
  BY <1>3, StreamNames DEF Init, FilesOK, Held, Streams
<1> QED
  BY <1>2, <1>4, <1>5, InitIInv DEF SInv, Alive

\* A step that starts nobody: the children stay in order if no read child gets
\* output or life.
LEMMA OrderKept ==
  ASSUME InOrder, \A g \in Kid : kids'[g].life = "none" <=> kids[g].life = "none",
         \A g \in Kid : g # Newest => /\ kids'[g].out = kids[g].out \/ kids'[g].out = <<>>
                                      /\ kids'[g].life = "alive" => kids[g].life = "alive"
  PROVE  InOrder' /\ Newest' = Newest
<1> DEFINE n == Newest
<1>1. n \in 0..MaxExecs /\ \A g \in Kid : kids[g].life # "none" <=> g <= n
  BY DEF InOrder
<1>2. \A g \in Kid : kids'[g].life # "none" <=> g <= n
  BY <1>1
<1> HIDE DEF n
<1>3. Newest' = n
  <2> DEFINE k == kids'
  <2>1. \A g \in Kid : k[g].life # "none" <=> g <= n
    BY <1>2
  <2> HIDE DEF k
  <2>2. Cardinality({g \in Kid : k[g].life # "none"}) = n
    BY <1>1, <2>1, StartedCount
  <2> QED
    BY <2>2 DEF Newest, k
<1> QED
  BY <1>1, <1>2, <1>3 DEF InOrder, Alive, n

\* Every step keeps it: only the newest child writes, and it has its own pipe.
LEMMA NextSInv == SInv /\ [Next]_vars => SInv'
<1> SUFFICES ASSUME SInv, [Next]_vars PROVE SInv'
  OBVIOUS
<1>0. /\ TypeOK /\ IInv /\ IInv' /\ InOrder /\ FilesOK /\ Held
      /\ \A g \in Kid : kids[g].out # <<>> \/ Alive(g) => Following(g)
  BY NextIInv DEF SInv, IInv
<1>1. \A g \in Kid : kids[g].out # <<>> \/ Alive(g) => g = Newest
  BY <1>0 DEF InOrder
\* Steps that change no child, and the files not.
<1>2. ASSUME UNCHANGED <<kids, files>>, Held',
             \A g \in Kid : Following(g) => Following(g)'
      PROVE  SInv'
  <2>1. InOrder' /\ Newest' = Newest
    BY <1>0, <1>2, OrderKept
  <2>2. FilesOK'
    BY <1>0, <1>2, <2>1 DEF FilesOK
  <2>3. \A g \in Kid : kids'[g].out # <<>> \/ Alive(g)' => Following(g)'
    BY <1>0, <1>2 DEF Alive
  <2> QED
    BY <1>0, <1>2, <2>1, <2>2, <2>3 DEF SInv
<1>3. CASE print
  <2>1. \A g \in Kid : Following(g) => Following(g)'
    BY <1>3 DEF print, Running, shell, Following, Alive
  <2>2. Held'
    BY <1>0, <1>3 DEF print, Running, aux, Held
  <2> QED
    BY <1>2, <1>3, <2>1, <2>2 DEF print, shell
<1>4. CASE input
  <2>1. \A g \in Kid : Following(g) => Following(g)'
    BY <1>4 DEF input, Running, shell, Following, Alive
  <2>2. Held'
    BY <1>0, <1>4 DEF input, Running, aux, Held
  <2> QED
    BY <1>2, <1>4, <2>1, <2>2 DEF input, shell
<1>5. CASE line
  <2>1. \A g \in Kid : Following(g) => Following(g)'
    BY <1>5 DEF line, Running, shell, Following, Alive
  <2>2. Held'
    BY <1>0, <1>5 DEF line, Running, aux, Held
  <2> QED
    BY <1>2, <1>5, <2>1, <2>2 DEF line, shell
<1>6. CASE execd
  <2>1. \A g \in Kid : Following(g) => Following(g)'
    BY <1>6 DEF execd, Running, Following, Alive
  <2>2. Held'
    BY <1>0, <1>6 DEF execd, Running, aux, Held
  <2> QED
    BY <1>2, <1>6, <2>1, <2>2 DEF execd
<1>7. CASE take_signal
  <2>1. \A g \in Kid : Following(g) => Following(g)'
    BY <1>7 DEF take_signal, main, shell, Following, Alive
  <2>2. Held'
    BY <1>0, <1>7 DEF take_signal, main, Held
  <2> QED
    BY <1>2, <1>7, <2>1, <2>2 DEF take_signal, shell
<1>8. CASE sigexit
  <2>1. \A g \in Kid : Following(g) => Following(g)'
    BY <1>8 DEF sigexit, main, Following, Alive
  <2>2. Held'
    BY <1>0, <1>8 DEF sigexit, main, aux, Held
  <2> QED
    BY <1>2, <1>8, <2>1, <2>2 DEF sigexit
<1>9. CASE type
  <2>1. \A g \in Kid : Following(g) => Following(g)'
    BY <1>9 DEF type, main, shell, Following, Alive
  <2>2. Held'
    BY <1>0, <1>9 DEF type, main, aux, Held
  <2> QED
    BY <1>2, <1>9, <2>1, <2>2 DEF type, shell
<1>10. CASE UNCHANGED vars
  <2>1. \A g \in Kid : Following(g) => Following(g)'
    BY <1>10 DEF vars, main, shell, Following, Alive
  <2>2. Held'
    BY <1>0, <1>10 DEF vars, main, aux, Held
  <2> QED
    BY <1>2, <1>10, <2>1, <2>2 DEF vars, shell
<1>11. <<>> \in Seq(Kid \X Nat) /\ \A g \in Kid : g # 0
  BY BoundsAssumption DEF Kid
<1>12. CASE poll
  <2> DEFINE f == files["stdout"]
  <2>1. CASE f = 0
    <3>1. \A g \in Kid : Following(g) => Following(g)'
      BY <1>11, <1>12, <2>1 DEF poll, Running, shell, Following, Alive
    <3>2. Held' /\ kids' = kids
      BY <1>0, <1>12, <2>1 DEF poll, Running, aux, Held
    <3> QED
      BY <1>2, <1>12, <3>1, <3>2 DEF poll, shell
  <2>2. CASE f # 0
    <3>1. /\ pc = "poll" /\ handler = "none" /\ ~pending /\ pc' = "print"
          /\ UNCHANGED <<handler, pending, files, torn>>
          /\ kids' = [kids EXCEPT ![f].out = <<>>]
      BY <1>12, <2>2 DEF poll, Running, shell, aux
    <3> HIDE DEF f
    <3>2. /\ SameLives
          /\ \A g \in Kid : kids'[g].out = IF g = f THEN <<>> ELSE kids[g].out
      BY <1>0, <1>11, <3>1, StoreOut, ZenonT(60)
    <3>3. InOrder' /\ Newest' = Newest
      <4>1. \A g \in Kid : kids'[g].out = kids[g].out \/ kids'[g].out = <<>>
        BY <3>2
      <4> QED
        BY <1>0, <3>2, <4>1, OrderKept DEF SameLives
    <3>4. FilesOK' /\ Held'
      BY <1>0, <3>1, <3>3 DEF FilesOK, Held
    <3>5. ASSUME NEW g \in Kid, kids'[g].out # <<>> \/ Alive(g)' PROVE Following(g)'
      <4>1. kids[g].out # <<>> \/ Alive(g)
        BY <3>2, <3>5 DEF SameLives, Alive
      <4>2. files["stdout"] = g
        BY <1>0, <3>1, <4>1 DEF Following
      <4>3. Alive(g)'
        BY <3>2, <3>5, <4>2 DEF f
      <4> QED
        BY <3>1, <4>2, <4>3 DEF Following
    <3> QED
      BY <1>0, <3>3, <3>4, <3>5 DEF SInv
  <2> QED
    BY <2>1, <2>2
<1>13. ASSUME NEW s \in Streams, drain(s) PROVE SInv'
  <2>1. /\ handler = s /\ handler' \in {After(s, "end"), "spin"} /\ pc' = pc /\ pending' = pending
        /\ files' = files \/ files' = [files EXCEPT ![s] = 0]
        /\ kids' = Drained(s) /\ buf' = buf /\ torn' = torn
    BY <1>13 DEF drain, main, aux
  <2>2. handler # "none" /\ handler' # "none" /\ handler' # "stdout"
    BY <2>1 DEF Streams, After
  <2>3. /\ \A g \in Kid : ~Alive(g)
        /\ \A g \in Kid : ~Alive(g)'
    BY <1>0, <2>2 DEF IInv, NoneAlive
  <2>4. Held'
    BY <1>0, <2>1, <2>2 DEF Held
  <2>5. /\ SameLives
        /\ \A g \in Kid : \/ kids'[g].out = kids[g].out
                          \/ s = "stdout" /\ g = files["stdout"] /\ kids'[g].out = <<>>
        /\ \A g \in Kid : s = "stdout" /\ g = files["stdout"] => kids'[g].out = <<>>
    <3>1. CASE files[s] = 0 \/ s = "stdin"
      BY <1>11, <2>1, <3>1 DEF Drained, SameLives, Streams
    <3>2. CASE files[s] # 0 /\ s = "stdout"
      <4> DEFINE f == files["stdout"]
      <4>1. kids' = [kids EXCEPT ![f].out = <<>>]
        BY <2>1, <3>2 DEF Drained
      <4> HIDE DEF f
      <4>2. SameLives /\ \A g \in Kid : kids'[g].out = IF g = f THEN <<>> ELSE kids[g].out
        BY <1>0, <1>11, <4>1, StoreOut, ZenonT(60)
      <4> QED
        BY <3>2, <4>2 DEF f
    <3>3. CASE files[s] # 0 /\ s = "stderr"
      <4>1. kids' = [kids EXCEPT ![files[s]].err = 0]
        BY <2>1, <3>3 DEF Drained
      <4>2. SameLives /\ SameBytes
        BY <1>0, <4>1, StoreFlag
      <4> QED
        BY <3>3, <4>2 DEF SameBytes
    <3> QED
      BY <3>1, <3>2, <3>3 DEF Streams
  <2>6. InOrder' /\ Newest' = Newest
    <3>1. \A g \in Kid : kids'[g].out = kids[g].out \/ kids'[g].out = <<>>
      BY <2>5
    <3> QED
      BY <1>0, <2>5, <3>1, OrderKept DEF SameLives
  <2>7. FilesOK'
    <3>1. files' = [t \in Streams |-> files'[t]] /\ files'["stdout"] \in {0, files["stdout"]}
      BY <1>0, <2>1 DEF FilesOK, Streams
    <3> QED
      BY <1>0, <2>6, <3>1, BoundsAssumption DEF FilesOK, InOrder
  <2>8. ASSUME NEW g \in Kid, kids'[g].out # <<>> \/ Alive(g)' PROVE Following(g)'
    <3>1. kids[g].out # <<>> /\ ~(s = "stdout" /\ g = files["stdout"])
      BY <2>3, <2>5, <2>8
    <3>2. Following(g)
      BY <1>0, <3>1
    <3>3. pc \in {"execd", "stdout"}
      BY <2>1, <2>2, <3>1, <3>2 DEF Following
    <3> QED
      BY <2>1, <3>3 DEF Following
  <2> QED
    BY <1>0, <2>4, <2>6, <2>7, <2>8 DEF SInv
\* Steps of a child, or a write to its stdin: main, the handler and the files
\* stand still, and nobody but the newest child gets output.
<1>14. ASSUME UNCHANGED <<handler, files, buf, torn>>, pc' = pc \/ (pc = "forward" /\ pc' = "poll"),
              pending => pending',
              \A g \in Kid : kids'[g].life = "none" <=> kids[g].life = "none",
              \A g \in Kid : kids'[g].life = "alive" => kids[g].life = "alive",
              \A g \in Kid : kids[g].life = "alive" => kids'[g].life = "alive" \/ pending',
              \A g \in Kid : kids'[g].out = kids[g].out \/ kids[g].life = "alive"
       PROVE  SInv'
  <2>1. InOrder' /\ Newest' = Newest
    <3>1. \A g \in Kid : g # Newest => kids[g].life # "alive"
      BY <1>0 DEF InOrder, Alive
    <3> QED
      BY <1>0, <1>14, <3>1, OrderKept
  <2>2. FilesOK' /\ Held'
    BY <1>0, <1>14, <2>1 DEF FilesOK, Held
  <2>3. ASSUME NEW g \in Kid, kids'[g].out # <<>> \/ Alive(g)' PROVE Following(g)'
    <3>1. kids[g].out # <<>> \/ Alive(g)
      BY <1>14, <2>3 DEF Alive
    <3>2. Following(g)
      BY <1>0, <3>1
    <3> QED
      BY <1>14, <3>2 DEF Following, Alive
  <2> QED
    BY <1>0, <2>1, <2>2, <2>3 DEF SInv
<1>15. CASE forward
  <2>1. SameLives /\ SameBytes
    BY <1>0, <1>15, StoreFlag DEF forward, SameLives, SameBytes
  <2> QED
    BY <1>14, <1>15, <2>1 DEF forward, Running, shell, aux, SameLives, SameBytes
<1>16. ASSUME NEW g \in Kid, child_write(g) PROVE SInv'
  <2>1. /\ SameLives /\ kids[g].life = "alive"
        /\ \A h \in Kid : h # g => kids'[h] = kids[h]
    BY <1>0, <1>16, StoreByte DEF child_write
  <2> QED
    BY <1>14, <1>16, <2>1 DEF child_write, Session, main, shell, aux, SameLives
<1>17. ASSUME NEW g \in Kid, child_error(g) \/ child_read(g) PROVE SInv'
  <2>1. SameLives /\ SameBytes
    BY <1>0, <1>17, StoreFlag DEF child_error, child_read
  <2> QED
    BY <1>14, <1>17, <2>1 DEF child_error, child_read, Session, main, shell, aux,
                              SameLives, SameBytes
<1>18. ASSUME NEW g \in Kid, proc_exit(g) PROVE SInv'
  <2>1. /\ \A h \in Kid : kids'[h].life = IF h = g THEN "dead" ELSE kids[h].life
        /\ SameBytes
    BY <1>0, <1>18, StoreLife DEF proc_exit, Life
  <2> QED
    BY <1>14, <1>18, <2>1 DEF proc_exit, Session, main, shell, aux, SameBytes
<1>19. ASSUME NEW g \in Kid, clean_process(g) PROVE SInv'
  <2>1. /\ \A h \in Kid : kids'[h].life = "alive" <=> kids[h].life = "alive"
        /\ \A h \in Kid : kids'[h].life = "none" <=> kids[h].life = "none"
        /\ SameBytes
    BY <1>0, <1>19, CleanLives
  <2> QED
    BY <1>14, <1>19, <2>1 DEF clean_process, Session, main, shell, aux, SameBytes
<1>20. ASSUME NEW s \in Streams, fopen(s) PROVE SInv'
  <2>1. /\ pc = s /\ handler = "none"
        /\ UNCHANGED <<handler, pending, kids, buf, torn>>
        /\ \/ pc' = pc /\ files' = files
           \/ pc' = After(s, "free") /\ files' = [files EXCEPT ![s] = Newest]
    BY <1>20 DEF fopen, Running, aux
  <2>2. InOrder' /\ Newest' = Newest
    BY <1>0, <2>1, OrderKept
  <2>3. FilesOK'
    <3>1. files' = [t \in Streams |-> files'[t]]
          /\ \/ pc' = pc /\ files'["stdout"] = files["stdout"]
             \/ /\ pc' = After(s, "free")
                /\ files'["stdout"] = IF s = "stdout" THEN Newest ELSE files["stdout"]
      BY <1>0, <2>1 DEF FilesOK, Streams
    <3> QED
      BY <1>0, <2>2, <3>1, BoundsAssumption DEF FilesOK, InOrder
  <2>4. Held'
    BY <1>0, <2>1 DEF Held, Streams
  <2>5. ASSUME NEW g \in Kid, kids'[g].out # <<>> \/ Alive(g)' PROVE Following(g)'
    <3>1. g = Newest /\ Following(g)
      BY <1>0, <1>1, <2>1, <2>5 DEF Alive
    <3>2. CASE pc' = pc /\ files' = files
      BY <2>1, <3>1, <3>2 DEF Following, Alive
    <3>3. CASE pc' = After(s, "free") /\ files' = [files EXCEPT ![s] = Newest]
      <4>1. files'["stdout"] = g
        BY <1>0, <2>1, <3>1, <3>3 DEF Following, FilesOK, Streams
      <4> QED
        BY <2>1, <3>3, <4>1 DEF Following, After, Streams
    <3> QED
      BY <2>1, <3>2, <3>3
  <2> QED
    BY <1>0, <2>2, <2>3, <2>4, <2>5 DEF SInv
<1>21. CASE execv
  <2>1. CASE UNCHANGED kids
    <3>1. \A g \in Kid : Following(g) => Following(g)'
      BY <1>21, <2>1 DEF execv, Running, shell, Following, Alive
    <3>2. Held'
      BY <1>0, <1>21 DEF execv, Running, aux, Held
    <3> QED
      BY <1>2, <1>21, <2>1, <3>1, <3>2 DEF execv, shell
  <2>2. CASE /\ Newest < MaxExecs /\ pc' = "execd"
             /\ kids' = [kids EXCEPT ![Newest + 1].life = "alive"]
    <3> DEFINE n == Newest
               f == n + 1
    <3>1. pc = "exec" /\ handler = "none" /\ ~pending /\ UNCHANGED <<handler, pending, files, buf, torn>>
      BY <1>21 DEF execv, Running, shell, aux
    <3>2. /\ n \in 0..MaxExecs /\ n < MaxExecs
          /\ \A g \in Kid : kids[g].life # "none" <=> g <= n
          /\ \A g \in Kid : g # n => kids[g].out = <<>>
      BY <1>0, <2>2 DEF InOrder
    <3>3. f \in 1..MaxExecs /\ n <= f /\ \A g \in Kid : g <= f <=> g <= n \/ g = f
      BY <3>2, BoundsAssumption DEF Kid
    <3>4. NoneAlive
      BY <1>0, <3>1 DEF IInv
    \* main has read the last child to the end.
    <3>5. \A g \in Kid : kids[g].out = <<>>
      BY <1>0, <3>1, <3>4 DEF Following, NoneAlive
    <3> HIDE DEF f, n
    <3>6. /\ \A g \in Kid : kids'[g].life = IF g = f THEN "alive" ELSE kids[g].life
          /\ SameBytes
      BY <1>0, <2>2, StoreLife DEF Life, f, n
    <3>7. \A g \in Kid : kids'[g].life # "none" <=> g <= f
      BY <3>2, <3>3, <3>6
    <3>8. Newest' = f
      <4> DEFINE k == kids'
      <4>1. f \in 0..MaxExecs /\ \A g \in Kid : k[g].life # "none" <=> g <= f
        BY <3>3, <3>7, BoundsAssumption
      <4> HIDE DEF k
      <4>2. Cardinality({g \in Kid : k[g].life # "none"}) = f
        BY <4>1, StartedCount
      <4> QED
        BY <4>2 DEF Newest, k
    <3>9. InOrder'
      <4>1. \A g \in Kid : g # f => kids'[g].out = <<>> /\ ~(kids'[g].life = "alive")
        BY <3>4, <3>5, <3>6 DEF SameBytes, NoneAlive, Alive
      <4> QED
        BY <3>3, <3>7, <3>8, <4>1, BoundsAssumption DEF InOrder, Alive
    <3>10. FilesOK' /\ Held'
      BY <1>0, <3>1, <3>2, <3>3, <3>8 DEF FilesOK, Held, n
    <3> QED
      BY <1>0, <2>2, <3>9, <3>10 DEF SInv, Following
  <2> QED
    BY <1>21, <2>1, <2>2 DEF execv
<1>22. CASE enter_heap \/ free
  <2>1. \A g \in Kid : Following(g) => Following(g)'
    BY <1>22 DEF enter_heap, free, Running, main, Following, Alive
  <2>2. Held'
    BY <1>0, <1>22 DEF enter_heap, free, Running, main, aux, Held
  <2> QED
    BY <1>2, <1>22, <2>1, <2>2 DEF enter_heap, free
<1> QED
  BY <1>3, <1>4, <1>5, <1>6, <1>7, <1>8, <1>9, <1>10, <1>12, <1>13, <1>15, <1>16, <1>17,
     <1>18, <1>19, <1>20, <1>21, <1>22, StreamNames DEF Next

-----------------------------------------------------------------------------
(* The bytes.  What is printed and what main holds is, each byte once, what *)
(* was read of the children's pipes, but for bytes behind a zero byte, and  *)
(* the pipes hold the rest in order.                                        *)

Bytes == Kid \X Nat

ReadBytes == UNION {{g} \X (1..BytesRead(g)) : g \in Kid}

Hidden(x) == \E j \in 1..x[2] : j \in kids[x[1]].nuls
Told(s) == /\ ToSet(s) \subseteq ReadBytes
           /\ \A x \in ReadBytes : x \in ToSet(s) \/ Hidden(x)

Sorted(s) == \A a, b \in DOMAIN s : a < b => Precedes(s[a], s[b])

PipesOK ==
    \A g \in Kid :
        /\ Len(kids[g].out) <= kids[g].wrote
        /\ \A i \in 1..Len(kids[g].out) : kids[g].out[i] = <<g, BytesRead(g) + i>>
        /\ kids[g].life = "none" => kids[g].wrote = 0

CInv ==
    /\ SInv
    /\ PipesOK
    /\ printed \in Seq(Bytes) /\ buf \in Seq(Bytes)
    /\ Told(Shown)
    /\ IsInjective(Shown)
    /\ ~torn => Sorted(Shown)

\* A position of a concatenation is one of the first or one of the second part.
LEMMA ConcatAt ==
  ASSUME NEW X, NEW a \in Seq(X), NEW b \in Seq(X)
  PROVE  /\ a \o b \in Seq(X) /\ Len(a \o b) = Len(a) + Len(b)
         /\ DOMAIN (a \o b) = 1..Len(a) + Len(b)
         /\ DOMAIN a = 1..Len(a) /\ DOMAIN b = 1..Len(b) /\ Len(a) \in Nat /\ Len(b) \in Nat
         /\ \A i \in 1..Len(a) : (a \o b)[i] = a[i]
         /\ \A j \in 1..Len(b) : (a \o b)[Len(a) + j] = b[j]
         /\ \A i \in 1..Len(a) + Len(b) : \/ i \in 1..Len(a)
                                          \/ i - Len(a) \in 1..Len(b) /\ i = Len(a) + (i - Len(a))
OBVIOUS

\* The members of two sequences laid end to end.
LEMMA ConcatSet ==
  ASSUME NEW X, NEW a \in Seq(X), NEW b \in Seq(X)
  PROVE  ToSet(a \o b) = ToSet(a) \cup ToSet(b)
<1> DEFINE c == a \o b
           m == Len(a)
           n == Len(b)
<1>1. /\ m \in Nat /\ n \in Nat
      /\ DOMAIN c = 1..m + n /\ DOMAIN a = 1..m /\ DOMAIN b = 1..n
      /\ \A i \in 1..m : c[i] = a[i]
      /\ \A j \in 1..n : c[m + j] = b[j]
      /\ \A i \in 1..m + n : i \in 1..m \/ (i - m \in 1..n /\ i = m + (i - m))
  BY ConcatAt
<1> HIDE DEF c, m, n
<1>2. ASSUME NEW x \in ToSet(c) PROVE x \in ToSet(a) \cup ToSet(b)
  <2>1. PICK i \in 1..m + n : x = c[i]
    BY <1>1 DEF ToSet
  <2>2. CASE i \in 1..m
    BY <1>1, <2>1, <2>2 DEF ToSet
  <2>3. CASE i - m \in 1..n /\ i = m + (i - m)
    <3> DEFINE j == i - m
    <3>1. j \in 1..n /\ c[m + j] = x
      BY <2>1, <2>3
    <3> HIDE DEF j
    <3> QED
      BY <1>1, <3>1 DEF ToSet
  <2> QED
    BY <1>1, <2>1, <2>2, <2>3
<1>3. ASSUME NEW x \in ToSet(a) PROVE x \in ToSet(c)
  BY <1>1, <1>3 DEF ToSet
<1>4. ASSUME NEW x \in ToSet(b) PROVE x \in ToSet(c)
  <2>1. PICK j \in 1..n : x = b[j]
    BY <1>1, <1>4 DEF ToSet
  <2> DEFINE i == m + j
  <2>2. i \in 1..m + n /\ c[i] = x
    BY <1>1, <2>1
  <2> HIDE DEF i
  <2> QED
    BY <1>1, <2>2 DEF ToSet
<1> QED
  BY <1>2, <1>3, <1>4 DEF c

\* Two sorted sequences laid end to end are sorted when every member of the
\* first comes before every member of the second.
LEMMA ConcatSorted ==
  ASSUME NEW X, NEW a \in Seq(X), NEW b \in Seq(X), Sorted(a), Sorted(b),
         \A x \in ToSet(a), y \in ToSet(b) : Precedes(x, y)
  PROVE  Sorted(a \o b)
<1> DEFINE c == a \o b
           m == Len(a)
           n == Len(b)
<1>1. /\ m \in Nat /\ n \in Nat
      /\ DOMAIN c = 1..m + n /\ DOMAIN a = 1..m /\ DOMAIN b = 1..n
      /\ \A i \in 1..m : c[i] = a[i]
      /\ \A j \in 1..n : c[m + j] = b[j]
      /\ \A i \in 1..m + n : i \in 1..m \/ (i - m \in 1..n /\ i = m + (i - m))
  BY ConcatAt
<1> HIDE DEF c, m, n
<1> SUFFICES ASSUME NEW i \in 1..m + n, NEW j \in 1..m + n, i < j
             PROVE  Precedes(c[i], c[j])
  BY <1>1 DEF Sorted, c
<1> DEFINE k == i - m
           l == j - m
<1>2. i \in 1..m \/ (k \in 1..n /\ i = m + k)
  BY <1>1
<1>3. j \in 1..m \/ (l \in 1..n /\ j = m + l)
  BY <1>1
<1> HIDE DEF k, l
<1>4. CASE i \in 1..m /\ j \in 1..m
  BY <1>1, <1>4 DEF Sorted
<1>5. CASE i \in 1..m /\ l \in 1..n /\ j = m + l
  BY <1>1, <1>5 DEF ToSet
<1>6. CASE k \in 1..n /\ i = m + k /\ l \in 1..n /\ j = m + l
  <2>1. k < l /\ c[i] = b[k] /\ c[j] = b[l]
    BY <1>1, <1>6
  <2> QED
    BY <1>1, <1>6, <2>1 DEF Sorted
<1>7. CASE k \in 1..n /\ i = m + k /\ j \in 1..m
  BY <1>1, <1>7
<1> QED
  BY <1>2, <1>3, <1>4, <1>5, <1>6, <1>7

\* Two sequences laid end to end repeat nothing exactly when neither does and
\* they share nothing.
LEMMA ConcatInjective ==
  ASSUME NEW X, NEW a \in Seq(X), NEW b \in Seq(X)
  PROVE  IsInjective(a \o b) <=>
            IsInjective(a) /\ IsInjective(b) /\ \A x \in ToSet(a) : x \notin ToSet(b)
<1> DEFINE c == a \o b
           m == Len(a)
           n == Len(b)
<1>1. /\ m \in Nat /\ n \in Nat
      /\ DOMAIN c = 1..m + n /\ DOMAIN a = 1..m /\ DOMAIN b = 1..n
      /\ \A i \in 1..m : c[i] = a[i]
      /\ \A j \in 1..n : c[m + j] = b[j]
      /\ \A i \in 1..m + n : i \in 1..m \/ (i - m \in 1..n /\ i = m + (i - m))
  BY ConcatAt
<1> HIDE DEF c, m, n
<1>2. ASSUME IsInjective(c)
      PROVE  IsInjective(a) /\ IsInjective(b) /\ \A x \in ToSet(a) : x \notin ToSet(b)
  <2>1. IsInjective(a)
    BY <1>1, <1>2 DEF IsInjective
  <2>2. ASSUME NEW i \in 1..n, NEW j \in 1..n, b[i] = b[j] PROVE i = j
    <3> DEFINE k == m + i
               l == m + j
    <3>1. k \in 1..m + n /\ l \in 1..m + n /\ c[k] = c[l]
      BY <1>1, <2>2
    <3> HIDE DEF k, l
    <3>2. k = l
      BY <1>1, <1>2, <3>1 DEF IsInjective
    <3> QED
      BY <1>1, <3>2 DEF k, l
  <2>3. ASSUME NEW i \in 1..m, NEW j \in 1..n, a[i] = b[j] PROVE FALSE
    <3> DEFINE l == m + j
    <3>1. i \in 1..m + n /\ l \in 1..m + n /\ c[i] = c[l] /\ i # l
      BY <1>1, <2>3
    <3> HIDE DEF l
    <3> QED
      BY <1>1, <1>2, <3>1 DEF IsInjective
  <2> QED
    BY <1>1, <2>1, <2>2, <2>3 DEF IsInjective, ToSet
<1>3. ASSUME IsInjective(a), IsInjective(b), \A x \in ToSet(a) : x \notin ToSet(b)
      PROVE  IsInjective(c)
  <2> SUFFICES ASSUME NEW i \in 1..m + n, NEW j \in 1..m + n, c[i] = c[j], i < j
               PROVE  FALSE
    <3>1. \A i, j \in 1..m + n : i < j \/ j < i \/ i = j
      BY <1>1
    <3> QED
      BY <1>1, <3>1 DEF IsInjective
  <2> DEFINE k == i - m
             l == j - m
  <2>1. i \in 1..m \/ (k \in 1..n /\ i = m + k)
    BY <1>1
  <2>2. j \in 1..m \/ (l \in 1..n /\ j = m + l)
    BY <1>1
  <2> HIDE DEF k, l
  <2>3. CASE i \in 1..m /\ j \in 1..m
    BY <1>1, <1>3, <2>3 DEF IsInjective
  <2>4. CASE i \in 1..m /\ l \in 1..n /\ j = m + l
    <3>1. a[i] \in ToSet(a) /\ b[l] \in ToSet(b)
      BY <1>1, <2>4 DEF ToSet
    <3> QED
      BY <1>1, <1>3, <2>4, <3>1
  <2>5. CASE k \in 1..n /\ i = m + k /\ l \in 1..n /\ j = m + l
    <3>1. k # l /\ b[k] = b[l]
      BY <1>1, <2>5
    <3> QED
      BY <1>1, <1>3, <2>5, <3>1 DEF IsInjective
  <2>6. CASE k \in 1..n /\ i = m + k /\ j \in 1..m
    BY <1>1, <2>6
  <2> QED
    BY <2>1, <2>2, <2>3, <2>4, <2>5, <2>6
<1> QED
  BY <1>2, <1>3 DEF c

\* Fresh bytes put between what is printed and what follows repeat nothing.
LEMMA PutBetween ==
  ASSUME NEW X, NEW a \in Seq(X), NEW b \in Seq(X), NEW o \in Seq(X),
         IsInjective(a \o b), IsInjective(o), \A x \in ToSet(o) : x \notin ToSet(a \o b)
  PROVE  /\ IsInjective((a \o o) \o b)
         /\ ToSet((a \o o) \o b) = ToSet(a \o b) \cup ToSet(o)
<1>1. a \o o \in Seq(X)
  OBVIOUS
<1>2. /\ ToSet(a \o b) = ToSet(a) \cup ToSet(b)
      /\ ToSet(a \o o) = ToSet(a) \cup ToSet(o)
      /\ ToSet((a \o o) \o b) = ToSet(a \o o) \cup ToSet(b)
  <2>1. ToSet(a \o b) = ToSet(a) \cup ToSet(b) /\ ToSet(a \o o) = ToSet(a) \cup ToSet(o)
    BY ConcatSet
  <2> DEFINE c == a \o o
  <2>2. c \in Seq(X)
    BY <1>1
  <2> HIDE DEF c
  <2>3. ToSet(c \o b) = ToSet(c) \cup ToSet(b)
    BY <2>2, ConcatSet
  <2> QED
    BY <2>1, <2>3 DEF c
<1>3. IsInjective(a) /\ IsInjective(b) /\ \A x \in ToSet(a) : x \notin ToSet(b)
  BY ConcatInjective
<1>4. IsInjective(a \o o)
  BY <1>2, <1>3, ConcatInjective
<1>5. IsInjective((a \o o) \o b)
  BY <1>1, <1>2, <1>3, <1>4, ConcatInjective
<1> QED
  BY <1>2, <1>5

\* The unread bytes of a child are the last ones it wrote, in order.
LEMMA PipeHolds ==
  ASSUME TypeOK, PipesOK, NEW f \in Kid
  PROVE  LET o == kids[f].out
         IN  /\ o \in Seq(Bytes) /\ kids[f].wrote \in Nat /\ BytesRead(f) \in Nat
             /\ BytesRead(f) <= kids[f].wrote
             /\ IsInjective(o) /\ Sorted(o)
             /\ ToSet(o) = {f} \X (BytesRead(f) + 1..kids[f].wrote)
<1> DEFINE o == kids[f].out
           w == kids[f].wrote
           r == BytesRead(f)
           n == Len(o)
<1>1. o \in Seq(Bytes) /\ w \in Nat
  BY DEF TypeOK, KidType, Bytes
<1>2. n \in Nat /\ DOMAIN o = 1..n /\ n <= w /\ \A i \in 1..n : o[i] = <<f, r + i>>
  BY <1>1 DEF PipesOK
<1>3. r = w - n
  BY DEF BytesRead
<1> HIDE DEF o, w, r, n
<1>4. r \in Nat /\ r <= w /\ w = r + n
  BY <1>1, <1>2, <1>3
<1>5. IsInjective(o)
  BY <1>2, <1>4 DEF IsInjective
<1>6. Sorted(o)
  <2> SUFFICES ASSUME NEW i \in 1..n, NEW j \in 1..n, i < j PROVE Precedes(o[i], o[j])
    BY <1>2 DEF Sorted
  <2> QED
    BY <1>2, <1>4 DEF Precedes
<1>7. ASSUME NEW x \in ToSet(o) PROVE x \in {f} \X (r + 1..w)
  <2>1. PICK i \in 1..n : x = o[i]
    BY <1>2, <1>7 DEF ToSet
  <2>2. x = <<f, r + i>> /\ r + i \in r + 1..w
    BY <1>2, <1>4, <2>1
  <2> QED
    BY <2>2
<1>8. ASSUME NEW j \in r + 1..w PROVE <<f, j>> \in ToSet(o)
  <2> DEFINE i == j - r
  <2>1. i \in 1..n /\ r + i = j
    BY <1>2, <1>4
  <2> HIDE DEF i
  <2>2. o[i] = <<f, j>>
    BY <1>2, <2>1
  <2> QED
    BY <1>2, <2>1, <2>2 DEF ToSet
<1>9. ToSet(o) = {f} \X (r + 1..w)
  BY <1>7, <1>8
<1> QED
  BY <1>1, <1>4, <1>5, <1>6, <1>9 DEF o, w, r

\* A read empties one pipe: its bytes are read then, and no other.
LEMMA ReadAll ==
  ASSUME TypeOK, PipesOK, NEW f \in Kid, SameLives,
         \A g \in Kid : /\ kids'[g].out = IF g = f THEN <<>> ELSE kids[g].out
                        /\ kids'[g].wrote = kids[g].wrote
  PROVE  /\ PipesOK'
         /\ ReadBytes' = ReadBytes \cup ToSet(kids[f].out)
         /\ \A x \in ToSet(kids[f].out) : x \notin ReadBytes
<1>1. \A g \in Kid : /\ kids[g].wrote \in Nat /\ BytesRead(g) \in Nat
                     /\ BytesRead(g) <= kids[g].wrote
                     /\ ToSet(kids[g].out) = {g} \X (BytesRead(g) + 1..kids[g].wrote)
  BY PipeHolds
<1>2. Len(<<>>) = 0
  OBVIOUS
<1>3. \A g \in Kid : BytesRead(g)' = IF g = f THEN kids[f].wrote ELSE BytesRead(g)
  BY <1>1, <1>2 DEF BytesRead
<1>4. PipesOK'
  <2> SUFFICES ASSUME NEW g \in Kid
               PROVE  /\ Len(kids'[g].out) <= kids'[g].wrote
                      /\ \A i \in 1..Len(kids'[g].out) : kids'[g].out[i] = <<g, BytesRead(g)' + i>>
                      /\ kids'[g].life = "none" => kids'[g].wrote = 0
    BY DEF PipesOK
  <2>1. CASE g = f
    BY <1>1, <1>2, <2>1 DEF PipesOK, SameLives
  <2>2. CASE g # f
    BY <1>3, <2>2 DEF PipesOK, SameLives
  <2> QED
    BY <2>1, <2>2
<1>5. ReadBytes' = ReadBytes \cup ToSet(kids[f].out)
  <2>1. ReadBytes' = UNION {{g} \X (1..BytesRead(g)') : g \in Kid}
    BY DEF ReadBytes
  <2>2. ASSUME NEW g \in Kid, NEW i \in 1..BytesRead(g)'
        PROVE  <<g, i>> \in ReadBytes \cup ToSet(kids[f].out)
    <3>1. CASE g = f
      <4>1. i \in 1..BytesRead(f) \/ i \in BytesRead(f) + 1..kids[f].wrote
        BY <1>1, <1>3, <2>2, <3>1
      <4> QED
        BY <1>1, <3>1, <4>1 DEF ReadBytes
    <3>2. CASE g # f
      BY <1>3, <2>2, <3>2 DEF ReadBytes
    <3> QED
      BY <3>1, <3>2
  <2>3. ASSUME NEW g \in Kid, NEW i \in 1..BytesRead(g)
        PROVE  i \in 1..BytesRead(g)'
    BY <1>1, <1>3
  <2>4. ASSUME NEW i \in BytesRead(f) + 1..kids[f].wrote
        PROVE  i \in 1..BytesRead(f)'
    BY <1>1, <1>3
  <2>5. ReadBytes' \subseteq ReadBytes \cup ToSet(kids[f].out)
    BY <2>1, <2>2
  <2>6. ReadBytes \subseteq ReadBytes'
    BY <2>1, <2>3 DEF ReadBytes
  <2>7. ToSet(kids[f].out) \subseteq ReadBytes'
    BY <1>1, <2>1, <2>4
  <2> QED
    BY <2>5, <2>6, <2>7
<1>6. \A x \in ToSet(kids[f].out) : x \notin ReadBytes
  <2> SUFFICES ASSUME NEW i \in BytesRead(f) + 1..kids[f].wrote,
                      NEW g \in Kid, NEW j \in 1..BytesRead(g), <<f, i>> = <<g, j>>
               PROVE  FALSE
    BY <1>1 DEF ReadBytes
  <2> QED
    BY <1>1
<1> QED
  BY <1>4, <1>5, <1>6

NulsKept == \A g \in Kid : kids[g].nuls \subseteq kids'[g].nuls

\* Steps that read and write no pipe.
LEMMA SamePipes ==
  ASSUME PipesOK, SameBytes, \A g \in Kid : kids'[g].life = "none" => kids[g].life = "none"
  PROVE  PipesOK' /\ ReadBytes' = ReadBytes /\ NulsKept
<1>1. \A g \in Kid : BytesRead(g)' = BytesRead(g)
  BY DEF BytesRead, SameBytes
<1> QED
  BY <1>1 DEF PipesOK, ReadBytes, SameBytes, NulsKept

\* A child writes a byte: it is the last of its pipe and nobody has read it.
LEMMA ByteWritten ==
  ASSUME TypeOK, PipesOK, NEW g \in Kid, child_write(g)
  PROVE  PipesOK' /\ ReadBytes' = ReadBytes /\ NulsKept
<1>0. CASE kids' = kids
  BY <1>0, SamePipes DEF SameBytes, NulsKept
<1> SUFFICES ASSUME kids' # kids PROVE PipesOK' /\ ReadBytes' = ReadBytes /\ NulsKept
  BY <1>0
<1> DEFINE o == kids[g].out
           w == kids[g].wrote
           n == Len(o)
<1>1. /\ SameLives /\ kids[g].nuls \subseteq kids'[g].nuls
      /\ \A h \in Kid : h # g => kids'[h] = kids[h]
      /\ kids'[g].out = Append(o, <<g, w + 1>>) /\ kids'[g].wrote = w + 1
  BY StoreByte DEF Byte, Took
<1>2. o \in Seq(Bytes) /\ w \in Nat
  BY DEF TypeOK, KidType, Bytes
<1>3. /\ n \in Nat /\ n <= w /\ \A i \in 1..n : o[i] = <<g, BytesRead(g) + i>>
      /\ BytesRead(g) = w - n
  BY <1>2 DEF PipesOK, BytesRead
<1>4. /\ Len(Append(o, <<g, w + 1>>)) = n + 1
      /\ \A i \in 1..n : Append(o, <<g, w + 1>>)[i] = o[i]
      /\ Append(o, <<g, w + 1>>)[n + 1] = <<g, w + 1>>
  BY <1>2
<1> HIDE DEF o, w, n
<1>5. BytesRead(g)' = BytesRead(g)
  <2>1. BytesRead(g)' = (w + 1) - (n + 1)
    BY <1>1, <1>4 DEF BytesRead
  <2> QED
    BY <1>2, <1>3, <2>1
<1>6. \A h \in Kid : BytesRead(h)' = BytesRead(h)
  BY <1>1, <1>5 DEF BytesRead
<1>7. /\ Len(kids'[g].out) <= kids'[g].wrote
      /\ \A i \in 1..Len(kids'[g].out) : kids'[g].out[i] = <<g, BytesRead(g)' + i>>
  <2>1. n + 1 <= w + 1
    BY <1>2, <1>3
  <2>2. ASSUME NEW i \in 1..n + 1
        PROVE  Append(o, <<g, w + 1>>)[i] = <<g, BytesRead(g) + i>>
    <3>1. CASE i \in 1..n
      BY <1>3, <1>4, <3>1
    <3>2. CASE i = n + 1
      <4>1. BytesRead(g) + i = w + 1
        BY <1>2, <1>3, <3>2
      <4> QED
        BY <1>4, <3>2, <4>1
    <3>3. n \in Nat
      BY <1>3
    <3>4. i \in 1..n \/ i = n + 1
      BY <3>3
    <3> QED
      BY <3>1, <3>2, <3>4
  <2> QED
    BY <1>1, <1>4, <1>5, <2>1, <2>2
<1>8. kids'[g].life # "none"
  BY <1>1 DEF child_write, SameLives
<1>9. PipesOK'
  <2> SUFFICES ASSUME NEW h \in Kid, h # g
               PROVE  /\ Len(kids'[h].out) <= kids'[h].wrote
                      /\ \A i \in 1..Len(kids'[h].out) : kids'[h].out[i] = <<h, BytesRead(h)' + i>>
                      /\ kids'[h].life = "none" => kids'[h].wrote = 0
    BY <1>7, <1>8 DEF PipesOK
  <2> QED
    BY <1>1, <1>6 DEF PipesOK
<1>10. ReadBytes' = ReadBytes
  BY <1>6 DEF ReadBytes
<1>11. NulsKept
  BY <1>1 DEF NulsKept
<1> QED
  BY <1>9, <1>10, <1>11

\* All that was read before comes before what is in a pipe now.
LEMMA ReadBefore ==
  ASSUME TypeOK, SInv, PipesOK, NEW f \in Kid, NEW x \in ReadBytes, NEW y \in ToSet(kids[f].out)
  PROVE  Precedes(x, y)
<1>1. \A g \in Kid : /\ kids[g].wrote \in Nat /\ BytesRead(g) \in Nat
                     /\ BytesRead(g) <= kids[g].wrote
                     /\ ToSet(kids[g].out) = {g} \X (BytesRead(g) + 1..kids[g].wrote)
  BY PipeHolds
<1>2. PICK g \in Kid : \E i \in 1..BytesRead(g) : x = <<g, i>>
  BY DEF ReadBytes
<1>3. PICK i \in 1..BytesRead(g) : x = <<g, i>>
  BY <1>2
<1>4. PICK j \in BytesRead(f) + 1..kids[f].wrote : y = <<f, j>>
  BY <1>1
<1>5. f = Newest
  <2>1. kids[f].out # <<>>
    BY DEF ToSet
  <2> QED
    BY <2>1 DEF SInv, InOrder
<1>6. g <= f
  <2>1. kids[g].wrote # 0
    BY <1>1, <1>3
  <2> QED
    BY <1>5, <2>1 DEF PipesOK, SInv, InOrder
<1>7. g < f \/ (g = f /\ i < j)
  <2>1. g \in Int /\ f \in Int
    BY BoundsAssumption DEF Kid
  <2>2. CASE g = f
    BY <1>1, <1>3, <1>4, <2>2
  <2> QED
    BY <1>6, <2>1, <2>2
<1> QED
  BY <1>3, <1>4, <1>7 DEF Precedes

\* A fresh shell has printed nothing and its pipes are empty.
LEMMA InitCInv == Init => CInv
<1> SUFFICES ASSUME Init PROVE CInv
  OBVIOUS
<1>1. \A g \in Kid : kids[g].out = <<>> /\ kids[g].wrote = 0
  BY DEF Init, Child
<1>2. PipesOK
  BY <1>1 DEF PipesOK
<1>3. printed = <<>> /\ buf = <<>> /\ Shown = <<>> /\ <<>> \in Seq(Bytes)
  BY DEF Init, Shown
<1>4. ReadBytes = {}
  <2>1. \A g \in Kid : BytesRead(g) = 0
    BY <1>1 DEF BytesRead
  <2> QED
    BY <2>1 DEF ReadBytes
<1>5. ToSet(<<>>) = {} /\ IsInjective(<<>>) /\ Sorted(<<>>)
  BY DEF ToSet, IsInjective, Sorted
<1> QED
  BY <1>2, <1>3, <1>4, <1>5, InitSInv DEF CInv, Told

\* A step that reads no pipe and shows nothing more.
LEMMA SameShown ==
  ASSUME CInv, SInv', PipesOK', ReadBytes' = ReadBytes, NulsKept, printed' \in Seq(Bytes),
         buf' \in Seq(Bytes), Shown' = Shown, torn => torn'
  PROVE  CInv'
<1> DEFINE s == Shown
           T == ToSet(s)
<1>1. T \subseteq ReadBytes /\ \A x \in ReadBytes : x \in T \/ Hidden(x)
  BY DEF CInv, Told
<1>2. IsInjective(s) /\ (~torn => Sorted(s))
  BY DEF CInv
<1>3. Shown' = s /\ ToSet(Shown)' = T
  BY DEF ToSet
<1>4. \A x \in ReadBytes : Hidden(x) => Hidden(x)'
  BY DEF ReadBytes, Hidden, NulsKept
<1> HIDE DEF s, T
<1>5. Told(Shown)'
  <2>1. ToSet(Shown)' \subseteq ReadBytes'
    BY <1>1, <1>3
  <2>2. \A x \in ReadBytes' : x \in ToSet(Shown)' \/ Hidden(x)'
    BY <1>1, <1>3, <1>4
  <2> QED
    BY <2>1, <2>2 DEF Told
<1>6. IsInjective(Shown)' /\ (~torn' => Sorted(Shown)')
  BY <1>2, <1>3 DEF IsInjective, Sorted
<1> QED
  BY <1>5, <1>6 DEF CInv

\* What is taken of the unread bytes: all of them, or those before a zero byte.
LEMMA TextPart ==
  ASSUME TypeOK, PipesOK, NEW f \in Kid, NEW n \in 0..Len(kids[f].out),
         n = Len(kids[f].out) \/ IsText(f, n)
  PROVE  LET o == kids[f].out
             t == SubSeq(o, 1, n)
         IN  /\ t \in Seq(Bytes) /\ IsInjective(t) /\ Sorted(t)
             /\ ToSet(t) \subseteq ToSet(o)
             /\ \A x \in ToSet(o) : x \in ToSet(t) \/ Hidden(x)
<1> DEFINE o == kids[f].out
           t == SubSeq(o, 1, n)
           r == BytesRead(f)
<1>1. o \in Seq(Bytes) /\ r \in Nat /\ IsInjective(o) /\ Sorted(o)
  BY PipeHolds
<1>2. \A i \in 1..Len(o) : o[i] = <<f, r + i>>
  BY DEF PipesOK
<1>3. n < Len(o) => o[n + 1][2] \in kids[f].nuls
  BY <1>1 DEF IsText
<1> HIDE DEF o, r
<1>4. /\ Len(o) \in Nat /\ DOMAIN o = 1..Len(o) /\ n \in 0..Len(o)
      /\ t \in Seq(Bytes) /\ DOMAIN t = 1..n /\ \A i \in 1..n : t[i] = o[i]
  <2>1. n \in 0..Len(o)
    BY DEF o
  <2> QED
    BY <1>1, <2>1
<1> HIDE DEF t
<1>5. IsInjective(t)
  BY <1>1, <1>4 DEF IsInjective
<1>6. Sorted(t)
  BY <1>1, <1>4 DEF Sorted
<1>7. ToSet(t) \subseteq ToSet(o)
  BY <1>4 DEF ToSet
<1>8. ASSUME NEW x \in ToSet(o), x \notin ToSet(t) PROVE Hidden(x)
  <2>1. PICK i \in 1..Len(o) : x = o[i]
    BY <1>4, <1>8 DEF ToSet
  <2>2. i \notin 1..n
    BY <1>4, <1>8, <2>1 DEF ToSet
  <2>3. n + 1 \in 1..Len(o) /\ n + 1 <= i /\ n < Len(o)
    BY <1>4, <2>2
  <2>4. x[1] = f /\ x[2] = r + i /\ o[n + 1][2] = r + (n + 1)
    BY <1>2, <2>1, <2>3
  <2>5. r + (n + 1) \in kids[f].nuls /\ r + (n + 1) \in 1..r + i
    BY <1>1, <1>3, <1>4, <2>3, <2>4
  <2> QED
    BY <2>4, <2>5 DEF Hidden
<1> QED
  BY <1>4, <1>5, <1>6, <1>7, <1>8 DEF o, t

\* A read of the stdout pipe of a child, by main or by the handler: the bytes
\* taken come after what is printed and before what main holds.
LEMMA ReadShown ==
  ASSUME CInv, SInv', NEW f \in Kid, kids' = [kids EXCEPT ![f].out = <<>>],
         NEW n \in 0..Len(kids[f].out), n = Len(kids[f].out) \/ IsText(f, n),
         printed' \in Seq(Bytes), buf' \in Seq(Bytes),
         Shown' = (printed \o SubSeq(kids[f].out, 1, n)) \o buf, torn' = torn, ~torn => buf = <<>>
  PROVE  CInv'
<1> DEFINE o == kids[f].out
           t == SubSeq(o, 1, n)
           s == (printed \o t) \o buf
<1>1. TypeOK /\ SInv /\ PipesOK /\ printed \in Seq(Bytes) /\ buf \in Seq(Bytes)
  BY DEF CInv, SInv, IInv
<1>2. /\ t \in Seq(Bytes) /\ IsInjective(t) /\ Sorted(t) /\ ToSet(t) \subseteq ToSet(o)
      /\ \A x \in ToSet(o) : x \in ToSet(t) \/ Hidden(x)
  BY <1>1, TextPart
<1>3. /\ SameLives /\ \A g \in Kid : kids'[g].nuls = kids[g].nuls
      /\ \A g \in Kid : /\ kids'[g].out = IF g = f THEN <<>> ELSE kids[g].out
                        /\ kids'[g].wrote = kids[g].wrote
  <2>1. <<>> \in Seq(Kid \X Nat)
    OBVIOUS
  <2> QED
    BY <1>1, <2>1, StoreOut
<1>4. /\ PipesOK' /\ ReadBytes' = ReadBytes \cup ToSet(o)
      /\ \A x \in ToSet(o) : x \notin ReadBytes
  BY <1>1, <1>3, ReadAll
<1>5. \A x \in ReadBytes, y \in ToSet(o) : Precedes(x, y)
  BY <1>1, ReadBefore
<1>6. /\ ToSet(printed \o buf) \subseteq ReadBytes /\ IsInjective(printed \o buf)
      /\ \A x \in ReadBytes : x \in ToSet(printed \o buf) \/ Hidden(x)
  BY DEF CInv, Shown, Told
<1>7. Shown' = s
  OBVIOUS
<1>8. \A x \in ReadBytes \cup ToSet(o) : Hidden(x) => Hidden(x)'
  <2>1. \A x \in ReadBytes \cup ToSet(o) : x[1] \in Kid
    <3>1. ToSet(o) = {f} \X (BytesRead(f) + 1..kids[f].wrote)
      BY <1>1, PipeHolds
    <3> HIDE DEF o
    <3> QED
      BY <3>1 DEF ReadBytes
  <2> HIDE DEF o
  <2> QED
    BY <1>3, <2>1 DEF Hidden
<1> HIDE DEF o, t
<1>9. /\ IsInjective((printed \o t) \o buf)
      /\ ToSet((printed \o t) \o buf) = ToSet(printed \o buf) \cup ToSet(t)
  <2>1. \A x \in ToSet(t) : x \notin ToSet(printed \o buf)
    BY <1>2, <1>4, <1>6
  <2> QED
    BY <1>1, <1>2, <1>6, <2>1, PutBetween
<1>10. ASSUME ~torn PROVE Sorted(s)
  <2>1. printed \o buf = printed /\ s = printed \o t
    BY <1>1, <1>2, <1>10
  <2>2. Sorted(printed) /\ ToSet(printed) \subseteq ReadBytes
    BY <1>6, <1>10, <2>1 DEF CInv, Shown
  <2>3. Sorted(printed \o t)
    BY <1>1, <1>2, <1>5, <2>2, ConcatSorted
  <2> QED
    BY <2>1, <2>3
<1>11. ToSet(s) \subseteq ReadBytes' /\ \A x \in ReadBytes' : x \in ToSet(s) \/ Hidden(x)'
  BY <1>2, <1>4, <1>6, <1>8, <1>9
<1> HIDE DEF s
<1>12. Told(Shown)'
  BY <1>7, <1>11 DEF Told, ToSet
<1>13. IsInjective(Shown)' /\ (~torn' => Sorted(Shown)')
  BY <1>7, <1>9, <1>10 DEF IsInjective, Sorted, s
<1> QED
  BY <1>4, <1>12, <1>13 DEF CInv

\* CInv is inductive: only poll and the handler's drain of stdout read bytes,
\* and print moves one byte from what main holds to what is printed.
LEMMA NextCInv == CInv /\ [Next]_vars => CInv'
<1> SUFFICES ASSUME CInv, [Next]_vars PROVE CInv'
  OBVIOUS
<1>0. /\ TypeOK /\ SInv /\ SInv' /\ InOrder /\ FilesOK /\ Held /\ PipesOK
      /\ printed \in Seq(Bytes) /\ buf \in Seq(Bytes)
  BY NextSInv DEF CInv, SInv, IInv
\* Steps that read no pipe, print nothing and hold the same.
<1>1. ASSUME UNCHANGED <<printed, buf>>, torn => torn', SameBytes,
             \A g \in Kid : kids'[g].life = "none" => kids[g].life = "none"
      PROVE  CInv'
  BY <1>0, <1>1, SamePipes, SameShown DEF Shown
<1>2. ASSUME UNCHANGED <<printed, buf, kids>>, torn => torn' PROVE CInv'
  BY <1>1, <1>2 DEF SameBytes
<1>3. ASSUME UNCHANGED <<printed, buf, torn>>, SameLives, SameBytes PROVE CInv'
  BY <1>1, <1>3 DEF SameLives
<1>4. CASE \/ input \/ line \/ execd \/ take_signal \/ sigexit \/ type
           \/ enter_heap \/ free \/ \E s \in Streams : fopen(s)
  BY <1>2, <1>4 DEF input, line, execd, take_signal, sigexit, type, enter_heap, free, fopen,
                    main, shell, aux
<1>5. CASE UNCHANGED vars
  BY <1>2, <1>5 DEF vars
<1>6. CASE poll
  <2> DEFINE f == files["stdout"]
  <2>1. pc = "poll" /\ UNCHANGED <<printed, torn>>
    BY <1>6 DEF poll, Running, aux
  <2>2. CASE f = 0
    BY <1>2, <1>6, <2>1, <2>2 DEF poll
  <2>3. CASE f # 0
    <3>1. f \in Kid
      BY <1>0, <2>3, BoundsAssumption DEF FilesOK, InOrder, Kid
    <3>2. buf' = kids[f].out /\ kids' = [kids EXCEPT ![f].out = <<>>] /\ buf = <<>>
      BY <1>0, <1>6, <2>1, <2>3 DEF poll, Held
    <3> HIDE DEF f
    <3>3. kids[f].out \in Seq(Bytes)
      BY <1>0, <3>1, PipeHolds
    <3> DEFINE n == Len(kids[f].out)
    <3>4. Shown' = (printed \o SubSeq(kids[f].out, 1, n)) \o buf
      <4> DEFINE o == kids[f].out
      <4>1. o \in Seq(Bytes) /\ (printed \o SubSeq(o, 1, Len(o))) \o <<>> = printed \o o
        <5>1. o \in Seq(Bytes)
          BY <3>3
        <5> HIDE DEF o
        <5>2. SubSeq(o, 1, Len(o)) = o
          BY <5>1
        <5>3. (printed \o o) \o <<>> = printed \o o
          BY <1>0, <5>1
        <5> QED
          BY <5>1, <5>2, <5>3
      <4> HIDE DEF o
      <4>2. buf' = o
        BY <3>2 DEF o
      <4> QED
        BY <2>1, <3>2, <4>1, <4>2 DEF Shown, o
    <3>5. n \in 0..Len(kids[f].out) /\ n = Len(kids[f].out)
      BY <3>3
    <3>6. ~torn => buf = <<>>
      BY <3>2
    <3>7. buf' \in Seq(Bytes) /\ printed' \in Seq(Bytes) /\ torn' = torn
      BY <1>0, <2>1, <3>2, <3>3
    <3> HIDE DEF n
    <3> QED
      BY <1>0, <3>1, <3>2, <3>4, <3>5, <3>6, <3>7, ReadShown
  <2> QED
    BY <2>2, <2>3
<1>7. CASE print
  <2>1. UNCHANGED <<kids, torn>>
    BY <1>7 DEF print, aux
  <2>2. CASE buf = <<>>
    BY <1>2, <1>7, <2>1, <2>2 DEF print
  <2>3. CASE buf # <<>>
    <3>1. printed' = Append(printed, Head(buf)) /\ buf' = Tail(buf)
      BY <1>7, <2>3 DEF print
    <3>2. /\ printed' \in Seq(Bytes) /\ buf' \in Seq(Bytes)
          /\ printed' \o buf' = printed \o buf
      BY <1>0, <2>3, <3>1
    <3>3. PipesOK' /\ ReadBytes' = ReadBytes /\ NulsKept
      BY <1>0, <2>1, SamePipes DEF SameBytes
    <3> QED
      BY <1>0, <2>1, <3>2, <3>3, SameShown DEF Shown
  <2> QED
    BY <2>2, <2>3
<1>8. ASSUME NEW s \in Streams, drain(s) PROVE CInv'
  <2> DEFINE f == files[s]
  <2>1. UNCHANGED <<buf, torn>> /\ handler = s /\ kids' = Drained(s)
    BY <1>8 DEF drain, main, aux
  <2>2. CASE s = "stdout" /\ f # 0
    <3>1. f \in Kid
      BY <1>0, <2>2, BoundsAssumption DEF FilesOK, InOrder, Kid
    <3>2. /\ kids' = [kids EXCEPT ![f].out = <<>>]
          /\ \E n \in 0..Len(kids[f].out) :
                IsText(f, n) /\ printed' = printed \o SubSeq(kids[f].out, 1, n)
      BY <1>8, <2>1, <2>2 DEF Drained, drain
    <3>3. ~torn => buf = <<>>
      BY <1>0, <2>1, <2>2 DEF Held
    <3> HIDE DEF f
    <3>4. PICK n \in 0..Len(kids[f].out) :
             IsText(f, n) /\ printed' = printed \o SubSeq(kids[f].out, 1, n)
      BY <3>2
    <3>5. printed' \in Seq(Bytes)
      <4> DEFINE t == SubSeq(kids[f].out, 1, n)
      <4>1. t \in Seq(Bytes)
        BY <1>0, <3>1, <3>4, TextPart
      <4>2. printed' = printed \o t
        BY <3>4
      <4> HIDE DEF t
      <4> QED
        BY <1>0, <4>1, <4>2
    <3>6. Shown' = (printed \o SubSeq(kids[f].out, 1, n)) \o buf
      BY <2>1, <3>4 DEF Shown
    <3>7. buf' \in Seq(Bytes) /\ torn' = torn
      BY <1>0, <2>1
    <3> QED
      BY <1>0, <3>1, <3>2, <3>3, <3>4, <3>5, <3>6, <3>7, ReadShown
  <2>3. CASE ~(s = "stdout" /\ f # 0)
    <3>1. printed' = printed
      BY <1>8, <2>3 DEF drain
    <3>2. CASE f = 0 \/ s = "stdin"
      BY <1>2, <2>1, <2>3, <3>1, <3>2 DEF Drained
    <3>3. CASE f # 0 /\ s = "stderr"
      <4>1. kids' = [kids EXCEPT ![files[s]].err = 0]
        BY <2>1, <3>3 DEF Drained
      <4>2. SameLives /\ SameBytes
        BY <1>0, <4>1, StoreFlag
      <4> QED
        BY <1>3, <2>1, <3>1, <4>2
    <3> QED
      BY <2>3, <3>2, <3>3 DEF Streams
  <2> QED
    BY <2>2, <2>3
<1>9. CASE forward
  <2>1. SameLives /\ SameBytes
    BY <1>0, <1>9, StoreFlag DEF forward, SameLives, SameBytes
  <2> QED
    BY <1>3, <1>9, <2>1 DEF forward, aux
<1>10. CASE execv
  <2>1. CASE UNCHANGED kids
    BY <1>2, <1>10, <2>1 DEF execv, aux
  <2>2. CASE kids' = [kids EXCEPT ![Newest + 1].life = "alive"]
    <3> DEFINE n == Newest + 1
    <3>1. kids' = [kids EXCEPT ![n].life = "alive"]
      BY <2>2
    <3> HIDE DEF n
    <3>2. /\ \A g \in Kid : kids'[g].life = IF g = n THEN "alive" ELSE kids[g].life
          /\ SameBytes
      BY <1>0, <3>1, StoreLife DEF Life
    <3> QED
      BY <1>1, <1>10, <3>2 DEF execv, aux
  <2> QED
    BY <1>10, <2>1, <2>2 DEF execv
<1>11. ASSUME NEW g \in Kid, child_write(g) PROVE CInv'
  <2>1. UNCHANGED <<printed, buf, torn>>
    BY <1>11 DEF child_write, Session, main, aux
  <2> QED
    BY <1>0, <1>11, <2>1, ByteWritten, SameShown DEF Shown
<1>12. ASSUME NEW g \in Kid, child_error(g) \/ child_read(g) PROVE CInv'
  <2>1. SameLives /\ SameBytes
    BY <1>0, <1>12, StoreFlag DEF child_error, child_read
  <2> QED
    BY <1>3, <1>12, <2>1 DEF child_error, child_read, Session, main, aux
<1>13. ASSUME NEW g \in Kid, proc_exit(g) PROVE CInv'
  <2>1. /\ \A h \in Kid : kids'[h].life = IF h = g THEN "dead" ELSE kids[h].life
        /\ SameBytes
    BY <1>0, <1>13, StoreLife DEF proc_exit, Life
  <2> QED
    BY <1>1, <1>13, <2>1 DEF proc_exit, Session, main, aux
<1>14. ASSUME NEW g \in Kid, clean_process(g) PROVE CInv'
  <2>1. /\ \A h \in Kid : kids'[h].life = "none" <=> kids[h].life = "none"
        /\ SameBytes
    BY <1>0, <1>14, CleanLives
  <2> QED
    BY <1>1, <1>14, <2>1 DEF clean_process, Session, main, aux
<1> QED
  BY <1>4, <1>5, <1>6, <1>7, <1>8, <1>9, <1>10, <1>11, <1>12, <1>13, <1>14, StreamNames
     DEF Next

\* What main and the handler read of the children's pipes, the shell holds or
\* has printed, each byte once, but for bytes behind a zero byte; and in the
\* order of writing unless the handler ran while main held bytes not yet
\* printed: for every size of the pipes, which drop what they cannot take.
THEOREM SpecOutputExact == Spec => []OutputExact
<1>1. CInv => OutputExact
  <2> SUFFICES ASSUME CInv PROVE OutputExact
    OBVIOUS
  <2>1. TypeOK /\ SInv /\ InOrder /\ PipesOK
    BY DEF CInv, SInv, IInv
  <2>2. \A g \in Kid : \A i \in DOMAIN kids[g].out : kids[g].out[i] = <<g, BytesRead(g) + i>>
    <3> SUFFICES ASSUME NEW g \in Kid
                 PROVE  \A i \in DOMAIN kids[g].out : kids[g].out[i] = <<g, BytesRead(g) + i>>
      OBVIOUS
    <3>1. kids[g].out \in Seq(Kid \X Nat)
      BY <2>1 DEF TypeOK, KidType
    <3>2. DOMAIN kids[g].out = 1..Len(kids[g].out)
      BY <3>1
    <3> QED
      BY <2>1, <3>2 DEF PipesOK
  <2>3. /\ ToSet(Shown) \subseteq UNION {{g} \X (1..BytesRead(g)) : g \in Kid}
        /\ \A g \in Kid : \A i \in 1..BytesRead(g) :
              <<g, i>> \in ToSet(Shown) \/ \E j \in 1..i : j \in kids[g].nuls
    <3>1. Told(Shown)
      BY DEF CInv
    <3>2. ASSUME NEW g \in Kid, NEW i \in 1..BytesRead(g), <<g, i>> \notin ToSet(Shown)
          PROVE  \E j \in 1..i : j \in kids[g].nuls
      <4>1. <<g, i>> \in ReadBytes
        BY DEF ReadBytes
      <4>2. Hidden(<<g, i>>)
        BY <3>1, <3>2, <4>1 DEF Told
      <4> QED
        BY <4>2 DEF Hidden
    <3> QED
      BY <3>1, <3>2 DEF Told, ReadBytes
  <2>4. ~torn => \A a, b \in DOMAIN Shown : a < b => Precedes(Shown[a], Shown[b])
    BY DEF CInv, Sorted
  <2>5. ASSUME NEW g \in Kid, NEW h \in Kid, g < h, BytesRead(h) > 0
        PROVE  kids[g].out = <<>>
    <3>1. kids[h].wrote # 0
      <4>1. BytesRead(h) \in Nat /\ BytesRead(h) <= kids[h].wrote /\ kids[h].wrote \in Nat
        BY <2>1, PipeHolds
      <4> QED
        BY <2>5, <4>1
    <3>2. h <= Newest
      BY <2>1, <3>1 DEF PipesOK, InOrder
    <3>3. g # Newest
      BY <2>1, <2>5, <3>2, BoundsAssumption DEF InOrder, Kid
    <3> QED
      BY <2>1, <3>3 DEF InOrder
  <2> QED
    BY <2>2, <2>3, <2>4, <2>5 DEF OutputExact, CInv
<1> QED
  BY <1>1, InitCInv, NextCInv, PTL DEF Spec
=============================================================================
