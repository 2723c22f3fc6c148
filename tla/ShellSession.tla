---------------------------- MODULE ShellSession ----------------------------
(***************************************************************************)
(* The shell and the programs it starts (os/usr/shell/main.c): its loop,   *)
(* its SIG_CHILD handler, the streams in /proc/<pid> it opens of the last  *)
(* child, and clean_process, which takes the streams away again.           *)
(*                                                                         *)
(* Children are numbered as they are started.  The shell is one process:   *)
(* the handler suspends main, and as a child that dies is the running      *)
(* process, main does nothing between the death and the handler.  While it *)
(* opens the streams and frees its arguments main is inside malloc and     *)
(* free at times, and holds the lock that the handler's fclose wants.      *)
(***************************************************************************)
EXTENDS Integers, SequencesExt, FiniteSets

CONSTANTS
    MaxExecs,  \* bound: programs started
    MaxOut,    \* bound: bytes of a child that its stdout takes
    Cap,       \* bytes that stdout holds, one less than its size (proc.c:344)
    MaxLines   \* bound: lines typed

ASSUME BoundsAssumption == MaxExecs \in Nat /\ MaxOut \in Nat /\ Cap \in Nat

VARIABLES
    pc,        \* where main is
    locked,    \* main holds the lock of its heap
    handler,   \* where sig_child is, "none" when it does not run
    pending,   \* SIG_CHILD is on the signal stack
    in_exec,
    files,     \* exec_stdout, exec_stderr, exec_stdin: the child, 0 if closed
    buf,       \* proc_stdout: bytes read and not printed
    lines,     \* unread lines in the shell's stdin
    typed,     \* counts the lines typed
    kids,      \* the children: [life, out, wrote, nuls, err, in, found]
    printed,   \* what the shell printed of its children's output
    untimely,  \* auxiliary: sig_child came before the files were open, or under `locked`
    torn       \* auxiliary: sig_child came between fread and putchar

main == <<pc, buf>>
shell == <<locked, in_exec, files>>
aux == <<untimely, torn>>
vars == <<pc, locked, handler, pending, in_exec, files, buf, lines, typed, kids, printed,
          untimely, torn>>

Stream == <<"stdout", "stderr", "stdin">>
Kid == 1..MaxExecs
Newest == Cardinality({g \in Kid : kids[g].life # "none"})
Child == [life |-> "none", out |-> <<>>, wrote |-> 0, nuls |-> {}, err |-> 0, in |-> 0,
          found |-> ToSet(Stream)]
Opening == {"execd"} \cup ToSet(Stream)

Init ==
    /\ pc = "poll" /\ locked = FALSE /\ handler = "none" /\ pending = FALSE
    /\ in_exec = FALSE /\ files = [s \in ToSet(Stream) |-> 0]
    /\ buf = <<>> /\ lines = 0 /\ typed = 0 /\ kids = [g \in Kid |-> Child] /\ printed = <<>>
    /\ untimely = FALSE /\ torn = FALSE

-----------------------------------------------------------------------------
(* main.                                                                   *)

Running(at) == pc = at /\ handler = "none" /\ ~pending

\* Reads the child's output, if it is open.  (A file that the handler closes
\* after the test gives nothing, as if it had come before it.)
poll ==
    LET f == files["stdout"]
    IN  /\ Running("poll")
        /\ IF f = 0 THEN pc' = "input" /\ UNCHANGED <<buf, kids>>
           ELSE /\ pc' = "print" /\ buf' = kids[f].out
                /\ kids' = [kids EXCEPT ![f].out = <<>>]
        /\ UNCHANGED <<handler, pending, shell, lines, typed, printed, aux>>

\* Faulty: only the first of the bytes read is printed.
PrintsFirst ==
    /\ Running("print")
    /\ printed' = printed \o SelectSeq(buf, LAMBDA b : b = Head(buf)) /\ buf' = <<>> /\ pc' = "input"
    /\ UNCHANGED <<handler, pending, shell, lines, typed, kids, aux>>

print ==
    /\ Running("print")
    /\ IF buf = <<>> THEN pc' = "input" /\ UNCHANGED <<buf, printed>>
       ELSE printed' = Append(printed, Head(buf)) /\ buf' = Tail(buf) /\ UNCHANGED pc
    /\ UNCHANGED <<handler, pending, shell, lines, typed, kids, aux>>

\* One fread takes all lines typed so far.
input ==
    /\ Running("input")
    /\ pc' = IF lines = 0 THEN "poll" ELSE "line"
    /\ lines' = 0
    /\ UNCHANGED <<handler, pending, shell, buf, typed, kids, printed, aux>>

\* A line for the child, or a command: one for the kernel, or one that ends
\* in the shell (cd, an empty line, nothing found).
line ==
    /\ Running("line")
    /\ IF in_exec THEN pc' = "forward" ELSE pc' \in {"exec", "poll"}
    /\ UNCHANGED <<handler, pending, shell, buf, lines, typed, kids, printed, aux>>

\* One byte goes to the child, if there is room.  Without an open file it is
\* written through a null pointer: page 0 is mapped, and no such fd exists.
forward ==
    LET f == files["stdin"]
    IN  /\ Running("forward")
        /\ pc' = "poll"
        /\ kids' = IF f = 0 THEN kids ELSE [kids EXCEPT ![f].in = 1]
        /\ UNCHANGED <<handler, pending, shell, buf, lines, typed, printed, aux>>

\* execv: the child, or 0 for a program that cannot be read or loaded.
execv ==
    /\ Running("exec")
    /\ \/ Newest < MaxExecs /\ kids' = [kids EXCEPT ![Newest + 1].life = "alive"] /\ pc' = "execd"
       \/ pc' = "poll" /\ UNCHANGED kids
    /\ UNCHANGED <<handler, pending, shell, buf, lines, typed, printed, aux>>

\* Faulty: the flag is not set.
NotInExec ==
    /\ Running("execd")
    /\ pc' = "stdout"
    /\ UNCHANGED <<handler, pending, shell, buf, lines, typed, kids, printed, aux>>

execd ==
    /\ Running("execd")
    /\ in_exec' = TRUE /\ pc' = "stdout"
    /\ UNCHANGED <<locked, handler, pending, files, buf, lines, typed, kids, printed, aux>>

After(s, end) == IF s = "stdin" THEN end ELSE IF s = "stderr" THEN "stdin" ELSE "stderr"

\* main enters malloc or free: in fopen, or to free its arguments.  (One stay
\* stands for all that a call makes.  Before the exec no child is alive, and
\* nobody sends the signal.)
enter_heap ==
    /\ pc \in ToSet(Stream) \cup {"free"} /\ Running(pc) /\ ~locked
    /\ locked' = TRUE
    /\ UNCHANGED <<main, handler, pending, in_exec, files, lines, typed, kids, printed, aux>>

\* while(!(f = fopen(path))): passes when the path is found, else tries again.
fopen(s) ==
    /\ Running(s) /\ locked
    /\ locked' = FALSE
    /\ IF s \in kids[Newest].found
       THEN files' = [files EXCEPT ![s] = Newest] /\ pc' = After(s, "free")
       ELSE UNCHANGED <<files, pc>>
    /\ UNCHANGED <<handler, pending, in_exec, buf, lines, typed, kids, printed, aux>>

free ==
    /\ Running("free") /\ locked
    /\ locked' = FALSE /\ pc' = "poll"
    /\ UNCHANGED <<handler, pending, in_exec, files, buf, lines, typed, kids, printed, aux>>

-----------------------------------------------------------------------------
(* sig_child.                                                              *)

\* schedule gives control to the handler when it chooses the shell.
take_signal ==
    /\ pending /\ handler = "none"
    /\ handler' = "stdout" /\ pending' = FALSE
    /\ untimely' = (untimely \/ locked \/ pc \in Opening)
    /\ torn' = (torn \/ buf # <<>>)
    /\ UNCHANGED <<main, shell, lines, typed, kids, printed>>

\* Faulty: leaves in stderr what is there.
OnlyStdout(s) ==
    IF files[s] # 0 /\ s = "stdout" THEN [kids EXCEPT ![files[s]].out = <<>>] ELSE kids

\* Reads and closes stdout and stderr, whose pipes one read empties.
\* exec_stdin is open for writing only, sys_read refuses it.
Drained(s) ==
    LET f == files[s]
    IN  IF f = 0 \/ s = "stdin" THEN kids
        ELSE IF s = "stdout" THEN [kids EXCEPT ![f].out = <<>>]
        ELSE [kids EXCEPT ![f].err = 0]

\* printf("%s") shows the n unread bytes before the first zero byte.
IsText(g, n) ==
    /\ \A i \in 1..n : kids[g].out[i][2] \notin kids[g].nuls
    /\ n < Len(kids[g].out) => kids[g].out[n + 1][2] \in kids[g].nuls

\* fclose frees the FILE: it spins for ever if main is stopped inside malloc
\* or free.
drain(s) ==
    /\ handler = s
    /\ kids' = Drained(s)
    /\ IF s = "stdout" /\ files[s] # 0
       THEN \E n \in 0..Len(kids[files[s]].out) :
               /\ IsText(files[s], n)
               /\ printed' = printed \o SubSeq(kids[files[s]].out, 1, n)
       ELSE UNCHANGED printed
    /\ IF files[s] # 0 /\ locked
       THEN handler' = "spin" /\ UNCHANGED files
       ELSE handler' = After(s, "end") /\ files' = [files EXCEPT ![s] = 0]
    /\ UNCHANGED <<main, locked, pending, in_exec, lines, typed, aux>>

\* Faulty: the flag stays.
StaysInExec ==
    /\ handler = "end"
    /\ handler' = "none"
    /\ UNCHANGED <<main, pending, shell, lines, typed, kids, printed, aux>>

sigexit ==
    /\ handler = "end"
    /\ in_exec' = FALSE /\ handler' = "none"
    /\ UNCHANGED <<main, locked, pending, files, lines, typed, kids, printed, aux>>

-----------------------------------------------------------------------------
(* The children, the kernel and the terminal.                              *)

Session == <<main, handler, shell, lines, typed, printed, aux>>

Byte(g) == <<g, kids[g].wrote + 1>>

\* A byte of any value, zero too.  A full pipe drops it, and libc's fwrite does
\* not try again: `wrote` counts the bytes that the pipe took.
child_write(g) ==
    /\ kids[g].life = "alive"
    /\ IF Len(kids[g].out) < Cap
       THEN /\ kids[g].wrote < MaxOut
            /\ \E zero \in {{}, {kids[g].wrote + 1}} :
                  kids' = [kids EXCEPT ![g].out = Append(@, Byte(g)), ![g].wrote = @ + 1,
                                       ![g].nuls = @ \cup zero]
       ELSE UNCHANGED kids
    /\ UNCHANGED <<Session, pending>>

child_error(g) ==
    /\ kids[g].life = "alive" /\ kids[g].err = 0
    /\ kids' = [kids EXCEPT ![g].err = 1]
    /\ UNCHANGED <<Session, pending>>

child_read(g) ==
    /\ kids[g].life = "alive" /\ kids[g].in = 1
    /\ kids' = [kids EXCEPT ![g].in = 0]
    /\ UNCHANGED <<Session, pending>>

\* proc_exit, after libc_init's sys_sleep(2) or at a fault, at any time.
proc_exit(g) ==
    /\ kids[g].life = "alive"
    /\ kids' = [kids EXCEPT ![g].life = "dead"]
    /\ pending' = TRUE
    /\ UNCHANGED Session

HasData(g, s) == CASE s = "stdout" -> kids[g].out # <<>>
                   [] s = "stderr" -> kids[g].err # 0
                   [] s = "stdin" -> kids[g].in # 0

\* clean_process: up to the first stream with data, the streams are removed.
clean_process(g) ==
    LET full == {i \in 1..3 : HasData(g, Stream[i])}
        left == {Stream[i] : i \in {i \in 1..3 : \E j \in full : j <= i}}
    IN  /\ kids[g].life = "dead"
        /\ kids' = [kids EXCEPT ![g].found = @ \cap left,
                                ![g].life = IF full = {} THEN "clean" ELSE @]
        /\ UNCHANGED <<Session, pending>>

\* term_handle_input sends a whole line.
type ==
    /\ typed < MaxLines
    /\ typed' = typed + 1 /\ lines' = lines + 1
    /\ UNCHANGED <<main, handler, pending, shell, kids, printed, aux>>

Next ==
    \/ poll \/ print \/ input \/ line \/ forward \/ execv \/ execd \/ enter_heap \/ free
    \/ \E s \in ToSet(Stream) : fopen(s)
    \/ take_signal \/ sigexit
    \/ \E s \in ToSet(Stream) : drain(s)
    \/ \E g \in Kid : child_write(g)
    \/ \E g \in Kid : child_error(g)
    \/ \E g \in Kid : child_read(g)
    \/ \E g \in Kid : proc_exit(g)
    \/ \E g \in Kid : clean_process(g)
    \/ type

\* Every process runs again and again, every child ends, and schedule cleans
\* on each call; nothing makes anybody type.
ShellStep ==
    \/ poll \/ print \/ input \/ line \/ forward \/ execv \/ execd \/ enter_heap \/ free
    \/ take_signal \/ sigexit
    \/ \E s \in ToSet(Stream) : fopen(s) \/ drain(s)

Fairness ==
    /\ WF_vars(ShellStep)
    /\ \A g \in Kid : WF_vars(proc_exit(g)) /\ WF_vars(clean_process(g))

Spec == Init /\ [][Next]_vars /\ Fairness

-----------------------------------------------------------------------------
\* What was read of a child's output, and what the shell holds or has printed.
BytesRead(g) == kids[g].wrote - Len(kids[g].out)
Shown == printed \o buf
Precedes(x, y) == x[1] < y[1] \/ (x[1] = y[1] /\ x[2] < y[2])

\* What a child's stdout took and the shell has read, the shell prints once,
\* though main and the handler both read the pipe and clean_process takes it
\* away: only bytes behind a zero byte may be missing, for the handler prints a
\* string.  The shell prints the bytes in the order they were written, one child
\* after the other, unless the handler came while main held bytes it had not
\* printed yet.  (Bytes that a full pipe dropped were never in it.)
OutputExact ==
    /\ \A g \in Kid : \A i \in DOMAIN kids[g].out : kids[g].out[i] = <<g, BytesRead(g) + i>>
    /\ ToSet(Shown) \subseteq UNION {{g} \X (1..BytesRead(g)) : g \in Kid}
    /\ \A g \in Kid : \A i \in 1..BytesRead(g) :
          <<g, i>> \in ToSet(Shown) \/ \E j \in 1..i : j \in kids[g].nuls
    /\ IsInjective(Shown)
    /\ ~torn => /\ \A a, b \in DOMAIN Shown : a < b => Precedes(Shown[a], Shown[b])
                /\ \A g, h \in Kid : g < h /\ BytesRead(h) > 0 => kids[g].out = <<>>

\* The shell starts a program only when the one before it has ended: a line
\* typed while a program runs goes to the program, and is never a command.
OneChild == Cardinality({g \in Kid : kids[g].life = "alive"}) <= 1

\* After each program the shell takes commands again, unless the signal came
\* before main had opened the program's streams: then in_exec is set after the
\* handler cleared it, or fopen waits for a file that is gone; or while main was
\* inside malloc or free: then the handler waits for a lock that main holds.
PromptReturns == in_exec ~> ~in_exec \/ untimely

\* A program that ended is cleaned: the handler empties the streams that keep
\* clean_process from it, but for what was typed and not read, which it cannot
\* read, and unless it came before the streams were open or inside main's free.
ChildrenCleaned ==
    \A g \in Kid :
        kids[g].life = "dead" ~> kids[g].life = "clean" \/ kids[g].in # 0 \/ untimely

\* The handler reads all three streams, so that clean_process, which does not
\* clean "yet" while one holds data, cleans in the end.
CleanedInTheEnd ==
    \A g \in Kid : kids[g].life = "dead" ~> kids[g].life = "clean" \/ untimely
=============================================================================
