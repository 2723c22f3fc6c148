----------------------------- MODULE Processes -----------------------------
(***************************************************************************)
(* Processes (proc.c) as operators on a kernel state k: the run queues of  *)
(* ThreadGroups, the sleep list of SleepList, and what BlankProcesses adds *)
(* to them: the pid table, families, signals and pipe waits.  A C function *)
(* that ends in schedule() is an operator that ends in Schedule.           *)
(*                                                                         *)
(* A process structure is a number; kmalloc hands them out in order.  The  *)
(* only signal ever registered is SIG_CHILD (unhandled: ignored, blocked:  *)
(* awake), so a signal stack is its length.  Contexts are left out but for *)
(* whether a saved system call frame exists.                               *)
(***************************************************************************)
EXTENDS SleepList, SequencesExt

CONSTANTS
    Pipe,               \* the pipes a process may wait on
    MAX_SIGSTACK_SIZE   \* the bound send_signal tests sig_stack_esp against

Pids == 1..MAX_PROCESSES-1

\* The order in which the file descriptors of an fswait call are listed.
PipeOrder == CHOOSE s \in [1..Cardinality(Pipe) -> Pipe] :
                 \A i, j \in DOMAIN s : s[i] = s[j] => i = j

BlankProcesses == [
    current       |-> Nil,
    panicked      |-> FALSE,
    processes     |-> [n \in Pids |-> Nil],
    pid           |-> [p \in Proc |-> 0],
    has_node      |-> [p \in Proc |-> FALSE],
    output        |-> [p \in Proc |-> FALSE],
    parent        |-> [p \in Proc |-> Nil],
    childs        |-> [p \in Proc |-> {}],
    pwait         |-> [p \in Proc |-> FALSE],
    syscall_state |-> [p \in Proc |-> FALSE],
    handler       |-> [p \in Proc |-> FALSE],
    pending       |-> [p \in Proc |-> 0],
    in_sig        |-> [p \in Proc |-> FALSE],
    sig_ret_wait  |-> [p \in Proc |-> FALSE],
    fswait_nodes  |-> [p \in Proc |-> {}],
    waiters       |-> [d \in Pipe |-> <<>>] ]

Panic(k) == [k EXCEPT !.panicked = TRUE]

FreePids(k) == {n \in Pids : k.processes[n] = Nil}

-----------------------------------------------------------------------------
(* Pipe waiters (pipe.c) and pipe waits.                                   *)

pipe_add_waiter(k, d, p) ==
    LET holes == {i \in DOMAIN k.waiters[d] : k.waiters[d][i] = Nil}
    IN  [k EXCEPT !.waiters[d] = IF holes = {} THEN Append(@, p)
                                 ELSE [@ EXCEPT ![Min(holes)] = p]]

\* Faulty: removes the first waiter instead of the caller.
RemoveFirstWaiter(k, d, p) ==
    IF k.waiters[d] = <<>> THEN k ELSE [k EXCEPT !.waiters[d][1] = Nil]

pipe_remove_waiter(k, d, p) ==
    LET own == {i \in DOMAIN k.waiters[d] : k.waiters[d][i] = p}
    IN  IF own = {} THEN k ELSE [k EXCEPT !.waiters[d][Min(own)] = Nil]

OnEach(Op(_, _, _), k, p, ds) ==
    FoldLeft(LAMBDA s, d : IF d \in ds THEN Op(s, d, p) ELSE s, k, PipeOrder)

process_fswait_awake(k, p) ==
    ReadyInsert([OnEach(pipe_remove_waiter, k, p, k.fswait_nodes[p])
                    EXCEPT !.fswait_nodes[p] = {}], p)

process_fswait_notify(k, p, d) ==
    IF d \in k.fswait_nodes[p] THEN process_fswait_awake(k, p) ELSE k

pipe_notify_waiters(k, d) ==
    FoldLeft(LAMBDA s, i : IF s.waiters[d][i] = Nil THEN s
                           ELSE process_fswait_notify(s, s.waiters[d][i], d),
             k, [i \in DOMAIN k.waiters[d] |-> i])

-----------------------------------------------------------------------------
(* Cleaning and scheduling.                                                *)

AwaitedByWaiter(k, p) ==
    k.pwait[p] /\ k.parent[p] # Nil /\ k.status[k.parent[p]] = "WAIT"

Woken(k, p) == ReadyInsert([k EXCEPT !.pwait[p] = FALSE], k.parent[p])
Cleaned(k, p) ==
    [KilledRemove(GroupRemove(k, p), p) EXCEPT !.processes[k.pid[p]] = Nil, !.has_node[p] = FALSE]

\* Faulty: cleans though output is unread.
CleanAnyway(k, p) == Cleaned(IF AwaitedByWaiter(k, p) THEN Woken(k, p) ELSE k, p)

\* Faulty: looks at the output before the waiting parent.
CleanOutputFirst(k, p) ==
    IF k.has_node[p] /\ k.output[p] THEN k ELSE CleanAnyway(k, p)

\* clean_process: the parent is woken first; a process with unread output
\* stays.  A thread has no /proc directory, so nothing keeps it.  Writing the
\* unread bytes back notifies the waiters of the stream, which is no member of
\* Pipe: no program of os/usr waits on one.  Module Vfs has the bytes.
clean_process(k, p) ==
    LET w == IF AwaitedByWaiter(k, p) THEN Woken(k, p) ELSE k
    IN  IF w.has_node[p] /\ w.output[p] THEN w ELSE Cleaned(w, p)

\* Faulty: passes over the first entry.
CleanAllButFirst(k) ==
    FoldLeft(LAMBDA s, i : IF s.killed[i] = Nil THEN s ELSE clean_process(s, s.killed[i]),
             k, [i \in 1..k.killed_size-1 |-> i])

clean_processes(k) ==
    FoldLeft(LAMBDA s, i : IF s.killed[i] = Nil THEN s ELSE clean_process(s, s.killed[i]),
             k, [i \in 1..k.killed_size |-> i - 1])

\* The end of schedule(): the newest pending signal is handled or ignored.
TakeSignal(k, p) ==
    IF k.in_sig[p] \/ k.pending[p] = 0 THEN k
    ELSE [k EXCEPT !.pending[p] = @ - 1, !.in_sig[p] = k.handler[p]]

\* Faulty: needs a current process although the timer passed a frame.
NeedsCurrent(k, frame) == k.current = Nil \/ (~frame /\ ~k.syscall_state[k.current])

\* "No valid registers": no frame to return through was passed or saved.
NoFrame(k, frame) == ~frame /\ (k.current = Nil \/ ~k.syscall_state[k.current])

\* schedule(reg, save): frame says whether reg is not null.  Without a frame
\* that of the current process's last system call is used.  The code goes on
\* with a null process when nobody at all can run: a panic here, though init,
\* which never waits, makes it unreachable.
Schedule(k0, frame) ==
    LET k == CountDown(k0)
        r == GetReady(k)
        c == IF r.proc = Nil THEN k.current ELSE r.proc
    IN  IF NoFrame(k, frame) THEN k
        ELSE IF c = Nil THEN Panic(r.state)
        ELSE TakeSignal(clean_processes([r.state EXCEPT !.current = c]), c)

-----------------------------------------------------------------------------
(* Signals and death.                                                      *)

send_signal(k, p) ==
    IF p = Nil \/ p = k.current \/ k.pending[p] > MAX_SIGSTACK_SIZE THEN k
    ELSE LET s == [k EXCEPT !.pending[p] = @ + 1]
         IN  IF k.status[p] = "WAIT"
             THEN ReadyInsert([s EXCEPT !.sig_ret_wait[p] = TRUE], p)
             ELSE s

\* exit_sig ends the handler; a process that was waiting waits again.
exit_sig(k, p) ==
    LET s == [k EXCEPT !.in_sig[p] = FALSE]
    IN  Schedule(IF s.sig_ret_wait[p] THEN WaitInsert(ReadyRemove(s, p), p) ELSE s, FALSE)

\* Faulty: the children keep their dead parent.
NoOrphans(k, p) == k

Orphan(k, p) ==
    [k EXCEPT !.parent = [c \in Proc |-> IF c \in k.childs[p] THEN Nil ELSE @[c]],
              !.pwait = [c \in Proc |-> IF c \in k.childs[p] THEN FALSE ELSE @[c]]]

\* Faulty: a ready process dies in its queue.
ExitStaysQueued(k, p) ==
    IF k.pid[p] = 1
    THEN Schedule(IF p = k.current THEN [k EXCEPT !.current = Nil] ELSE k, k.syscall_state[p])
    ELSE LET s == send_signal([k EXCEPT !.status[p] = "DEAD"], k.parent[p])
             d == KilledInsert(Orphan(s, p), p)
         IN  IF p = k.current
             THEN Schedule([d EXCEPT !.current = Nil], d.syscall_state[p])
             ELSE d

proc_exit(k, p) ==
    IF k.pid[p] = 1
    THEN Schedule(IF p = k.current THEN [k EXCEPT !.current = Nil] ELSE k, k.syscall_state[p])
    ELSE LET r == IF k.status[p] = "READY" THEN ReadyRemove(k, p) ELSE k
             s == send_signal([r EXCEPT !.status[p] = "DEAD"], k.parent[p])
             d == KilledInsert(Orphan(s, p), p)
         IN  IF p = k.current
             THEN Schedule([d EXCEPT !.current = Nil], d.syscall_state[p])
             ELSE d

-----------------------------------------------------------------------------
(* Creation.                                                               *)

\* create_process: parent is Nil for init.
create_process(k, p, parent) ==
    IF FreePids(k) = {} THEN Panic(k)
    ELSE LET n == Min(FreePids(k))
             s == [NewGroup(k, p) EXCEPT
                      !.pid[p] = n, !.processes[n] = p, !.has_node[p] = TRUE,
                      !.parent[p] = parent,
                      !.childs = IF parent = Nil THEN @
                                 ELSE [@ EXCEPT ![parent] = @ \cup {p}]]
         IN  ReadyInsert(s, p)

\* execute, from the shell's point of view: `loads` is FALSE when elf_load_file
\* refuses the file, which is found out after the process was created.
execute(k, p, loads) ==
    LET s == create_process(k, p, k.current)
    IN  IF s.panicked \/ loads THEN s ELSE proc_exit(s, p)

\* process_create_thread copies the caller's structure.
process_create_thread(k, p) ==
    LET c == k.current
        n == Min(FreePids(k))
        s == [k EXCEPT !.group[p] = k.group[c], !.parent[p] = k.parent[c], !.childs[p] = k.childs[c],
                       !.pwait[p] = k.pwait[c], !.handler[p] = k.handler[c], !.pending[p] = k.pending[c],
                       !.in_sig[p] = k.in_sig[c], !.sig_ret_wait[p] = k.sig_ret_wait[c],
                       !.fswait_nodes[p] = k.fswait_nodes[c], !.syscall_state[p] = FALSE,
                       !.pid[p] = n, !.processes[n] = p]
    IN  IF FreePids(k) = {} THEN Panic(k) ELSE ReadyInsert(GroupInsert(s, p), p)

-----------------------------------------------------------------------------
(* Blocking calls of process p, the current one.                           *)

\* Faulty: the caller goes on running.
FswaitGoesOn(k, p, ds) ==
    IF k.status[p] = "WAIT" \/ k.fswait_nodes[p] # {} THEN k
    ELSE WaitInsert(ReadyRemove(OnEach(pipe_add_waiter, [k EXCEPT !.fswait_nodes[p] = ds], p, ds), p), p)

process_fswait(k, p, ds) ==
    IF k.status[p] = "WAIT" \/ k.fswait_nodes[p] # {} THEN k
    ELSE LET s == OnEach(pipe_add_waiter, [k EXCEPT !.fswait_nodes[p] = ds], p, ds)
             r == IF k.status[p] = "READY" THEN ReadyRemove(s, p) ELSE s
         IN  Schedule(WaitInsert(r, p), FALSE)

\* Faulty: waits for anyone's child.
WaitpidOfAnyone(k, p, n) ==
    LET c == k.processes[n]
    IN  IF k.childs[p] = {} \/ c = Nil THEN k
        ELSE Schedule(WaitInsert(ReadyRemove([k EXCEPT !.pwait[c] = TRUE], p), p), FALSE)

process_waitpid(k, p, n) ==
    LET c == k.processes[n]
    IN  IF k.childs[p] = {} \/ c = Nil \/ k.parent[c] # p THEN k
        ELSE Schedule(WaitInsert(ReadyRemove([k EXCEPT !.pwait[c] = TRUE], p), p), FALSE)

process_sleep(k, p, t) ==
    LET r == IF k.status[p] = "READY" THEN ReadyRemove(k, p) ELSE k
    IN  Schedule(sleep_insert([r EXCEPT !.sleep_time[p] = t], p), FALSE)
=============================================================================
