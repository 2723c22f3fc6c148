------------------------------- MODULE Kernel -------------------------------
(***************************************************************************)
(* The kernel as the processes see it: system calls (syscall.c), the timer *)
(* interrupt (pit.c), device input through pipes and page faults           *)
(* (paging.c).  Every gate clears the interrupt flag and there is one CPU, *)
(* so a handler is one step.  Which process uses which call is chosen once *)
(* from a set of habits: those of the programs shipped in os/usr, or of    *)
(* programs the system calls allow.                                        *)
(***************************************************************************)
EXTENDS Processes, TLC

CONSTANTS
    InitProc,   \* the structure of pid 1
    Programs,   \* sets of pairs <<process, call>>: who uses which call
    Durations,  \* the numbers of ticks passed to sys_sleep
    Device      \* the pipes a driver writes from its interrupt

ASSUME KernelAssumption == InitProc \in Proc /\ Device \subseteq Pipe

VARIABLES
    k,      \* the kernel's state
    ticks,  \* __sys_ticks, modulo 2
    calls   \* the member of Programs that runs

vars == <<k, ticks, calls>>

\* execute(..., init = 1) at boot.
Init ==
    /\ k = [create_process(BlankProcesses @@ BlankSleep @@ BlankGroups, InitProc, Nil)
               EXCEPT !.current = InitProc]
    /\ ticks = 0
    /\ calls \in Programs

me == k.current
Uses(call) == ~k.panicked /\ me # Nil /\ <<me, call>> \in calls

\* syscall_handler saves the frame before it calls the handler.
Entered == [k EXCEPT !.syscall_state[me] = TRUE]

Fresh == {p \in Proc : k.status[p] = "INVALID"}

-----------------------------------------------------------------------------
(* System calls of the running process.                                    *)

sys_exec(loads) ==
    /\ Uses("exec") /\ Fresh # {}
    /\ k' = execute(Entered, Min(Fresh), loads)

sys_thread ==
    /\ Uses("thread") /\ Fresh # {}
    /\ k' = process_create_thread(Entered, Min(Fresh))

sys_exit ==
    /\ Uses("exit")
    /\ k' = proc_exit(Entered, me)

sys_yield ==
    /\ Uses("yield")
    /\ k' = Schedule(Entered, FALSE)

sys_sleep(t) ==
    /\ Uses("sleep")
    /\ k' = process_sleep(Entered, me, t)

sys_fswait(ds) ==
    /\ Uses("fswait")
    /\ k' = process_fswait(Entered, me, ds)

sys_waitpid(n) ==
    /\ Uses("waitpid")
    /\ k' = process_waitpid(Entered, me, n)

sys_sighandl ==
    /\ Uses("sighandl")
    /\ k' = [Entered EXCEPT !.handler[me] = TRUE]

\* The last thing a signal handler does.
sys_sigexit ==
    /\ ~k.panicked /\ me # Nil /\ k.in_sig[me]
    /\ k' = exit_sig(Entered, me)

sys_sig(n) ==
    /\ Uses("sig")
    /\ k' = send_signal(Entered, k.processes[n])

\* sys_prior stores any number; every process inherits the uid of root.
sys_prior(prior) ==
    /\ Uses("prior")
    /\ k' = ReadyInsert([ReadyRemove(Entered, me) EXCEPT !.priority[k.group[me]] = prior], me)

\* sys_write to the caller's own stdout, or to a pipe others wait on.
sys_write ==
    /\ Uses("write") /\ k.has_node[me]
    /\ k' = [Entered EXCEPT !.output[me] = TRUE]

\* The waiters of a pipe that has no room for a byte are not told.
pipe_write(d, room) ==
    /\ Uses("pipe")
    /\ k' = IF room THEN pipe_notify_waiters(Entered, d) ELSE Entered

\* sys_read of another process's stdout: a terminal reads what a shell wrote.
sys_read(p) ==
    /\ Uses("read") /\ k.has_node[p]
    /\ k' = [Entered EXCEPT !.output[p] = FALSE]

-----------------------------------------------------------------------------
(* Interrupts and faults.                                                  *)

\* A driver's interrupt handler writes its pipe, which may be full.
irq_handler(d, room) ==
    /\ ~k.panicked
    /\ k' = IF room THEN pipe_notify_waiters(k, d) ELSE k

\* pit_tick: the frame is the interrupted one.
pit_tick ==
    /\ ~k.panicked
    /\ k' = Schedule(k, TRUE)
    /\ ticks' = 1 - ticks

\* pagefault_handler: without a current process, or in init, it panics.  A
\* process that the kernel could not take off the CPU faults again at once.
pagefault_handler ==
    /\ ~k.panicked
    /\ \/ me = Nil
       \/ <<me, "fault">> \in calls /\ k.syscall_state[me]
       \/ <<me, "early fault">> \in calls
    /\ k' = IF me # Nil /\ k.pid[me] # 1 THEN proc_exit(k, me) ELSE Panic(k)

\* kpanic halts the processor with interrupts disabled.
Halted == k.panicked /\ UNCHANGED vars

SystemCall ==
    \/ \E loads \in BOOLEAN : sys_exec(loads)
    \/ sys_thread
    \/ sys_exit
    \/ sys_yield
    \/ \E t \in Durations : sys_sleep(t)
    \/ \E ds \in SUBSET Pipe \ {{}} : sys_fswait(ds)
    \/ \E n \in Pids : sys_waitpid(n)
    \/ sys_sighandl
    \/ sys_sigexit
    \/ \E n \in Pids : sys_sig(n)
    \/ \E prior \in Priority : sys_prior(prior)
    \/ sys_write
    \/ \E d \in Pipe, room \in BOOLEAN : pipe_write(d, room)
    \/ \E p \in Proc : sys_read(p)

Next ==
    \/ SystemCall /\ UNCHANGED <<ticks, calls>>
    \/ (\E d \in Device, room \in BOOLEAN : irq_handler(d, room)) /\ UNCHANGED <<ticks, calls>>
    \/ pagefault_handler /\ UNCHANGED <<ticks, calls>>
    \/ pit_tick /\ UNCHANGED calls
    \/ Halted

Spec == Init /\ [][Next]_vars

\* The timer never stops; nothing is assumed of what the processes do.  As
\* pit_tick is enabled until a panic and always counts, this is
\* WF_vars(pit_tick).
TimerRuns == []<>k.panicked \/ []<><<ticks' # ticks>>_vars
FairSpec == Spec /\ TimerRuns

-----------------------------------------------------------------------------
\* Type correctness of the whole kernel state.
TypeOK ==
    /\ GroupsTypeOK(k)
    /\ k.current \in Proc \cup {Nil}
    /\ k.panicked \in BOOLEAN
    /\ k.processes \in [Pids -> Proc \cup {Nil}]
    /\ k.pid \in [Proc -> 0..MAX_PROCESSES-1]
    /\ k.parent \in [Proc -> Proc \cup {Nil}]
    /\ k.childs \in [Proc -> SUBSET Proc]
    /\ k.pending \in [Proc -> 0..MAX_SIGSTACK_SIZE+1]
    /\ k.fswait_nodes \in [Proc -> SUBSET Pipe]
    /\ \A d \in Pipe : Range(k.waiters[d]) \subseteq Proc \cup {Nil}
    /\ \A f \in {k.pwait, k.handler, k.in_sig, k.sig_ret_wait, k.output, k.has_node,
                 k.syscall_state} : f \in [Proc -> BOOLEAN]

\* The scheduler's structures agree with the status of the processes
\* (queue_idx "Index in queues"): whatever sequence of waits, sleeps, signals
\* and deaths, no process is queued twice, in the wrong array or when dead.
QueuesAgree == RunQueueConsistent(k) /\ SleepersListedOnce(k)

\* The CPU runs a process the scheduler holds to be ready: whoever blocks or
\* dies inside a handler is off the CPU when the handler returns.
RunsReady == k.current # Nil /\ k.status[k.current] = "READY"

Alive(p) == k.status[p] \in {"READY", "WAIT", "SLEEP"}
Listed(p) == \E i \in 0..k.killed_size-1 : k.killed[i] = p

\* After a fault before its first system call the dead process cannot be left
\* (proc_exit has no frame to restore) and current_process is null; the next
\* tick, if it comes before the fault repeats, puts a ready process on the CPU.
TickRecovers ==
    [][ ticks' # ticks => k'.current # Nil /\ k'.status[k'.current] = "READY" ]_vars

\* The pid table: a process is in it, under its own pid alone, from creation
\* until it was cleaned, and is cleaned only when killed_procs lists it.
PidTable ==
    /\ \A n \in Pids : LET p == k.processes[n] IN
         p # Nil => k.pid[p] = n /\ (Alive(p) \/ Listed(p))
    /\ \A p \in Proc : Alive(p) \/ Listed(p) => k.processes[k.pid[p]] = p

\* A living process's parent pointer never names a dead process, and that
\* parent lists the child, so that its death will be told to it (proc_exit
\* orphans the listed children; threads are not listed, and these programs
\* make none).
FamilyAlive ==
    \A p \in Proc : Alive(p) /\ k.parent[p] # Nil =>
        Alive(k.parent[p]) /\ p \in k.childs[k.parent[p]]

\* A waiting process can still be woken: a pipe lists it as a waiter, or a
\* child it awaits has yet to be cleaned ("Is parent awaiting us?").
WaitsForSomething ==
    \A p \in Proc : k.status[p] = "WAIT" =>
        \/ \E d \in Pipe : p \in Range(k.waiters[d]) /\ d \in k.fswait_nodes[p]
        \/ \E n \in Pids : LET c == k.processes[n] IN c # Nil /\ k.pwait[c] /\ k.parent[c] = p

\* Pipes list exactly the processes that wait on them, once each.
WaitersAgree ==
    \A d \in Pipe, p \in Proc :
        Cardinality({i \in DOMAIN k.waiters[d] : k.waiters[d][i] = p})
            = IF d \in k.fswait_nodes[p] /\ k.status[p] = "WAIT" THEN 1 ELSE 0

\* The kernel's tables say the same of every process, whatever sequence of
\* calls, faults and interrupts: scheduler and sleep list agree with the status
\* ("Index in queues"), the pid table with the list of the dead, the waiter lists
\* of the pipes with what the processes wait for.
TablesAgree == TypeOK /\ QueuesAgree /\ PidTable /\ WaitersAgree

\* "Stream in proc directory not empty, we shouldn't clean this process yet":
\* a process leaves the pid table only when dead and its output was read.
OutputOutlives ==
    [][ \A n \in Pids : LET p == k.processes[n] IN
          p # Nil /\ k'.processes[n] # p => k'.status[p] = "DEAD" /\ ~k.output[p] ]_vars

\* process_waitpid ("Set proc wait for child pid"): the death of the awaited
\* child ends the wait, whether its signal or its cleaning wakes the parent,
\* unless the kernel panics.
WaitpidReturns ==
    \A p \in Proc :
        (k.status[p] = "WAIT" /\ \E c \in Proc : Listed(c) /\ k.pwait[c] /\ k.parent[c] = p)
            ~> (k.status[p] # "WAIT" \/ k.panicked)

\* A dead process whose output was read is cleaned, and its pid is free again,
\* unless the kernel panics.
DeadAreCleaned ==
    \A p \in Proc : (Listed(p) /\ ~k.output[p]) ~> (~Listed(p) \/ k.panicked)

\* A sleeping process is woken and a ready one gets the CPU or gives up on it
\* (while all groups have one priority; a HIGH group may starve the others),
\* unless the kernel panics.
ReadyRuns == \A p \in Proc : k.status[p] \in {"READY", "SLEEP"} ~>
                (k.current = p \/ k.status[p] \in {"WAIT", "DEAD"} \/ k.panicked)
=============================================================================
