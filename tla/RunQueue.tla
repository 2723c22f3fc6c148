------------------------------ MODULE RunQueue ------------------------------
(***************************************************************************)
(* The scheduler's ready structures as a state machine: one action per     *)
(* operation that proc.c performs on them, with the precondition its       *)
(* callers establish.  Who blocks, who is woken and who dies is left open, *)
(* so the results hold for every program; module Kernel has the handlers   *)
(* that call these operations and checks the same invariants there.        *)
(* clean_process, which schedule() calls for every drained process, may    *)
(* run or not after any step here.  init (os/usr/init) never blocks and    *)
(* never exits, so some thread is ready at all times.                      *)
(***************************************************************************)
EXTENDS ThreadGroups

CONSTANTS
    InitProc,    \* pid 1, made by execute(..., init = 1)
    Mortal,      \* the processes that may exit
    MayRaise,    \* TRUE: processes may call sys_prior
    MaxThreads   \* bound: threads made by process_create_thread

ASSUME InitAssumption == InitProc \in Proc /\ Mortal \subseteq Proc \ {InitProc}

VARIABLES
    rq,       \* the groups, queues and killed list
    current,  \* current_process
    threads   \* number of threads created so far

vars == <<rq, current, threads>>

Ready(p) == rq.status[p] = "READY"
Blocked(p) == rq.status[p] \in {"WAIT", "SLEEP"}

\* The processor runs a ready thread.
Running == current # Nil /\ Ready(current)

Init ==
    /\ rq = ReadyInsert(NewGroup(BlankGroups, InitProc), InitProc)
    /\ current = InitProc
    /\ threads = 0

-----------------------------------------------------------------------------
\* create_process: a new group with one ready thread.
CreateProcess(p) ==
    /\ rq.status[p] = "INVALID"
    /\ rq' = ReadyInsert(NewGroup(rq, p), p)
    /\ UNCHANGED <<current, threads>>

\* process_create_thread: the caller is current_process.
CreateThread(p) ==
    /\ threads < MaxThreads
    /\ rq.status[p] = "INVALID"
    /\ Running
    /\ LET k == [rq EXCEPT !.group[p] = rq.group[current]]
       IN  rq' = ReadyInsert(GroupInsert(k, p), p)
    /\ threads' = threads + 1
    /\ UNCHANGED current

\* The choice in schedule(): process `old` goes on when nobody is ready.
Reschedule(k, old) ==
    LET r == GetReady(k)
    IN  /\ rq' = r.state
        /\ current' = IF r.proc = Nil THEN old ELSE r.proc

\* The running thread waits or sleeps, and schedule() picks another one:
\* process_fswait, process_waitpid, process_sleep, exit_sig.
Block(s) ==
    /\ Running
    /\ current # InitProc
    /\ Reschedule([ReadyRemove(rq, current) EXCEPT !.status[current] = s], current)
    /\ UNCHANGED threads

\* process_awake, process_fswait_awake, clean_process, send_signal.
Wake(p) ==
    /\ Blocked(p)
    /\ rq' = ReadyInsert(rq, p)
    /\ UNCHANGED <<current, threads>>

Killed(p) ==
    LET k == IF Ready(p) THEN ReadyRemove(rq, p) ELSE rq
    IN  KilledInsert([k EXCEPT !.status[p] = "DEAD"], p)

\* proc_exit of a process other than pid 1.
Exit(p) ==
    /\ p \in Mortal
    /\ Ready(p) \/ Blocked(p)
    /\ \/ /\ p = current
          /\ Reschedule(Killed(p), Nil)
       \/ /\ p # current
          /\ rq' = Killed(p)
          /\ UNCHANGED current
    /\ UNCHANGED threads

\* proc_exit of a running process that never made a system call: schedule()
\* has no frame to go on with and returns before it chooses.
ExitUnsaved ==
    /\ Running
    /\ current \in Mortal
    /\ rq' = Killed(current)
    /\ current' = Nil
    /\ UNCHANGED threads

\* clean_process of a listed process whose streams are drained.
Clean(p) ==
    /\ \E i \in 0..rq.killed_size-1 : rq.killed[i] = p
    /\ rq' = KilledRemove(GroupRemove(rq, p), p)
    /\ UNCHANGED <<current, threads>>

\* sys_prior, with any number.
SetPriority(prior) ==
    /\ MayRaise
    /\ Running
    /\ LET k == ReadyRemove(rq, current)
       IN  rq' = ReadyInsert([k EXCEPT !.priority[k.group[current]] = prior], current)
    /\ UNCHANGED <<current, threads>>

\* schedule() called by the timer interrupt or sys_yield.
Dispatch ==
    /\ Reschedule(rq, current)
    /\ UNCHANGED threads

Next ==
    \/ \E p \in Proc : CreateProcess(p) \/ CreateThread(p)
    \/ \E s \in {"WAIT", "SLEEP"} : Block(s)
    \/ \E p \in Proc : Wake(p) \/ Exit(p) \/ Clean(p)
    \/ ExitUnsaved
    \/ \E prior \in Priority : SetPriority(prior)
    \/ Dispatch

Spec == Init /\ [][Next]_vars

\* Timer interrupts keep coming and each ends in a dispatch.
FairSpec == Spec /\ WF_vars(Dispatch)

-----------------------------------------------------------------------------
\* Type correctness of the structures and of current_process.
TypeOK ==
    /\ GroupsTypeOK(rq)
    /\ current \in Proc \cup {Nil}
    /\ threads \in Nat

\* The queues and the threads agree (proc.c, queue_idx "Index in queues"):
\* each READY thread is in exactly the slot it remembers, no slot holds any
\* other thread, ready_count counts the used slots, and each entry of the
\* killed list is a dead process that remembers its entry.
Consistent == RunQueueConsistent(rq)

\* A READY thread whose group is still linked in `groups` and has one of the
\* two priorities get_ready looks for.
Selectable(k, p) ==
    /\ k.status[p] = "READY"
    /\ k.priority[k.group[p]] \in Served
    /\ \E i \in 0..k.groups_size-1 : k.groups[i] = k.group[p]

\* get_ready never misses: when schedule() chooses and some ready thread is in
\* a linked group of a priority it looks for, it runs a ready thread, of a
\* HIGH group if there is one.
Chooses == Dispatch \/ (\E s \in {"WAIT", "SLEEP"} : Block(s)) \/ Exit(current)
DispatchFindsReady ==
    [][ Chooses /\ (\E p \in Proc : Selectable(rq', p)) =>
          /\ current' \in Proc
          /\ rq'.status[current'] = "READY"
          /\ (\E p \in Proc : Selectable(rq', p) /\ rq'.priority[rq'.group[p]] = "HIGH")
                => rq'.priority[rq'.group[current']] = "HIGH" ]_vars

\* add_group links each group once and, as long as no thread was made,
\* remove_group unlinks nothing that still has a living process: a process
\* that becomes ready can always be found by get_group.
GroupsLinked ==
    threads = 0 => \A p \in Proc : rq.status[p] \in {"READY", "WAIT", "SLEEP"} =>
        Cardinality({i \in 0..rq.groups_size-1 : rq.groups[i] = rq.group[p]}) = 1

\* Round robin over groups and over the threads of a group starves nobody,
\* though groups_ptr is shared by both priorities and threads join and leave:
\* a ready thread runs or stops being ready, unless get_ready has a HIGH group
\* to serve, the death of a sibling unlinked its group, or its group was given
\* a priority that is neither HIGH nor LOW.
EveryReadyRuns ==
    \A p \in Proc : Selectable(rq, p) ~>
        \/ current = p
        \/ ~Selectable(rq, p)
        \/ \E q \in Proc : Ready(q) /\ rq.priority[rq.group[q]] = "HIGH"
=============================================================================
