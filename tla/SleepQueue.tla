----------------------------- MODULE SleepQueue -----------------------------
(***************************************************************************)
(* Sleeping and waking (proc.c: process_sleep, schedule, process_awake).   *)
(* Every schedule() counts as one tick, also the one process_sleep itself  *)
(* makes.  History variables remember what each process asked for.         *)
(*                                                                         *)
(* When sleep_insert has put a process between two others, the array is    *)
(* full of copies of one of them (SleepList!Smear), which are never taken  *)
(* away again.  The specification ends there: what it states is about the  *)
(* time before.                                                            *)
(***************************************************************************)
EXTENDS SleepList

CONSTANT Durations   \* the numbers of ticks processes ask for

\* Every process has a pid of its own in 1..MAX_PROCESSES-1 (free_pid, without
\* which create_process panics), and sleep_time is unsigned.
ASSUME SleepAssumption ==
    /\ MAX_PROCESSES \in Nat
    /\ IsFiniteSet(Proc) /\ Cardinality(Proc) < MAX_PROCESSES
    /\ Durations \subseteq 0..UINT_MAX

VARIABLES
    sq,      \* the sleep list and what waking and blocking touch of the groups
    left,    \* left[p]: schedule() calls until p's request is over
    ahead,   \* ahead[p]: the sleepers there were when p was inserted
    smeared  \* a process was inserted between two others

vars == <<sq, left, ahead, smeared>>

\* Everybody is ready, a group of its own.
Init ==
    /\ sq = [ status      |-> [p \in Proc |-> "READY"],
              group       |-> [p \in Proc |-> p],
              queue_idx   |-> [p \in Proc |-> 0],
              queue       |-> [g \in Proc |-> [i \in {0} |-> g]],
              queue_size  |-> [g \in Proc |-> 1],
              ready_count |-> [g \in Proc |-> 1],
              sleep       |-> BlankSleep.sleep,
              sleep_size  |-> BlankSleep.sleep_size,
              sleep_time  |-> BlankSleep.sleep_time ]
    /\ left = [p \in Proc |-> 0] /\ ahead = [p \in Proc |-> 0]
    /\ smeared = FALSE

Sleepers == {p \in Proc : sq.status[p] = "SLEEP"}

OneLess(f) == [p \in Proc |-> IF f[p] = 0 THEN 0 ELSE f[p] - 1]

\* sleep_insert finds a sleeper in the slot it wants.
Between(k, t) == k.sleep_size > 0 /\ SlotFor(k, t) < k.sleep_size

\* process_sleep by the running process p.
process_sleep(p, ticks) ==
    /\ ~smeared
    /\ sq.status[p] = "READY"
    /\ LET k == [ReadyRemove(sq, p) EXCEPT !.sleep_time[p] = ticks]
       IN  sq' = CountDown(sleep_insert(k, p)) /\ smeared' = Between(k, ticks)
    /\ left' = OneLess([left EXCEPT ![p] = ticks])
    /\ ahead' = [ahead EXCEPT ![p] = sq.sleep_size]

\* Any other call of schedule(): the timer interrupt or a system call.
schedule ==
    /\ ~smeared
    /\ sq' = CountDown(sq)
    /\ left' = OneLess(left)
    /\ UNCHANGED <<ahead, smeared>>

Next ==
    \/ \E p \in Proc, ticks \in Durations : process_sleep(p, ticks)
    \/ schedule

\* The timer interrupt never stops.
Spec == Init /\ [][Next]_vars /\ WF_vars(schedule)

-----------------------------------------------------------------------------
\* queue_idx ("Index in queues") and the sleep list agree, for any number of
\* sleepers, until one is inserted between two others.
ListedOnce == ~smeared => SleepersListedOnce(sq)

\* Nobody is woken earlier than its request by more ticks than there were
\* sleepers before it: the loop of schedule() that wakes the first sleeper also
\* takes one tick off the next one's delta, each time.
EarlyByThoseAhead == ~smeared => \A p \in Proc : left[p] > ahead[p] => p \in Sleepers

\* Every sleeper is woken (process_awake), whatever others do meanwhile, unless
\* one is inserted between two others.
SleepersWake == \A p \in Proc : p \in Sleepers ~> p \notin Sleepers \/ smeared
=============================================================================
