----------------------------- MODULE ProcStreams -----------------------------
(***************************************************************************)
(* What a process may expect of /proc/<pid>: from its creation until it is *)
(* cleaned, its streams hold what was written to them and nobody has read; *)
(* it is cleaned only when dead and when nothing is left to read; and the  *)
(* next process of that pid starts with empty streams of its own.          *)
(***************************************************************************)
EXTENDS Integers

CONSTANTS Pid, Stream, Cap   \* Cap: the bytes a stream holds

VARIABLES
    life,    \* per pid: "free", "alive" or "dead"
    unread   \* per pid and stream, the bytes not read yet

vars == <<life, unread>>

Init ==
    /\ life = [n \in Pid |-> "free"]
    /\ unread = [n \in Pid |-> [s \in Stream |-> 0]]

Create(n) ==
    /\ life[n] = "free"
    /\ \E l \in {"alive", "dead"} : life' = [life EXCEPT ![n] = l]
    /\ UNCHANGED unread

Exit(n) ==
    /\ life[n] = "alive"
    /\ life' = [life EXCEPT ![n] = "dead"]
    /\ UNCHANGED unread

Write(n, s) ==
    /\ life[n] # "free" /\ unread[n][s] < Cap
    /\ unread' = [unread EXCEPT ![n][s] = @ + 1]
    /\ UNCHANGED life

Read(n, s) ==
    /\ unread' = [unread EXCEPT ![n][s] = 0]
    /\ UNCHANGED life

Clean(n) ==
    /\ life[n] = "dead"
    /\ \A s \in Stream : unread[n][s] = 0
    /\ life' = [life EXCEPT ![n] = "free"]
    /\ UNCHANGED unread

Next == \E n \in Pid : Create(n) \/ Exit(n) \/ Clean(n) \/ \E s \in Stream : Write(n, s) \/ Read(n, s)

Spec == Init /\ [][Next]_vars
=============================================================================
