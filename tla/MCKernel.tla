------------------------------ MODULE MCKernel ------------------------------
(* Instances of Kernel.  Structure 1 is init; the others are numbered in   *)
(* the order they are made.                                                *)
EXTENDS Kernel

Each(ps, names) == ps \X names

\* The programs of os/usr: init execs and handles SIGCHLD; the compositor is
\* high-priority and waits on pipes (its sleeping thread is in MCThreadCalls);
\* shells exec, handle SIGCHLD and read what applications write (the terminal,
\* which reads the shell's own output, is left out, and that output with it);
\* applications write, sleep, exit or fault.
MCShippedCalls ==
    Each({1}, {"exec", "sighandl", "yield"})
    \cup Each({2}, {"fswait", "prior", "sig"})
    \cup Each({3}, {"exec", "sighandl", "read", "exit"})
    \cup Each({4}, {"write", "sleep", "exit", "fault"})

\* A process with threads that sleep, write a pipe and wait on it.
MCThreadCalls ==
    Each({1}, {"exec"})
    \cup Each({2}, {"thread", "fswait"})
    \cup Each({3}, {"sleep", "pipe"})
    \cup Each({4}, {"sleep", "fswait"})

\* A parent that waits for its children by pid and handles no signals; its
\* children may fault, even before their first system call.
MCWaitpidCalls ==
    Each({1}, {"exec", "read"})
    \cup Each({2}, {"exec", "waitpid", "exit"})
    \cup Each({3, 4}, {"write", "exit", "fault", "early fault"})

\* A parent that waits for its child and handles SIGCHLD.
MCHandlerCalls ==
    Each({1}, {"exec"})
    \cup Each({2}, {"exec", "waitpid", "sighandl"})
    \cup Each({3}, {"exit"})

MCShipped == {MCShippedCalls}
MCAllowed == {MCThreadCalls, MCWaitpidCalls}
MCWaitpidHandler == {MCHandlerCalls}
=============================================================================
