# SmplOSv2: a verification development

SmplOSv2 is a hobby kernel for i386 with a small userland (init, a compositor,
a terminal, a shell).  This directory models the parts of it whose correctness
depends on the order in which things happen: the scheduler's queues, sleeping,
processes with their families and signals, pipes, and the system calls and
interrupts that drive them; the loader of kernel modules; the file system with
`/proc/<pid>` and the FAT driver below it; the page directories of processes and
threads; the heap of a process; and the shell with the programs it starts.  TLC
checks small instances; TLAPS proves results about the run queues, the sleep list, the
pipe's ring, the module loader, the heap, the page directories, the file system and
the shell for every size.

All paths below are relative to `src/`.

## 1. The system

### How it executes

There is one CPU.  Every gate of the interrupt descriptor table clears the
interrupt flag, so a system call (`int 127`, `syscall.c: syscall_handler`), an
interrupt handler (`irq.c`) and a fault handler run to their end before
anything else does.  `schedule()` does not switch stacks: it overwrites the saved
register frame through which the handler will return.  A handler that blocks
therefore goes on executing after `schedule()` returns, and only the *return from
the interrupt* lands in another process.  Three consequences shape the models:

* a kernel handler is one atomic action, including everything it calls;
* concurrency in the kernel is the interleaving of handlers, and the hard errors
  are those in which one handler leaves structures that a later one misreads;
* user programs are interrupted anywhere: by other threads and by their own signal
  handlers.  In `UserHeap` and `ShellSession` an action is a piece of user code
  between two points at which it matters what others did.

(The ATA driver would enable interrupts inside a system call,
`modules/ramdisk_modules/ata/main.c:304`, but only with DMA, which `ATA_NODMA`, line 93,
switches off.)

`kfree` returns at its first line (`kheap.c:208`), so a structure is never reused
and a stale pointer still points to the old contents.  Page 0 is mapped, so the
kernel does not fault on a null pointer.

### Components

| component | state it keeps | operations | correct when |
|---|---|---|---|
| Run queues (`arch/i386/proc/proc.c`) | `groups`, a ready array per thread group, `groups_ptr`, group pointers, counters, `killed_procs` | insert/remove, group add/remove, `get_group`, `get_ready` | a thread is ready iff it is in exactly the slot it remembers; a choice never misses a ready thread; nobody starves |
| Sleeping (`proc.c`) | `sleep_procs`, deltas | `sleep_insert`, `sleep_remove`, the loop in `schedule` | each sleeper is listed once and wakes when its time is over |
| Processes (`proc.c`) | `processes[]`, parents, children, signal stack, `fswait_nodes` | create, exec, thread, exit, clean, waitpid, fswait, signal | blocked processes can be woken, woken once, the dead are cleaned after their output was read |
| System calls (`interrupts/syscall.c`) | none of its own | dispatch by `int 127` | each call leaves the CPU with a process that may run |
| Interrupt entry (`interrupts/irq.c, isr.c, idt.c, pic.c`) | handler tables | register, dispatch | handlers are atomic |
| Timer (`dev/pit.c`) | tick counter, listeners | tick, add/remove listener | ticks reach the scheduler and every listener |
| Pipes (`fs/pipe.c`) | ring buffer, two pointers, waiter list | create, read, write, ioctl, wait, notify | a bounded FIFO; all waiters are woken once |
| Physical memory (`mem/pmm.c`) | stack of free frames | alloc, free | no frame is handed out twice |
| Paging (`mem/paging.c`) | page directories | map, copy a region, fault | private memory stays private, shared blocks show what was shared; faults end the process, not the kernel |
| Kernel heap (`mem/kheap.c`) | free list in the heap area | alloc, realloc (free does nothing) | blocks are disjoint |
| User heap (`libc/stdlib/alloc.c`, `sys_sbrk`) | free list, heap end, lock | malloc, realloc, free, grow | blocks are disjoint; free space is found again; every thread reaches all of it; the lock is released |
| VFS (`fs/vfs.c`) | node tree, mount points, links | mount, lookup, open, create, link, remove | the tree stays a tree; lookups find what is there; `/proc/<pid>` belongs to one process at a time |
| FAT driver (`modules/ramdisk_modules/fat`) | the mounted disk | search, read | the bytes of a file are found in order, under its names |
| Tar ramdisk, ATA | device images | read | - |
| PS/2 driver (`modules/ps2`) | packet under assembly | interrupt | packets reach the pipe whole |
| Module loader (`module/module.c`) | module list, states | load, dependency check, reload | a module is loaded once, after its dependencies |
| Compositor (`usr/cserv`, `libs/cserv`) | windows, shared memory, pipes | request loop, render thread | clients get their events in order |
| Init, shell, terminal (`usr/*`) | the shell: `in_exec`, files on the streams of its child | exec, poll, SIGCHLD handlers | output appears once and in order; the prompt comes back |
| C library, framebuffer, keyboard library | buffers, environment | pure conversions mostly | - |
| Boot, logging, statistics, RTC, PCI, serial | registers | I/O | - |
| ACPICA; `proc_old.c`, `vfs_old.c` | - | vendored; not part of the build | - |

### Interactions

* User programs enter through system calls; `syscall_handler` records the frame
  (`syscall_state`), which `schedule(0, ...)` needs to switch away.
* The timer calls `schedule(frame)` on every tick.  `schedule` counts sleepers down,
  picks a thread, cleans dead processes and delivers a signal, in this order.
* A driver's interrupt writes a pipe; the pipe wakes its waiters with
  `process_fswait_notify`, and a woken process takes itself off every pipe it
  waited on, which changes the list being walked.
* The death of a process signals its parent (SIGCHLD).  A parent waiting by pid
  is woken by the signal *or* by the cleaning of the child.
* `create_process` mounts three pipes under `/proc/<pid>`; `clean_process` removes
  them again when they are empty, and may be stopped half-way by one that is not.
  The shell opens the streams of its child by path and empties them in its SIGCHLD
  handler, so that the kernel can clean the child.
* A thread is made as a copy of its creator's page directory with a stack of its
  own; `sys_sbrk` of one thread maps the same frame for the others; the C library
  keeps one heap for all of them under a spin lock.
* The compositor opens blocks of its clients: `copy_region` copies entries of one
  page directory to another.
* A page fault of a process is an exit; of init, or with no current process, a panic.

### What is hard about it

Wake-ups from several sources for one process (signal, pipe, child, timer);
per-process memory of an earlier state (`queue_idx`, `sig_ret_state`, `fswait_nodes`)
used much later; arrays with holes walked by pointers that other operations move;
counters decremented without being incremented; lists changed while they are walked;
shared scan pointers and starvation; pids and paths used again; signal handlers
that run on top of the code they share data with.  `PROJECT.json` lists the
hazards at their lines, with the properties that cover them or the reason why none does;
section 7 names others, of code that is not modelled.

## 2. The modules

```
ThreadGroups  <- RunQueue  <- RunQueueProofs                 (TLAPS)
      ^- SleepList <- SleepQueue <- SleepQueueProofs         (TLAPS)
            ^- Processes <- Kernel <- MCKernel
BoundedFifo   <- PipeRing  <- PipeRingProofs                 (TLAPS)
                    ^------- MCPipeRing
ModuleLoader  <- ModuleLoaderProofs                          (TLAPS)
      ^--------- MCModuleLoader
HeapPartition <- UserHeap <- UserHeapProofs                  (TLAPS)
                    ^------- MCUserHeap
AddressSpaces <- AddressSpacesProofs                         (TLAPS)
      ^--------- MCAddressSpaces
FatDisk <- VfsTree <- Vfs <- VfsProofs                       (TLAPS)
ProcStreams <----------+ ^-- MCVfs
ShellSession  <- ShellSessionProofs                          (TLAPS)
```

`ThreadGroups`, `SleepList` and `Processes` hold the C functions as operators from
kernel states to kernel states.  A kernel state is a record with one field per C
variable or structure member (`k.queue_idx[p]` is `p->queue_idx`); each module adds
the fields of its `Blank...` record, and operators touch only the fields they know,
so the same operator serves the small state machine it is proved about and the
whole kernel.  Groups are named by the process they were made for.  `FatDisk` and
`VfsTree` do the same for the file system.

* **ThreadGroups** - the idiom of every array of `proc.c` (first hole or end;
  circular scan from a pointer), the operations on groups, ready queues and killed
  list, and `GetReady`.  `GroupRemove` clears the slot that `gid` names, and `gid` is only
  set by `add_group` when it fills a hole; `proc_count` counts threads but not the
  process itself.  Both are what the code does.
* **RunQueue** - these operations as a state machine whose environment is
  arbitrary: any thread may be blocked, woken, killed, cleaned or given any number for
  its priority whenever the caller's precondition holds.  `get_ready` looks for two
  priorities (`Served`); all other numbers are one value, `OTHER`.
* **SleepList, SleepQueue** - `sleep_procs` with the deltas, including what
  `sleep_insert` does when it inserts before somebody (the copying loop overwrites the
  rest of the array).  `CountDown` is the loop at the head of `schedule()`, as a function
  of the number of turns.  `SleepQueue` remembers beside it what each process asked for,
  and who was asleep before it.  It ends when `sleep_insert` has put a process between two
  others (`smeared`): the array is then full of copies that nothing takes away.
* **Processes** - everything else in `proc.c` that changes what the scheduler
  sees.  `Schedule` is `schedule()` in the order of the code.  Only SIGCHLD is ever
  registered, so a signal stack is represented by its height.
* **Kernel** - one action per system call, driver interrupt, tick and page
  fault.  `Programs` is a set of habits, relations that say which process makes
  which calls; one of them is chosen at the start.  `MCShipped` has the habits of
  the programs in `os/usr`, the others are programs the interface allows.
* **PipeRing** - the ring of `pipe.c`, with read, write and clear; **BoundedFifo**
  is what it promises.
* **ModuleLoader** - `module.c`: each step of a pass over the delayed modules is
  an action.  `deps_block` says which name the code finds in the text of the dependencies.
  `entered`, `stamp` and `loads` are history variables.
* **UserHeap** - `alloc.c` with the lock taken, tested and released as in the code:
  a call is a stack frame with a program counter, and a signal handler's call is a
  second frame on top.  The list operations (`free_insert`, `free_remove`,
  `free_block`, `split`) work on the headers, which are a function of their
  addresses.  `mapped` is what `sys_sbrk` has mapped for each thread.
  **HeapPartition** is what the heap promises: blocks in use and free blocks that
  do not overlap, free space taken before the heap grows.
* **FatDisk** - the FAT driver as operators on a disk that nobody writes.
  **VfsTree** - `vfs.c` as operators on the tree; `kseek` restarts at the root after
  a driver found nothing, and a node that the FAT driver makes for an entry is made
  anew by each search, as in the code.  **Vfs** - the system calls on them,
  processes whose streams are mounted and removed, and an observer that keeps a
  descriptor over all that.  `clean_process` finds out whether a stream holds data by
  taking the bytes out and putting them back (`TestAndRemove`).  What a search should
  find is said without a scan: the long name of an entry is in the entry right before it
  (`LongOf`, `EntriesOf`).  **ProcStreams** is what `/proc/<pid>` promises.
* **ShellSession** - the shell's loop (`main`), its handler (`sig_child`) on top
  of it, the programs, `clean_process` and somebody who types.  Both the loop and
  the handler use `exec_stdout` and the two others.  `locked` says that main is inside
  `malloc` or `free`, when it opens the streams and when it frees its arguments; a handler
  that closes a file then spins.  A program's stdout takes `Cap` bytes and drops the rest,
  and a byte may be zero (`nuls`), at which the handler's `printf` stops.
* **AddressSpaces** - the user part of the page directories, by page and frame.

Operators whose comment begins with "Faulty:" are plausible mistakes in the
operator that follows them.  No specification uses them; substituting one for its
neighbour makes TLC report the property it is paired with in `PROJECT.json`, which shows that
the property depends on that line of the code.

### Abstractions

* In `Kernel`: saved contexts, page directories, descriptors and shared memory are left out,
  except `syscall_state`, which decides whether `schedule` may leave the process.
* Arrays keep their holes, sizes and stored indices.  The bounds of `groups` and
  `killed_procs` (256) are not reached by the instances; that of `processes` is
  modelled with its panic, that of the signal stack with its off-by-one.
* Counters are unsigned and wrap at `UINT_MAX`, which the instances make small.
* Output of a process is one bit in `Kernel` (unread or not), a number of bytes in
  `Vfs`, and a sequence of distinct bytes in `ShellSession`, where order matters.
* Process structures are handed out in increasing order and never reused in
  `Kernel`; in `RunQueue` any unused structure may be taken.  In `Vfs` and
  `AddressSpaces` it is the pid that counts, and pids are used again.
* In `UserHeap` blocks have no contents; programs are assumed to stay inside their
  blocks and to give back only blocks they hold, or a block that still lies in the
  free list (`FreeTwice`).
* Names and paths are model values; on disk a name is the entry's short name or a piece
  of a long name, and of the pieces before an entry the driver keeps the last one.
* In `AddressSpaces` units of size smaller than a page decide which pages a block
  touches.  Frame 0 stands for a page without a frame; `kmpalloc` maps such a page
  to the physical page of its own number (`-a`).

## 3. What is checked

| run | instance | shows |
|---|---|---|
| `run_queue` | 3 processes, up to 2 threads, any priorities, any environment | `Consistent`: ready threads and queue slots correspond one to one, counters agree; `GroupsLinked`: a living process can be found by the scheduler; `DispatchFindsReady`: a choice finds a ready thread of a served priority, of the higher one if there is one; `EveryReadyRuns`: round robin starves nobody of such a priority |
| `sleep_queue` | 3 processes, which may all be asleep; requests of 0, 1, 2 and 4 ticks, up to the first insertion between two sleepers | `ListedOnce`; `EarlyByThoseAhead`: nobody wakes earlier by more ticks than there were sleepers before it; `SleepersWake`, also after a request of 0 ticks and a wrap of the counter |
| `pipe_ring` | 4 cells, all requests 0..4, writes up to full | `SpaceAccounted`, and `IsFifo`: the ring implements `BoundedFifo` |
| `kernel_shipped` | init, compositor, shell, application, keyboard pipe | `TablesAgree`, `RunsReady`, `FamilyAlive` and `OutputOutlives` for the habits of the shipped programs |
| `kernel_programs` | a process with 2 threads that sleep, write a pipe and wait on it; parents that wait by pid, children that fault, even before any system call | `TablesAgree`, `WaitsForSomething`; `TickRecovers`: a tick that comes before an early fault repeats puts a ready process on the CPU; `ReadyRuns`, `WaitpidReturns`, `DeadAreCleaned` under fair ticks |
| `module_loader` | five files (a driver, a dependent, one that needs both, one above it, one whose list is not enclosed in commas), five loads with repetition, failing entry points | `DependenciesFirst`, `EnteredOnce`, `NoneForgotten`, `LoaderReturns` |
| `user_heap` | 2 threads, one with a handler; a small and a large size, an argument block, pages of 3 units | `HeapSound`, `HeldIsUsed`; `IsPartition`: the allocator implements `HeapPartition`; `LockReleased` |
| `vfs` | 2 pids with 2 streams, a device pipe, `/bin` in two clusters with long names, one in two pieces, and a deleted entry between a long name and the next file, files of 1 to 3 clusters, paths through missing directories | `TreeSound`, `LookupExact`, `ReadsExact`, `CreatedIsFound`, `OutputKept`; `IsProcStreams`: the streams found by path implement `ProcStreams` |
| `shell_session` | 2 programs, a stdout that takes 2 bytes of each, zero bytes among them, and drops more; 2 lines | `OutputExact`, `OneChild`, `PromptReturns`, `ChildrenCleaned` |
| `address_spaces` | 3 pids, 4 calls about blocks, 14 frames, blocks of a page | `PrivateMemory`, `HeapsAgree`, `BlocksShow` |
| `kernel_waitpid_handler` | a waiting parent with a SIGCHLD handler | finding 1 |
| `shell_stdin` | 1 program, 2 lines | finding 2 |

Properties that speak of several structures at once:

* `TablesAgree` (Kernel) is type correctness with the agreement of run queues and
  sleep list with the processes' status, of the pid table with the list of the
  dead, and of the pipes' waiter lists with what the processes wait for.
* `HeapSound` (UserHeap): the headers tile the heap, the free list has each free
  block once and in order with exact back pointers, and each thread has all pages.
* `TreeSound` (Vfs): a directory lists nodes that name it as their parent, once.
* `BlocksShow` (AddressSpaces): a block that was opened shows its owner's frames,
  although `copy_region` brings a page too many and so may overwrite what is mapped
  behind it.

Some properties name, in their statement, a case in which the code does not do
what one would expect; each exception is as narrow as the model permits, and each
is explained in section 5 (observations).

**Bounds.** Three process structures (four in the kernel) give a ready queue with
holes at the front, in the middle and at the end, a group between two others, a
second thread beside a first, and a parent, child and bystander.  `UINT_MAX` = 5, 7
or 15 lets a counter that is decremented once too often wrap, which is how such an
error shows.  `MAX_SIGSTACK_SIZE` = 1 lets the signal stack be filled and overrun by
its off-by-one.  Five module loads let a module arrive before, between and after its
dependencies, twice, and fail.  `MAX_PROCESSES` = 6 leaves enough pids in the kernel
instances; in the sleep instance it is 4, the length of the array that the copying
loop fills.  Four ring cells have every position of the two pointers, full, empty
and wrapped.  Three sleepers are the fewest of which one can be inserted between two others.  A heap of 16 units with sizes 1 and 4 has blocks that serve exactly,
that are cut, and that are too small to be cut, and grows twice, both for a block
and for a size.  Clusters of two bytes give reads inside, across and at the end of
clusters; ten nodes let each pid be used, cleaned half-way and used again.  `Cap` =
1 byte per stream tells empty from not empty, which is all that `clean_process`
looks at.  Two programs let the second start while the first one's streams are still
open; with two bytes, one can be read by main and the other by the handler, and the
pipe is full, half full or empty.  A shared region with two pages that are mapped and two that are not has
blocks with and without frames, and room for the extra page.  Longer rings, more
processes, other sizes are what the proofs are for.

**Fairness.** `RunQueue!FairSpec` assumes `WF(Dispatch)` and `SleepQueue!Spec`
assumes `WF(schedule)`: the PIT is programmed once, in periodic mode, and each tick
ends in `schedule()`; the handlers that run between ticks are finite.
`Kernel!TimerRuns` says the same of `pit_tick` (always enabled until a panic, always
counts).  No progress is assumed of any program there: a process may spin for ever,
and a dead process's output may never be read, which `DeadAreCleaned` states as its
premise.  Starvation of LOW groups by a HIGH group is possible and the code does not
promise otherwise, so the liveness properties except it or keep one priority.  A
panic halts the processor (`Halted`), and the liveness properties say so.
`ModuleLoader!Spec` assumes that the loader, once called, runs on; nobody has to
call it.

The models of user code, `UserHeap` and `ShellSession`, assume weak fairness of each
thread or process that is ready, which is what `EveryReadyRuns` and `ReadyRuns` show
of the scheduler at one priority.  A thread that spins on the lock is ready and
runs, and stays where it is (`Spin`); `sigexit` and `take_signal` are steps of the
shell.  `ShellSession` also assumes that a program ends and that `clean_process` is
tried again (every `schedule()` does); it does not assume that anybody types or that
a program reads what was typed.

CHECK_DEADLOCK is FALSE where the environment may stop: when all loads are done,
when nobody calls the allocator and the bounds are reached, when all lines are
typed, when the frames are used up.

## 4. What is proved

`RunQueueProofs`, for every finite set of processes, every `UINT_MAX` greater than the
number of processes, any set of mortal processes and any number of threads:

* `SpecTypeOK`, `SpecConsistent`, `SpecDispatchFindsReady`, `SpecGroupsLinked`, with any
  numbers as priorities.

`Consistent` is not inductive alone.  To show that `ready_remove` clears a slot of
the right queue one needs that a READY thread has a group and its remembered slot is
inside the array (type correctness and `HaveGroup`); to show that a choice finds a
thread one needs that `ready_count` is the cardinality of the used slots, that this
cardinality is at most the number of processes (each used slot holds another
process, `OccupiedBounded`), and so that the unsigned counter never wraps.  The
killed list needs that an entry is a DEAD process, so that writing the `queue_idx`
of a queued process never disturbs it; and a process in the killed list never
becomes ready again.  `IInv` is the conjunction of the type invariant with the named
parts of `RunQueueConsistent`.  There is a lemma for each operator
(`ReadyInsertKeeps`, `SuspendKeeps`, `KilledInsertKeeps`, `KilledRemoveKeeps`,
`NewGroupKeeps`, ...), so the step lemma `NextIInv` is one short case per action.
`DispatchFindsReady` rests on `FirstFromFinds` (a circular scan over a non-empty
finite set of slots finds one) and `GetReadyFinds`.

`GroupsLinked` speaks of runs without threads, in which the group of every process that
was ever made stays in exactly one slot of the array (`OneSlot`): `remove_group` tests
`proc_count`, which does not count the process itself, wraps at its death and is not 0.
To show that no second decrement follows, the invariant says that a group whose count is not
0 is that of a dead process which has left the killed list (`Linked`, in `LInv`).

`SleepQueueProofs`, for any number of processes, asleep in any number, any requests up to
`UINT_MAX`, and sums of deltas that wrap:

* `SpecListedOnce`, `SpecEarlyByThoseAhead`.

Both speak of the time until a process is inserted between two sleepers, for then they are
false of the code (section 5).  In particular they hold of every run in which each new
sleeper is put behind all others.  The invariant (`Fits`) says that every process is listed where it
remembers to be (`Calm`, `Lined`), and bounds what is left of a request: by the sum of
the deltas up to the sleeper, and one tick for each of those that were before it and have
been woken (`Sums`, `Owed`), for the call that wakes the first takes a tick off the
next one's delta as well.  What is left of a process that was woken is then at most the
number of those before it, which is `EarlyByThoseAhead`.  The loop of `schedule()` and the
one of `sleep_insert` that adds up the deltas are handled by induction along their rounds
(`LoopInduction`, stated with a set): `TurnFits`, `LastTickFits`, `DeltaBeforeIs`.  Who goes
to sleep is put behind all others (`InsertIs`), with a delta that reaches its request
together with the sum of theirs, or with less of them, modulo `UINT_MAX + 1` (`Reached`).

`PipeRingProofs`, for every pipe size of at least 1, every set of bytes, messages and requests:

* `SpecTypeOK`, `SpecSpaceAccounted`, and `SpecIsFifo`: the ring with the mapping
  `contents <- Unread`, `Capacity <- Size - 1` implements `BoundedFifo`.

Its argument: stepping a pointer by m and then by n is stepping it by m + n
(`ForwardTwice`); `Steps` inverts `Forward` (`StepsBack`); hence a write appends its
prefix to the window between the pointers (`WriteExtends`, stated with
`StoredBehind`) and a read cuts it at n (`ReadSplits`).

`ModuleLoaderProofs`, for any files, dependency texts and number of loads:

* `SpecTypeOK`, `SpecDependenciesFirst`, `SpecEnteredOnce`, `SpecNoneForgotten`.

`NoneForgotten` speaks of the idle loader only.  The invariant that carries it
through a pass is `PassSound`: while the pass has loaded nothing (`~flag`), no
module it has passed over is loadable.  A failing entry point loads nothing and so
makes nothing loadable (`FailureFreesNone`); a successful one sets `flag`, which
forces another pass.  `DependenciesFirst` needs that the turns given so far are at
most `loads` (`StampsBounded`), `EnteredOnce` that unused entries are blank.

`UserHeapProofs`, for any threads, any of them with a handler, any header size, request
sizes, page size and arguments that fit into the first heap:

* `HeapStaysSound` (`HeapSound`), `BlocksHaveOneOwner` (`HeldIsUsed`), and
  `HeapIsPartition`: `alloc.c` implements `HeapPartition` (`IsPartition`);
* `PartitionBlocksApart`: in `HeapPartition`, which has no free list and no threads, no two
  blocks overlap, none is both in use and free, and all lie below `top`.  By
  `ArgumentsApart` the arguments that the kernel copies have the layout it asks for, and so
  `BlocksNeverOverlap`: the blocks of `alloc.c` lie apart.

The first part is about one heap and no calls.  The free list is described as a set `L`
of addresses of which each block names the next higher one (`Linked`), and the walks along it,
which are recursive functions, are shown to end where they should by looking at the
least block that contradicts it: `LastBelowIs` for the place where `free_insert` stores,
`FindIs` for the first block that serves.  `InsertIs`, `RemoveIs`, `SplitIs` say what the
list operations make of `L`, `FreeIs`, `TakeWholeIs`, `TakePartIs`, `NewIs` what the
operations do to the whole heap: they keep `SoundHeap`, that is `Linked`, the tiling
(`Tiles`) and that the list is exactly what is not marked as used (`Marked`).  The second
part is the interleaving.  `IInv` adds that the lock lets one call at a time behind it
(`Mutex`), that what each call knows at its program counter stays true until it acts on
it (`Stage`: the block found still serves, or still none does), and that a block in
use belongs to the program or to one of the calls (`Owners`): a call that waits for the lock
holds what it was passed, one that is about to return holds its result.  The refinement
follows step by step: each step behind the lock that changes the heap is one step of
the abstract heap (`TakeView`, `MakeNewView`, `GiveBackView`), and every other step a stutter.
The proof about the abstract heap is about the two pieces of a block that is cut: they lie
apart (`CutApart`), and whatever lay apart from the block lies apart from them
(`InsideApart`).

`AddressSpacesProofs`, for any pids, pages, sizes and frames (`Layout`):

* `SpecPrivateMemory`, `SpecHeapsAgree`, `SpecBlocksShow`.

The calls about shared blocks are what makes `PrivateMemory` not inductive:
`copy_region` carries frames from one directory into another, so a private frame
that was in *some* shared region would end up in all of them.  `IInv` therefore
adds: no frame below the region is also in a region (`Apart`); a frame that two
entries below it share is in no stack, and in one group only (`LowApart`); nothing
below it was mapped without a frame (`Positive`), for `-a` would be the same in all
directories; every frame in use has been popped (`Bounded`), so those that
`create_process` takes are new; and heaps end before the region (`HeapEnds`), which
is a guard of the model and not of the code (`syscall.c:265`).  `HeapsAgree` is part
of `IInv`, since `sys_sbrk` extends the heap of each thread from its own end.

For `BlocksShow` one needs that the blocks of a process end in the order in which
they were opened (`Rising`), so that what a later call maps, the page too many
included, begins behind the pages of the earlier ones, and that a block's record shows only
pages that begin below its end (`Showing`).

`ShellSessionProofs`, for any number of programs, of bytes of each and of lines, and any
size of their stdout:

* `SpecOneChild`, `SpecOutputExact`.

Three invariants build on each other.  `IInv`: a program lives only under `in_exec`, or
in the moment between `sys_exec` and the store of the flag, and none while a death waits to
be handled.  `SInv`: the children were started in order, all but the newest were read to
the end, and the newest one's output is followed (`Following`): main is about to
open its pipe, or has it open and will read, or the handler will.  This is why
nothing is lost when `clean_process` takes the pipe away.  `CInv`: the pipe holds the last
of the bytes it took (`PipesOK`); what was printed and what main holds are bytes read, all
of them but those behind a zero byte (`Told`), each once, and in order unless main held
some when the handler came (`torn`).  What a full pipe dropped was never in it.

`VfsProofs`, for any disk, names, drivers' pipes, pids, streams, paths, links and bounds:

* `TreeAlwaysSound` (`TreeSound`), `LookupAlwaysExact` (`LookupExact`),
  `ReadsAlwaysExact` (`ReadsExact`), `CreatedAlwaysFound` (`CreatedIsFound`),
  `OutputAlwaysKept` (`OutputKept`), all from `InvHolds`.

The invariant `Inv` has three parts.  `TreeInv` is about the tree: a node lists only later
nodes that name it as their parent, in the order in which they were made (`Lists`), so
that the first child of a name is the oldest; two of one name only under `/proc`
(`Unique`); the root, on which the disk is mounted, has only children that the disk does not
have too, apart from `/dev` and `/proc` (`Hides`), so that what is executed is found on the
disk whatever was created since.  `ProcsInv`: the image of a process is a file
of `Execs`, byte by byte, and its directory exists.  `FdInv`: what the last `fread`
stored is what `fat_read` gives for the opened file.  The second and third are what
`ReadsExact` needs, for an image and a buffer outlive the tree in which they were found.

The argument has three layers.  Of the disk: `fat_parse_cluster`, which goes through a
cluster with a long name in its hand, and `EntriesOf`, which looks at the entry before,
name the same files by every name that is not stray (`PendingIsBefore`, `CodeAndDisk`), and
the pieces of a read, put together, are the bytes asked for.  Of a walk: `kseek`, with its restart at the root, and `Lookup`,
without, take the same step as long as `Lookup` has not failed.  Of a change: mounting,
linking and creating leave every earlier node where it was (`Grown`, `Mounted`,
`Linked`), and removing `/proc/<pid>` leaves the other children in their order
(`Pruned`).  One lemma for each action follows from these.  For `OutputKept`, `clean_process` takes out what a
stream holds and puts back as many bytes; these fit again because no pipe ever holds more
than `Cap` (`TestAndRemoveIs`).  Recursive functions (chains,
paths, the pieces of a read) are handled by looking at the least index at which what is
claimed fails.

The assumptions are the named ASSUMEs of the modules: finitely many process
structures, `Nil` not among them, `UINT_MAX` above their number, a pipe of at least
one byte, the order of stack, heap and shared region, a header, page and first
heap of at least one unit, arguments that fit into the first heap (`ArgsFit`; the kernel
copies them without a test), requests for sleep that fit into the counter, fewer
processes than `MAX_PROCESSES`, for each has a pid of its own and 0 is none.  For the file system they are: chains of clusters end, a directory has
entries in each of its clusters and a file has clusters for all its bytes, so that an empty
file without a cluster is outside (`DiskAssumption`); paths are made of real names, and no
two pids share one (`VfsAssumption`); a directory of the disk has one entry of each name, and
what is executed lies on the disk, not under `/proc` or `/dev`, and is not named by a stray long
name (`NamesAssumption`).  A pipe of size 0, which
`sys_pipe` would pass on, is outside: its available space would wrap.

**Only model-checked**:

* everything temporal under fairness (`EveryReadyRuns`, `SleepersWake`, `ReadyRuns`,
  `WaitpidReturns`, `DeadAreCleaned`, `LoaderReturns`, `LockReleased`, `PromptReturns`,
  `ChildrenCleaned`), which is beyond the proof system;
* `Processes` and `Kernel` (`TablesAgree`, `RunsReady`, `FamilyAlive`,
  `WaitsForSomething` and the action properties).  They hold for the programs of the runs and not
  for every set of habits: a signal to a process that waits on pipes, or a thread of a
  process with children, breaks them (section 5).  What holds for all programs is what the
  proofs about `RunQueue` say of the operators that `Processes` calls;
* `IsProcStreams`.  It is false of arbitrary `Links` and `Pipes`: a link from a stream's path
  to another's makes two streams one pipe, and a pipe made at `/proc/<pid>/stdout` before the
  process is becomes its stream.  The instance makes its link and its pipe at other names.  In
  the shipped code nobody calls `sys_link`, and `libs/cserv` alone calls `sys_pipe`: for the
  server's pipe at the path it is given (`cserv.cpp:59`) and for `/proc/<pid>/cssock` of a
  client (`cserv.cpp:72`), which is in a process's directory but has no stream's name.

## 5. Findings

1.  `sig_ret_state` sends a process back to WAIT when its handler ends even though
   what it waited for has happened meanwhile; the parent then waits for ever
   (`kernel_waitpid_handler`: `WaitsForSomething`).  It is never reset either: after
   an fswait was interrupted once, the end of every later handler blocks the
   process.  No shipped program waits by pid, and those that handle signals poll.
2.  The shell's handler reads the three streams of a child that ended, so that
   `clean_process` finds them empty.  It opened `exec_stdin` with "w"
   (`shell/main.c:166`), and `sys_read` refuses a file without `F_READ`; a typed
   byte that the program had not read stays, and the program is never cleaned
   (`shell_stdin`: `CleanedInTheEnd`).

**Observations**: what the models do because the code does, without a statement in the
repository that says otherwise.  Where a property would be false because of one of them, it
excepts it.

* `sleep_insert` stops at the first sleeper that wakes no earlier than the new one
  and stores the new one *behind* it, with a delta that leaves that one out
  (`proc.c:194-205`): with 3 ticks left in front, a request for 3 ticks takes 6.
  Inserting between two sleepers copies the occupied slot over the rest of the array
  (`proc.c:206-213`), so one process is listed many times, and for ever; `SleepQueue` follows
  the array into this state and ends there.
* `sys_prior` stores any number (`syscall.c:483`), and `get_ready` looks for two of them
  (`proc.c:77`): a process that gives itself a third one never gets the CPU again, though it
  is ready and linked; hence `Served` in `DispatchFindsReady` and `EveryReadyRuns`.
* With threads, `proc_count` reaches zero at the first death in a process with one
  extra thread, and its group is taken out of `groups`, or group 0 is
  (`proc.c:144`); hence `threads = 0` in `GroupsLinked`.
* A pipe of n bytes stores n - 1: the mouse pipe, sized for 256 packets, takes 255 and a part.
* `send_signal` makes a process that waits on pipes READY but leaves it registered
  with them; the next write inserts it in its ready queue a second time.  It takes a process
  that has children and waits on pipes; the shipped compositor has no children.
* A search restarts at the root after a missing directory (`vfs.c:168`), so
  `/nosuch/dev/kbd` finds `/dev/kbd`; a node created under a directory of the disk
  is lost.  `LookupExact` and `CreatedIsFound` except these.
* The driver keeps a long name until the next short entry it accepts in the same cluster
  (`fat/main.c:211-225`): the long name of a deleted file names the file after it, and the
  one at the end of a cluster names nothing.  `LookupExact` excepts such names
  (`StrayNames`).
* `fat_read` of a range that crosses clusters uses offsets relative to the cluster
  it has reached, and returns what was left of the size (`fat/main.c:339`).
  `execute` reads whole files from 0, and is right unless the size makes the count
  0, when `sys_exec` refuses the file.
* A program that ends before the shell has opened its streams leaves the shell in
  `in_exec` or in `fopen` for ever.  `libc_init` sleeps two ticks before a program exits, so
  it takes one that faults.  One that ends while the shell is inside `malloc` or `free`, when it
  opens the streams or when it frees its arguments (`shell/main.c:173-183`), leaves the
  handler spinning in `fclose` on a lock that nobody will release (`alloc.c:166`).  Both are
  `untimely` in `ShellSession`.  If the handler
  comes between `fread` and the last `putchar` of main, output is out of order
  (`torn`), though nothing is lost.
* Output is lost before it reaches the shell when a program writes faster than the shell
  reads: its stdout takes 255 bytes (`proc.c:344`), `pipe_write` drops the rest
  (`pipe.c:149`), and `fwrite` does not try again (`stdio.c:38-50`).  And the handler prints
  what it read with `printf("%s")` (`shell/main.c:37`), so what follows a zero byte is lost.
  `OutputExact` is about the bytes that the pipe took, and excepts the latter.
* A handler that calls the allocator on top of a call that holds the lock waits for ever
  (`SelfBlocked`).  The handlers of the shell and the terminal do call it.
* A thread is a copy of its creator and names the same children; its death orphans
  them (`proc.c:901`, `712`), and a sibling that waits for one by pid is never
  woken.  No instance of `Kernel` has threads and children in one process.
* A thread takes the number of its creator's blocks for their size (`proc.c:914`),
  so its next block overlaps them (`Contiguous`).

## 6. How to run

`tlc -config RunQueue.cfg RunQueue.tla` and so on; `PROJECT.json` names module and
configuration of each run.  `tlapm RunQueueProofs.tla` and so on for the eight `...Proofs` modules check the proofs.

## 7. Not modelled

* **Compositor protocol** (`usr/cserv`, `libs/cserv`): client and server share memory and
  read packets without agreement on who has read what; a faithful model has to follow C++
  objects, drawing and the packet layout.  Its scheduling and its blocks are modelled.
* **ATA, PS/2 packets, RTC, PCI, serial**: register access whose other half, the
  device, is not in the repository.
* **Tar ramdisk**: read-only and read at boot; `tar_mount` counts one header less than it stored
  (`tar.c:70`), which needs no model to see.
* **Kernel heap**: it only grows.  Its free list is `UserHeap`'s code, never reached.
* **Relocation and symbols of modules** (`elf.c`, `symtable.c`), boot, logging,
  drawing, formatting, key tables: conversions.
* **ACPICA** (`dev/acpica`, most of the repository's lines) is vendored;
  `proc_old.c`, `vfs_old.c` are not built.

`PROJECT.json` also lists hazards in the modelled code that no property covers, each with the
reason.  Hazards that are not in the models either: 256 groups or 256 dead processes fill `groups`
(`proc.c:45`) or `killed_procs` (`proc.c:171`), and 255 pids end in a panic
(`proc.c:282`); a pipe's RESIZE request confuses size and buffer (`pipe.c:59`);
`sys_fswait` hands over uninitialised entries for closed descriptors
(`syscall.c:219`); the search for a free listener reads one past the array
(`pit.c:31`); `loaded_modules` is written before the warning that it is full
(`module.c:114`); frames of processes are never given back, and each takes 4096 for
its shared region (`pmm.c:37`); blocks are opened by pid and id without a test
(`proc.c:967`), and stay mapped after a reset (`proc.c:957`); the server pipe of the
compositor is no multiple of its packet (`cserv.cpp:59`), and clients are never
removed (`cserv.cpp:113`); `setenv` of a variable that is set never returns
(`env.c:53`), `libc_init` writes `environ` before it makes it larger
(`libc_init.c:19`) and walks `usr_envp` to a null that `execute` does not write
(`proc.c:489`); the terminal's input buffer has no bound (`terminal/main.cpp:135`).

What is left for the models at hand: a proof that `Vfs` implements `ProcStreams` when no link
and no pipe is made at a path that ends in a stream's name; the conditions on programs under which the waiter lists and the pid table of `Kernel` agree,
stated as an assumption on `Programs`, and an inductive invariant under it; programs with
both threads and children in `Kernel`.
