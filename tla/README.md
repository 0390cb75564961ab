# team-segfault in TLA+

A formal model of the Yalnix kernel in this repository: TLA+ modules translated
from `src/`, TLC runs that check them on small instances, and TLAPS proofs of
the results that do not depend on the instance.

All modules rest on one fact about the kernel. It runs with interrupts off and
is never preempted, so a system call or trap is one atomic step from the trap
to the point where it sleeps or returns. Concurrency comes from processes that
sleep in the middle of a call (`sleepOnWaitQueue`, `TtyWrite`'s wait for the
terminal) and from programs that interleave between their calls.

## 1. Inventory

| Part | State | Operations | Interacts with |
|---|---|---|---|
| Wait queues (`sync/waitqueue.c`) | a list of nodes `{process, is_exclusive}`; exclusive nodes at the back | join and sleep, signal one exclusive sleeper, signal all | mutexes, cvars, terminals; `wakeUpProcess` of the scheduler |
| Mutexes, condition variables (`sync/mutex.c`, `cvar.c`, `sync.c`) | `locked`, `current_owner`, a waitqueue each; the list of resources | `LockInit/Acquire/Release`, `CvarInit/Wait/Signal/Broadcast` | wait queues; exit of processes |
| Terminals (`traps/tty.c`) | `write_current`, two waitqueues, the line buffer and its read position | `TtyRead`, `TtyWrite`, receive and transmit interrupts | wait queues, the emulator's terminals |
| User memory (`memory/memory.c`, `brk.c`; parts of `fork.c`, `load.c`, `process.c`, `switch.c`, `kill.c`) | page tables, `frc_table`, `pcb_frames`, stack pointer, break | memory trap (copy-on-write, stack growth), `Brk`, `Exec`, `Fork`, `createThread`, `Exit` | frame pool, process tree |
| Kernel heap (`SetKernelBrk`) | kernel break, region 0 page table | grow, shrink | frame pool |
| Frame list (`memory.c`, `init_memory.c`) | `frame_head`, a link in the first word of each free frame, reached through a scratch page | allocate, free, build at boot | user memory, kernel heap |
| Process tree (`process.c`, `fork.c`, `kill.c`, `switch.c`) | parent, thread leader, lists of children and threads, zombies, exit status | `Fork`, `createThread`, `Exit`, `Wait`, `Join` | scheduler, memory |
| Scheduler (`switch.c`, `process.c`, `traps.c`) | `process_head` ring, state of each process, clock, wake-up times | `schedule`, clock trap, `Delay`, sleep and wake | everything that sleeps |
| Linked lists (`core/list.h`) | `next`/`prev` pointers | insert, append, remove, splice, iterate | all lists above |
| Boot (`init/*.c`) | the initial page table, frame list, idle process | `KernelStart`, `SetKernelData`, `loadInit` | all of the above |
| Trap dispatch (`traps/traps.c`) | the vector; no state of its own | one handler per trap | calls the parts above |
| User programs (`apps/`), headers (`include/`), unit tests | none of the kernel's | | |

What makes the parts correct, and what is hard about each:

* **Wait queues.** A signal wakes exactly those it takes off the queue; exclusive
  wakeups wake one. The loop frees the node it stands on.
* **Mutexes and cvars.** Mutual exclusion; no wakeup lost between a release, an
  acquirer that barges in and the sleeper that was signalled; a waiter on a cvar
  owns the mutex again when it returns. Owners are identified by the address of
  their descriptor, which outlives the process.
* **Terminals.** One transmission at a time; a message is printed whole before
  `TtyWrite` returns and is not mixed with another; a line that takes several
  reads passes the wakeup on from reader to reader.
* **User memory.** Reference counts equal references; the frame list holds unused
  frames; copy-on-write is invisible to programs. Hard: the order in which
  sharers fault, exit, exec and fork again; shortage in the middle of a call.
* **Process tree.** Every child is collected once, no list refers to a freed
  descriptor, an exit status is kept until the parent takes it. Hard: threads and
  children that outlive or predecease their leader.
* **Scheduler.** Every runnable process gets its turn; delays end. Hard: an idle
  system, and calls that poll in the kernel, where the clock does not tick.
* **Frame list and kernel heap.** The list runs through the free frames themselves; a
  link must never be taken from a frame in use. The kernel stack cuts a hole into it.
* **Lists.** A node is on at most one list; both directions agree.

Each hazard, with its source line and the property that covers it, is in
`PROJECT.json` under `hazards`.

## 2. Modules

| Module | Models | Used by |
|---|---|---|
| `WaitQueue` | the queue operations as operators on sequences | `Sync`, `Tty` |
| `WaitQueueProofs` | lemmas on what a signal and a sleep do to a queue | `SyncProofs`, `TtyProofs` |
| `Sync` | mutexes, cvars, and process creation and exit around them | `MCSync` |
| `SyncProofs` | theorems about `Sync` | |
| `Tty` | one terminal and the processes that read and write it | `MCTty` |
| `TtyProofs` | theorems about `Tty` | |
| `Memory` | page tables, frames, and every call that touches them | `MCMemory` |
| `PrivateMemory` | the abstract specification `Memory` implements | `Memory` |
| `MemoryProofs` | theorems about `Memory`, and the step simulation to `PrivateMemory` | |
| `List` | `core/list.h`, pointer by pointer | `Process`, `FrameList` |
| `ListProofs` | lemmas on what the operations do to circular lists, and what walks visit | `ProcessProofs`, `FrameListProofs` |
| `Process` | the process tree, the scheduler, the clock, `Delay`, `Wait`, `Join` | `MCProcess` |
| `ProcessProofs` | theorems about `Process` | |
| `FrameList` | the frame list, the kernel heap, and the boot that builds both | |
| `FramePool` | the abstract specification `FrameList` implements | `FrameList` |
| `Rounds` | the effect of a counting loop, given that of one round | `FrameList`, `Process` |
| `RoundsProofs` | the rule for such a loop | `FrameListProofs`, `ListProofs`, `ProcessProofs` |
| `FrameListProofs` | theorems about `FrameList`, and the step simulation to `FramePool` | |
| `MCSync`, `MCTty`, `MCMemory`, `MCProcess` | symmetry, instances and the view of the runs | |

Every definition that stands for code is tied to its lines in `PROJECT.json`
under `map`. A few definitions say "A version that ...": a plausible slip of the
operation after it, used to confirm that each property notices it. They are
defined but not used by the specifications.

### WaitQueue and Sync

A queue is the sequence of its nodes. `SignalCount` says how many nodes one
signal removes, `SignalWakes` and `SignalLeaves` what becomes of them.

`state`, `thread_leader`, `locked`, `current_owner`, `mutexQueue` and `cvarQueue`
are fields of the C structures. A call that may sleep is split where it sleeps:
`at[p]` is the place in the kernel where `p` continues ("acquire", the loop of
`mutexAcquire`; "cvar", the line after the sleep in `cvarWait`) and `want[p]` the
mutex it is about. `held` is a history variable: the processes to which
Acquire or CvarWait has returned and that have not released. The actions
`mutexAcquire`, `mutexAcquireWoken`, `mutexRelease`, `cvarWait`, `cvarWaitWoken`,
`cvarSignal` and `cvarBroadcast` are the handlers and their continuations;
`forkProcess`, `createThread` and `killProcess` reduce processes to what a mutex
can see of them.

Three constants say what programs do: `ReleaseAny` (they release mutexes they do
not hold), `ExitHolding` (they exit while they hold one) and `KillSleepers` (a leader
exits while a thread of its sleeps). The kernel checks none of the three.

### Tty

One terminal, since terminals share no state. Lines and messages are their
lengths. `transmitting` is the hardware's side: the transmissions handed to it
whose interrupt is still to come. `ttyRead` and `ttyWrite` are split where they
sleep ("read", "write", "transmit"); `WriteLoop` is the chunk loop of `ttyWrite`.
`NodeMayFail` lets the allocation of a writer's waitqueue node fail, whose result
the loop ignores.

### Memory and PrivateMemory

Addresses are page numbers counted from `VMEM_1_BASE`. The kernel stack lies just
below it, so the `pcb_frames` of a process are the negative slots of its table.
`free` is the set of frames on the list; `Placements` gives the frames that successive
calls of `allocatePageFrame` return. `mem` holds one value per frame, and a free frame holds
`Junk`, since nothing clears it. Each trap or call is one action:

| Action | Code |
|---|---|
| `Store`, `MoveSp` | what a program does between traps |
| `handleMemoryTrap` = `CopyShared`, `UnsetCopyOnWrite` or `GrowStack` | `handleMemoryTrap` |
| `setProcessBrk` = `increaseBrk` or `decreaseBrk` | `memory/brk.c` |
| `loadProgram` | `process/load.c` |
| `forkProcess`, `createThread` (both `CopyProcess`) | `process/fork.c`, `createProcessDescriptor` |
| `createProcessDescriptorFails` | its error path |
| `killProcess` | `process/kill.c`, `killKernelContext` |

`Situations` says what programs may get themselves into. Each run names those it includes:

| Situation | What happens |
|---|---|
| `threads` | leaders create threads |
| `killThreads` | a leader exits while threads of its sleep |
| `forkThreaded` | a leader forks while it has threads |
| `outOfFrames` | `Brk` or `Exec` finds too few frames |
| `noDescriptor` | `Fork` or the creation of a thread finds no frame for the kernel stack |
| `forkShort` | it finds too few for the copy of the stack |
| `overMapped` | `Brk` covers pages that are mapped above the break: an earlier, deeper stack left them, or a `Brk` that failed half way got them (a retry) |
| `overShared` | the same, and other processes share the frames behind them |

`increaseBrk` does not look at the entries it overwrites, and neither does the model; `MayCover` is
what keeps a run out of the last two situations.

`PrivateMemory` is what programs are promised: each process has an image of its
own, Fork copies it, and only the process itself changes it. `Memory!visible` is
the refinement mapping (the contents of the frame behind each valid page) and
`ImplementsPrivateMemory` the claim.

### List and Process

`List` keeps the links of a set of nodes as two functions, `next` and `prev`, and
each operation maps links to links in the order of its assignments. Nothing assumes
that a node is on a list, so an operation on a node that was taken apart does
what the code does. `forEachNode` is the walk of the macro, `Ends` says whether it
comes back to its head.

`Process` has five nodes per descriptor (`children`, `siblings`, `thread_group`,
`thread_peers`, `process_list`) and the head `process_head`. The system call
handlers are actions; `Wait` and `Join` poll, so each has a second action
(`waitForPIDPolls`, `joinThreadPolls`) for a process that `schedule` comes back to inside
the call. Only `current` acts. `left` is the number of ticks to `wake_up_time`.
`queued[p]` counts the nodes on waitqueues that point to the address of `p`: a node outlives a
thread killed in its sleep, and `wakeUpProcess` writes PROCESS_RUNNING through it to whatever is
there now, a freed descriptor, or a zombie or a delayed process that malloc has put at the address.
`killProcess` follows the code's order: the next process is chosen first, zombies among the
children are released, the others spliced to the parent, the threads released, and
at last `killKernelContext` releases the process itself if its parent is PID 1. The two loops
over children and threads are `releaseEach`, a `Loop` of `Rounds` along the walk the macro makes.

`kernel` is "up" until an action reads or writes a descriptor that was freed, walks a list
that does not come back to its head, revives a zombie, or switches to a process that cannot run
("undefined"), or `schedule` finds nobody ("spins"); nothing follows either. The
invariant `KernelDefined` says that this never happens. It does, in five
situations that programs can get into and that `Situations` turns on:

| Situation | What goes wrong |
|---|---|
| `orphans` | a process exits while a child runs: the head of its list of children is left spliced (`kill.c:67`), see `ProcessOrphans` |
| `joinAgain` | a joined thread stays on its leader's list; the next `Join`, creation or exit meets freed memory (`process.c:209`) |
| `killThreads` | a leader exits with a runnable thread, which `killProcess` may have chosen to run next (`kill.c:44`) |
| `killSleepers` | a leader exits with a thread on a waitqueue, whose node stays there (`kill.c:70`); the next signal writes to the freed descriptor (`waitqueue.c:129`), or revives a zombie at its address |
| `initCalls` | the kernel was started with a program other than `apps/idle.c` (`init.c:109` loads whatever the command line names): init sleeps or delays and nobody is left to run (`switch.c:126`), waits for children that are released as they exit, or exits, which reads its missing parent |

`MayBlock`, `MayUseThreads` and `MayExit` keep programs out of the situations a run leaves out. They are
restrictions on programs: the kernel checks none of them.

### FrameList and FramePool

A frame on the list holds its node; `links` has the nodes of all frames and of
`frame_head`, and `Data` in those of frames in use, since their users write there. The
kernel reaches a node through a frame window that it points at the frame just
before, so the model reads and writes nodes directly. `KernelStart` is the boot:
`initFRCTable`, `initFrameList` with its gap for the kernel stack and `initKernelPageTable`,
for physical memory that ends with region 0 and for more. After it processes
allocate, share and free (`UserAllocates`, `UserShares`, `UserFrees`, the callers that
`Memory` models in detail), and malloc moves the kernel break. The loops over the pages of the
kernel heap are `Rounds` with the body of the loop as `Round`.

`FramePool` is what the callers rely on, a set of free frames and a number of users for the others;
`ImplementsFramePool` is the refinement, with the frames a walk from `frame_head` meets as the set.
This is why `Memory` may treat the list as a set.

## 3. Runs

Runs that pass:

| Run | Bounds | Shows |
|---|---|---|
| `SyncDisciplined` | 4 descriptors, 2 mutexes, 1 cvar | types, mutual exclusion and that a mutex is granted only when free, for programs that release what they hold and exit holding nothing |
| `SyncAnyProgram` | 3 descriptors, 2 mutexes, 1 cvar | whatever programs release and hold at exit: no lost wakeup, sleepers are exactly the queued processes, Acquire and CvarWait return, also without having slept, only with a mutex that is `locked`, has the caller as its `current_owner` and was nobody else's, a free mutex with sleepers is taken again |
| `Tty` | 3 processes, 2 lines of 0-2 bytes, reads of 0-2, messages of 0 and 3 chunks | input that waits has a reader on its way; a line is drained; the read position stays within the line; one transmission at a time, no return before the last byte is printed, a writer that has got the terminal finishes (one that still waits for it may not, see `TtyStranded`) |
| `TtyNoMemory` | 3 writers, messages of 0-2 chunks, and nodes may fail | chunks of two messages still do not mix |
| `MemoryFrames` | 3 processes and threads, 9 frames, 4 pages | types, `frc_table` counts references exactly, only threads of one group share a writable frame |
| `MemoryAny` | 2 processes, 2 programs, 7 frames (a shortage), 4 pages; all situations but `noDescriptor`, `forkShort` and `overShared` | no frame on the list is used by a table, a descriptor or the kernel, also after a `Brk` that failed half way and was retried; everything below the break is mapped |
| `MemoryPrivate` | 3 processes, 9 frames, 3 pages | the refinement of `PrivateMemory` |
| `FrameLinks` | 7 or 8 frames, heap of up to 2 pages, 2 users of a frame | the list is whole in both directions, `frc_table` counts users and kernel pages, kernel pages are private, the refinement of `FramePool` |
| `ProcessLists` | 4 descriptors, delays of 2 ticks, no situation | the kernel touches nothing freed, the lists say what the fields say, zombies have a collector and keep their status for it, everybody runnable runs, `Delay`, `Wait` and `Join` end |

Runs that TLC refutes, each a place where the code does not do what a comment or
the handout `yalnix2014.pdf` says (quoted under `findings`):

| Run | What it shows |
|---|---|
| `SyncKilledSleeper` | a signal is spent on the node of a thread that no longer exists, and a live process sleeps behind it |
| `TtyStranded` | a writer that waits for the terminal is not woken when the current one is done |
| `ProcessOrphans` | a process that exits while its child runs is released with a spliced list of children, and the kernel walks from it into the list of its parent for ever |

### Why the bounds are enough

* *Sync.* Three actors are needed for barging (one releases, one is woken, one
  takes the mutex in between); the fourth descriptor lets a queue of two stand
  behind a holder, or an address be reused while a queue is non-empty. Two
  mutexes let a process hold one and wait for another. Descriptors other than
  the initial one are interchangeable, hence the symmetry. `SyncAnyProgram` has
  a liveness property and uses no symmetry.
* *Tty.* `TERMINAL_MAX_LINE = 2` gives messages of 0, 1, 2 and 3 chunks with a
  short or full last one, and reads of nothing, of part and of all of a line.
  `MaxLines` (2: a line may replace another that was read in part) bounds typing, `MaxTransmitting` what an unslept writer can pile up.
  The bound on lines disables `ttyReadBegin`, on which no fairness is assumed.
  Permutations of the processes are a symmetry, used by the safety run
  `TtyNoMemory`; the runs with temporal properties do without it.
* *Memory.* Four pages hold a page of text, one of stack and two that heap and
  stack compete for. Three processes are what copy-on-write needs: two sharers
  of which one forks again. In `MemoryFrames`
  and `MemoryPrivate` a call that 9 frames cannot serve is left out, except for the Forks that find no
  frame for a kernel stack in `MemoryPrivate` (`noDescriptor`), and a trap that finds no frame halts
  the system. With the 7 frames of `MemoryAny` there are states in which `Brk` and `Exec` fall short.
  No run includes `forkShort`; `HeapMappedHolds` and `TypeCorrect` cover it.
  `MemoryPrivate` has three pages, text, stack and one
  between them, so that three processes can share that one copy-on-write with
  frames left to copy it to.
  One page of kernel stack stands for
  `KERNEL_STACK_MAXSIZE` (two pages in the code): the loops over `pcb_frames`
  treat every page alike, except for the position at which the first allocation
  fails, which `createProcessDescriptorFails` covers with the first.
  `CHAR_MAX` is 127, which no run reaches (see section 5).
* *Frame names.* `LowestFirst` gives out the lowest free frames first and the view
  `FramesRenamed` identifies states that differ in the names of frames only. Both
  are sound: all free frames hold `Junk`, no action or property looks at the number of a frame
  other than `KernelFrame`, and the view keeps, for each slot, everything
  reachable through its frame (count, contents, users, whether it is on the
  list). Frames out of use are kept by what they hold and their number.
* *overShared* is left out of the runs of `Memory`: each overwritten
  entry of a shared frame leaves its count one too high for ever, so the counts
  grow without bound and finally wrap.
* *Process.* Three descriptors besides init let a process have two children, or a
  child and a thread, or a grandchild, with an address used again. A delay of two
  ticks is over neither at once nor at the next tick. Descriptors are
  interchangeable, so malloc returns the lowest free one (`Lowest`). The liveness properties are
  of the form `[]<>`: a condition that stays until it is served is served.
* *FrameList.* Six frames on the list at most give every length from none, with shortages in
  the middle of a growth by two pages, to lists with a middle. Two windows instead of
  three: the third only serves the copy in the memory trap. A frame with two users
  stands for any number.

Deadlock is not checked: programs may simply stop making calls, and a model in
which every process sleeps is a state of the real system (a mutex that nobody
releases; the bound on lines).

### Fairness

`Process` assumes only that the machine goes on: the clock interrupts user mode, or the kernel
continues the polling call it is in (`Goes`). That everybody runnable gets a turn is a result there,
`RunnableRuns`, and what the other modules start from.

`Sync` and `Tty` assume weak fairness of the continuation of a call whose process
has been made runnable. `trapClock` calls `schedule` at every tick, `schedule`
walks the ring of processes from the current one's successor and switches to the
first that is running, so every runnable process gets its turn and, being in the
kernel, goes on until it sleeps or returns. `ttyWriteFinished` is weakly fair too: the
terminal raises an interrupt for every transmission. Nothing is assumed about
programs issuing calls, releasing mutexes, or about anybody typing. Under these
assumptions the kernel still lets a waiter be overtaken for ever, so `LockProgress`
says that somebody takes the mutex, not who.

## 4. Proofs

All theorems are checked by TLAPS for every value of the constants that the assumptions
of the modules allow: any number of processes, mutexes, frames and pages, any executables.
"Under" lists what a theorem assumes besides.

| Module | Theorem | Under | States |
|---|---|---|---|
| `SyncProofs` | `TypeCorrect` | | `Spec => []TypeOK` |
| | `MutualExclusionHolds` | `~ReleaseAny`, `~ExitHolding` | `Spec => []MutualExclusion` |
| | `GrantedWhenFreeHolds` | the same | `Spec => GrantedWhenFree` |
| | `NoLostWakeupHolds` | `~KillSleepers` | `Spec => []NoLostWakeup` |
| | `SleepersQueuedHolds` | `~KillSleepers` | `Spec => []SleepersQueued` |
| | `ReturnsWithMutexHolds` | | `Spec => ReturnsWithMutex` |
| `WaitQueueProofs` | `SignalSleepers` | | a signal wakes exactly those who leave the queue, and somebody if anybody sleeps |
| `TtyProofs` | `TypeCorrect` | | `Spec => []TypeOK` |
| | `NoLostReaderHolds` | | `Spec => []NoLostReader` |
| | `WritesDoNotMixHolds` | | `Spec => []WritesDoNotMix` |
| | `OneTransmissionHolds` | `~NodeMayFail` | `Spec => []OneTransmission` |
| | `ReturnsPrintedHolds` | `~NodeMayFail` | `Spec => ReturnsPrinted` |
| `MemoryProofs` | `TypeCorrect` | | `Spec => []TypeOK` |
| | `HeapMappedHolds` | | `Spec => []HeapMapped` |
| | `FreeFramesUnusedHolds` | at most `CHAR_MAX` processes, no `noDescriptor`, `forkShort` or `overShared` | `Spec => []FreeFramesUnused` |
| | `RefCountsHold` | at most `CHAR_MAX` processes, no situation but `threads`, `forkThreaded` and `outOfFrames` | `Spec => []RefCounts` |
| | `OnlyThreadsShareWritableHolds` | at most `CHAR_MAX` processes, no situation but `threads` and `killThreads` | `Spec => []OnlyThreadsShareWritable` |
| | `ImplementsPrivateMemoryHolds` | at most `CHAR_MAX` processes, no situation | `Spec => ImplementsPrivateMemory` |
| `FrameListProofs` | `TypeCorrect` | | `Spec => []TypeOK` |
| | `ListIntactHolds` | | `Spec => []ListIntact` |
| | `FramesAccountedHolds` | | `Spec => []FramesAccounted` |
| | `KernelPagesPrivateHolds` | | `Spec => []KernelPagesPrivate` |
| | `ImplementsFramePoolHolds` | | `Spec => ImplementsFramePool` |
| `ProcessProofs` | `Invariance` | no situation | `Spec => []IInv`, the inductive invariant the others follow from |
| | `TypeCorrect` | no situation | `Spec => []TypeOK` |
| | `KernelDefinedHolds` | no situation | `Spec => []KernelDefined` |
| | `ListsMatchHolds` | no situation | `Spec => []ListsMatch` |
| | `CurrentRunsHolds` | no situation | `Spec => []CurrentRuns` |
| | `ZombiesCollectableHolds` | no situation | `Spec => []ZombiesCollectable` |
| | `StatusKeptHolds` | no situation | `Spec => StatusKept` |

### What the assumptions exclude

The hypotheses are those of the theorems and not of the models; without them the
property fails.

* A process that releases a mutex it does not hold leaves two in possession of it
  as soon as another acquires. One that exits with a mutex leaves its address in
  `current_owner`, and a new process at that address acquires at once.
  `SyncKilledSleeper` shows what a killed sleeper does.
* A writer whose node cannot be allocated transmits while the terminal is busy, and
  returns before it is done (`NodeMayFail`). The messages are still not mixed.
* A frame with more users than a `char` counts is freed while it is used. A frame has
  at most one user per process, in one slot, which is why the number of processes
  bounds its users.
* `overShared` loses references to a frame others use: its count stays too high, and finally
  wraps, and then it is freed in use. `overMapped` loses the frames themselves: they keep a count
  and have no user, so `RefCounts` fails, but none of them is on the list. `killThreads` loses the kernel stacks of threads, so frames without users
  are missing from the list, but none of those on it is in use. `forkThreaded` leaves
  threads writing to frames the child of their leader shares. With `noDescriptor`
  frame 0 is put on the list, and with `forkShort` `copyParentStack` maps it in every process it
  falls short for: `FreeFramesUnused` fails with either.
* The refinement of `PrivateMemory` also excludes threads: they share their memory by
  intention, which `PrivateMemory` does not speak of.
* Each of the five situations of `Process` makes `KernelDefined` fail, as the table of section 2
  tells; nothing can be said of a kernel that walks through freed memory. Programs that keep out of
  them still fork, create threads, sleep, delay, wait, join and exit in any order, on any number of
  descriptors at addresses `malloc` reuses as it likes.

The constants' assumptions are what the code justifies: a finite set of processes and
of descriptors, executables that leave a page between heap and stack (`loadProgram` refuses others), a
kernel stack above the frame windows, at least one window. That different slots get
different frames (`PlacementsAreInjections`) is what `FramePool` promises of
successive calls of `allocatePageFrame`.

### Sync

* `Typed` is `TypeOK` with the queues described as sequences of exclusive nodes.
* `Ownership` strengthens mutual exclusion: the holder of a mutex is its
  `current_owner`, a mutex is locked exactly while it has one, and the owner is a
  process that exists. Mutual exclusion alone is not inductive, since an
  unlocked mutex with a holder would be given away again. `CallsCreated` says
  that an interrupted call is about a mutex that exists.
* `ReturnsWithMutex` speaks of the fields of the mutex and needs none of this: that a mutex is locked
  exactly while it has an owner (`OwnerLocks`, a part of it) is inductive for all programs.
* `Asleep` strengthens the absence of lost wakeups: every process on a queue is
  waiting, a process inside a call is on the queue of that call while it waits, and a free
  mutex with a queue has a process running towards it. The work is in
  `mutexRelease`, where the woken process takes over the role, and
  in `cvarWait`, which releases and sleeps in one step.
* `Queued` is the other direction of `SleepersQueued`: whoever waits has a node, on the
  queue of the call it is in, and resources that are not created have empty queues.

### Tty

* `Asleep`: nobody is on a queue twice, and whoever is on one waits in the call that
  joined it. `NoLostReader` is inductive with it: the reader that takes part of a line
  wakes the next, and a receive interrupt wakes one when nobody was awake.
* `WritesDoNotMix` is inductive as it stands, but rests on the lemma that `WriteLoop` is
  entered only by the writer between two chunks or when there is none.
* `Phases`, needed for the other two: the terminal is idle; or `write_current` sleeps as
  the first of the queue, not exclusive, and its chunk is the only transmission; or the
  chunk has been printed and it is awake. `printed` is then known exactly. The interrupt
  turns the first node exclusive and signals, which wakes the first sleeper alone: that
  it is the transmitting writer is what `Phases` knows.

### Memory

* `Shape`: types, and for each process heap, gap and stack in order with no hole
  below the break.
* `Counts` adds, for each frame, its uses (pairs of process and slot): they are all in one
  slot, a frame with uses is not on the list and its count is their number, and a
  frame without is on the list with count 0. `RefCounts` alone is not inductive: a count
  fits into a `char` only because all uses of a frame are in one slot. `SaneTables`
  keeps entries out of use empty; a stale one would be counted again.
* `NoNull` and `KernelKept` are about frame 0: no table maps it, the kernel's own reference is its
  only one, and it is not on the list. It is the frame a null pointer names, so this is where the
  failure of an allocation that nobody looked at would show.
* `Sharing` adds that no table maps frame 0, as above, and `OnlyThreadsShareWritable` itself.
  `CopyShared` and `UnsetCopyOnWrite` turn on the count: a count of 1 makes the frame
  writable in place, which is sound since counts are exact.
* `Apart`, for the refinement: a free frame holds nothing of anybody's, and there are no
  threads. Each action of `Memory` is then a step of `PrivateMemory` (Store, Fork, Exec, Brk,
  Exit, growth of the stack) or, for copy-on-write, a stutter.

### FrameList

* `IsList(nodes, list, k)` describes a circular list by the sequence of its frames;
  `RunsThrough(nodes, F)` says that there is one with exactly the members `F`, linked both
  ways. The walk of `forEachNode` is shown to return that sequence (`ForEachList`), and taking
  the first frame off, or putting one in front, to keep it a list (`AllocateList`,
  `LinkList`); `initFrameList` builds one, with the gap of the kernel stack (`BootListLinked`).
* `Intact` is the inductive invariant: the list runs through exactly the frames below
  `PMEM_SIZE` whose count is 0; a frame is used by processes or by one page of the kernel and
  not by both; each page below the break has one; and, unless a growth failed half way,
  no other page has. The last part is what makes counts exact, and is given up with
  `failed`: the frames of the pages above the break are then in use by nobody.
* The loops of the kernel heap are handled by `LoopRule`, with the state after the round for
  page `i` as the loop's invariant: sound up to page `i`. Nothing is known of a recursive function before
  it is shown to exist, which `AfterRounds` does once for every loop; the walk along
  the list is such a loop, too.
* For `FramePool` the set of free frames is `Range(FreeList)`. A growth of the heap takes
  several frames at once (`Taken`, a step Allocate), also when it fails; shrinking gives
  several back (`Given`, a step Release); the boot is Start; a break that moves before the list
  exists is a stutter.

### List and Process

* `Ring(l, head, S)` (`ListProofs`) says that the links `l` join `head` and exactly the nodes `S` to
  one circle: there is a walk `w` along `next` that numbers them, meets each once, comes back, and
  is undone by `prev`. A ring depends on the links of its own nodes only (`RingSame`); insertion
  after any member and at the end (`RingInsert`, `RingAddLast`), removal (`RingRemove`, `RemoveAlone`)
  and `linkedListNodeInit` (`NodesReset`) are stated on sets of nodes, so a user never handles
  the numbering. `RingVisits` tells what `forEachNode` visits in both directions, and that it ends.
  `FrameListProofs` takes `FollowSteps` from here: that a walk exists and goes from node to node.
* `Rings` (`ProcessProofs`) has one ring per list of the tree: all processes, the children of each
  process, and the threads of each leader in `Whole`, those that have neither joined nor exited.
  `joinThread` leaves the thread it releases on its leader's list, so nothing is known of that list
  later, and nothing need be: a program out of `joinAgain` does not use it again.
* `IInv`, the inductive invariant, adds what the lists alone do not give. `InitAwake`: init is
  running and not delayed, so the walk of `schedule` finds somebody, and not the caller
  (`NextRuns`), and `killProcess` never has to switch to itself. `Family`: everybody but init is the child of a
  process, or the thread of a leader, that is allocated, has not exited and is no thread itself; a zombie child has a parent
  other than init. So zombies have no children or threads (`ZombiesAlone`), which is why
  releasing one leaves nobody with a parent that is gone. `ListsMatch` without `Family` is not
  inductive: releasing a process with children would leave them on the list of nobody. And who polls
  in `Join` has not joined before. `OnQueue`: an address has at most one node on the waitqueues, and
  then a live process sleeps there; this is what makes the write of `wakeUpProcess` harmless outside
  `killSleepers`.
* `ReleaseLinks` is the heart: `removeNode` of `siblings` and of `process_list` takes a descriptor without
  children off two rings and leaves the others as they are, but for its leader's. `ReleaseSome` carries it along the
  loops of `killProcess` by `LoopRule`: each position of the walk names another descriptor
  (`RingWalk`), so none is released twice. `KillTakes` puts the three stages together
  (`Survivors`), and `KillKeeps` shows that the process chosen before anything was released is
  still there after it: it is neither a zombie, nor a thread of the caller, which cannot run, nor
  the caller.
* `StatusKept` follows from the same descriptions of what a step releases (`WaitTakes`,
  `JoinTakes`, `KillTakes`).

One lemma per operation carries each invariant, and one per invariant (`TypedNext`,
`AsleepNext`, `ShapeStep`, `CountsStep`, `SharingStep`, `ApartStep`, `NextIntact`, `NextKeeps`) has
one step per action.

### What is only model-checked

* Liveness, which is out of the proof system's reach: `LockProgress`, `LineDrained` and
  `WriterFinishes`, and `RunnableRuns`, `DelayEnds` and `CallsReturn` of `Process`.
* `spliceLinkedLists` on a list with members: it loses some of them (section 5), and no
  program out of `orphans` reaches it.
* What walks and loops compute is proved only through a bound on the length of the list or a
  rule of loops, not by induction over data.

## 5. What is not modelled

* `malloc` failing in the kernel heap, except for a writer's waitqueue node. A
  reader or a mutex waiter without a node spins in the kernel with interrupts
  off, after which nothing happens.
* A leader exiting with a runnable thread in `Sync`: `Process` has it (`killThreads`).
* What follows when frame 0 is on the frame list: the allocator writes its links
  over kernel text. `Memory` stops there.
* Processes dying in `Tty`, and several terminals.
* `Exec` of a file that is missing, malformed or unreadable, and its argument
  strings; `MemoryAny` includes an Exec that finds too few frames.
* A memory trap that changes nothing (below the stack, not copy-on-write).
* In `Process`: a `Fork` or thread creation that gets no memory or no PID, calls
  turned down at once, and the values calls return: `Wait` returns 0 and
  not the PID, some paths of `fork.c` return nothing (`fork.c:38`), an exit status
  is only kept or let go.
* In `FrameList`: the TLB entries of kernel pages, a break at boot that is not page
  aligned, and the kernel stacks of several processes, whose frames count as
  held by users.
* Contents of descriptors and messages, names of executables, tracing.
* Sample programs and headers, which keep no kernel state.

### Known limits the model shows but no run lists

The modules follow the code here too, and the runs stay clear of these cases by
their constants or pass through them:

* `mutexRelease` does not look at the owner (`sync/mutex.c:82`), and `current_owner`
  survives its process (`mutex.c:58`): constants `ReleaseAny`, `ExitHolding`.
* `ttyReadBegin` replaces a line that was read in part (`traps/tty.c:84`).
* A writer without memory for its node transmits while the terminal is busy
  (`traps/tty.c:140`): `NodeMayFail`.
* `createProcessDescriptor` frees frame 0, the kernel's text, when frames run out: the clean-up
  starts with the allocation that failed (`process/process.c:121`). Situation `noDescriptor` of
  `Memory`, with which `FreeFramesUnused` fails.
* `copyParentStack` maps frame 0 when frames run out (`process/fork.c:49`): `forkShort`.
* `Brk` over pages that an earlier, deeper stack left mapped, or the retry of a `Brk` that failed
  half way, loses their frames (`memory/brk.c:52`): situations `overMapped` and `overShared` of
  `Memory`, with which `RefCounts` fails.
* A leader that forks while it has threads: a thread goes on writing to frames the
  child shares (`process/fork.c:131`). `OnlyThreadsShareWritable` fails with the situation
  `forkThreaded`.
* The kernel stack of a thread that dies with its leader is not freed
  (`process/kill.c:71`): situation `killThreads`.
* Threads share the pages below the stack pointer at their creation, into which both
  stacks may grow (`process/fork.c:44`).
* An entry of `frc_table` is a `char` (`memory/memory.c:33`): with 129 users of a frame
  the next release frees it. `Wrap` models it; `FreeFramesUnused` fails with
  `CHAR_MAX = 1` and three processes.
* `spliceLinkedLists` links only the last node of the second list forwards and only the
  first backwards (`core/list.h:90`), and leaves its head linked. Only an exit with running
  children splices: situation `orphans` of `Process`.
* The loops of `killProcess` and `releaseProcess` step on from a descriptor they have just
  freed (`core/list.h:217`). `Process` takes its links to be still there: they lie behind
  the first words of the block, which `free` may write to.
* A signal writes through the waitqueue node of a thread that died asleep with its leader
  (`process/kill.c:70`, `sync/waitqueue.c:129`): situation `killSleepers` of `Process`, with which
  `KernelDefined` fails, and `SyncKilledSleeper` for what it does to others on the queue.
* `joinAgain`, `killThreads` and `initCalls` of `Process`, in the table of section 2:
  `KernelDefined` fails with each of them, too.
* A growth of the kernel heap that fails half way keeps the frames it got
  (`memory/memory.c:249`): `failed`, which `FramesAccounted` excludes and
  `KernelPagesPrivate` does not.

## 6. Plan

Done: all parts of the kernel with state have a module. Left:

1. `System`: `Process` composed with `Sync`, so that the fairness `Sync` assumes becomes a
   consequence of the scheduler; `Memory` as a client of `FramePool`, by INSTANCE
   and not by the argument in section 2.
2. Abstract specifications worth stating: a mutex with a set of waiters above
   `Sync`; a stream of lines and of messages above `Tty`.
