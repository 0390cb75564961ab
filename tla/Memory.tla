------------------------------- MODULE Memory --------------------------------
(***************************************************************************)
(* User memory: page tables, reference-counted page frames, copy-on-write, *)
(* the heap and the stack.  memory/memory.c, memory/brk.c, process/fork.c, *)
(* and the parts of process.c, load.c, kill.c and switch.c that allocate   *)
(* or free frames.                                                         *)
(*                                                                         *)
(* The kernel is never preempted, so each trap is one action; programs of  *)
(* different processes interleave between traps.  Addresses are page       *)
(* numbers counted from VMEM_1_BASE.  The kernel stack lies just below     *)
(* VMEM_1_BASE, so the pcb_frames of a process are the entries at the      *)
(* negative numbers of its table.  Read and execute permission are left    *)
(* out: every entry the kernel makes is readable.                          *)
(*                                                                         *)
(* A frame holds one value.  A free frame holds Junk, which stands for     *)
(* whatever its last user left there: frames are not cleared.              *)
(***************************************************************************)
EXTENDS Integers, FiniteSets

CONSTANTS
  Proc,                \* addresses of process descriptors
  InitProc,            \* the process loadInit starts; it never exits
  NoProc,              \* the null descriptor pointer
  Frame,               \* physical page frames
  KernelFrame,         \* frame 0: kernel text, and the frame of a null pointer
  MAX_PT_LEN,          \* pages of region 1
  KERNEL_STACK_PAGES,  \* KERNEL_STACK_MAXSIZE in pages
  CHAR_MAX,            \* largest value of an entry of frc_table, a char
  Val, Junk, Loaded,   \* contents of a frame; what is in a fresh one, a file
  Program,             \* executables: pages of text, data and initial stack
  Situations,          \* what programs may get themselves into, see below
  Placements(_, _)     \* the frames successive allocatePageFrame calls return

Page == 0..MAX_PT_LEN-1
KernelStack == -KERNEL_STACK_PAGES..-1
Slot == KernelStack \cup Page

\* "threads"       a leader creates threads
\* "killThreads"   a leader exits while threads of its own sleep
\* "forkThreaded"  a leader forks while it has threads
\* "outOfFrames"   Brk or Exec finds too few free frames
\* "noDescriptor"  Fork or the creation of a thread finds none for the kernel stack
\* "forkShort"     it finds too few for the copy of the stack
\* "overMapped"    Brk covers pages above the break that are mapped: an earlier,
\*                 deeper stack left them, or a Brk that failed half way got them
\* "overShared"    the same, and others share the frames behind them
AllSituations ==
  {"threads", "killThreads", "forkThreaded", "outOfFrames", "noDescriptor",
   "forkShort", "overMapped", "overShared"}

\* Different slots get different frames of the free list.
PlacementsAreInjections ==
  \A S \in SUBSET Slot, F \in SUBSET Frame :
    \A place \in Placements(S, F) :
      /\ place \in [S -> F]
      /\ \A s, t \in S : place[s] = place[t] => s = t

ASSUME MemoryAssumption ==
  /\ IsFiniteSet(Proc)
  /\ InitProc \in Proc /\ NoProc \notin Proc
  /\ KernelFrame \in Frame
  /\ MAX_PT_LEN \in Nat /\ KERNEL_STACK_PAGES \in Nat \ {0}
  /\ CHAR_MAX \in Nat \ {0}
  /\ {Junk, Loaded} \subseteq Val
  /\ Program \subseteq [text : Nat \ {0}, data : Nat, stack : Nat \ {0}]
  /\ Situations \subseteq AllSituations
  /\ PlacementsAreInjections

\* loadProgram refuses a program that leaves no page between heap and stack.
ASSUME ProgramsFit ==
  \A prog \in Program : prog.text + prog.data + prog.stack < MAX_PT_LEN

VARIABLES
  live,           \* processes and threads that have not exited
  thread_leader,  \* descriptor->thread_leader
  pt,             \* the page table and pcb_frames of each process
  sp,             \* page of user_context.sp
  heap_start,     \* ProcessInfo.heap_start
  current_brk,    \* ProcessInfo.current_brk
  frc,            \* frc_table
  free,           \* the frames on the list of frame_head
  mem,            \* contents of the frames
  halted          \* Halt() was called

layout == <<sp, heap_start, current_brk>>
frames == <<frc, free, mem>>
vars == <<live, thread_leader, pt, layout, frames, halted>>

------------------------------------------------------------------------------
\* Page table entries and the frame pool.

Entry == [valid : BOOLEAN, frame : Frame, write : BOOLEAN, cow : BOOLEAN]

createPTE(frame, write, cow) ==
  [valid |-> TRUE, frame |-> frame, write |-> write, cow |-> cow]

\* createPTEWithOptions(0, 0), and what clearPageTable leaves.
NoEntry ==
  [valid |-> FALSE, frame |-> KernelFrame, write |-> FALSE, cow |-> FALSE]

NoTable == [s \in Slot |-> NoEntry]

Valid(p, S) == {s \in S : pt[p][s].valid}

\* Arithmetic on a signed char.
Wrap(n) == ((n + CHAR_MAX + 1) % (2 * CHAR_MAX + 2)) - CHAR_MAX - 1

\* The slots in refs that refer to f; refs is a set of <<process, slot>>.
To(refs, f) == {r \in refs : pt[r[1]][r[2]].frame = f}

\* A version that frees a frame whatever the count of its other users.
FreesAlways(refs) == {f \in Frame : To(refs, f) # {}}

\* The frames the calls freePageFrame(frame of r), for all r in refs, free.
Frees(refs) ==
  {f \in Frame : \E k \in 1..Cardinality(To(refs, f)) : Wrap(frc[f] - k) <= 0}

\* frc_table after those calls.
Dropped(refs) == [f \in Frame |-> Wrap(frc[f] - Cardinality(To(refs, f)))]

Forgotten(contents, fs) == [f \in Frame |-> IF f \in fs THEN Junk ELSE contents[f]]

freePageFrames(refs) ==
  /\ frc' = Dropped(refs)
  /\ free' = free \cup Frees(refs)
  /\ mem' = Forgotten(mem, Frees(refs))

Image(f) == {f[s] : s \in DOMAIN f}

\* frc_table once the frames fs are allocated.
Claimed(counts, fs) == [f \in Frame |-> IF f \in fs THEN 1 ELSE counts[f]]

\* The slots of S that get a frame when only n are left; they are served from
\* the lowest up.
Served(S, n) == {s \in S : Cardinality({t \in S : t < s}) < n}

\* Once frame 0 is on the free list the allocator writes list nodes over the
\* kernel text: nothing that follows has a meaning.
Runs(p) == p \in live /\ ~halted /\ KernelFrame \notin free

Threads(p) == {t \in live : thread_leader[t] = p}

------------------------------------------------------------------------------
\* Loading a program.

TextPages(prog) == 0..prog.text-1
DataPages(prog) == prog.text..prog.text+prog.data-1
StackPages(prog) == MAX_PT_LEN-prog.stack..MAX_PT_LEN-1
ProgramPages(prog) == TextPages(prog) \cup DataPages(prog) \cup StackPages(prog)

\* The table of loadProgram: text pages lose their write permission once the
\* file has been read into all the pages.
LoadedTable(table, prog, place) ==
  [s \in Slot |->
     CASE s \in KernelStack -> table[s]
       [] s \in DOMAIN place ->
            createPTE(place[s],
              s \notin TextPages(prog) \/ DOMAIN place # ProgramPages(prog), FALSE)
       [] OTHER -> NoEntry]

\* What the file leaves in memory.
LoadedMem(contents, prog, place) ==
  [f \in Frame |->
     IF DOMAIN place = ProgramPages(prog)
        /\ \E s \in TextPages(prog) \cup DataPages(prog) : place[s] = f
       THEN Loaded ELSE contents[f]]

Init ==
  \E prog \in Program :
  \E stack \in Placements(KernelStack, Frame \ {KernelFrame}) :
  \E place \in Placements(ProgramPages(prog),
                          Frame \ ({KernelFrame} \cup Image(stack))) :
    LET used == Image(stack) \cup Image(place)
        boot == [s \in Slot |-> IF s \in KernelStack
                                  THEN createPTE(stack[s], TRUE, FALSE)
                                  ELSE NoEntry]
    IN /\ live = {InitProc}
       /\ thread_leader = [p \in Proc |-> NoProc]
       /\ pt = [p \in Proc |-> IF p = InitProc
                                 THEN LoadedTable(boot, prog, place)
                                 ELSE NoTable]
       /\ sp = [p \in Proc |-> IF p = InitProc THEN MAX_PT_LEN - prog.stack ELSE 0]
       /\ heap_start = [p \in Proc |-> IF p = InitProc THEN prog.text + prog.data ELSE 0]
       /\ current_brk = heap_start
       /\ frc = [f \in Frame |-> IF f \in used \cup {KernelFrame} THEN 1 ELSE 0]
       /\ free = Frame \ (used \cup {KernelFrame})
       /\ mem = LoadedMem([f \in Frame |-> Junk], prog, place)
       /\ halted = FALSE

\* Exec, once its checks have passed: the old pages are freed, then every page
\* of the program is given a frame.  A shortage makes it return KILL, which
\* trapKernel hands to the program like any other result.
loadProgram(p, prog) ==
  LET old   == {p} \X Valid(p, Page)
      avail == free \cup Frees(old)
      pages == ProgramPages(prog)
      got   == Served(pages, Cardinality(avail))
  IN /\ Runs(p) /\ thread_leader[p] = NoProc
     /\ got = pages \/ "outOfFrames" \in Situations
     /\ \E place \in Placements(got, avail) :
          /\ pt' = [pt EXCEPT ![p] = LoadedTable(@, prog, place)]
          /\ frc' = Claimed(Dropped(old), Image(place))
          /\ free' = avail \ Image(place)
          /\ mem' = LoadedMem(Forgotten(mem, Frees(old)), prog, place)
     /\ sp' = [sp EXCEPT ![p] = MAX_PT_LEN - prog.stack]
     /\ heap_start' = [heap_start EXCEPT ![p] = prog.text + prog.data]
     /\ current_brk' = [current_brk EXCEPT ![p] = prog.text + prog.data]
     /\ UNCHANGED <<live, thread_leader, halted>>

------------------------------------------------------------------------------
\* A running program.

\* A store to a page the program may write.
Store(p, i, v) ==
  /\ Runs(p) /\ i \in Page
  /\ pt[p][i].valid /\ pt[p][i].write
  /\ mem' = [mem EXCEPT ![pt[p][i].frame] = v]
  /\ UNCHANGED <<live, thread_leader, pt, layout, frc, free, halted>>

\* Calls and returns move the stack pointer; programs keep it above the heap.
MoveSp(p, i) ==
  /\ Runs(p) /\ i \in current_brk[p]..MAX_PT_LEN-1
  /\ sp' = [sp EXCEPT ![p] = i]
  /\ UNCHANGED <<live, thread_leader, pt, heap_start, current_brk, frames, halted>>

------------------------------------------------------------------------------
\* handleMemoryTrap, the trap of an access that page i does not permit.  One to
\* a page below the stack that is not copy-on-write changes nothing.

Halt ==
  /\ halted' = TRUE
  /\ UNCHANGED <<live, thread_leader, pt, layout, free, mem>>

\* A version that keeps using the shared frame.
CopySharedInPlace(p, i) ==
  /\ pt[p][i].cow /\ frc[pt[p][i].frame] > 1
  /\ pt' = [pt EXCEPT ![p][i] = createPTE(@.frame, TRUE, FALSE)]
  /\ UNCHANGED <<live, thread_leader, layout, frames, halted>>

\* A version that forgets to give up the reference to the shared frame.
CopySharedKeepCount(p, i) ==
  LET old == pt[p][i].frame IN
  /\ pt[p][i].cow /\ frc[old] > 1
  /\ \E place \in Placements({i}, free) :
       /\ pt' = [pt EXCEPT ![p][i] = createPTE(place[i], TRUE, FALSE)]
       /\ frc' = Claimed(frc, {place[i]})
       /\ free' = free \ {place[i]}
       /\ mem' = [mem EXCEPT ![place[i]] = mem[old]]
  /\ UNCHANGED <<live, thread_leader, layout, halted>>

\* The page is shared: p gets a copy of its own.
CopyShared(p, i) ==
  LET old  == pt[p][i].frame
      less == [frc EXCEPT ![old] = @ - 1]
  IN /\ pt[p][i].cow /\ frc[old] > 1
     /\ \/ /\ free # {}
           /\ \E place \in Placements({i}, free) :
                /\ pt' = [pt EXCEPT ![p][i] = createPTE(place[i], TRUE, FALSE)]
                /\ frc' = Claimed(less, {place[i]})
                /\ free' = free \ {place[i]}
                /\ mem' = [mem EXCEPT ![place[i]] = mem[old]]
           /\ UNCHANGED <<live, thread_leader, layout, halted>>
        \/ free = {} /\ frc' = less /\ Halt

\* The other users of the page have taken copies or are gone.
UnsetCopyOnWrite(p, i) ==
  /\ pt[p][i].cow /\ frc[pt[p][i].frame] <= 1
  /\ pt' = [pt EXCEPT ![p][i] = createPTE(@.frame, TRUE, FALSE)]
  /\ UNCHANGED <<live, thread_leader, layout, frames, halted>>

\* The stack needs another page.
GrowStack(p, i) ==
  /\ ~pt[p][i].cow /\ i >= sp[p]
  /\ \/ /\ free # {}
        /\ \E place \in Placements({i}, free) :
             /\ pt' = [pt EXCEPT ![p][i] = createPTE(place[i], TRUE, FALSE)]
             /\ frc' = Claimed(frc, {place[i]})
             /\ free' = free \ {place[i]}
        /\ UNCHANGED <<live, thread_leader, layout, mem, halted>>
     \/ free = {} /\ frc' = frc /\ Halt

handleMemoryTrap(p, i) ==
  /\ Runs(p) /\ i \in Page
  /\ ~(pt[p][i].valid /\ pt[p][i].write)
  /\ CopyShared(p, i) \/ UnsetCopyOnWrite(p, i) \/ GrowStack(p, i)

------------------------------------------------------------------------------
\* Brk, with a page-aligned address.

\* Which pages may programs have mapped when Brk covers them?  increaseBrk does
\* not look: the frames behind the old entries are lost.
MayCover(p, S) ==
  \A s \in Valid(p, S) :
    \/ "overMapped" \in Situations /\ frc[pt[p][s].frame] <= 1
    \/ "overShared" \in Situations

\* A version that moves the break although it ran out of frames.
increaseBrkIgnoringError(p, b) ==
  LET pages == current_brk[p]..b-1
      got   == Served(pages, Cardinality(free))
  IN /\ b > current_brk[p]
     /\ got = pages \/ "outOfFrames" \in Situations
     /\ MayCover(p, got)
     /\ \E place \in Placements(got, free) :
          /\ pt' = [pt EXCEPT ![p] = [s \in Slot |->
                      IF s \in got THEN createPTE(place[s], TRUE, FALSE) ELSE @[s]]]
          /\ frc' = Claimed(frc, Image(place))
          /\ free' = free \ Image(place)
     /\ current_brk' = [current_brk EXCEPT ![p] = b]
     /\ UNCHANGED mem

increaseBrk(p, b) ==
  LET pages == current_brk[p]..b-1
      got   == Served(pages, Cardinality(free))
  IN /\ b > current_brk[p]
     /\ got = pages \/ "outOfFrames" \in Situations
     /\ MayCover(p, got)
     /\ \E place \in Placements(got, free) :
          /\ pt' = [pt EXCEPT ![p] = [s \in Slot |->
                      IF s \in got THEN createPTE(place[s], TRUE, FALSE) ELSE @[s]]]
          /\ frc' = Claimed(frc, Image(place))
          /\ free' = free \ Image(place)
     /\ current_brk' = [current_brk EXCEPT ![p] = IF got = pages THEN b ELSE @]
     /\ UNCHANGED mem

decreaseBrk(p, b) ==
  LET pages == b..current_brk[p]-1 IN
  /\ b < current_brk[p]
  /\ pt' = [pt EXCEPT ![p] = [s \in Slot |-> IF s \in pages THEN NoEntry ELSE @[s]]]
  /\ freePageFrames({p} \X pages)
  /\ current_brk' = [current_brk EXCEPT ![p] = b]

setProcessBrk(p, b) ==
  /\ Runs(p) /\ b < sp[p] /\ b >= heap_start[p]
  /\ increaseBrk(p, b) \/ decreaseBrk(p, b)
  /\ UNCHANGED <<live, thread_leader, sp, heap_start, halted>>

------------------------------------------------------------------------------
\* Fork and thread creation.

\* setCopyOnWrite on one entry.
CopyOnWrite(e) ==
  IF e.valid /\ e.write THEN [e EXCEPT !.write = FALSE, !.cow = TRUE] ELSE e

\* A version that leaves the parent its write permission.
MarkedChildOnly(table, below) == table

\* setCopyOnWrite on the parent's table.
Marked(table, below) ==
  [s \in Slot |-> IF s \in below THEN CopyOnWrite(table[s]) ELSE table[s]]

\* createProcessDescriptor, createPageTable, copyParentStack, createUserContext
\* and the counting of the shared pages.  The pages from the stack pointer up
\* are copied, those below it shared; mark says whether copy-on-write.  When
\* frames run out copyParentStack maps the null frame.
CopyProcess(p, c, leader, mark) ==
  LET below == 0..sp[p]-1
      stack == Valid(p, sp[p]..MAX_PT_LEN-1)
      got   == Served(stack, Cardinality(free) - KERNEL_STACK_PAGES)
      given(e) == IF mark THEN CopyOnWrite(e) ELSE e
      shared == {p} \X Valid(p, below)
  IN /\ c \in Proc \ live
     /\ got = stack \/ "forkShort" \in Situations
     /\ \E kernel \in Placements(KernelStack, free) :
        \E copy \in Placements(got, free \ Image(kernel)) :
          LET new == Image(kernel) \cup Image(copy)
              at(s) == IF s \in got THEN copy[s] ELSE KernelFrame
          IN /\ pt' = [pt EXCEPT
                  ![p] = IF mark THEN Marked(@, below) ELSE @,
                  ![c] = [s \in Slot |->
                    CASE s \in KernelStack -> createPTE(kernel[s], TRUE, FALSE)
                      [] s \in stack -> [pt[p][s] EXCEPT !.frame = at(s)]
                      [] s \in below -> given(pt[p][s])
                      [] OTHER -> pt[p][s]]]
             /\ frc' = [f \in Frame |-> IF f \in new THEN 1
                          ELSE Wrap(frc[f] + Cardinality(To(shared, f)))]
             /\ free' = free \ new
             /\ mem' = [f \in Frame |->
                  IF f \in Image(copy)
                    THEN mem[pt[p][CHOOSE s \in got : copy[s] = f].frame]
                  ELSE IF f = KernelFrame /\ got # stack
                    THEN mem[pt[p][CHOOSE s \in stack : \A t \in stack : t <= s].frame]
                  ELSE mem[f]]
     /\ live' = live \cup {c}
     /\ thread_leader' = [thread_leader EXCEPT ![c] = leader]
     /\ sp' = [sp EXCEPT ![c] = sp[p]]
     /\ heap_start' = [heap_start EXCEPT ![c] = heap_start[p]]
     /\ current_brk' = [current_brk EXCEPT ![c] = current_brk[p]]
     /\ UNCHANGED halted

forkProcess(p, c) ==
  /\ Runs(p) /\ thread_leader[p] = NoProc
  /\ Threads(p) = {} \/ "forkThreaded" \in Situations
  /\ CopyProcess(p, c, NoProc, TRUE)

createThread(p, c) ==
  /\ Runs(p) /\ thread_leader[p] = NoProc /\ "threads" \in Situations
  /\ CopyProcess(p, c, p, FALSE)

\* createProcessDescriptor runs out of frames: it gives back the ones it got and
\* also the null pointer of the call that failed, which is frame 0.
createProcessDescriptorFails(p) ==
  /\ Runs(p) /\ thread_leader[p] = NoProc /\ "noDescriptor" \in Situations
  /\ Cardinality(free) < KERNEL_STACK_PAGES
  /\ frc' = [frc EXCEPT ![KernelFrame] = Wrap(@ - 1)]
  /\ free' = IF frc'[KernelFrame] > 0 THEN free ELSE free \cup {KernelFrame}
  /\ UNCHANGED <<live, thread_leader, pt, layout, mem, halted>>

------------------------------------------------------------------------------
\* Exit.

\* A version that does not clear the page table.
killProcessKeepTable(p) ==
  /\ Runs(p) /\ p # InitProc /\ Threads(p) = {}
  /\ freePageFrames({p} \X Valid(p, Slot))
  /\ live' = live \ {p}
  /\ thread_leader' = [thread_leader EXCEPT ![p] = NoProc]
  /\ UNCHANGED <<pt, layout, halted>>

\* killProcess and killKernelContext: p and its threads give up their pages,
\* and p its kernel stack.  The kernel stack of a thread killed here is never
\* freed.
killProcess(p) ==
  LET dead == {p} \cup Threads(p)
      refs == {r \in dead \X Slot :
                 pt[r[1]][r[2]].valid /\ (r[2] \in Page \/ r[1] = p)}
  IN /\ Runs(p) /\ p # InitProc
     /\ Threads(p) = {} \/ "killThreads" \in Situations
     /\ freePageFrames(refs)
     /\ live' = live \ dead
     /\ thread_leader' = [q \in Proc |-> IF q \in dead THEN NoProc ELSE thread_leader[q]]
     /\ pt' = [q \in Proc |-> IF q \in dead THEN NoTable ELSE pt[q]]
     /\ sp' = [q \in Proc |-> IF q \in dead THEN 0 ELSE sp[q]]
     /\ heap_start' = [q \in Proc |-> IF q \in dead THEN 0 ELSE heap_start[q]]
     /\ current_brk' = [q \in Proc |-> IF q \in dead THEN 0 ELSE current_brk[q]]
     /\ UNCHANGED halted

Next ==
  \E p \in Proc :
    \/ \E i \in Page, v \in Val : Store(p, i, v)
    \/ \E i \in Page : MoveSp(p, i)
    \/ \E i \in Page : handleMemoryTrap(p, i)
    \/ \E b \in Page : setProcessBrk(p, b)
    \/ \E prog \in Program : loadProgram(p, prog)
    \/ \E c \in Proc : forkProcess(p, c)
    \/ \E c \in Proc : createThread(p, c)
    \/ createProcessDescriptorFails(p)
    \/ killProcess(p)

Spec == Init /\ [][Next]_vars

------------------------------------------------------------------------------
\* Properties.

\* Every variable ranges over what its declaration allows, and a process that
\* is not live has no memory.
TypeOK ==
  /\ live \subseteq Proc /\ InitProc \in live
  /\ thread_leader \in [Proc -> Proc \cup {NoProc}]
  /\ pt \in [Proc -> [Slot -> Entry]]
  /\ {sp, heap_start, current_brk} \subseteq [Proc -> 0..MAX_PT_LEN]
  /\ frc \in [Frame -> -CHAR_MAX-1..CHAR_MAX]
  /\ free \subseteq Frame
  /\ mem \in [Frame -> Val]
  /\ halted \in BOOLEAN
  /\ \A p \in Proc \ live : pt[p] = NoTable

\* The uses of frame f: page table entries and pcb_frames.
Uses(f) == {r \in Proc \X Slot : pt[r[1]][r[2]].valid /\ pt[r[1]][r[2]].frame = f}

\* Frame 0 holds the kernel's text.
InUse(f) == f = KernelFrame \/ Uses(f) # {}

\* The frame list holds available page frames only: no table, no descriptor and
\* no kernel text is in a frame the allocator may hand out.
FreeFramesUnused == \A f \in free : ~InUse(f)

\* Whatever the order of forks, traps, Brk, Exec and Exit, frc_table counts the
\* references to each frame, the kernel's own to frame 0 included, and a frame
\* nobody refers to is back on the list.
RefCounts ==
  ~halted => \A f \in Frame :
    /\ frc[f] = Cardinality(Uses(f)) + (IF f = KernelFrame THEN 1 ELSE 0)
    /\ f \in free <=> ~InUse(f)

Group(p) == IF thread_leader[p] = NoProc THEN p ELSE thread_leader[p]

\* A frame some process may write directly is mapped by no process outside its
\* group of threads: the others see no store before copy-on-write has copied.
OnlyThreadsShareWritable ==
  \A p, q \in live : Group(p) # Group(q) =>
    \A i, j \in Page :
      pt[p][i].valid /\ pt[p][i].write /\ pt[q][j].valid
        => pt[p][i].frame # pt[q][j].frame

\* Everything from heap_start to the break is backed by a frame.
HeapMapped ==
  \A p \in live : ~halted =>
    \A i \in heap_start[p]..current_brk[p]-1 : pt[p][i].valid

\* What a program of p sees in each page: the state of PrivateMemory.
visible ==
  [p \in Proc |-> [i \in Page |-> IF pt[p][i].valid
                                    THEN <<mem[pt[p][i].frame]>> ELSE <<>>]]

Private == INSTANCE PrivateMemory WITH image <- visible

\* Behind page sharing and copy-on-write every process has a memory of its own:
\* Fork copies it, and only the process itself changes it afterwards.
ImplementsPrivateMemory == Private!Spec
==============================================================================
