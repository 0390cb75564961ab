------------------------------ MODULE FrameList -------------------------------
(***************************************************************************)
(* The list of free page frames and the kernel heap: the allocator of      *)
(* memory/memory.c, SetKernelBrk, and the part of the boot that builds the *)
(* list, frc_table and the kernel page table (init/init_memory.c).         *)
(*                                                                         *)
(* A free frame holds its own list node in its first bytes.  The kernel    *)
(* reaches it through a frame window, a page below the kernel stack that   *)
(* it points at the frame first; each window is pointed where it is used,  *)
(* so the model reads and writes the nodes directly.  What a frame in use  *)
(* holds is its user's, which the model writes Data for as soon as the     *)
(* frame is handed out: the links of a frame in use mean nothing.          *)
(*                                                                         *)
(* Addresses are page numbers, and the breaks at which malloc calls        *)
(* SetKernelBrk are page-aligned.  Pages 0..DataEnd-1 are kernel text and  *)
(* data.  The pages of the kernel stack are mapped to the pcb_frames of    *)
(* the process that runs, so their frames count as held by processes, the  *)
(* ones they have at boot by the initial process, which does not exit.     *)
(***************************************************************************)
EXTENDS List, FiniteSets, Functions

CONSTANTS
  DataEnd,                  \* kernel_data_end, rounded up
  KERNEL_STACK_BASE, KERNEL_STACK_LIMIT,
  NUMBER_OF_FRAME_WINDOWS,
  MaxBootBrk,               \* bound on the heap when the list is built
  MaxPmem,                  \* bound on pmem_size, in pages
  MaxUsers                  \* bound on the users of a frame

ASSUME FrameListAssumption ==
  /\ {DataEnd, KERNEL_STACK_BASE, KERNEL_STACK_LIMIT, MaxBootBrk, MaxPmem} \subseteq Nat
  /\ {NUMBER_OF_FRAME_WINDOWS, MaxUsers} \subseteq Nat \ {0}
  /\ 0 < DataEnd /\ DataEnd <= MaxBootBrk
  /\ MaxBootBrk < KERNEL_STACK_BASE - NUMBER_OF_FRAME_WINDOWS
  /\ KERNEL_STACK_BASE < KERNEL_STACK_LIMIT /\ KERNEL_STACK_LIMIT <= MaxPmem

VARIABLES
  VIRTUAL_MEMORY_ENABLED,
  PMEM_SIZE,           \* in pages; 0 before KernelStart
  KERNEL_BRK,          \* the page of the break
  links,               \* the nodes of the list
  frc_table,
  kernel_page_table,   \* the frame of each page below the stack, or Invalid
  held,                \* history: the users of each frame outside the kernel
  failed               \* history: has increaseKernelBrk run out of frames?

vars == <<VIRTUAL_MEMORY_ENABLED, PMEM_SIZE, KERNEL_BRK, links, frc_table,
          kernel_page_table, held, failed>>

Frame == 0..MaxPmem-1
KernelPage == 0..KERNEL_STACK_BASE-1
KernelStack == KERNEL_STACK_BASE..KERNEL_STACK_LIMIT-1
frame_head == -1    \* &frame_head
Data == -2          \* not an address of a node
Invalid == -3
Node == Frame \cup {frame_head}

\* SetKernelData has run.
Init ==
  /\ VIRTUAL_MEMORY_ENABLED = FALSE
  /\ PMEM_SIZE = 0
  /\ KERNEL_BRK = DataEnd
  /\ links = LET link == [n \in Node |-> IF n = frame_head THEN n ELSE Data]
             IN [next |-> link, prev |-> link]
  /\ frc_table = [f \in Frame |-> 0]
  /\ kernel_page_table = [i \in KernelPage |-> Invalid]
  /\ held = [f \in Frame |-> 0]
  /\ failed = FALSE

------------------------------------------------------------------------------
\* The allocator.  t is the part of the state its callers change: links, frc,
\* the kernel page table pt, and whether frames ran out.

Now == [links |-> links, frc |-> frc_table, pt |-> kernel_page_table,
        failed |-> failed]

Become(t) ==
  /\ links' = t.links /\ frc_table' = t.frc
  /\ kernel_page_table' = t.pt /\ failed' = t.failed

Available(t) == t.links.next[frame_head] # frame_head

\* The frame allocatePageFrame returns.
FirstFrame(t) == t.links.next[frame_head]

\* The user of frame f writes to it.
Overwritten(nodes, f) ==
  [nodes EXCEPT !.next[f] = Data, !.prev[f] = Data]

\* A version that leaves the back link of the next frame.
allocatePageFrameForward(t) ==
  LET frame == FirstFrame(t)
  IN [t EXCEPT
        !.frc[frame] = 1,
        !.links = Overwritten([@ EXCEPT !.next[frame_head] = t.links.next[frame]], frame)]

allocatePageFrame(t) ==
  LET frame  == FirstFrame(t)
      second == t.links.next[frame]
      rest   == IF second = frame_head
                  THEN linkedListNodeInit(t.links, {frame_head})
                  ELSE [t.links EXCEPT !.next[frame_head] = second,
                                       !.prev[second] = frame_head]
  IN [t EXCEPT !.frc[frame] = 1, !.links = Overwritten(rest, frame)]

\* Frame as the first of the list.  An empty list is closed off at both ends.
Linked(nodes, frame) ==
  LET next_page == nodes.next[frame_head]
  IN [nodes EXCEPT
        !.next = [@ EXCEPT ![frame_head] = frame, ![frame] = next_page],
        !.prev = [@ EXCEPT ![frame] = frame_head, ![next_page] = frame]]

\* A version that frees the frame whoever else uses it.
freePageFrameAlways(t, frame) ==
  [t EXCEPT !.frc[frame] = @ - 1, !.links = Linked(@, frame)]

freePageFrame(t, frame) ==
  IF t.frc[frame] > 1 THEN [t EXCEPT !.frc[frame] = @ - 1]
  ELSE [t EXCEPT !.frc[frame] = @ - 1, !.links = Linked(@, frame)]

------------------------------------------------------------------------------
\* The callers outside the kernel heap; Memory models them.  They free what
\* they hold.

UserUnchanged == UNCHANGED <<VIRTUAL_MEMORY_ENABLED, PMEM_SIZE, KERNEL_BRK>>

UserAllocates ==
  /\ VIRTUAL_MEMORY_ENABLED /\ Available(Now)
  /\ Become(allocatePageFrame(Now))
  /\ held' = [held EXCEPT ![FirstFrame(Now)] = 1]
  /\ UserUnchanged

\* setCopyOnWrite for a child, or the pages a thread shares.
UserShares(f) ==
  /\ held[f] \in 1..MaxUsers-1 /\ f \notin KernelStack
  /\ Become([Now EXCEPT !.frc[f] = @ + 1])
  /\ held' = [held EXCEPT ![f] = @ + 1]
  /\ UserUnchanged

UserFrees(f) ==
  /\ held[f] > 0 /\ f \notin KernelStack
  /\ Become(freePageFrame(Now, f))
  /\ held' = [held EXCEPT ![f] = @ - 1]
  /\ UserUnchanged

------------------------------------------------------------------------------
\* The kernel heap.

\* One round of the loop of increaseKernelBrk, which ends when frames run out.
growPage(t, page) ==
  IF t.failed \/ ~Available(t) THEN [t EXCEPT !.failed = TRUE]
  ELSE [allocatePageFrame(t) EXCEPT !.pt[page] = FirstFrame(t)]

\* frames_needed rounds, for the pages from the break up.
Grow == INSTANCE Rounds WITH Round <- growPage

\* A version that moves the break although it ran out of frames.
increaseKernelBrkIgnoringError(address) ==
  LET t == Grow!Loop([Now EXCEPT !.failed = FALSE], KERNEL_BRK, address)
  IN /\ Become([t EXCEPT !.failed = @ \/ failed])
     /\ KERNEL_BRK' = address

\* Running out leaves the frames it has got so far in the page table, above
\* the break.
increaseKernelBrk(address) ==
  LET t == Grow!Loop([Now EXCEPT !.failed = FALSE], KERNEL_BRK, address)
  IN /\ Become([t EXCEPT !.failed = @ \/ failed])
     /\ KERNEL_BRK' = IF t.failed THEN KERNEL_BRK ELSE address

\* A version that does not free the frames.
shrinkPageKeepFrame(t, page) == [t EXCEPT !.pt[page] = Invalid]

\* One round of the loop of decreaseKernelBrk.
shrinkPage(t, page) == [freePageFrame(t, t.pt[page]) EXCEPT !.pt[page] = Invalid]

\* frames_freed rounds, for the pages from the new break up.
Shrink == INSTANCE Rounds WITH Round <- shrinkPage

decreaseKernelBrk(address) ==
  /\ Become(Shrink!Loop(Now, address, KERNEL_BRK))
  /\ KERNEL_BRK' = address

Larger(a, b) == IF a > b THEN a ELSE b

\* Before virtual memory is enabled the break only moves up.
SetKernelBrkAtBoot(address) ==
  /\ ~VIRTUAL_MEMORY_ENABLED /\ address <= MaxBootBrk
  /\ KERNEL_BRK' = Larger(address, KERNEL_BRK)
  /\ UNCHANGED <<VIRTUAL_MEMORY_ENABLED, PMEM_SIZE, links, frc_table,
                 kernel_page_table, held, failed>>

SetKernelBrk(address) ==
  /\ VIRTUAL_MEMORY_ENABLED /\ address >= DataEnd
  /\ address < KERNEL_STACK_BASE - NUMBER_OF_FRAME_WINDOWS
  /\ \/ address > KERNEL_BRK /\ increaseKernelBrk(address)
     \/ address < KERNEL_BRK /\ decreaseKernelBrk(address)
  /\ UNCHANGED <<VIRTUAL_MEMORY_ENABLED, PMEM_SIZE, held>>

------------------------------------------------------------------------------
\* Boot.

\* A version that does not clear the table malloc returned.
initFRCTableUncleared == [f \in Frame |-> Data]

initFRCTable == [f \in Frame |-> 0]

\* The frames from the break up, without those of the kernel stack.
Listed(brk, pmem_size) == (brk..pmem_size-1) \ KernelStack

nextFrame(i, pmem_size) ==
  CASE i = KERNEL_STACK_BASE - 1 ->
         IF KERNEL_STACK_LIMIT < pmem_size THEN KERNEL_STACK_LIMIT ELSE frame_head
    [] OTHER -> IF i = pmem_size - 1 THEN frame_head ELSE i + 1

previousFrame(i, brk) ==
  CASE i = KERNEL_STACK_BASE - 1  -> i - 1
    [] i = KERNEL_STACK_LIMIT     -> KERNEL_STACK_BASE - 1
    [] OTHER -> IF i = brk THEN frame_head ELSE i - 1

initFrameList(brk, pmem_size) ==
  [next |-> [n \in Node |-> CASE n = frame_head -> brk
                              [] n \in Listed(brk, pmem_size) -> nextFrame(n, pmem_size)
                              [] OTHER -> Data],
   prev |-> [n \in Node |-> CASE n = frame_head -> pmem_size - 1
                              [] n \in Listed(brk, pmem_size) -> previousFrame(n, brk)
                              [] OTHER -> Data]]

\* Text, data and heap are mapped to the frames of their numbers.
initKernelPageTable(brk) == [i \in KernelPage |-> IF i < brk THEN i ELSE Invalid]

\* The table of counts is allocated first, which may raise the break.
KernelStart(pmem_size) ==
  /\ ~VIRTUAL_MEMORY_ENABLED
  /\ \E brk \in KERNEL_BRK..MaxBootBrk :
       /\ KERNEL_BRK' = brk
       /\ links' = initFrameList(brk, pmem_size)
       /\ kernel_page_table' = initKernelPageTable(brk)
       /\ frc_table' = [f \in Frame |-> IF f < brk \/ f \in KernelStack THEN 1
                                        ELSE initFRCTable[f]]
  /\ held' = [f \in Frame |-> IF f \in KernelStack THEN 1 ELSE 0]
  /\ PMEM_SIZE' = pmem_size
  /\ VIRTUAL_MEMORY_ENABLED' = TRUE
  /\ UNCHANGED failed

------------------------------------------------------------------------------
Next ==
  \/ \E address \in KernelPage : SetKernelBrkAtBoot(address) \/ SetKernelBrk(address)
  \/ \E pmem_size \in KERNEL_STACK_LIMIT..MaxPmem : KernelStart(pmem_size)
  \/ UserAllocates
  \/ \E f \in Frame : UserShares(f) \/ UserFrees(f)

Spec == Init /\ [][Next]_vars

------------------------------------------------------------------------------
\* Properties.

\* Every variable has the type of its declaration, and counts are not negative.
TypeOK ==
  /\ {VIRTUAL_MEMORY_ENABLED, failed} \subseteq BOOLEAN
  /\ PMEM_SIZE \in 0..MaxPmem
  /\ KERNEL_BRK \in DataEnd..KERNEL_STACK_BASE-NUMBER_OF_FRAME_WINDOWS-1
  /\ links \in [next : [Node -> Node \cup {Data}], prev : [Node -> Node \cup {Data}]]
  /\ frc_table \in [Frame -> 0..MaxUsers]
  /\ kernel_page_table \in [KernelPage -> Frame \cup {Invalid}]
  /\ held \in [Frame -> 0..MaxUsers]

\* The frames on the list, in order.
FreeList == forEachNode(links.next, frame_head, MaxPmem)

\* The list that runs through the free frames stays whole, whatever the order in
\* which frames are handed out, shared and given back, and wherever the kernel stack
\* cuts through it: a walk from frame_head comes back to it, meets no frame twice
\* and none that is in use, and each frame points back to the one before.
\* frame_head.prev is left out; nobody reads it.
ListIntact ==
  VIRTUAL_MEMORY_ENABLED =>
    /\ Ends(links.next, frame_head, MaxPmem)
    /\ LET list == FreeList IN
       \A i \in DOMAIN list :
         /\ frc_table[list[i]] = 0 /\ list[i] < PMEM_SIZE
         /\ links.prev[list[i]] = IF i = 1 THEN frame_head ELSE list[i - 1]

MappedBy(f) == {i \in KernelPage : kernel_page_table[i] = f}

\* frc_table counts the users of each frame and the pages of the kernel that map
\* it, and no frame is lost, as long as no growth of the kernel heap failed half way.
FramesAccounted ==
  VIRTUAL_MEMORY_ENABLED /\ ~failed =>
    LET free == Range(FreeList) IN
    \A f \in 0..PMEM_SIZE-1 :
      /\ frc_table[f] = held[f] + Cardinality(MappedBy(f))
      /\ frc_table[f] = 0 => f \in free

\* Each page of the kernel below the break has a frame that no other page and no
\* process uses and that the allocator does not give away, also after growth
\* failed half way.
KernelPagesPrivate ==
  VIRTUAL_MEMORY_ENABLED =>
    LET free == Range(FreeList) IN
    \A i \in 0..KERNEL_BRK-1 :
      LET f == kernel_page_table[i]
      IN f \in Frame /\ MappedBy(f) = {i} /\ held[f] = 0 /\ f \notin free

Pool == INSTANCE FramePool
          WITH free <- IF VIRTUAL_MEMORY_ENABLED THEN Range(FreeList) ELSE {},
               users <- frc_table

\* Behind the links in the frames, the allocator is a set of free frames and a
\* number of users for each of the others.
ImplementsFramePool == Pool!Spec
==============================================================================
