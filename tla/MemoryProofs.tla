----------------------------- MODULE MemoryProofs -----------------------------
(***************************************************************************)
(* Proofs about Memory for any number of processes, frames and pages, any  *)
(* executables and any choice of frames by the allocator; at the end, that *)
(* it implements PrivateMemory.                                            *)
(***************************************************************************)
EXTENDS Memory, FiniteSetTheorems, TLAPS

------------------------------------------------------------------------------
\* The operators of Memory.

\* A signed char holds every number within its range and nothing else.
LEMMA WrapRange ==
  ASSUME NEW n \in Int
  PROVE  Wrap(n) \in -CHAR_MAX-1..CHAR_MAX
BY MemoryAssumption DEF Wrap

\* A number a char can hold is stored unchanged.
LEMMA WrapSmall ==
  ASSUME NEW n \in -CHAR_MAX-1..CHAR_MAX
  PROVE  Wrap(n) = n
BY MemoryAssumption DEF Wrap

\* The allocator gives different slots different frames of the free list.
LEMMA PlacementFacts ==
  ASSUME NEW S \in SUBSET Slot, NEW F \in SUBSET Frame,
         NEW place \in Placements(S, F)
  PROVE  /\ place \in [S -> F]
         /\ \A s, t \in S : place[s] = place[t] => s = t
         /\ DOMAIN place = S
         /\ Image(place) = {place[s] : s \in S}
         /\ Image(place) \subseteq F
<1>1. /\ place \in [S -> F]
      /\ \A s, t \in S : place[s] = place[t] => s = t
  BY MemoryAssumption DEF PlacementsAreInjections
<1> QED
  BY <1>1 DEF Image

\* Every page of a program is a page of region 1.
LEMMA SlotFacts ==
  /\ Slot \subseteq Int
  /\ Page \subseteq Slot /\ KernelStack \subseteq Slot
  /\ Page \cap KernelStack = {}
  /\ \A s \in Slot : s \in Page <=> s \notin KernelStack
BY MemoryAssumption DEF Slot, Page, KernelStack

\* The pages an executable asks for fit into region 1, above page 0 and apart.
LEMMA ProgramFacts ==
  ASSUME NEW prog \in Program
  PROVE  /\ prog.text \in Nat /\ prog.data \in Nat /\ prog.stack \in Nat
         /\ prog.stack > 0
         /\ prog.text + prog.data + prog.stack < MAX_PT_LEN
         /\ ProgramPages(prog) \subseteq Page
         /\ TextPages(prog) = 0..prog.text-1
<1>1. /\ prog.text \in Nat /\ prog.data \in Nat /\ prog.stack \in Nat
      /\ prog.stack > 0
  BY MemoryAssumption
<1>2. prog.text + prog.data + prog.stack < MAX_PT_LEN
  BY ProgramsFit
<1> QED
  BY <1>1, <1>2, MemoryAssumption
     DEF ProgramPages, TextPages, DataPages, StackPages, Page

\* The tables the kernel makes.
LEMMA NoTableType == NoTable \in [Slot -> Entry]
BY MemoryAssumption DEF NoTable, NoEntry, Entry

\* createPTE makes a valid entry with the frame and the rights it is given.
LEMMA CreateType ==
  ASSUME NEW f \in Frame, NEW w \in BOOLEAN, NEW c \in BOOLEAN
  PROVE  /\ createPTE(f, w, c) \in Entry
         /\ createPTE(f, w, c).valid
         /\ createPTE(f, w, c).frame = f
         /\ createPTE(f, w, c).write = w
         /\ createPTE(f, w, c).cow = c
BY DEF createPTE, Entry

\* Entry by entry, the table of a program whose slots S got the frames place.
LEMMA LoadedFacts ==
  ASSUME NEW table \in [Slot -> Entry], NEW prog \in Program,
         NEW S \in SUBSET ProgramPages(prog), NEW place \in [S -> Frame],
         NEW new, new = LoadedTable(table, prog, place)
  PROVE  /\ new \in [Slot -> Entry]
         /\ \A s \in KernelStack : new[s] = table[s]
         /\ \A s \in S : /\ new[s].valid /\ new[s].frame = place[s] /\ ~new[s].cow
                         /\ new[s].write \/ s \in TextPages(prog)
         /\ \A s \in Page \ S : new[s] = NoEntry
<1> DEFINE w(s) == s \notin TextPages(prog) \/ DOMAIN place # ProgramPages(prog)
<1>1. S \subseteq Page /\ DOMAIN place = S
  BY ProgramFacts
<1>2. new = [s \in Slot |->
               CASE s \in KernelStack -> table[s]
                 [] s \in S -> createPTE(place[s], w(s), FALSE)
                 [] OTHER -> NoEntry]
  BY <1>1 DEF LoadedTable
<1>3. \A s \in KernelStack : new[s] = table[s] /\ new[s] \in Entry
  BY <1>1, <1>2, SlotFacts
<1>4. ASSUME NEW s \in S
      PROVE  /\ new[s] \in Entry
             /\ new[s].valid /\ new[s].frame = place[s] /\ ~new[s].cow
             /\ new[s].write \/ s \in TextPages(prog)
  <2>1. s \in Slot /\ s \notin KernelStack
    BY <1>1, SlotFacts
  <2>2. new[s] = createPTE(place[s], w(s), FALSE)
    BY <1>2, <2>1
  <2>3. place[s] \in Frame /\ w(s) \in BOOLEAN
    OBVIOUS
  <2>4. w(s) \/ s \in TextPages(prog)
    OBVIOUS
  <2>5. PICK b \in BOOLEAN : b = w(s)
    BY <2>3
  <2>6. new[s] = createPTE(place[s], b, FALSE)
    BY <2>2, <2>5
  <2>7. b \/ s \in TextPages(prog)
    BY <2>4, <2>5
  <2> HIDE DEF w
  <2> QED
    BY <2>3, <2>6, <2>7 DEF createPTE, Entry
<1>5. \A s \in Page \ S : new[s] = NoEntry /\ new[s] \in Entry
  BY <1>1, <1>2, SlotFacts, MemoryAssumption DEF NoEntry, Entry
<1>6. new \in [Slot -> Entry]
  <2>1. \A s \in Slot : new[s] \in Entry
    BY <1>3, <1>4, <1>5, SlotFacts
  <2> QED
    BY <2>1, <1>2
<1> QED
  BY <1>3, <1>4, <1>5, <1>6

\* A finite set of references has a number of members that refer to f.
LEMMA ToFinite ==
  ASSUME NEW refs, IsFiniteSet(refs), NEW f
  PROVE  /\ IsFiniteSet(To(refs, f))
         /\ Cardinality(To(refs, f)) \in Nat
<1>1. To(refs, f) \subseteq refs
  BY DEF To
<1> QED
  BY <1>1, FS_Subset, FS_CardinalityType

\* A table has finitely many slots, and so has the whole of memory.
LEMMA SlotsFinite ==
  /\ IsFiniteSet(Slot) /\ IsFiniteSet(Page)
  /\ IsFiniteSet(Proc \X Slot)
  /\ \A refs \in SUBSET (Proc \X Slot) : IsFiniteSet(refs)
<1>1. IsFiniteSet(Page) /\ IsFiniteSet(KernelStack)
  <2>1. -KERNEL_STACK_PAGES \in Int /\ -1 \in Int /\ 0 \in Int /\ MAX_PT_LEN-1 \in Int
    BY MemoryAssumption
  <2> QED
    BY <2>1, FS_Interval DEF Page, KernelStack
<1>2. IsFiniteSet(Slot)
  BY <1>1, FS_Union DEF Slot
<1>3. IsFiniteSet(Proc \X Slot)
  BY <1>2, FS_Product, MemoryAssumption
<1> QED
  BY <1>1, <1>2, <1>3, FS_Subset

\* Freeing and allocating keep the types of the pool.
LEMMA DroppedType ==
  ASSUME frc \in [Frame -> -CHAR_MAX-1..CHAR_MAX],
         NEW refs \in SUBSET (Proc \X Slot)
  PROVE  /\ Dropped(refs) \in [Frame -> -CHAR_MAX-1..CHAR_MAX]
         /\ Frees(refs) \subseteq Frame
<1>1. ASSUME NEW f \in Frame
      PROVE  Wrap(frc[f] - Cardinality(To(refs, f))) \in -CHAR_MAX-1..CHAR_MAX
  <2>1. Cardinality(To(refs, f)) \in Nat
    BY SlotsFinite, ToFinite
  <2>2. frc[f] \in Int
    BY MemoryAssumption
  <2> QED
    BY <2>1, <2>2, WrapRange
<1> QED
  BY <1>1 DEF Dropped, Frees

\* Counts that allocatePageFrame has set to 1 are still chars.
LEMMA ClaimedType ==
  ASSUME NEW counts \in [Frame -> -CHAR_MAX-1..CHAR_MAX], NEW fs
  PROVE  Claimed(counts, fs) \in [Frame -> -CHAR_MAX-1..CHAR_MAX]
BY MemoryAssumption DEF Claimed

\* Freeing frames and loading a program leave a value in every frame.
LEMMA ContentsType ==
  ASSUME NEW contents \in [Frame -> Val], NEW fs, NEW prog, NEW place
  PROVE  /\ Forgotten(contents, fs) \in [Frame -> Val]
         /\ LoadedMem(contents, prog, place) \in [Frame -> Val]
BY MemoryAssumption DEF Forgotten, LoadedMem

\* The order of the natural numbers, as a relation.
Before == {ss \in Nat \X Nat : ss[1] < ss[2]}

\* The order of the natural numbers has no endless descent.
LEMMA BeforeWellFounded == IsWellFoundedOn(Before, Nat)
BY NatLessThanWellFounded DEF OpToRel, Before

\* A non-empty set of pages has a last one.
LEMMA LastPage ==
  ASSUME NEW T \in SUBSET Page, T # {}
  PROVE  \E s \in T : \A t \in T : t <= s
<1> DEFINE R == {MAX_PT_LEN - t : t \in T}
<1>1. R \subseteq Nat /\ R # {}
  <2>1. \A t \in Page : MAX_PT_LEN - t \in Nat
    BY MemoryAssumption DEF Page
  <2> QED
    BY <2>1
<1>2. PICK m \in R : \A n \in R : <<n, m>> \notin Before
  BY <1>1, BeforeWellFounded, WFMin
<1>3. PICK s \in T : m = MAX_PT_LEN - s
  OBVIOUS
<1>4. ASSUME NEW t \in T PROVE t <= s
  <2> DEFINE n == MAX_PT_LEN - t
  <2>1. n \in R /\ n \in Nat /\ m \in Nat
    BY <1>1
  <2>2. ~(n < m)
    BY <1>2, <2>1 DEF Before
  <2> QED
    BY <1>3, <2>2, MemoryAssumption DEF Page
<1> QED
  BY <1>4

------------------------------------------------------------------------------
\* Types, the layout of a process and the pages of its heap.

\* Text and data, the heap, a gap and the stack follow one another, and the heap
\* has no holes.
Orderly(p) ==
  /\ heap_start[p] <= current_brk[p]
  /\ current_brk[p] <= sp[p]
  /\ sp[p] < MAX_PT_LEN
  /\ \A i \in heap_start[p]..current_brk[p]-1 : pt[p][i].valid

Shape ==
  /\ TypeOK
  /\ thread_leader[InitProc] = NoProc
  /\ \A p \in live : Orderly(p)

\* What TypeOK says, with the layout taken apart.
LEMMA TypeFacts ==
  ASSUME TypeOK
  PROVE  /\ live \subseteq Proc
         /\ thread_leader \in [Proc -> Proc \cup {NoProc}]
         /\ pt \in [Proc -> [Slot -> Entry]]
         /\ sp \in [Proc -> 0..MAX_PT_LEN]
         /\ heap_start \in [Proc -> 0..MAX_PT_LEN]
         /\ current_brk \in [Proc -> 0..MAX_PT_LEN]
         /\ frc \in [Frame -> -CHAR_MAX-1..CHAR_MAX]
         /\ free \subseteq Frame
         /\ mem \in [Frame -> Val]
BY DEF TypeOK

\* A step of a live process p that changes no table but its own, neither the
\* set of live processes nor the groups, and leaves p orderly.
LEMMA OwnStep ==
  ASSUME Shape, NEW p \in live, NEW table \in [Slot -> Entry],
         pt' = [pt EXCEPT ![p] = table],
         live' = live, thread_leader' = thread_leader,
         sp' \in [Proc -> 0..MAX_PT_LEN],
         heap_start' \in [Proc -> 0..MAX_PT_LEN],
         current_brk' \in [Proc -> 0..MAX_PT_LEN],
         \A q \in Proc \ {p} : /\ sp'[q] = sp[q]
                               /\ heap_start'[q] = heap_start[q]
                               /\ current_brk'[q] = current_brk[q],
         frc' \in [Frame -> -CHAR_MAX-1..CHAR_MAX],
         free' \subseteq Frame, mem' \in [Frame -> Val], halted' \in BOOLEAN,
         Orderly(p)'
  PROVE  Shape'
<1>1. p \in Proc /\ live \subseteq Proc /\ pt \in [Proc -> [Slot -> Entry]]
  BY DEF Shape, TypeOK
<1>2. TypeOK'
  <2>1. pt' \in [Proc -> [Slot -> Entry]]
    BY <1>1
  <2>2. \A q \in Proc \ live : pt'[q] = NoTable
    BY <1>1 DEF Shape, TypeOK
  <2>3. {sp', heap_start', current_brk'} \subseteq [Proc -> 0..MAX_PT_LEN]
    OBVIOUS
  <2> QED
    BY <2>1, <2>2, <2>3 DEF Shape, TypeOK
<1>3. ASSUME NEW q \in live PROVE Orderly(q)'
  <2>1. CASE q = p
    BY <2>1
  <2>2. CASE q # p
    <3>1. pt'[q] = pt[q] /\ q \in Proc
      BY <1>1, <2>2
    <3>2. /\ sp'[q] = sp[q] /\ heap_start'[q] = heap_start[q]
          /\ current_brk'[q] = current_brk[q]
      BY <2>2, <3>1
    <3> QED
      BY <3>1, <3>2 DEF Shape, Orderly
  <2> QED
    BY <2>1, <2>2
<1>4. thread_leader'[InitProc] = NoProc
  BY DEF Shape
<1> QED
  BY <1>2, <1>3, <1>4 DEF Shape

\* The first program is loaded into typed, orderly memory.
BootTable(stack) ==
  [s \in Slot |-> IF s \in KernelStack THEN createPTE(stack[s], TRUE, FALSE)
                                       ELSE NoEntry]

\* The table init starts with has its kernel stack mapped for writing.
LEMMA BootType ==
  ASSUME NEW stack \in [KernelStack -> Frame]
  PROVE  /\ BootTable(stack) \in [Slot -> Entry]
         /\ \A s \in KernelStack : /\ BootTable(stack)[s].valid
                                   /\ BootTable(stack)[s].write
                                   /\ ~BootTable(stack)[s].cow
                                   /\ BootTable(stack)[s].frame = stack[s]
BY SlotFacts, MemoryAssumption DEF BootTable, createPTE, NoEntry, Entry

\* Init, with its choices named.
Booted(prog, stack, place) ==
  /\ live = {InitProc}
  /\ thread_leader = [p \in Proc |-> NoProc]
  /\ pt = [p \in Proc |-> IF p = InitProc
                            THEN LoadedTable(BootTable(stack), prog, place)
                            ELSE NoTable]
  /\ sp = [p \in Proc |-> IF p = InitProc THEN MAX_PT_LEN - prog.stack ELSE 0]
  /\ heap_start = [p \in Proc |-> IF p = InitProc THEN prog.text + prog.data ELSE 0]
  /\ current_brk = heap_start
  /\ frc = [f \in Frame |->
              IF f \in Image(stack) \cup Image(place) \cup {KernelFrame} THEN 1 ELSE 0]
  /\ free = Frame \ (Image(stack) \cup Image(place) \cup {KernelFrame})
  /\ mem = LoadedMem([f \in Frame |-> Junk], prog, place)
  /\ halted = FALSE

\* Every initial state is one that loadInit sets up.
LEMMA InitBooted ==
  ASSUME Init
  PROVE  \E prog \in Program :
         \E stack \in Placements(KernelStack, Frame \ {KernelFrame}) :
         \E place \in Placements(ProgramPages(prog),
                                 Frame \ ({KernelFrame} \cup Image(stack))) :
           Booted(prog, stack, place)
BY DEF Init, Booted, BootTable

\* Shape holds after boot.
LEMMA InitShape == Init => Shape
<1> SUFFICES ASSUME Init PROVE Shape
  OBVIOUS
<1>1. PICK prog \in Program :
        \E stack \in Placements(KernelStack, Frame \ {KernelFrame}) :
        \E place \in Placements(ProgramPages(prog),
                                Frame \ ({KernelFrame} \cup Image(stack))) :
          Booted(prog, stack, place)
  BY InitBooted
<1>2. PICK stack \in Placements(KernelStack, Frame \ {KernelFrame}) :
        \E place \in Placements(ProgramPages(prog),
                                Frame \ ({KernelFrame} \cup Image(stack))) :
          Booted(prog, stack, place)
  BY <1>1
<1>3. PICK place \in Placements(ProgramPages(prog),
                                Frame \ ({KernelFrame} \cup Image(stack))) :
          Booted(prog, stack, place)
  BY <1>2
<1>4. ProgramPages(prog) \in SUBSET Slot /\ KernelStack \in SUBSET Slot
  BY ProgramFacts, SlotFacts
<1>5. /\ stack \in [KernelStack -> Frame]
      /\ place \in [ProgramPages(prog) -> Frame]
  <2>1. stack \in [KernelStack -> Frame \ {KernelFrame}]
    BY <1>4, PlacementFacts
  <2> DEFINE F == Frame \ ({KernelFrame} \cup Image(stack))
  <2>2. place \in [ProgramPages(prog) -> F]
    <3>1. F \in SUBSET Frame /\ place \in Placements(ProgramPages(prog), F)
      OBVIOUS
    <3> HIDE DEF F
    <3> QED
      BY <1>4, <3>1, PlacementFacts
  <2> QED
    BY <2>1, <2>2
<1>6. /\ LoadedTable(BootTable(stack), prog, place) \in [Slot -> Entry]
  BY <1>4, <1>5, BootType, LoadedFacts
<1>7. pt \in [Proc -> [Slot -> Entry]] /\ \A p \in Proc \ live : pt[p] = NoTable
  BY <1>3, <1>6, NoTableType DEF Booted
<1>8. /\ prog.text + prog.data \in 0..MAX_PT_LEN
      /\ MAX_PT_LEN - prog.stack \in 0..MAX_PT_LEN
      /\ prog.text + prog.data <= MAX_PT_LEN - prog.stack
      /\ MAX_PT_LEN - prog.stack < MAX_PT_LEN
  BY ProgramFacts, MemoryAssumption
<1>9. /\ sp \in [Proc -> 0..MAX_PT_LEN]
      /\ heap_start \in [Proc -> 0..MAX_PT_LEN]
      /\ current_brk \in [Proc -> 0..MAX_PT_LEN]
  BY <1>3, <1>8, MemoryAssumption DEF Booted
<1>10. mem \in [Frame -> Val]
  <2>1. [f \in Frame |-> Junk] \in [Frame -> Val]
    BY MemoryAssumption
  <2> QED
    BY <1>3, <2>1, ContentsType DEF Booted
<1>11. frc \in [Frame -> -CHAR_MAX-1..CHAR_MAX]
  BY <1>3, MemoryAssumption DEF Booted
<1>12. TypeOK
  BY <1>3, <1>7, <1>9, <1>10, <1>11, MemoryAssumption DEF TypeOK, Booted
<1>13. Orderly(InitProc)
  <2>1. /\ sp[InitProc] = MAX_PT_LEN - prog.stack
        /\ heap_start[InitProc] = prog.text + prog.data
        /\ current_brk[InitProc] = prog.text + prog.data
    BY <1>3, MemoryAssumption DEF Booted
  <2> QED
    BY <1>8, <2>1 DEF Orderly
<1> QED
  BY <1>3, <1>12, <1>13, MemoryAssumption DEF Shape, Booted

\* The heap of an orderly process lies in region 1.
LEMMA HeapPages ==
  ASSUME TypeOK, NEW p \in Proc, Orderly(p)
  PROVE  \A s \in heap_start[p]..current_brk[p]-1 :
           s \in Page /\ s \in Slot /\ s < sp[p] /\ pt[p][s].valid
<1>1. /\ heap_start[p] \in 0..MAX_PT_LEN /\ current_brk[p] \in 0..MAX_PT_LEN
      /\ sp[p] \in 0..MAX_PT_LEN
  BY TypeFacts
<1>2. current_brk[p] <= sp[p] /\ sp[p] < MAX_PT_LEN
  BY DEF Orderly
<1>3. ASSUME NEW s \in heap_start[p]..current_brk[p]-1
      PROVE  s \in Page /\ s < sp[p]
  BY <1>1, <1>2, MemoryAssumption DEF Page
<1> QED
  BY <1>3, SlotFacts DEF Orderly

\* A store changes the contents of a frame and no layout.
LEMMA StoreShape ==
  ASSUME Shape, NEW p \in Proc, NEW i \in Page, NEW v \in Val, Store(p, i, v)
  PROVE  Shape'
<1>1. p \in live /\ TypeOK /\ Orderly(p)
  BY DEF Store, Runs, Shape
<1>2. pt' = [pt EXCEPT ![p] = pt[p]] /\ pt[p] \in [Slot -> Entry]
  BY <1>1, TypeFacts DEF Store
<1>3. mem' \in [Frame -> Val]
  BY <1>1, TypeFacts DEF Store
<1>4. Orderly(p)'
  BY <1>1 DEF Store, Orderly, layout
<1> QED
  BY <1>1, <1>2, <1>3, <1>4, OwnStep, TypeFacts DEF Store, layout, TypeOK

\* The stack pointer stays above the heap.
LEMMA MoveSpShape ==
  ASSUME Shape, NEW p \in Proc, NEW i \in Page, MoveSp(p, i)
  PROVE  Shape'
<1>1. p \in live /\ TypeOK /\ Orderly(p)
  BY DEF MoveSp, Runs, Shape
<1>2. pt' = [pt EXCEPT ![p] = pt[p]] /\ pt[p] \in [Slot -> Entry]
  BY <1>1, TypeFacts DEF MoveSp
<1>3. /\ i \in Int /\ current_brk[p] <= i /\ i < MAX_PT_LEN
      /\ i \in 0..MAX_PT_LEN
  <2>1. current_brk[p] \in Int /\ i \in 0..MAX_PT_LEN-1
    BY <1>1, TypeFacts DEF Page
  <2> QED
    BY <2>1, MemoryAssumption DEF MoveSp
<1>4. /\ sp' \in [Proc -> 0..MAX_PT_LEN] /\ sp'[p] = i
      /\ \A q \in Proc \ {p} : sp'[q] = sp[q]
  BY <1>1, <1>3, TypeFacts DEF MoveSp
<1>5. Orderly(p)'
  BY <1>1, <1>3, <1>4 DEF MoveSp, Orderly
<1>6. /\ heap_start' = heap_start /\ current_brk' = current_brk
      /\ frc' = frc /\ free' = free /\ mem' = mem /\ halted' = halted
      /\ live' = live /\ thread_leader' = thread_leader
  BY DEF MoveSp, frames
<1> QED
  BY <1>1, <1>2, <1>4, <1>5, <1>6, OwnStep, TypeFacts DEF TypeOK

\* A step that changes one entry of p to one in use, and no layout.
LEMMA EntryStep ==
  ASSUME Shape, NEW p \in live, NEW i \in Page, NEW e \in Entry, e.valid,
         pt' = [pt EXCEPT ![p][i] = e],
         live' = live, thread_leader' = thread_leader, layout' = layout,
         frc' \in [Frame -> -CHAR_MAX-1..CHAR_MAX],
         free' \subseteq Frame, mem' \in [Frame -> Val], halted' \in BOOLEAN
  PROVE  Shape'
<1>1. TypeOK /\ Orderly(p) /\ p \in Proc /\ i \in Slot
  BY SlotFacts, TypeFacts DEF Shape
<1> DEFINE table == [pt[p] EXCEPT ![i] = e]
<1>2. table \in [Slot -> Entry] /\ pt' = [pt EXCEPT ![p] = table]
  BY <1>1, TypeFacts
<1>3. Orderly(p)'
  <2>1. \A s \in Slot : pt[p][s].valid => pt'[p][s].valid
    BY <1>1, TypeFacts
  <2>2. \A s \in heap_start[p]..current_brk[p]-1 : s \in Slot
    BY <1>1, HeapPages
  <2> QED
    BY <1>1, <2>1, <2>2 DEF Orderly, layout
<1> HIDE DEF table
<1> QED
  BY <1>1, <1>2, <1>3, OwnStep, TypeFacts DEF layout

\* A memory trap keeps the layout: it maps pages below the stack or changes frames.
LEMMA TrapShape ==
  ASSUME Shape, NEW p \in Proc, NEW i \in Page, handleMemoryTrap(p, i)
  PROVE  Shape'
<1>1. /\ p \in live /\ TypeOK /\ i \in Slot /\ pt[p][i].frame \in Frame
      /\ halted \in BOOLEAN
  <2>1. i \in Slot
    BY SlotFacts
  <2> QED
    BY <2>1, TypeFacts DEF handleMemoryTrap, Runs, Shape, Entry, TypeOK
<1>2. ASSUME Halt, frc' \in [Frame -> -CHAR_MAX-1..CHAR_MAX]
      PROVE  Shape'
  <2>1. pt' = [pt EXCEPT ![p] = pt[p]] /\ pt[p] \in [Slot -> Entry]
    BY <1>1, <1>2, TypeFacts DEF Halt
  <2>2. Orderly(p)'
    BY <1>1, <1>2 DEF Halt, Orderly, layout, Shape
  <2> QED
    BY <1>1, <1>2, <2>1, <2>2, OwnStep, TypeFacts DEF Halt, layout
<1>3. ASSUME NEW place \in Placements({i}, free)
      PROVE  /\ place[i] \in Frame
             /\ createPTE(place[i], TRUE, FALSE) \in Entry
             /\ createPTE(place[i], TRUE, FALSE).valid
  <2>1. free \in SUBSET Frame /\ {i} \in SUBSET Slot
    BY <1>1, TypeFacts
  <2>2. place \in [{i} -> free]
    BY <2>1, PlacementFacts
  <2>3. place[i] \in Frame
    BY <2>1, <2>2
  <2> QED
    BY <2>3, CreateType
<1>4. CASE CopyShared(p, i)
  <2> DEFINE old  == pt[p][i].frame
             less == [frc EXCEPT ![old] = @ - 1]
  <2>1. less \in [Frame -> -CHAR_MAX-1..CHAR_MAX]
    <3>1. frc[old] > 1 /\ frc[old] \in -CHAR_MAX-1..CHAR_MAX
      BY <1>1, <1>4, TypeFacts DEF CopyShared
    <3>2. frc[old] - 1 \in -CHAR_MAX-1..CHAR_MAX
      BY <3>1, MemoryAssumption
    <3> QED
      BY <1>1, <3>2, TypeFacts
  <2>2. CASE free = {} /\ frc' = less /\ Halt
    BY <1>2, <2>1, <2>2
  <2>3. ASSUME NEW place \in Placements({i}, free),
               pt' = [pt EXCEPT ![p][i] = createPTE(place[i], TRUE, FALSE)],
               frc' = Claimed(less, {place[i]}),
               free' = free \ {place[i]},
               mem' = [mem EXCEPT ![place[i]] = mem[old]],
               UNCHANGED <<live, thread_leader, layout, halted>>
        PROVE  Shape'
    <3> HIDE DEF less
    <3>1. frc' \in [Frame -> -CHAR_MAX-1..CHAR_MAX]
      BY <2>1, <2>3, ClaimedType
    <3>2. mem' \in [Frame -> Val] /\ free' \subseteq Frame
      BY <1>1, <1>3, <2>3, TypeFacts
    <3> QED
      BY <1>1, <1>3, <2>3, <3>1, <3>2, EntryStep
  <2> QED
    BY <1>4, <2>2, <2>3 DEF CopyShared
<1>5. CASE UnsetCopyOnWrite(p, i)
  <2> DEFINE e == createPTE(pt[p][i].frame, TRUE, FALSE)
  <2>1. e \in Entry /\ e.valid
    BY <1>1, CreateType
  <2>2. pt' = [pt EXCEPT ![p][i] = e]
    BY <1>1, <1>5, TypeFacts DEF UnsetCopyOnWrite
  <2> HIDE DEF e
  <2> QED
    BY <1>1, <1>5, <2>1, <2>2, EntryStep, TypeFacts DEF UnsetCopyOnWrite, frames
<1>6. CASE GrowStack(p, i)
  <2>1. CASE free = {} /\ frc' = frc /\ Halt
    BY <1>1, <1>2, <2>1, TypeFacts
  <2>2. ASSUME NEW place \in Placements({i}, free),
               pt' = [pt EXCEPT ![p][i] = createPTE(place[i], TRUE, FALSE)],
               frc' = Claimed(frc, {place[i]}),
               free' = free \ {place[i]},
               UNCHANGED <<live, thread_leader, layout, mem, halted>>
        PROVE  Shape'
    <3>1. frc' \in [Frame -> -CHAR_MAX-1..CHAR_MAX]
      BY <1>1, <2>2, ClaimedType, TypeFacts
    <3> QED
      BY <1>1, <1>3, <2>2, <3>1, EntryStep, TypeFacts
  <2> QED
    BY <1>6, <2>1, <2>2 DEF GrowStack
<1> QED
  BY <1>4, <1>5, <1>6 DEF handleMemoryTrap

\* Brk maps what it grants before it moves the break, and gives back only above it.
LEMMA BrkShape ==
  ASSUME Shape, NEW p \in Proc, NEW b \in Page, setProcessBrk(p, b)
  PROVE  Shape'
<1>1. /\ p \in live /\ TypeOK /\ Orderly(p)
      /\ b < sp[p] /\ heap_start[p] <= b /\ b \in 0..MAX_PT_LEN-1
      /\ live' = live /\ thread_leader' = thread_leader
      /\ sp' = sp /\ heap_start' = heap_start /\ halted' = halted
  BY TypeFacts, MemoryAssumption DEF setProcessBrk, Runs, Shape, Page
<1>2. /\ heap_start[p] \in 0..MAX_PT_LEN /\ current_brk[p] \in 0..MAX_PT_LEN
      /\ sp[p] \in 0..MAX_PT_LEN /\ sp[p] < MAX_PT_LEN
      /\ halted \in BOOLEAN
      /\ current_brk[p] <= sp[p] /\ heap_start[p] <= current_brk[p]
  BY <1>1, TypeFacts DEF Orderly, TypeOK
<1>3. b \in 0..MAX_PT_LEN
  BY <1>1, MemoryAssumption
<1>4. CASE increaseBrk(p, b)
  <2> DEFINE pages == current_brk[p]..b-1
             got   == Served(pages, Cardinality(free))
  <2>1. pages \in SUBSET Page /\ got \in SUBSET pages
    BY <1>1, <1>2, MemoryAssumption DEF Served, Page
  <2>2. PICK place \in Placements(got, free) :
          /\ pt' = [pt EXCEPT ![p] = [s \in Slot |->
                      IF s \in got THEN createPTE(place[s], TRUE, FALSE) ELSE @[s]]]
          /\ frc' = Claimed(frc, Image(place))
          /\ free' = free \ Image(place)
    BY <1>4 DEF increaseBrk
  <2>3. /\ b > current_brk[p]
        /\ current_brk' = [current_brk EXCEPT ![p] = IF got = pages THEN b ELSE @]
        /\ mem' = mem
    BY <1>4 DEF increaseBrk
  <2> HIDE DEF got
  <2>4. place \in [got -> free] /\ got \in SUBSET Slot
    <3>1. got \in SUBSET Slot /\ free \in SUBSET Frame
      BY <1>1, <2>1, SlotFacts, TypeFacts
    <3> QED
      BY <3>1, PlacementFacts
  <2> DEFINE table == [s \in Slot |->
                         IF s \in got THEN createPTE(place[s], TRUE, FALSE) ELSE pt[p][s]]
  <2>5. /\ table \in [Slot -> Entry]
        /\ \A s \in Slot : s \in got \/ pt[p][s].valid => table[s].valid
    <3>1. \A s \in got : createPTE(place[s], TRUE, FALSE) \in Entry
                         /\ createPTE(place[s], TRUE, FALSE).valid
      <4>1. ASSUME NEW s \in got PROVE place[s] \in Frame
        BY <1>1, <2>4, TypeFacts
      <4> QED
        BY <4>1, CreateType
    <3>2. pt[p] \in [Slot -> Entry]
      BY <1>1, TypeFacts
    <3> QED
      BY <3>1, <3>2
  <2>6. pt' = [pt EXCEPT ![p] = table]
    BY <2>2
  <2> HIDE DEF table
  <2>7. /\ current_brk' \in [Proc -> 0..MAX_PT_LEN]
        /\ \A q \in Proc \ {p} : current_brk'[q] = current_brk[q]
        /\ current_brk'[p] = IF got = pages THEN b ELSE current_brk[p]
    BY <1>1, <1>3, <2>3, TypeFacts
  <2>8. Orderly(p)'
    <3>1. pt'[p] = table
      BY <1>1, <2>6, TypeFacts
    <3>2. current_brk[p] \in Int /\ b \in Int /\ heap_start[p] \in Int
      BY <1>1, <1>2
    <3>3. \A s \in heap_start[p]..current_brk'[p]-1 :
            s \in heap_start[p]..current_brk[p]-1 \/ s \in got
      <4>1. CASE got = pages
        BY <2>7, <3>2, <4>1
      <4>2. CASE got # pages
        BY <2>7, <4>2
      <4> QED
        BY <4>1, <4>2
    <3>4. \A s \in heap_start[p]..current_brk[p]-1 : s \in Slot /\ pt[p][s].valid
      BY <1>1, HeapPages
    <3>5. \A s \in heap_start[p]..current_brk'[p]-1 : table[s].valid
      BY <2>4, <2>5, <3>3, <3>4
    <3>6. heap_start[p] <= current_brk'[p] /\ current_brk'[p] <= sp[p]
      BY <1>1, <1>2, <2>7
    <3> QED
      BY <1>1, <1>2, <3>1, <3>5, <3>6 DEF Orderly
  <2>9. frc' \in [Frame -> -CHAR_MAX-1..CHAR_MAX] /\ free' \subseteq Frame
    BY <1>1, <2>2, ClaimedType, TypeFacts
  <2> QED
    BY <1>1, <1>2, <2>3, <2>5, <2>6, <2>7, <2>8, <2>9, OwnStep, TypeFacts
<1>5. CASE decreaseBrk(p, b)
  <2> DEFINE pages == b..current_brk[p]-1
             table == [s \in Slot |-> IF s \in pages THEN NoEntry ELSE pt[p][s]]
  <2>1. /\ b < current_brk[p] /\ pt' = [pt EXCEPT ![p] = table]
        /\ current_brk' = [current_brk EXCEPT ![p] = b]
        /\ freePageFrames({p} \X pages)
    BY <1>5 DEF decreaseBrk
  <2>2. table \in [Slot -> Entry]
    <3>1. NoEntry \in Entry
      BY MemoryAssumption DEF NoEntry, Entry
    <3> QED
      BY <1>1, <3>1, TypeFacts
  <2>3. \A s \in Slot \ pages : table[s] = pt[p][s]
    OBVIOUS
  <2>4. {p} \X pages \in SUBSET (Proc \X Slot)
    <3>1. pages \subseteq heap_start[p]..current_brk[p]-1
      BY <1>1, <1>2
    <3>2. pages \subseteq Slot
      BY <1>1, <3>1, HeapPages
    <3> QED
      BY <3>2
  <2>5. /\ frc' \in [Frame -> -CHAR_MAX-1..CHAR_MAX]
        /\ free' \subseteq Frame /\ mem' \in [Frame -> Val]
    <3> HIDE DEF pages
    <3> QED
      BY <1>1, <2>1, <2>4, DroppedType, ContentsType, TypeFacts DEF freePageFrames
  <2> HIDE DEF table
  <2>6. /\ current_brk' \in [Proc -> 0..MAX_PT_LEN] /\ current_brk'[p] = b
        /\ \A q \in Proc \ {p} : current_brk'[q] = current_brk[q]
    BY <1>1, <1>3, <2>1, TypeFacts
  <2>7. Orderly(p)'
    <3>1. pt'[p] = table
      BY <1>1, <2>1, TypeFacts
    <3>2. current_brk[p] \in Int /\ b \in Int /\ heap_start[p] \in Int
      BY <1>1, <1>2
    <3>3. \A s \in heap_start[p]..b-1 : /\ s \in heap_start[p]..current_brk[p]-1
                                        /\ s \notin pages
      BY <2>1, <3>2
    <3>4. \A s \in heap_start[p]..current_brk[p]-1 : s \in Slot /\ pt[p][s].valid
      BY <1>1, HeapPages
    <3>5. \A s \in heap_start[p]..b-1 : table[s].valid
      BY <2>3, <3>3, <3>4
    <3> QED
      BY <1>1, <1>2, <2>6, <3>1, <3>5 DEF Orderly
  <2> QED
    BY <1>1, <1>2, <2>1, <2>2, <2>5, <2>6, <2>7, OwnStep, TypeFacts
<1> QED
  BY <1>4, <1>5 DEF setProcessBrk

\* Exec leaves the layout of the program it loaded.
LEMMA LoadShape ==
  ASSUME Shape, NEW p \in Proc, NEW prog \in Program, loadProgram(p, prog)
  PROVE  Shape'
<1> DEFINE old   == {p} \X Valid(p, Page)
           avail == free \cup Frees(old)
           got   == Served(ProgramPages(prog), Cardinality(avail))
<1>1. /\ p \in live /\ TypeOK /\ Orderly(p) /\ halted \in BOOLEAN
      /\ sp' = [sp EXCEPT ![p] = MAX_PT_LEN - prog.stack]
      /\ heap_start' = [heap_start EXCEPT ![p] = prog.text + prog.data]
      /\ current_brk' = [current_brk EXCEPT ![p] = prog.text + prog.data]
      /\ live' = live /\ thread_leader' = thread_leader /\ halted' = halted
  BY DEF loadProgram, Runs, Shape, TypeOK
<1>2. PICK place \in Placements(got, avail) :
        /\ pt' = [pt EXCEPT ![p] = LoadedTable(@, prog, place)]
        /\ frc' = Claimed(Dropped(old), Image(place))
        /\ free' = avail \ Image(place)
        /\ mem' = LoadedMem(Forgotten(mem, Frees(old)), prog, place)
  BY DEF loadProgram
<1>3. /\ old \in SUBSET (Proc \X Slot)
      /\ got \in SUBSET ProgramPages(prog) /\ got \in SUBSET Slot
  BY SlotFacts, ProgramFacts DEF Valid, Served
<1>4. Dropped(old) \in [Frame -> -CHAR_MAX-1..CHAR_MAX] /\ avail \subseteq Frame
  BY <1>1, <1>3, DroppedType, TypeFacts
<1> HIDE DEF old, avail, got
<1>5. place \in [got -> Frame]
  <2>1. place \in [got -> avail]
    BY <1>3, <1>4, PlacementFacts
  <2> QED
    BY <1>4, <2>1
<1> DEFINE table == LoadedTable(pt[p], prog, place)
<1>6. table \in [Slot -> Entry]
  BY <1>1, <1>3, <1>5, LoadedFacts, TypeFacts
<1>7. pt' = [pt EXCEPT ![p] = table]
  BY <1>2
<1> HIDE DEF table
<1>8. /\ frc' \in [Frame -> -CHAR_MAX-1..CHAR_MAX] /\ free' \subseteq Frame
      /\ mem' \in [Frame -> Val]
  <2>1. Forgotten(mem, Frees(old)) \in [Frame -> Val]
    BY <1>1, ContentsType, TypeFacts
  <2> QED
    BY <1>2, <1>4, <2>1, ClaimedType, ContentsType
<1>9. /\ prog.text + prog.data \in 0..MAX_PT_LEN
      /\ MAX_PT_LEN - prog.stack \in 0..MAX_PT_LEN
      /\ prog.text + prog.data <= MAX_PT_LEN - prog.stack
      /\ MAX_PT_LEN - prog.stack < MAX_PT_LEN
  BY ProgramFacts, MemoryAssumption
<1>10. /\ sp' \in [Proc -> 0..MAX_PT_LEN]
       /\ heap_start' \in [Proc -> 0..MAX_PT_LEN]
       /\ current_brk' \in [Proc -> 0..MAX_PT_LEN]
       /\ \A q \in Proc \ {p} : /\ sp'[q] = sp[q]
                                /\ heap_start'[q] = heap_start[q]
                                /\ current_brk'[q] = current_brk[q]
  BY <1>1, <1>9, TypeFacts
<1>11. Orderly(p)'
  <2>1. /\ sp'[p] = MAX_PT_LEN - prog.stack
        /\ heap_start'[p] = prog.text + prog.data
        /\ current_brk'[p] = prog.text + prog.data
    BY <1>1, TypeFacts
  <2> QED
    BY <1>9, <2>1 DEF Orderly
<1> QED
  BY <1>1, <1>6, <1>7, <1>8, <1>10, <1>11, OwnStep

\* A copy of a process, entry by entry: the frames kernel and copy are new to c,
\* the pages below the stack pointer shared with p.
SharedEntry(e, mark) == IF mark THEN CopyOnWrite(e) ELSE e

StackCopy(p, got, copy, s) ==
  [pt[p][s] EXCEPT !.frame = IF s \in got THEN copy[s] ELSE KernelFrame]

Copied(p, c, mark, kernel, got, copy) ==
  /\ pt' \in [Proc -> [Slot -> Entry]]
  /\ \A q \in Proc \ {p, c} : pt'[q] = pt[q]
  /\ \A s \in Slot :
       pt'[p][s] = IF s \in 0..sp[p]-1 THEN SharedEntry(pt[p][s], mark) ELSE pt[p][s]
  /\ \A s \in KernelStack : pt'[c][s] = createPTE(kernel[s], TRUE, FALSE)
  /\ \A s \in 0..sp[p]-1 : pt'[c][s] = SharedEntry(pt[p][s], mark)
  /\ \A s \in sp[p]..MAX_PT_LEN-1 :
       pt'[c][s] = IF pt[p][s].valid THEN StackCopy(p, got, copy, s) ELSE pt[p][s]

\* An entry marked copy-on-write keeps its frame and gives up its write permission.
LEMMA SharedType ==
  ASSUME NEW e \in Entry, NEW mark \in BOOLEAN
  PROVE  LET shared == SharedEntry(e, mark) IN
         /\ shared \in Entry
         /\ shared.valid = e.valid /\ shared.frame = e.frame
         /\ ~e.valid => shared = e
         /\ shared.write => e.write
         /\ mark => ~(shared.valid /\ shared.write)
         /\ shared.cow \/ shared.write => e.cow \/ e.write
         /\ e.cow \/ e.write => shared.cow \/ shared.write
         /\ shared.cow => e.cow \/ e.valid
         /\ ~mark => shared = e
BY DEF SharedEntry, CopyOnWrite, Entry

\* An entry redirected to a copied frame keeps its rights.
LEMMA StackCopyType ==
  ASSUME NEW e \in Entry, NEW f \in Frame
  PROVE  LET copied == [e EXCEPT !.frame = f] IN
         /\ copied \in Entry
         /\ copied.valid = e.valid /\ copied.frame = f
         /\ copied.write = e.write /\ copied.cow = e.cow
BY DEF Entry

\* The stack pointer splits region 1 into shared pages and copied ones.
LEMMA SplitAtSp ==
  ASSUME TypeOK, NEW p \in Proc
  PROVE  /\ sp[p] \in 0..MAX_PT_LEN
         /\ 0..sp[p]-1 \subseteq Page /\ sp[p]..MAX_PT_LEN-1 \subseteq Page
         /\ \A s \in Slot : \/ s \in KernelStack
                            \/ s \in 0..sp[p]-1
                            \/ s \in sp[p]..MAX_PT_LEN-1
         /\ \A s \in 0..sp[p]-1 : s \notin KernelStack /\ s \notin sp[p]..MAX_PT_LEN-1
         /\ \A s \in sp[p]..MAX_PT_LEN-1 : s \notin KernelStack /\ s \notin 0..sp[p]-1
<1>1. sp[p] \in 0..MAX_PT_LEN
  BY TypeFacts
<1> QED
  BY <1>1, MemoryAssumption DEF Slot, Page, KernelStack

StackPagesOf(p) == Valid(p, sp[p]..MAX_PT_LEN-1)

StackFrames(p) == Served(StackPagesOf(p), Cardinality(free) - KERNEL_STACK_PAGES)

\* The frame pool after the copy.
CopiedPool(p, kernel, copy) ==
  LET new    == Image(kernel) \cup Image(copy)
      shared == {p} \X Valid(p, 0..sp[p]-1)
  IN /\ frc' = [f \in Frame |-> IF f \in new THEN 1
                  ELSE Wrap(frc[f] + Cardinality(To(shared, f)))]
     /\ free' = free \ new
     /\ mem' = [f \in Frame |->
          IF f \in Image(copy)
            THEN mem[pt[p][CHOOSE s \in StackFrames(p) : copy[s] = f].frame]
          ELSE IF f = KernelFrame /\ StackFrames(p) # StackPagesOf(p)
            THEN mem[pt[p][CHOOSE s \in StackPagesOf(p) :
                             \A t \in StackPagesOf(p) : t <= s].frame]
          ELSE mem[f]]

\* The frames copyParentStack asks for, and the state createProcessDescriptor and
\* it leave.
LEMMA CopyFacts ==
  ASSUME Shape, NEW p \in live, NEW c \in Proc, NEW leader,
         NEW mark \in BOOLEAN, CopyProcess(p, c, leader, mark)
  PROVE  /\ StackFrames(p) \subseteq StackPagesOf(p)
         /\ StackFrames(p) = StackPagesOf(p) \/ "forkShort" \in Situations
         /\ \E kernel \in Placements(KernelStack, free) :
            \E copy \in Placements(StackFrames(p), free \ Image(kernel)) :
              /\ Copied(p, c, mark, kernel, StackFrames(p), copy)
              /\ CopiedPool(p, kernel, copy)
<1> DEFINE stack == StackPagesOf(p)
           got   == StackFrames(p)
           below == 0..sp[p]-1
           rest  == sp[p]..MAX_PT_LEN-1
<1>1. /\ c \in Proc \ live /\ c # p /\ p \in Proc /\ TypeOK
      /\ got = stack \/ "forkShort" \in Situations
  BY TypeFacts DEF CopyProcess, Shape, StackFrames, StackPagesOf
<1>2. got \subseteq stack /\ stack \subseteq rest
  BY DEF Served, StackFrames, StackPagesOf, Valid
<1>3. PICK kernel \in Placements(KernelStack, free) :
      \E copy \in Placements(got, free \ Image(kernel)) :
        /\ pt' = [pt EXCEPT
              ![p] = IF mark THEN Marked(@, below) ELSE @,
              ![c] = [s \in Slot |->
                CASE s \in KernelStack -> createPTE(kernel[s], TRUE, FALSE)
                  [] s \in stack -> StackCopy(p, got, copy, s)
                  [] s \in below -> SharedEntry(pt[p][s], mark)
                  [] OTHER -> pt[p][s]]]
        /\ CopiedPool(p, kernel, copy)
  BY DEF CopyProcess, CopiedPool, StackCopy, SharedEntry, StackFrames, StackPagesOf
<1>4. PICK copy \in Placements(got, free \ Image(kernel)) :
        /\ pt' = [pt EXCEPT
              ![p] = IF mark THEN Marked(@, below) ELSE @,
              ![c] = [s \in Slot |->
                CASE s \in KernelStack -> createPTE(kernel[s], TRUE, FALSE)
                  [] s \in stack -> StackCopy(p, got, copy, s)
                  [] s \in below -> SharedEntry(pt[p][s], mark)
                  [] OTHER -> pt[p][s]]]
        /\ CopiedPool(p, kernel, copy)
  BY <1>3
<1>5. free \in SUBSET Frame /\ KernelStack \in SUBSET Slot /\ got \in SUBSET Slot
  BY <1>1, <1>2, SlotFacts, SplitAtSp, TypeFacts
<1>6. kernel \in [KernelStack -> Frame] /\ copy \in [got -> Frame]
  <2>1. kernel \in [KernelStack -> free]
    BY <1>5, PlacementFacts
  <2> DEFINE F == free \ Image(kernel)
  <2>2. F \in SUBSET Frame /\ copy \in Placements(got, F)
    BY <1>5
  <2> HIDE DEF F, got
  <2>3. copy \in [got -> F]
    BY <1>5, <2>2, PlacementFacts
  <2> QED
    BY <1>5, <2>1, <2>2, <2>3
<1> HIDE DEF got, stack
<1> DEFINE parent == IF mark THEN Marked(pt[p], below) ELSE pt[p]
           child  == [s \in Slot |->
                CASE s \in KernelStack -> createPTE(kernel[s], TRUE, FALSE)
                  [] s \in stack -> StackCopy(p, got, copy, s)
                  [] s \in below -> SharedEntry(pt[p][s], mark)
                  [] OTHER -> pt[p][s]]
<1>7. pt' = [pt EXCEPT ![p] = parent, ![c] = child]
  BY <1>4
<1>8. /\ parent = [s \in Slot |-> IF s \in below THEN SharedEntry(pt[p][s], mark)
                                                 ELSE pt[p][s]]
      /\ pt[p] \in [Slot -> Entry]
  BY <1>1, TypeFacts DEF Marked, SharedEntry
<1>9. parent \in [Slot -> Entry]
  BY <1>8, SharedType
<1>10. \A s \in KernelStack : /\ child[s] = createPTE(kernel[s], TRUE, FALSE)
                              /\ child[s] \in Entry
  <2>1. \A s \in KernelStack : createPTE(kernel[s], TRUE, FALSE) \in Entry
    <3>1. \A f \in Frame : createPTE(f, TRUE, FALSE) \in Entry
      BY CreateType
    <3> QED
      BY <1>6, <3>1
  <2>2. \A s \in KernelStack : s \notin stack /\ s \notin below /\ s \in Slot
    BY <1>1, <1>2, <1>5, SplitAtSp
  <2>3. \A s \in KernelStack : child[s] = createPTE(kernel[s], TRUE, FALSE)
    BY <2>2
  <2> QED
    BY <2>1, <2>3
<1>11. \A s \in below : child[s] = SharedEntry(pt[p][s], mark) /\ child[s] \in Entry
  <2>1. \A s \in below : s \in Slot /\ s \notin KernelStack /\ s \notin stack
    BY <1>1, <1>2, SlotFacts, SplitAtSp
  <2> QED
    BY <1>8, <2>1, SharedType
<1>12. \A s \in rest :
         /\ child[s] = IF pt[p][s].valid THEN StackCopy(p, got, copy, s) ELSE pt[p][s]
         /\ child[s] \in Entry
  <2>1. \A s \in rest : /\ s \in Slot /\ s \notin KernelStack /\ s \notin below
                        /\ s \in stack <=> pt[p][s].valid
    BY <1>1, SlotFacts, SplitAtSp DEF stack, StackPagesOf, Valid
  <2>2. \A s \in stack : StackCopy(p, got, copy, s) \in Entry
    <3>1. ASSUME NEW s \in stack PROVE StackCopy(p, got, copy, s) \in Entry
      <4>1. pt[p][s] \in Entry
        BY <1>2, <1>8, <2>1
      <4>2. PICK f \in Frame : f = IF s \in got THEN copy[s] ELSE KernelFrame
        BY <1>6, MemoryAssumption
      <4> QED
        BY <4>1, <4>2, StackCopyType DEF StackCopy
    <3> QED
      BY <3>1
  <2> QED
    BY <1>8, <2>1, <2>2
<1>13. child \in [Slot -> Entry]
  BY <1>1, <1>10, <1>11, <1>12, SplitAtSp
<1> HIDE DEF parent, child
<1>14. /\ pt' \in [Proc -> [Slot -> Entry]] /\ pt'[p] = parent /\ pt'[c] = child
       /\ \A q \in Proc \ {p, c} : pt'[q] = pt[q]
  BY <1>1, <1>7, <1>9, <1>13, TypeFacts
<1>15. Copied(p, c, mark, kernel, got, copy)
  BY <1>8, <1>10, <1>11, <1>12, <1>14 DEF Copied
<1> QED
  BY <1>1, <1>2, <1>4, <1>15 DEF got, stack

\* The new frames of the copy are free ones, each used once.
LEMMA CopyFrames ==
  ASSUME Shape, NEW p \in live,
         NEW kernel \in Placements(KernelStack, free),
         NEW copy \in Placements(StackFrames(p), free \ Image(kernel))
  PROVE  /\ kernel \in [KernelStack -> free]
         /\ \A s, t \in KernelStack : kernel[s] = kernel[t] => s = t
         /\ Image(kernel) = {kernel[s] : s \in KernelStack}
         /\ copy \in [StackFrames(p) -> free \ Image(kernel)]
         /\ \A s, t \in StackFrames(p) : copy[s] = copy[t] => s = t
         /\ Image(copy) = {copy[s] : s \in StackFrames(p)}
         /\ StackFrames(p) \subseteq StackPagesOf(p)
         /\ StackPagesOf(p) \subseteq Page
<1> DEFINE F   == free \ Image(kernel)
           got == StackFrames(p)
<1>1. p \in Proc /\ TypeOK
  BY TypeFacts DEF Shape
<1>2. got \subseteq StackPagesOf(p) /\ StackPagesOf(p) \subseteq Page
  BY <1>1, SplitAtSp DEF StackPagesOf, StackFrames, Served, Valid
<1>3. /\ KernelStack \in SUBSET Slot /\ got \in SUBSET Slot
      /\ free \in SUBSET Frame /\ F \in SUBSET Frame
      /\ copy \in Placements(got, F)
  BY <1>1, <1>2, SlotFacts, TypeFacts
<1>4. /\ kernel \in [KernelStack -> free]
      /\ \A s, t \in KernelStack : kernel[s] = kernel[t] => s = t
      /\ Image(kernel) = {kernel[s] : s \in KernelStack}
  <2>1. kernel \in [KernelStack -> free]
    BY <1>3, PlacementFacts
  <2>2. \A s, t \in KernelStack : kernel[s] = kernel[t] => s = t
    <3>1. kernel \in Placements(KernelStack, free)
      OBVIOUS
    <3> QED
      BY <1>3, <3>1, MemoryAssumption DEF PlacementsAreInjections
  <2> QED
    BY <2>1, <2>2 DEF Image
<1> HIDE DEF F, got
<1>5. /\ copy \in [got -> F]
      /\ \A s, t \in got : copy[s] = copy[t] => s = t
      /\ Image(copy) = {copy[s] : s \in got}
  <2>1. copy \in [got -> F]
    BY <1>3, PlacementFacts
  <2>2. \A s, t \in got : copy[s] = copy[t] => s = t
    BY <1>3, PlacementFacts
  <2> QED
    BY <2>1, <2>2 DEF Image
<1> QED
  BY <1>2, <1>4, <1>5 DEF F, got

\* Fork and createThread leave parent and child with a layout in order.
LEMMA CopyShape ==
  ASSUME Shape, NEW p \in live, NEW c \in Proc, NEW leader \in Proc \cup {NoProc},
         NEW mark \in BOOLEAN, CopyProcess(p, c, leader, mark)
  PROVE  Shape'
<1>1. /\ c \in Proc \ live /\ p \in Proc /\ p # c /\ TypeOK /\ Orderly(p)
      /\ live' = live \cup {c}
      /\ thread_leader' = [thread_leader EXCEPT ![c] = leader]
      /\ sp' = [sp EXCEPT ![c] = sp[p]]
      /\ heap_start' = [heap_start EXCEPT ![c] = heap_start[p]]
      /\ current_brk' = [current_brk EXCEPT ![c] = current_brk[p]]
      /\ halted' = halted
  BY TypeFacts DEF CopyProcess, Shape
<1> DEFINE got == StackFrames(p)
<1>2. PICK kernel \in Placements(KernelStack, free) :
           \E copy \in Placements(got, free \ Image(kernel)) :
             /\ Copied(p, c, mark, kernel, got, copy)
             /\ CopiedPool(p, kernel, copy)
  BY CopyFacts
<1>3. PICK copy \in Placements(got, free \ Image(kernel)) :
             /\ Copied(p, c, mark, kernel, got, copy)
             /\ CopiedPool(p, kernel, copy)
  BY <1>2
<1>4. got \subseteq StackPagesOf(p) /\ StackPagesOf(p) \subseteq Page
  BY <1>1, CopyFacts, SplitAtSp DEF StackPagesOf, Valid
<1>5. frc' \in [Frame -> -CHAR_MAX-1..CHAR_MAX] /\ free' \subseteq Frame
  <2> DEFINE shared == {p} \X Valid(p, 0..sp[p]-1)
  <2>1. shared \in SUBSET (Proc \X Slot)
    BY <1>1, SplitAtSp, SlotFacts DEF Valid
  <2> HIDE DEF shared
  <2>2. ASSUME NEW f \in Frame
        PROVE  Wrap(frc[f] + Cardinality(To(shared, f))) \in -CHAR_MAX-1..CHAR_MAX
    <3>1. Cardinality(To(shared, f)) \in Nat
      BY <2>1, SlotsFinite, ToFinite
    <3>2. frc[f] \in Int
      BY <1>1, TypeFacts, MemoryAssumption
    <3> QED
      BY <3>1, <3>2, WrapRange
  <2>3. 1 \in -CHAR_MAX-1..CHAR_MAX
    BY MemoryAssumption
  <2> QED
    BY <1>1, <1>3, <2>2, <2>3, TypeFacts DEF CopiedPool, shared
<1>6. mem' \in [Frame -> Val]
  <2>1. \A s \in StackPagesOf(p) : pt[p][s].frame \in Frame
    BY <1>1, <1>4, SlotFacts, TypeFacts DEF Entry
  <2>2. ASSUME NEW f \in Image(copy)
        PROVE  mem[pt[p][CHOOSE s \in got : copy[s] = f].frame] \in Val
    <3>1. \E s \in got : copy[s] = f
      BY CopyFrames
    <3>2. (CHOOSE s \in got : copy[s] = f) \in got
      BY <3>1
    <3> QED
      BY <1>1, <1>4, <2>1, <3>2, TypeFacts
  <2>3. ASSUME got # StackPagesOf(p)
        PROVE  mem[pt[p][CHOOSE s \in StackPagesOf(p) :
                           \A t \in StackPagesOf(p) : t <= s].frame] \in Val
    <3>1. \E s \in StackPagesOf(p) : \A t \in StackPagesOf(p) : t <= s
      <4>1. StackPagesOf(p) # {}
        BY <1>4, <2>3
      <4> QED
        BY <1>4, <4>1, LastPage
    <3>2. (CHOOSE s \in StackPagesOf(p) : \A t \in StackPagesOf(p) : t <= s)
            \in StackPagesOf(p)
      BY <3>1
    <3> QED
      BY <1>1, <2>1, <3>2, TypeFacts
  <2> QED
    BY <1>1, <1>3, <2>2, <2>3, TypeFacts DEF CopiedPool
<1>7. /\ thread_leader' \in [Proc -> Proc \cup {NoProc}]
      /\ thread_leader'[InitProc] = NoProc
      /\ InitProc \in live' /\ live' \subseteq Proc
  BY <1>1, TypeFacts DEF Shape, TypeOK
<1>8. /\ sp' \in [Proc -> 0..MAX_PT_LEN]
      /\ heap_start' \in [Proc -> 0..MAX_PT_LEN]
      /\ current_brk' \in [Proc -> 0..MAX_PT_LEN]
  BY <1>1, TypeFacts
<1>9. \A q \in Proc \ live' : pt'[q] = NoTable
  BY <1>1, <1>3 DEF Copied, TypeOK
<1>10. TypeOK'
  BY <1>1, <1>3, <1>5, <1>6, <1>7, <1>8, <1>9 DEF TypeOK, Copied
<1>11. \A s \in 0..sp[p]-1 : /\ pt'[c][s].valid = pt[p][s].valid
                             /\ pt'[p][s].valid = pt[p][s].valid
  <2>1. \A s \in 0..sp[p]-1 : s \in Slot /\ pt[p][s] \in Entry
    BY <1>1, SplitAtSp, SlotFacts, TypeFacts
  <2> QED
    BY <1>3, <2>1, SharedType DEF Copied
<1>12. \A s \in heap_start[p]..current_brk[p]-1 : s \in 0..sp[p]-1 /\ pt[p][s].valid
  <2>1. \A s \in heap_start[p]..current_brk[p]-1 :
          s \in Page /\ s < sp[p] /\ pt[p][s].valid
    BY <1>1, HeapPages
  <2> QED
    BY <1>1, <2>1, SplitAtSp, MemoryAssumption DEF Page
<1>13. ASSUME NEW q \in live' PROVE Orderly(q)'
  <2>1. CASE q \in {p, c}
    <3>1. /\ sp'[q] = sp[p] /\ heap_start'[q] = heap_start[p]
          /\ current_brk'[q] = current_brk[p]
      BY <1>1, <2>1, TypeFacts
    <3> QED
      BY <1>1, <1>11, <1>12, <2>1, <3>1 DEF Orderly
  <2>2. CASE q \notin {p, c}
    <3>1. q \in live /\ q \in Proc /\ pt'[q] = pt[q]
      BY <1>1, <1>3, <2>2, TypeFacts DEF Copied
    <3>2. /\ sp'[q] = sp[q] /\ heap_start'[q] = heap_start[q]
          /\ current_brk'[q] = current_brk[q]
      BY <1>1, <2>2, <3>1, TypeFacts
    <3> QED
      BY <3>1, <3>2 DEF Shape, Orderly
  <2> QED
    BY <2>1, <2>2
<1> QED
  BY <1>7, <1>10, <1>13 DEF Shape

\* A Fork that finds no kernel stack changes no table.
LEMMA FailShape ==
  ASSUME Shape, NEW p \in Proc, createProcessDescriptorFails(p)
  PROVE  Shape'
<1>1. p \in live /\ p \in Proc /\ TypeOK /\ Orderly(p) /\ halted \in BOOLEAN
  BY TypeFacts DEF createProcessDescriptorFails, Runs, Shape, TypeOK
<1>2. frc' \in [Frame -> -CHAR_MAX-1..CHAR_MAX]
  <2>1. frc[KernelFrame] - 1 \in Int
    BY <1>1, TypeFacts, MemoryAssumption
  <2> QED
    BY <1>1, <2>1, WrapRange, TypeFacts DEF createProcessDescriptorFails
<1>3. free' \subseteq Frame /\ UNCHANGED <<live, thread_leader, pt, layout, mem, halted>>
  BY <1>1, TypeFacts, MemoryAssumption DEF createProcessDescriptorFails
<1>4. pt' = [pt EXCEPT ![p] = pt[p]] /\ pt[p] \in [Slot -> Entry]
  BY <1>1, <1>3, TypeFacts
<1>5. Orderly(p)'
  BY <1>1, <1>3 DEF Orderly, layout
<1> QED
  BY <1>1, <1>2, <1>3, <1>4, <1>5, OwnStep, TypeFacts DEF layout

\* Exit leaves nothing of the processes it removes.
LEMMA KillShape ==
  ASSUME Shape, NEW p \in Proc, killProcess(p)
  PROVE  Shape'
<1> DEFINE dead == {p} \cup Threads(p)
           refs == {r \in dead \X Slot :
                      pt[r[1]][r[2]].valid /\ (r[2] \in Page \/ r[1] = p)}
<1>1. /\ p \in live /\ TypeOK /\ p # InitProc
      /\ freePageFrames(refs)
      /\ live' = live \ dead /\ halted' = halted
      /\ thread_leader' = [q \in Proc |-> IF q \in dead THEN NoProc ELSE thread_leader[q]]
      /\ pt' = [q \in Proc |-> IF q \in dead THEN NoTable ELSE pt[q]]
      /\ sp' = [q \in Proc |-> IF q \in dead THEN 0 ELSE sp[q]]
      /\ heap_start' = [q \in Proc |-> IF q \in dead THEN 0 ELSE heap_start[q]]
      /\ current_brk' = [q \in Proc |-> IF q \in dead THEN 0 ELSE current_brk[q]]
  BY DEF killProcess, Runs, Shape
<1>2. dead \subseteq live /\ dead \subseteq Proc /\ InitProc \notin dead
  <2>1. thread_leader[InitProc] # p
    BY MemoryAssumption DEF Shape
  <2> QED
    BY <1>1, <2>1, TypeFacts DEF Threads
<1>3. refs \in SUBSET (Proc \X Slot)
  BY <1>2
<1> HIDE DEF dead, refs
<1>4. /\ frc' \in [Frame -> -CHAR_MAX-1..CHAR_MAX] /\ free' \subseteq Frame
      /\ mem' \in [Frame -> Val]
  BY <1>1, <1>3, DroppedType, ContentsType, TypeFacts DEF freePageFrames
<1>5. /\ pt' \in [Proc -> [Slot -> Entry]]
      /\ \A q \in Proc \ live' : pt'[q] = NoTable
  <2>1. pt' \in [Proc -> [Slot -> Entry]]
    BY <1>1, NoTableType, TypeFacts
  <2>2. \A q \in Proc \ live' : q \in dead \/ pt[q] = NoTable
    BY <1>1 DEF TypeOK
  <2> QED
    BY <1>1, <2>1, <2>2
<1>6. /\ sp' \in [Proc -> 0..MAX_PT_LEN]
      /\ heap_start' \in [Proc -> 0..MAX_PT_LEN]
      /\ current_brk' \in [Proc -> 0..MAX_PT_LEN]
  BY <1>1, TypeFacts, MemoryAssumption
<1>7. /\ thread_leader' \in [Proc -> Proc \cup {NoProc}]
      /\ thread_leader'[InitProc] = NoProc
      /\ InitProc \in live' /\ live' \subseteq Proc
  BY <1>1, <1>2, TypeFacts, MemoryAssumption DEF Shape, TypeOK
<1>8. TypeOK'
  BY <1>1, <1>4, <1>5, <1>6, <1>7 DEF TypeOK
<1>9. ASSUME NEW q \in live' PROVE Orderly(q)'
  <2>1. /\ q \in live /\ q \in Proc /\ pt'[q] = pt[q]
        /\ sp'[q] = sp[q] /\ heap_start'[q] = heap_start[q]
        /\ current_brk'[q] = current_brk[q]
    BY <1>1, TypeFacts
  <2> QED
    BY <2>1 DEF Shape, Orderly
<1> QED
  BY <1>7, <1>8, <1>9 DEF Shape

\* Every step keeps the layout of every process in order.
LEMMA ShapeStep ==
  ASSUME Shape, [Next]_vars
  PROVE  Shape'
<1>1. CASE UNCHANGED vars
  BY <1>1 DEF vars, layout, frames, Shape, TypeOK, Orderly
<1>2. CASE Next
  <2> SUFFICES ASSUME NEW p \in Proc,
                      \/ \E i \in Page, v \in Val : Store(p, i, v)
                      \/ \E i \in Page : MoveSp(p, i)
                      \/ \E i \in Page : handleMemoryTrap(p, i)
                      \/ \E b \in Page : setProcessBrk(p, b)
                      \/ \E prog \in Program : loadProgram(p, prog)
                      \/ \E c \in Proc : forkProcess(p, c)
                      \/ \E c \in Proc : createThread(p, c)
                      \/ createProcessDescriptorFails(p)
                      \/ killProcess(p)
               PROVE  Shape'
    BY <1>2 DEF Next
  <2>1. CASE \E i \in Page, v \in Val : Store(p, i, v)
    BY <2>1, StoreShape
  <2>2. CASE \E i \in Page : MoveSp(p, i)
    BY <2>2, MoveSpShape
  <2>3. CASE \E i \in Page : handleMemoryTrap(p, i)
    BY <2>3, TrapShape
  <2>4. CASE \E b \in Page : setProcessBrk(p, b)
    BY <2>4, BrkShape
  <2>5. CASE \E prog \in Program : loadProgram(p, prog)
    BY <2>5, LoadShape
  <2>6. CASE \E c \in Proc : forkProcess(p, c)
    BY <2>6, CopyShape DEF forkProcess, Runs
  <2>7. CASE \E c \in Proc : createThread(p, c)
    BY <2>7, CopyShape DEF createThread, Runs
  <2>8. CASE createProcessDescriptorFails(p)
    BY <2>8, FailShape
  <2>9. CASE killProcess(p)
    BY <2>9, KillShape
  <2> QED
    BY <2>1, <2>2, <2>3, <2>4, <2>5, <2>6, <2>7, <2>8, <2>9
<1> QED
  BY <1>1, <1>2

\* In every situation the state of memory has its types, and dead processes have
\* no table, no stack and no heap.
THEOREM TypeCorrect == Spec => []TypeOK
<1>1. Shape => TypeOK
  BY DEF Shape
<1> QED
  BY InitShape, ShapeStep, <1>1, PTL DEF Spec

\* In every situation, running out of frames included, the heap that Brk has
\* granted is backed by frames: decreaseBrk never frees what was never mapped.
THEOREM HeapMappedHolds == Spec => []HeapMapped
<1>1. Shape => HeapMapped
  BY DEF Shape, Orderly, HeapMapped
<1> QED
  BY InitShape, ShapeStep, <1>1, PTL DEF Spec

------------------------------------------------------------------------------
\* Reference counts.

\* Frame 0 is left out: it stands for the null pointer too.
PageFrames == Frame \ {KernelFrame}

\* An entry that is not in use is empty, and what may neither be written nor
\* copied on a write is text: the stack never grows over an entry in use.
SaneTable(table, heap) ==
  \A s \in Slot :
    /\ ~table[s].valid => table[s] = NoEntry
    /\ table[s].valid /\ ~table[s].write /\ ~table[s].cow => s \in Page /\ s < heap

SaneTables == \A p \in Proc : SaneTable(pt[p], heap_start[p])

\* Whoever uses a frame uses it in the same slot, and nobody shares the frames
\* of a kernel stack.
OneSlot(uses) ==
  \A r, t \in uses : r[2] = t[2] /\ (r[2] \in KernelStack => r = t)

\* What is known of one frame.  Its count is right while it has users.  Without
\* users it is back on the list, unless it was the kernel stack of a thread that
\* was killed with its leader or Brk overwrote the entry that referred to it.
\* Nothing is said of counts once Halt was called.
Accounted(f) ==
  /\ OneSlot(Uses(f))
  /\ f \in free => Uses(f) = {}
  /\ ~halted /\ Uses(f) # {} => frc[f] = Cardinality(Uses(f))
  /\ ~halted /\ Situations \cap {"killThreads", "overMapped"} = {} /\ Uses(f) = {}
       => f \in free /\ frc[f] = 0

Counts ==
  /\ Shape
  /\ SaneTables
  /\ \A f \in PageFrames : Accounted(f)

\* The uses of a frame are finitely many, and no more than there are processes.
LEMMA UsesFinite ==
  ASSUME NEW f
  PROVE  /\ Uses(f) \in SUBSET (Proc \X Slot)
         /\ IsFiniteSet(Uses(f)) /\ Cardinality(Uses(f)) \in Nat
         /\ Cardinality(Uses(f)) = 0 <=> Uses(f) = {}
<1>1. Uses(f) \in SUBSET (Proc \X Slot)
  BY DEF Uses
<1> QED
  BY <1>1, SlotsFinite, FS_CardinalityType, FS_EmptySet

\* When each process uses a frame in one slot only, it has no more uses than there
\* are processes.
LEMMA OneSlotBound ==
  ASSUME NEW uses \in SUBSET (Proc \X Slot), OneSlot(uses)
  PROVE  /\ IsFiniteSet(uses) /\ Cardinality(uses) \in Nat
         /\ Cardinality(uses) <= Cardinality(Proc)
<1> DEFINE process == [r \in uses |-> r[1]]
<1>1. process \in Injection(uses, Proc)
  <2>1. process \in [uses -> Proc]
    OBVIOUS
  <2>2. ASSUME NEW r \in uses, NEW t \in uses, process[r] = process[t]
        PROVE  r = t
    <3>1. r[1] = t[1] /\ r[2] = t[2]
      BY <2>2 DEF OneSlot
    <3>2. r = <<r[1], r[2]>> /\ t = <<t[1], t[2]>>
      OBVIOUS
    <3> QED
      BY <3>1, <3>2
  <2> QED
    BY <2>1, <2>2 DEF Injection, IsInjective
<1>2. IsFiniteSet(Proc)
  BY MemoryAssumption
<1>3. IsFiniteSet(uses) /\ Cardinality(uses) <= Cardinality(Proc)
  BY <1>1, <1>2, FS_Injection
<1> QED
  BY <1>3, FS_CardinalityType

\* Only entries in use refer to a page frame.
LEMMA ToUses ==
  ASSUME SaneTables, NEW f \in PageFrames, NEW refs \in SUBSET (Proc \X Slot)
  PROVE  /\ To(refs, f) = refs \cap Uses(f)
         /\ Uses(f) \ To(refs, f) = Uses(f) \ refs
<1>1. ASSUME NEW r \in refs, pt[r[1]][r[2]].frame = f
      PROVE  pt[r[1]][r[2]].valid
  <2>1. r[1] \in Proc /\ r[2] \in Slot /\ f # KernelFrame
    BY DEF PageFrames
  <2>2. NoEntry.frame = KernelFrame
    BY DEF NoEntry
  <2> QED
    BY <1>1, <2>1, <2>2 DEF SaneTables, SaneTable
<1> QED
  BY <1>1 DEF To, Uses

\* The calls freePageFrame(frame of r) take f off the list of its users one by
\* one, and free it with the last of them.
LEMMA DropCount ==
  ASSUME Counts, ~halted, Cardinality(Proc) <= CHAR_MAX,
         NEW f \in PageFrames, NEW refs \in SUBSET (Proc \X Slot)
  PROVE  LET left == Uses(f) \ refs IN
         /\ left # {} => Dropped(refs)[f] = Cardinality(left)
         /\ f \in Frees(refs) <=> Uses(f) # {} /\ left = {}
         /\ f \in Frees(refs) => Dropped(refs)[f] = 0
         /\ Uses(f) = {} => Dropped(refs)[f] = frc[f]
<1> DEFINE left == Uses(f) \ refs
           m == Cardinality(To(refs, f))
           n == Cardinality(Uses(f))
<1>1. /\ f \in Frame /\ Accounted(f) /\ TypeOK /\ SaneTables
      /\ frc[f] \in -CHAR_MAX-1..CHAR_MAX
  BY TypeFacts DEF Counts, Shape, PageFrames
<1>2. /\ To(refs, f) = refs \cap Uses(f)
      /\ left = Uses(f) \ To(refs, f)
  BY <1>1, ToUses
<1>3. n \in Nat /\ n <= CHAR_MAX /\ IsFiniteSet(Uses(f))
  <2>1. Uses(f) \in SUBSET (Proc \X Slot) /\ OneSlot(Uses(f))
    BY <1>1, UsesFinite DEF Accounted
  <2>2. n \in Nat /\ n <= Cardinality(Proc) /\ IsFiniteSet(Uses(f))
    BY <2>1, OneSlotBound
  <2>3. Cardinality(Proc) \in Nat
    BY MemoryAssumption, FS_CardinalityType
  <2> QED
    BY <2>2, <2>3, MemoryAssumption
<1>4. m \in Nat /\ m <= n /\ (m = n => To(refs, f) = Uses(f))
  BY <1>2, <1>3, FS_Subset, FS_CardinalityType
<1>5. Cardinality(left) = n - m /\ (left = {} <=> n = m)
  <2>1. Uses(f) \cap To(refs, f) = To(refs, f)
    BY <1>2
  <2>2. Cardinality(left) = n - m /\ IsFiniteSet(left)
    <3>1. /\ IsFiniteSet(Uses(f) \ To(refs, f))
          /\ Cardinality(Uses(f) \ To(refs, f))
               = Cardinality(Uses(f)) - Cardinality(Uses(f) \cap To(refs, f))
      BY <1>3, FS_Difference
    <3> QED
      BY <1>2, <2>1, <3>1
  <2>3. left = {} <=> Cardinality(left) = 0
    BY <2>2, FS_EmptySet
  <2> QED
    BY <1>3, <1>4, <2>2, <2>3
<1>6. Uses(f) = {} <=> n = 0
  BY UsesFinite
<1>7. Dropped(refs)[f] = Wrap(frc[f] - m)
  BY <1>1 DEF Dropped
<1>8. f \in Frees(refs) <=> \E k \in 1..m : Wrap(frc[f] - k) <= 0
  BY <1>1 DEF Frees
<1> HIDE DEF m, n, left
<1>9. CASE n = 0
  <2>1. m = 0 /\ frc[f] - m = frc[f]
    BY <1>1, <1>4, <1>9
  <2>2. f \notin Frees(refs)
    BY <1>8, <2>1
  <2>3. Dropped(refs)[f] = frc[f]
    BY <1>1, <1>7, <2>1, WrapSmall
  <2>4. left = {}
    BY <1>5, <1>9, <2>1
  <2> QED
    BY <1>6, <1>9, <2>2, <2>3, <2>4 DEF left
<1>10. CASE n # 0
  <2>1. frc[f] = n
    BY <1>1, <1>6, <1>10 DEF Accounted, n
  <2>2. \A k \in 0..m : Wrap(n - k) = n - k
    <3>1. \A k \in 0..m : n - k \in -CHAR_MAX-1..CHAR_MAX
      BY <1>3, <1>4, MemoryAssumption
    <3> QED
      BY <3>1, WrapSmall
  <2>3. Dropped(refs)[f] = n - m
    BY <1>4, <1>7, <2>1, <2>2
  <2>4. f \in Frees(refs) <=> n = m
    <3>1. \A k \in 1..m : Wrap(n - k) <= 0 <=> n <= k
      BY <1>3, <1>4, <2>2
    <3> QED
      BY <1>3, <1>4, <1>8, <1>10, <2>1, <3>1
  <2> QED
    BY <1>3, <1>4, <1>5, <1>6, <1>10, <2>3, <2>4 DEF left
<1> QED
  BY <1>9, <1>10

\* The three ways a step leaves a frame accounted for: untouched, with one new
\* user, or with fewer users than before.
LEMMA SameAccount ==
  ASSUME NEW f, Accounted(f), Uses(f)' = Uses(f), frc'[f] = frc[f],
         f \in free' => f \in free, f \in free => f \in free', halted' = halted
  PROVE  Accounted(f)'
BY DEF Accounted

\* A frame just allocated and entered into one slot is accounted for.
LEMMA FreshAccount ==
  ASSUME NEW f, NEW r, Uses(f)' = {r}, frc'[f] = 1, f \notin free'
  PROVE  Accounted(f)'
<1>1. Cardinality({r}) = 1 /\ {r} # {}
  BY FS_Singleton
<1>2. OneSlot({r})
  BY DEF OneSlot
<1> QED
  BY <1>1, <1>2 DEF Accounted

\* Giving up uses leaves each process with at most one.
LEMMA OneSlotSubset ==
  ASSUME NEW uses, OneSlot(uses), NEW fewer \in SUBSET uses
  PROVE  OneSlot(fewer)
BY DEF OneSlot

\* freePageFrame keeps the account of a frame whose uses it drops: the count falls by
\* as many, and the frame is on the list when none is left.
LEMMA DropAccount ==
  ASSUME Counts, ~halted, halted' = halted, Cardinality(Proc) <= CHAR_MAX,
         NEW f \in PageFrames, NEW refs \in SUBSET (Proc \X Slot),
         Uses(f)' = Uses(f) \ refs,
         frc'[f] = Dropped(refs)[f], f \in free' <=> f \in free \cup Frees(refs)
  PROVE  Accounted(f)'
<1>1. Accounted(f) /\ f \in Frame
  BY DEF Counts, PageFrames
<1>2. LET left == Uses(f) \ refs IN
      /\ left # {} => Dropped(refs)[f] = Cardinality(left)
      /\ f \in Frees(refs) <=> Uses(f) # {} /\ left = {}
      /\ f \in Frees(refs) => Dropped(refs)[f] = 0
      /\ Uses(f) = {} => Dropped(refs)[f] = frc[f]
  BY DropCount
<1>3. OneSlot(Uses(f)')
  BY <1>1, OneSlotSubset DEF Accounted
<1> QED
  BY <1>1, <1>2, <1>3 DEF Accounted

\* A step that changes one table to a sane one.
LEMMA OwnSane ==
  ASSUME Counts, NEW p \in Proc, NEW table \in [Slot -> Entry],
         pt' = [pt EXCEPT ![p] = table],
         \A q \in Proc \ {p} : heap_start'[q] = heap_start[q],
         SaneTable(table, heap_start'[p])
  PROVE  /\ SaneTables'
         /\ pt'[p] = table /\ \A q \in Proc \ {p} : pt'[q] = pt[q]
<1>1. pt'[p] = table /\ \A q \in Proc \ {p} : pt'[q] = pt[q]
  BY TypeFacts DEF Counts, Shape
<1> QED
  BY <1>1 DEF SaneTables, SaneTable, Counts

\* p gets the free frame f for its page i, which it did not use or whose frame
\* it gives up.
LEMMA EntryUses ==
  ASSUME TypeOK, NEW p \in Proc, NEW i \in Slot, NEW e \in Entry, e.valid,
         pt' = [pt EXCEPT ![p][i] = e], NEW f
  PROVE  Uses(f)' = IF f = e.frame THEN Uses(f) \cup {<<p, i>>}
                                   ELSE Uses(f) \ {<<p, i>>}
<1>1. pt \in [Proc -> [Slot -> Entry]]
  BY TypeFacts
<1>2. \A q \in Proc, s \in Slot :
        pt'[q][s] = IF q = p /\ s = i THEN e ELSE pt[q][s]
  BY <1>1
<1> QED
  BY <1>2 DEF Uses

\* Entering a writable frame keeps every table sane.
LEMMA EntrySane ==
  ASSUME Counts, NEW p \in Proc, NEW i \in Slot, NEW e \in Entry, e.valid, e.write,
         pt' = [pt EXCEPT ![p][i] = e], heap_start' = heap_start
  PROVE  SaneTables'
<1>1. \A q \in Proc, s \in Slot :
        pt'[q][s] = IF q = p /\ s = i THEN e ELSE pt[q][s]
  BY TypeFacts DEF Counts, Shape
<1> QED
  BY <1>1 DEF SaneTables, SaneTable, Counts

\* A memory trap keeps the accounts: a copy moves one use from the shared frame to
\* a fresh one.
LEMMA TrapCounts ==
  ASSUME Counts, NEW p \in Proc, NEW i \in Page, handleMemoryTrap(p, i)
  PROVE  SaneTables' /\ \A f \in PageFrames : Accounted(f)'
<1> DEFINE old == pt[p][i].frame
<1>1. /\ Shape /\ TypeOK /\ p \in live /\ i \in Slot /\ Orderly(p)
      /\ old \in Frame /\ KernelFrame \notin free /\ ~halted
      /\ ~(pt[p][i].valid /\ pt[p][i].write)
      /\ SaneTable(pt[p], heap_start[p])
  <2>1. i \in Slot
    BY SlotFacts
  <2> QED
    BY <2>1, TypeFacts
       DEF handleMemoryTrap, Runs, Counts, Shape, Entry, SaneTables
<1>2. pt[p][i].cow => pt[p][i].valid
  BY <1>1 DEF SaneTable, NoEntry
<1>3. ASSUME NEW place \in Placements({i}, free)
      PROVE  /\ place[i] \in free /\ place[i] \in PageFrames
             /\ Uses(place[i]) = {}
             /\ createPTE(place[i], TRUE, FALSE) \in Entry
             /\ createPTE(place[i], TRUE, FALSE).valid
             /\ createPTE(place[i], TRUE, FALSE).write
             /\ createPTE(place[i], TRUE, FALSE).frame = place[i]
  <2>1. free \in SUBSET Frame /\ {i} \in SUBSET Slot
    BY <1>1, TypeFacts
  <2>2. place \in [{i} -> free]
    BY <2>1, PlacementFacts
  <2>3. place[i] \in Frame /\ place[i] \in free /\ place[i] \in PageFrames
    BY <1>1, <2>1, <2>2 DEF PageFrames
  <2>4. Uses(place[i]) = {}
    BY <2>3 DEF Counts, Accounted
  <2> QED
    BY <2>3, <2>4, CreateType
<1>4. ASSUME Halt, NEW f \in PageFrames PROVE Accounted(f)'
  <2>1. Uses(f)' = Uses(f)
    BY <1>4 DEF Halt, Uses
  <2> QED
    BY <1>4, <2>1 DEF Halt, Accounted, Counts
<1>5. CASE CopyShared(p, i)
  <2> DEFINE less == [frc EXCEPT ![old] = @ - 1]
  <2>1. pt[p][i].cow /\ pt[p][i].valid /\ frc[old] > 1
    BY <1>2, <1>5 DEF CopyShared
  <2>2. CASE free = {} /\ frc' = less /\ Halt
    <3>1. SaneTables'
      BY <2>2 DEF Halt, SaneTables, SaneTable, Counts, layout
    <3> QED
      BY <1>4, <2>2, <3>1
  <2>3. ASSUME NEW place \in Placements({i}, free),
               pt' = [pt EXCEPT ![p][i] = createPTE(place[i], TRUE, FALSE)],
               frc' = Claimed(less, {place[i]}),
               free' = free \ {place[i]},
               UNCHANGED <<live, thread_leader, layout, halted>>
        PROVE  SaneTables' /\ \A f \in PageFrames : Accounted(f)'
    <3> DEFINE fresh == place[i]
               e == createPTE(fresh, TRUE, FALSE)
    <3>1. /\ fresh \in free /\ fresh \in PageFrames /\ Uses(fresh) = {}
          /\ e \in Entry /\ e.valid /\ e.write /\ e.frame = fresh
          /\ pt' = [pt EXCEPT ![p][i] = e]
      BY <1>3, <2>3
    <3> HIDE DEF e, fresh
    <3>2. SaneTables'
      BY <1>1, <2>3, <3>1, EntrySane DEF layout
    <3>3. \A f : Uses(f)' = IF f = fresh THEN Uses(f) \cup {<<p, i>>}
                                         ELSE Uses(f) \ {<<p, i>>}
      BY <1>1, <3>1, EntryUses
    <3>4. old # fresh /\ <<p, i>> \in Uses(old) /\ \A f : f # old => <<p, i>> \notin Uses(f)
      BY <1>1, <2>1, <3>1 DEF Uses
    <3>5. ASSUME NEW f \in PageFrames PROVE Accounted(f)'
      <4>1. frc'[f] = IF f = fresh THEN 1 ELSE IF f = old THEN frc[f] - 1 ELSE frc[f]
        BY <1>1, <2>3, TypeFacts DEF Claimed, PageFrames, fresh
      <4>2. Accounted(f)
        BY DEF Counts
      <4>3. CASE f = fresh
        <5>1. Uses(f)' = {<<p, i>>} /\ frc'[f] = 1 /\ f \notin free'
          BY <2>3, <3>1, <3>3, <4>1, <4>3 DEF fresh
        <5> QED
          BY <5>1, FreshAccount
      <4>4. CASE f = old
        <5>1. Uses(f)' = Uses(f) \ {<<p, i>>} /\ frc'[f] = frc[f] - 1
          BY <3>3, <3>4, <4>1, <4>4
        <5>2. frc[f] = Cardinality(Uses(f)) /\ f \notin free /\ f \notin free'
          BY <1>1, <2>3, <3>4, <4>2, <4>4 DEF Accounted
        <5>3. Cardinality(Uses(f) \ {<<p, i>>}) = Cardinality(Uses(f)) - 1
          BY <3>4, <4>4, UsesFinite, FS_RemoveElement
        <5>4. OneSlot(Uses(f)')
          BY <4>2, <5>1, OneSlotSubset DEF Accounted
        <5>5. Uses(f)' # {}
          <6>1. Cardinality(Uses(f) \ {<<p, i>>}) # 0
            BY <2>1, <4>4, <5>2, <5>3, UsesFinite
          <6> QED
            BY <5>1, <6>1, FS_EmptySet
        <5> QED
          BY <5>1, <5>2, <5>3, <5>4, <5>5 DEF Accounted
      <4>5. CASE f # fresh /\ f # old
        <5>1. Uses(f)' = Uses(f) /\ frc'[f] = frc[f]
          BY <3>3, <3>4, <4>1, <4>5
        <5> QED
          BY <2>3, <4>2, <4>5, <5>1, SameAccount DEF fresh
      <4> QED
        BY <4>3, <4>4, <4>5
    <3> QED
      BY <3>2, <3>5
  <2> QED
    BY <1>5, <2>2, <2>3 DEF CopyShared
<1>6. CASE UnsetCopyOnWrite(p, i)
  <2> DEFINE e == createPTE(old, TRUE, FALSE)
  <2>1. e \in Entry /\ e.valid /\ e.write /\ e.frame = old
    BY <1>1, CreateType
  <2>2. /\ pt' = [pt EXCEPT ![p][i] = e] /\ pt[p][i].valid
        /\ UNCHANGED <<layout, frc, free, halted>>
    BY <1>1, <1>2, <1>6, TypeFacts DEF UnsetCopyOnWrite, frames
  <2> HIDE DEF e
  <2>3. SaneTables'
    BY <1>1, <2>1, <2>2, EntrySane DEF layout
  <2>4. \A f : Uses(f)' = Uses(f)
    <3>1. \A f : Uses(f)' = IF f = old THEN Uses(f) \cup {<<p, i>>}
                                       ELSE Uses(f) \ {<<p, i>>}
      <4>1. \A f : Uses(f)' = IF f = e.frame THEN Uses(f) \cup {<<p, i>>}
                                             ELSE Uses(f) \ {<<p, i>>}
        <5>1. p \in Proc /\ i \in Slot /\ TypeOK /\ e \in Entry /\ e.valid
          BY <1>1, <2>1
        <5>2. pt' = [pt EXCEPT ![p][i] = e]
          BY <2>2
        <5> QED
          BY <5>1, <5>2, EntryUses
      <4> QED
        BY <2>1, <4>1
    <3>2. <<p, i>> \in Uses(old) /\ \A f : f # old => <<p, i>> \notin Uses(f)
      BY <1>1, <2>2 DEF Uses
    <3> QED
      BY <3>1, <3>2
  <2>5. ASSUME NEW f \in PageFrames PROVE Accounted(f)'
    BY <2>2, <2>4, SameAccount DEF Counts
  <2> QED
    BY <2>3, <2>5
<1>7. CASE GrowStack(p, i)
  <2>1. CASE free = {} /\ frc' = frc /\ Halt
    <3>1. SaneTables'
      BY <2>1 DEF Halt, SaneTables, SaneTable, Counts, layout
    <3> QED
      BY <1>4, <2>1, <3>1
  <2>2. ~pt[p][i].valid
    <3>1. ~pt[p][i].cow /\ i >= sp[p]
      BY <1>7 DEF GrowStack
    <3>2. ~(i < heap_start[p])
      <4>1. sp[p] \in Int /\ heap_start[p] \in Int /\ current_brk[p] \in Int /\ i \in Int
        BY <1>1, TypeFacts, SlotFacts
      <4> QED
        BY <1>1, <3>1, <4>1 DEF Orderly
    <3> QED
      BY <1>1, <3>1, <3>2 DEF SaneTable
  <2>3. ASSUME NEW place \in Placements({i}, free),
               pt' = [pt EXCEPT ![p][i] = createPTE(place[i], TRUE, FALSE)],
               frc' = Claimed(frc, {place[i]}),
               free' = free \ {place[i]},
               UNCHANGED <<live, thread_leader, layout, mem, halted>>
        PROVE  SaneTables' /\ \A f \in PageFrames : Accounted(f)'
    <3> DEFINE fresh == place[i]
               e == createPTE(fresh, TRUE, FALSE)
    <3>1. /\ fresh \in free /\ fresh \in PageFrames /\ Uses(fresh) = {}
          /\ e \in Entry /\ e.valid /\ e.write /\ e.frame = fresh
          /\ pt' = [pt EXCEPT ![p][i] = e]
      BY <1>3, <2>3
    <3> HIDE DEF e, fresh
    <3>2. SaneTables'
      BY <1>1, <2>3, <3>1, EntrySane DEF layout
    <3>3. \A f : Uses(f)' = IF f = fresh THEN Uses(f) \cup {<<p, i>>}
                                         ELSE Uses(f) \ {<<p, i>>}
      BY <1>1, <3>1, EntryUses
    <3>4. \A f : <<p, i>> \notin Uses(f)
      BY <2>2 DEF Uses
    <3>5. ASSUME NEW f \in PageFrames PROVE Accounted(f)'
      <4>1. frc'[f] = IF f = fresh THEN 1 ELSE frc[f]
        BY <1>1, <2>3, TypeFacts DEF Claimed, PageFrames, fresh
      <4>2. CASE f = fresh
        <5>1. Uses(f)' = {<<p, i>>} /\ frc'[f] = 1 /\ f \notin free'
          BY <2>3, <3>1, <3>3, <4>1, <4>2 DEF fresh
        <5> QED
          BY <5>1, FreshAccount
      <4>3. CASE f # fresh
        <5>1. Uses(f)' = Uses(f) /\ frc'[f] = frc[f] /\ Accounted(f)
          BY <3>3, <3>4, <4>1, <4>3 DEF Counts
        <5> QED
          BY <2>3, <4>3, <5>1, SameAccount DEF fresh
      <4> QED
        BY <4>2, <4>3
    <3> QED
      BY <3>2, <3>5
  <2> QED
    BY <1>7, <2>1, <2>3 DEF GrowStack
<1> QED
  BY <1>5, <1>6, <1>7 DEF handleMemoryTrap

\* What it is for a process to use a frame in a slot, before and after a step.
LEMMA UsesMember ==
  ASSUME NEW f
  PROVE  /\ Uses(f) \in SUBSET (Proc \X Slot)
         /\ Uses(f)' \in SUBSET (Proc \X Slot)
         /\ \A q \in Proc, s \in Slot :
              <<q, s>> \in Uses(f) <=> pt[q][s].valid /\ pt[q][s].frame = f
         /\ \A q \in Proc, s \in Slot :
              <<q, s>> \in Uses(f)' <=> pt'[q][s].valid /\ pt'[q][s].frame = f
BY DEF Uses

\* Two sets of uses are equal when they agree on every process and slot.
LEMMA UsesEqual ==
  ASSUME NEW U \in SUBSET (Proc \X Slot), NEW W \in SUBSET (Proc \X Slot),
         \A q \in Proc, s \in Slot : <<q, s>> \in U <=> <<q, s>> \in W
  PROVE  U = W
<1>1. \A r \in Proc \X Slot : r[1] \in Proc /\ r[2] \in Slot /\ r = <<r[1], r[2]>>
  OBVIOUS
<1> QED
  BY <1>1

\* Brk keeps the accounts: each page it maps or unmaps is one use, and the last
\* one of the frame behind an entry it maps over.
LEMMA BrkCounts ==
  ASSUME Counts, Cardinality(Proc) <= CHAR_MAX, "overShared" \notin Situations,
         NEW p \in Proc, NEW b \in Page, setProcessBrk(p, b)
  PROVE  SaneTables' /\ \A f \in PageFrames : Accounted(f)'
<1>1. /\ Shape /\ TypeOK /\ p \in live /\ Orderly(p)
      /\ KernelFrame \notin free /\ ~halted /\ halted' = halted
      /\ heap_start' = heap_start
      /\ SaneTable(pt[p], heap_start[p]) /\ pt[p] \in [Slot -> Entry]
      /\ free \in SUBSET Frame /\ b >= heap_start[p]
  BY TypeFacts DEF setProcessBrk, Runs, Counts, Shape, SaneTables
<1>2. current_brk[p] \in 0..MAX_PT_LEN /\ heap_start[p] \in 0..MAX_PT_LEN
  BY <1>1, TypeFacts
<1>3. CASE increaseBrk(p, b)
  <2> DEFINE pages == current_brk[p]..b-1
             got   == Served(pages, Cardinality(free))
  <2>1. got \in SUBSET Slot
    <3>1. pages \subseteq Page /\ got \subseteq pages
      BY <1>2, MemoryAssumption DEF Served, Page
    <3> QED
      BY <3>1, SlotFacts
  <2>2. PICK place \in Placements(got, free) :
          /\ pt' = [pt EXCEPT ![p] = [s \in Slot |->
                      IF s \in got THEN createPTE(place[s], TRUE, FALSE) ELSE @[s]]]
          /\ frc' = Claimed(frc, Image(place))
          /\ free' = free \ Image(place)
    BY <1>3 DEF increaseBrk
  <2>3. \A s \in got : pt[p][s].valid =>
          "overMapped" \in Situations /\ frc[pt[p][s].frame] <= 1
    BY <1>3 DEF increaseBrk, MayCover, Valid
  <2> HIDE DEF got
  <2>4. /\ place \in [got -> free]
        /\ Image(place) = {place[s] : s \in got}
    <3>1. free \in SUBSET Frame /\ place \in Placements(got, free)
      BY <1>1
    <3>2. place \in [got -> free]
      BY <2>1, <3>1, PlacementFacts
    <3> QED
      BY <3>2 DEF Image
  <2>5. \A s, t \in got : place[s] = place[t] => s = t
    <3>1. free \in SUBSET Frame /\ place \in Placements(got, free)
      BY <1>1
    <3> QED
      BY <2>1, <3>1, MemoryAssumption DEF PlacementsAreInjections
  <2> DEFINE table == [s \in Slot |->
                         IF s \in got THEN createPTE(place[s], TRUE, FALSE) ELSE pt[p][s]]
  <2>6. /\ \A s \in got : /\ table[s] \in Entry
                          /\ table[s].valid /\ table[s].write
                          /\ table[s].frame = place[s]
        /\ \A s \in Slot \ got : table[s] = pt[p][s]
    <3>1. \A f \in free : /\ createPTE(f, TRUE, FALSE) \in Entry
                          /\ createPTE(f, TRUE, FALSE).valid
                          /\ createPTE(f, TRUE, FALSE).write
                          /\ createPTE(f, TRUE, FALSE).frame = f
      BY <1>1, CreateType
    <3> QED
      BY <2>1, <2>4, <3>1
  <2>7. table \in [Slot -> Entry]
    BY <1>1, <2>6
  <2>8. pt' = [pt EXCEPT ![p] = table]
    BY <2>2
  <2> HIDE DEF table
  <2>9. /\ SaneTables'
        /\ pt'[p] = table /\ \A q \in Proc \ {p} : pt'[q] = pt[q]
    <3>1. SaneTable(table, heap_start'[p])
      BY <1>1, <2>6 DEF SaneTable
    <3> QED
      BY <1>1, <2>7, <2>8, <3>1, OwnSane
  <2>10. ASSUME NEW f \in PageFrames PROVE Accounted(f)'
    <3>1. Accounted(f) /\ f \in Frame
      BY DEF Counts, PageFrames
    <3>2. Uses(f) \in SUBSET (Proc \X Slot) /\ Uses(f)' \in SUBSET (Proc \X Slot)
      BY UsesMember
    <3>3. ASSUME NEW q \in Proc, NEW s \in Slot
          PROVE  <<q, s>> \in Uses(f)' <=>
                   IF q = p /\ s \in got THEN place[s] = f ELSE <<q, s>> \in Uses(f)
      <4>1. CASE q = p
        BY <2>6, <2>9, <4>1, UsesMember
      <4>2. CASE q # p
        BY <2>9, <4>2, UsesMember
      <4> QED
        BY <4>1, <4>2
    <3>5. frc'[f] = IF f \in Image(place) THEN 1 ELSE frc[f]
      BY <2>2, <3>1 DEF Claimed
    <3>6. CASE f \in Image(place)
      <4>1. PICK s \in got : place[s] = f
        BY <2>4, <3>6
      <4>2. Uses(f) = {}
        BY <2>4, <3>1, <4>1 DEF Accounted
      <4>3. Uses(f)' = {<<p, s>>}
        <5>1. {<<p, s>>} \in SUBSET (Proc \X Slot)
          BY <2>1
        <5>2. \A q \in Proc, t \in Slot :
                <<q, t>> \in Uses(f)' <=> <<q, t>> \in {<<p, s>>}
          BY <2>1, <2>5, <3>3, <4>1, <4>2
        <5> QED
          BY <3>2, <5>1, <5>2, UsesEqual
      <4> QED
        BY <2>2, <3>5, <3>6, <4>3, FreshAccount
    <3>7. CASE f \notin Image(place) /\ \A s \in got : <<p, s>> \notin Uses(f)
      <4>1. Uses(f)' = Uses(f)
        <5>1. \A s \in got : place[s] # f
          BY <2>4, <3>7
        <5>2. \A q \in Proc, t \in Slot :
                <<q, t>> \in Uses(f)' <=> <<q, t>> \in Uses(f)
          BY <3>3, <3>7, <5>1
        <5> QED
          BY <3>2, <5>2, UsesEqual
      <4> QED
        BY <1>1, <2>2, <3>1, <3>5, <3>7, <4>1, SameAccount
    <3>8. ASSUME f \notin Image(place), NEW s \in got, <<p, s>> \in Uses(f)
          PROVE  Accounted(f)'
      <4>1. s \in Slot /\ pt[p][s].valid /\ pt[p][s].frame = f
        BY <2>1, <3>8, UsesMember
      <4>2. "overMapped" \in Situations /\ frc[f] <= 1
        BY <2>3, <4>1
      <4>3. Cardinality(Uses(f)) <= 1
        BY <1>1, <3>1, <3>8, <4>2 DEF Accounted
      <4>4. Uses(f) = {<<p, s>>}
        <5>1. /\ {<<p, s>>} \in SUBSET Uses(f)
              /\ IsFiniteSet(Uses(f)) /\ Cardinality(Uses(f)) \in Nat
              /\ Cardinality({<<p, s>>}) = 1
          BY <3>8, UsesFinite, FS_Singleton
        <5> QED
          BY <4>3, <5>1, FS_Subset
      <4>5. Uses(f)' = {}
        <5>1. \A t \in got : place[t] # f
          BY <2>4, <3>8
        <5>2. \A q \in Proc, t \in Slot : <<q, t>> \notin Uses(f)'
          BY <3>3, <4>4, <5>1
        <5> QED
          BY <3>2, <5>2, UsesEqual
      <4>6. f \notin free'
        BY <2>2, <3>1, <3>8 DEF Accounted
      <4> QED
        BY <4>2, <4>5, <4>6 DEF Accounted, OneSlot
    <3> QED
      BY <3>6, <3>7, <3>8
  <2> QED
    BY <2>9, <2>10
<1>4. CASE decreaseBrk(p, b)
  <2> DEFINE pages == b..current_brk[p]-1
             table == [s \in Slot |-> IF s \in pages THEN NoEntry ELSE pt[p][s]]
  <2>1. /\ b < current_brk[p] /\ pt' = [pt EXCEPT ![p] = table]
        /\ freePageFrames({p} \X pages)
    BY <1>4 DEF decreaseBrk
  <2>2. pages \subseteq Slot
    <3>1. pages \subseteq heap_start[p]..current_brk[p]-1
      BY <1>1, <1>2, SlotFacts
    <3> QED
      BY <1>1, <3>1, HeapPages
  <2>3. table \in [Slot -> Entry] /\ SaneTable(table, heap_start'[p])
    <3>1. NoEntry \in Entry /\ ~NoEntry.valid
      BY MemoryAssumption DEF NoEntry, Entry
    <3> QED
      BY <1>1, <3>1 DEF SaneTable
  <2>4. /\ SaneTables'
        /\ pt'[p] = table /\ \A q \in Proc \ {p} : pt'[q] = pt[q]
    BY <1>1, <2>1, <2>3, OwnSane
  <2>5. ASSUME NEW f \in PageFrames PROVE Accounted(f)'
    <3>1. \A s \in Slot : table[s] = IF s \in pages THEN NoEntry ELSE pt[p][s]
      OBVIOUS
    <3>2. ~NoEntry.valid
      BY DEF NoEntry
    <3> HIDE DEF table, pages
    <3>3. ASSUME NEW q \in Proc, NEW s \in Slot
          PROVE  <<q, s>> \in Uses(f)' <=> <<q, s>> \in Uses(f) \ ({p} \X pages)
      <4>1. CASE q = p
        BY <2>4, <3>1, <3>2, <4>1, UsesMember
      <4>2. CASE q # p
        BY <2>4, <4>2, UsesMember
      <4> QED
        BY <4>1, <4>2
    <3>4. Uses(f) \ ({p} \X pages) \in SUBSET (Proc \X Slot)
      BY UsesMember
    <3>5. Uses(f)' = Uses(f) \ ({p} \X pages)
      BY <3>3, <3>4, UsesEqual, UsesMember
    <3>6. {p} \X pages \in SUBSET (Proc \X Slot)
      BY <2>2
    <3> QED
      BY <1>1, <2>1, <3>5, <3>6, DropAccount DEF freePageFrames
  <2> QED
    BY <2>4, <2>5
<1> QED
  BY <1>3, <1>4 DEF setProcessBrk

\* Exec keeps the accounts: the old program's uses go, the new one's are fresh.
LEMMA LoadCounts ==
  ASSUME Counts, Cardinality(Proc) <= CHAR_MAX,
         NEW p \in Proc, NEW prog \in Program, loadProgram(p, prog)
  PROVE  SaneTables' /\ \A f \in PageFrames : Accounted(f)'
<1> DEFINE old   == {p} \X Valid(p, Page)
           avail == free \cup Frees(old)
           got   == Served(ProgramPages(prog), Cardinality(avail))
<1>1. /\ Shape /\ TypeOK /\ p \in live /\ ~halted /\ halted' = halted
      /\ heap_start' = [heap_start EXCEPT ![p] = prog.text + prog.data]
      /\ SaneTable(pt[p], heap_start[p]) /\ pt[p] \in [Slot -> Entry]
  BY TypeFacts DEF loadProgram, Runs, Counts, Shape, SaneTables
<1>2. PICK place \in Placements(got, avail) :
        /\ pt' = [pt EXCEPT ![p] = LoadedTable(@, prog, place)]
        /\ frc' = Claimed(Dropped(old), Image(place))
        /\ free' = avail \ Image(place)
  BY DEF loadProgram
<1>3. /\ old \in SUBSET (Proc \X Slot)
      /\ got \in SUBSET ProgramPages(prog) /\ got \in SUBSET Slot
      /\ got \in SUBSET Page
  BY SlotFacts, ProgramFacts DEF Valid, Served
<1>4. avail \in SUBSET Frame
  BY <1>1, <1>3, DroppedType, TypeFacts
<1>5. \A r : r \in old <=> r \in {p} \X Page /\ pt[p][r[2]].valid
  BY DEF Valid
<1> HIDE DEF got
<1>6. /\ place \in [got -> avail] /\ place \in [got -> Frame]
      /\ Image(place) = {place[s] : s \in got}
  <2> HIDE DEF avail
  <2>1. place \in [got -> avail]
    BY <1>3, <1>4, PlacementFacts
  <2> QED
    BY <1>4, <2>1 DEF Image
<1>7. \A s, t \in got : place[s] = place[t] => s = t
  <2> HIDE DEF avail
  <2>1. /\ place \in Placements(got, avail)
        /\ got \in SUBSET Slot /\ avail \in SUBSET Frame
    BY <1>3, <1>4
  <2> QED
    BY <2>1, MemoryAssumption DEF PlacementsAreInjections
<1> DEFINE table == LoadedTable(pt[p], prog, place)
<1>8. /\ table \in [Slot -> Entry]
      /\ \A s \in KernelStack : table[s] = pt[p][s]
      /\ \A s \in got : /\ table[s].valid /\ table[s].frame = place[s] /\ ~table[s].cow
                        /\ table[s].write \/ s \in TextPages(prog)
      /\ \A s \in Page \ got : table[s] = NoEntry
  <2>1. /\ pt[p] \in [Slot -> Entry] /\ got \in SUBSET ProgramPages(prog)
        /\ place \in [got -> Frame]
    BY <1>1, <1>3, <1>6
  <2>2. table = LoadedTable(pt[p], prog, place)
    OBVIOUS
  <2> HIDE DEF table
  <2>3. table \in [Slot -> Entry]
    BY <2>1, <2>2, LoadedFacts
  <2>4. \A s \in KernelStack : table[s] = pt[p][s]
    BY <2>1, <2>2, LoadedFacts
  <2>5. \A s \in got : /\ table[s].valid /\ table[s].frame = place[s] /\ ~table[s].cow
                       /\ table[s].write \/ s \in TextPages(prog)
    BY <2>1, <2>2, LoadedFacts
  <2>6. \A s \in Page \ got : table[s] = NoEntry
    BY <2>1, <2>2, LoadedFacts
  <2> QED
    BY <2>3, <2>4, <2>5, <2>6
<1>9. pt' = [pt EXCEPT ![p] = table]
  BY <1>2
<1> HIDE DEF table
<1>10. /\ heap_start'[p] = prog.text + prog.data
       /\ \A q \in Proc \ {p} : heap_start'[q] = heap_start[q]
  BY <1>1, TypeFacts
<1>11. SaneTable(table, heap_start'[p])
  <2>1. \A s \in TextPages(prog) : s < prog.text + prog.data
    BY ProgramFacts
  <2>2. ASSUME NEW s \in Slot
        PROVE  /\ ~table[s].valid => table[s] = NoEntry
               /\ table[s].valid /\ ~table[s].write /\ ~table[s].cow
                    => s \in Page /\ s < heap_start'[p]
    <3>1. CASE s \in KernelStack
      <4>1. table[s] = pt[p][s] /\ s \notin Page
        BY <1>8, <3>1, SlotFacts
      <4> QED
        BY <1>1, <4>1 DEF SaneTable
    <3>2. CASE s \in got
      BY <1>3, <1>8, <1>10, <2>1, <3>2
    <3>3. CASE s \in Page \ got
      <4>1. table[s] = NoEntry /\ ~NoEntry.valid
        BY <1>8, <3>3 DEF NoEntry
      <4> QED
        BY <4>1
    <3> QED
      BY <3>1, <3>2, <3>3, SlotFacts
  <2> QED
    BY <2>2 DEF SaneTable
<1>12. /\ SaneTables'
       /\ pt'[p] = table /\ \A q \in Proc \ {p} : pt'[q] = pt[q]
  BY <1>8, <1>9, <1>10, <1>11, OwnSane
<1>13. ASSUME NEW f \in PageFrames PROVE Accounted(f)'
  <2>1. Accounted(f) /\ f \in Frame
    BY DEF Counts, PageFrames
  <2>2. LET left == Uses(f) \ old IN
        /\ left # {} => Dropped(old)[f] = Cardinality(left)
        /\ f \in Frees(old) <=> Uses(f) # {} /\ left = {}
        /\ f \in Frees(old) => Dropped(old)[f] = 0
        /\ Uses(f) = {} => Dropped(old)[f] = frc[f]
    BY <1>1, <1>3, DropCount
  <2>3. ASSUME NEW q \in Proc, NEW s \in Slot
        PROVE  <<q, s>> \in Uses(f)' <=>
                 \/ <<q, s>> \in Uses(f) \ old
                 \/ q = p /\ s \in got /\ place[s] = f
    <3>1. CASE q # p
      BY <1>12, <3>1, UsesMember DEF old
    <3>2. CASE q = p /\ s \in KernelStack
      <4>1. s \notin Page /\ s \notin got /\ <<q, s>> \notin old
        BY <1>3, <1>5, <3>2, SlotFacts
      <4>2. pt'[q][s] = pt[q][s]
        BY <1>8, <1>12, <3>2
      <4> QED
        BY <4>1, <4>2, UsesMember
    <3>3. CASE q = p /\ s \in got
      <4>1. <<q, s>> \in Uses(f) => <<q, s>> \in old
        BY <1>3, <3>3, UsesMember DEF old, Valid
      <4>2. pt'[q][s].valid /\ pt'[q][s].frame = place[s]
        BY <1>8, <1>12, <3>3
      <4> QED
        BY <3>3, <4>1, <4>2, UsesMember
    <3>4. CASE q = p /\ s \in Page \ got
      <4>1. <<q, s>> \in Uses(f) => <<q, s>> \in old
        BY <3>4, UsesMember DEF old, Valid
      <4>2. ~pt'[q][s].valid
        BY <1>8, <1>12, <3>4 DEF NoEntry
      <4> QED
        BY <3>4, <4>1, <4>2, UsesMember
    <3> QED
      BY <3>1, <3>2, <3>3, <3>4, SlotFacts
  <2>4. Uses(f) \ old \in SUBSET (Proc \X Slot)
    BY UsesMember
  <2>5. frc'[f] = IF f \in Image(place) THEN 1 ELSE Dropped(old)[f]
    BY <1>2, <2>1 DEF Claimed
  <2>6. CASE f \in Image(place)
    <3>1. PICK s \in got : place[s] = f
      BY <1>6, <2>6
    <3>2. Uses(f) \ old = {}
      <4>1. f \in free \cup Frees(old)
        BY <1>6, <3>1
      <4> QED
        BY <2>1, <2>2, <4>1 DEF Accounted
    <3>3. {<<p, s>>} \in SUBSET (Proc \X Slot)
      BY <1>3
    <3>4. \A q \in Proc, t \in Slot :
            <<q, t>> \in Uses(f)' <=> <<q, t>> \in {<<p, s>>}
      BY <1>7, <2>3, <3>1, <3>2
    <3>5. Uses(f)' = {<<p, s>>}
      BY <3>3, <3>4, UsesEqual, UsesMember
    <3> QED
      BY <1>2, <2>5, <2>6, <3>5, FreshAccount
  <2>7. CASE f \notin Image(place)
    <3>1. \A s \in got : place[s] # f
      BY <1>6, <2>7
    <3>2. Uses(f)' = Uses(f) \ old
      BY <2>3, <2>4, <3>1, UsesEqual, UsesMember
    <3> QED
      BY <1>1, <1>2, <1>3, <2>5, <2>7, <3>2, DropAccount
  <2> QED
    BY <2>6, <2>7
<1> QED
  BY <1>12, <1>13

\* The uses of a page frame after a process has been copied: those of the others
\* are as before, and c uses its new frames and the pages it shares with p.
LEMMA CopyUses ==
  ASSUME Counts, NEW p \in live, NEW c \in Proc \ live, NEW mark \in BOOLEAN,
         NEW kernel \in Placements(KernelStack, free),
         NEW copy \in Placements(StackFrames(p), free \ Image(kernel)),
         Copied(p, c, mark, kernel, StackFrames(p), copy),
         NEW f \in PageFrames
  PROVE  /\ \A q \in Proc \ {c}, s \in Slot :
              <<q, s>> \in Uses(f)' <=> <<q, s>> \in Uses(f)
         /\ \A s \in Slot :
              <<c, s>> \in Uses(f)' <=>
                \/ s \in KernelStack /\ kernel[s] = f
                \/ s \in 0..sp[p]-1 /\ <<p, s>> \in Uses(f)
                \/ s \in StackFrames(p) /\ copy[s] = f
         /\ \A s \in Slot : <<c, s>> \notin Uses(f)
<1>1. /\ Shape /\ TypeOK /\ p \in Proc /\ p # c /\ c \in Proc
      /\ \A s \in Slot : pt[p][s] \in Entry
  BY TypeFacts DEF Counts, Shape
<1>2. ASSUME NEW q \in Proc \ {c}, NEW s \in Slot
      PROVE  <<q, s>> \in Uses(f)' <=> <<q, s>> \in Uses(f)
  <2>1. CASE q # p
    <3>1. pt'[q] = pt[q]
      BY <2>1 DEF Copied
    <3> QED
      BY <3>1, UsesMember
  <2>2. CASE q = p
    <3>1. pt'[p][s] = IF s \in 0..sp[p]-1 THEN SharedEntry(pt[p][s], mark) ELSE pt[p][s]
      BY DEF Copied
    <3>2. pt'[p][s].valid = pt[p][s].valid /\ pt'[p][s].frame = pt[p][s].frame
      BY <1>1, <3>1, SharedType
    <3> QED
      BY <1>1, <2>2, <3>2, UsesMember
  <2> QED
    BY <2>1, <2>2
<1>3. \A s \in Slot : <<c, s>> \notin Uses(f)
  <2>1. \A s \in Slot : ~pt[c][s].valid
    BY <1>1 DEF TypeOK, NoTable, NoEntry
  <2> QED
    BY <1>1, <2>1, UsesMember
<1>4. ASSUME NEW s \in Slot
      PROVE  <<c, s>> \in Uses(f)' <=>
                \/ s \in KernelStack /\ kernel[s] = f
                \/ s \in 0..sp[p]-1 /\ <<p, s>> \in Uses(f)
                \/ s \in StackFrames(p) /\ copy[s] = f
  <2>1. StackFrames(p) \subseteq StackPagesOf(p)
    BY <1>1, CopyFrames
  <2>2. StackPagesOf(p) = {t \in sp[p]..MAX_PT_LEN-1 : pt[p][t].valid}
    BY DEF StackPagesOf, Valid
  <2>3. CASE s \in KernelStack
    <3>1. kernel[s] \in Frame
      <4>1. kernel[s] \in free
        BY <1>1, <2>3, CopyFrames
      <4> QED
        BY <1>1, <4>1, TypeFacts
    <3>2. pt'[c][s].valid /\ pt'[c][s].frame = kernel[s]
      BY <2>3, <3>1, CreateType DEF Copied
    <3>3. s \notin 0..sp[p]-1 /\ s \notin StackFrames(p)
      BY <1>1, <2>1, <2>2, <2>3, SplitAtSp
    <3> QED
      BY <1>1, <2>3, <3>2, <3>3, UsesMember
  <2>4. CASE s \in 0..sp[p]-1
    <3>1. s \notin KernelStack /\ s \notin StackFrames(p)
      BY <1>1, <2>1, <2>2, <2>4, SplitAtSp
    <3>2. pt'[c][s] = SharedEntry(pt[p][s], mark)
      BY <2>4 DEF Copied
    <3>3. pt'[c][s].valid = pt[p][s].valid /\ pt'[c][s].frame = pt[p][s].frame
      BY <1>1, <3>2, SharedType
    <3> QED
      BY <1>1, <2>4, <3>1, <3>3, UsesMember
  <2>5. CASE s \in sp[p]..MAX_PT_LEN-1
    <3>1. s \notin KernelStack /\ s \notin 0..sp[p]-1
      BY <1>1, <2>5, SplitAtSp
    <3>2. pt'[c][s] = IF pt[p][s].valid THEN StackCopy(p, StackFrames(p), copy, s)
                                       ELSE pt[p][s]
      BY <2>5 DEF Copied
    <3>3. CASE ~pt[p][s].valid
      BY <1>1, <2>1, <2>2, <3>1, <3>2, <3>3, UsesMember
    <3>4. CASE pt[p][s].valid /\ s \in StackFrames(p)
      <4>1. copy[s] \in Frame
        <5>1. copy[s] \in free
          BY <1>1, <3>4, CopyFrames
        <5> QED
          BY <1>1, <5>1, TypeFacts
      <4>2. pt'[c][s] = [pt[p][s] EXCEPT !.frame = copy[s]]
        BY <3>2, <3>4 DEF StackCopy
      <4>3. pt'[c][s].valid /\ pt'[c][s].frame = copy[s]
        BY <1>1, <3>4, <4>1, <4>2, StackCopyType
      <4> QED
        BY <1>1, <3>1, <3>4, <4>3, UsesMember
    <3>5. CASE pt[p][s].valid /\ s \notin StackFrames(p)
      <4>1. pt'[c][s] = [pt[p][s] EXCEPT !.frame = KernelFrame]
        BY <3>2, <3>5 DEF StackCopy
      <4>2. pt'[c][s].frame = KernelFrame
        BY <1>1, <4>1, StackCopyType, MemoryAssumption
      <4> QED
        BY <1>1, <3>1, <3>5, <4>2, UsesMember DEF PageFrames
    <3> QED
      BY <3>3, <3>4, <3>5
  <2> QED
    BY <1>1, <2>3, <2>4, <2>5, SplitAtSp
<1> QED
  BY <1>2, <1>3, <1>4

\* Fork and createThread keep the accounts: one use more of what is shared, fresh
\* frames for the stacks.
LEMMA CopyCounts ==
  ASSUME Counts, ~halted, Cardinality(Proc) <= CHAR_MAX,
         NEW p \in live, NEW c \in Proc, NEW leader \in Proc \cup {NoProc},
         NEW mark \in BOOLEAN, CopyProcess(p, c, leader, mark)
  PROVE  SaneTables' /\ \A f \in PageFrames : Accounted(f)'
<1>1. /\ Shape /\ TypeOK /\ p \in Proc /\ p # c /\ c \in Proc \ live
      /\ heap_start' = [heap_start EXCEPT ![c] = heap_start[p]] /\ halted' = halted
      /\ SaneTable(pt[p], heap_start[p]) /\ pt[p] \in [Slot -> Entry]
  BY TypeFacts DEF CopyProcess, Counts, Shape, SaneTables
<1> DEFINE got   == StackFrames(p)
           below == 0..sp[p]-1
<1>2. PICK kernel \in Placements(KernelStack, free) :
           \E copy \in Placements(got, free \ Image(kernel)) :
             /\ Copied(p, c, mark, kernel, got, copy)
             /\ CopiedPool(p, kernel, copy)
  BY <1>1, CopyFacts
<1>3. PICK copy \in Placements(got, free \ Image(kernel)) :
             /\ Copied(p, c, mark, kernel, got, copy)
             /\ CopiedPool(p, kernel, copy)
  BY <1>2
<1>4. /\ kernel \in [KernelStack -> free]
      /\ \A s, t \in KernelStack : kernel[s] = kernel[t] => s = t
      /\ Image(kernel) = {kernel[s] : s \in KernelStack}
      /\ copy \in [got -> free \ Image(kernel)]
      /\ \A s, t \in got : copy[s] = copy[t] => s = t
      /\ Image(copy) = {copy[s] : s \in got}
      /\ got \subseteq StackPagesOf(p) /\ StackPagesOf(p) \subseteq Page
  BY <1>1, CopyFrames
<1>5. SaneTables'
  <2>1. /\ \A q \in Proc \ {c} : heap_start'[q] = heap_start[q]
        /\ heap_start'[c] = heap_start[p]
    BY <1>1, TypeFacts
  <2>2. ASSUME NEW s \in below, NEW e, e = SharedEntry(pt[p][s], mark)
        PROVE  /\ ~e.valid => e = NoEntry
               /\ e.valid /\ ~e.write /\ ~e.cow => s \in Page /\ s < heap_start[p]
    <3>1. s \in Slot /\ pt[p][s] \in Entry
      BY <1>1, SplitAtSp, SlotFacts
    <3>2. /\ e.valid = pt[p][s].valid
          /\ ~pt[p][s].valid => e = pt[p][s]
          /\ pt[p][s].cow \/ pt[p][s].write => e.cow \/ e.write
      BY <2>2, <3>1, SharedType
    <3>3. /\ ~pt[p][s].valid => pt[p][s] = NoEntry
          /\ pt[p][s].valid /\ ~pt[p][s].write /\ ~pt[p][s].cow
               => s \in Page /\ s < heap_start[p]
      BY <1>1, <3>1 DEF SaneTable
    <3> QED
      BY <3>2, <3>3
  <2>3. SaneTable(pt'[p], heap_start'[p])
    <3>1. \A s \in Slot \ below : pt'[p][s] = pt[p][s]
      BY <1>3 DEF Copied
    <3>2. \A s \in below : pt'[p][s] = SharedEntry(pt[p][s], mark)
      BY <1>1, <1>3, SplitAtSp, SlotFacts DEF Copied
    <3> HIDE DEF below
    <3>3. ASSUME NEW s \in Slot
          PROVE  /\ ~pt'[p][s].valid => pt'[p][s] = NoEntry
                 /\ pt'[p][s].valid /\ ~pt'[p][s].write /\ ~pt'[p][s].cow
                      => s \in Page /\ s < heap_start[p]
      <4>1. CASE s \in below
        BY <2>2, <3>2, <4>1
      <4>2. CASE s \notin below
        BY <1>1, <3>1, <4>2 DEF SaneTable
      <4> QED
        BY <4>1, <4>2
    <3> QED
      BY <1>1, <2>1, <3>3 DEF SaneTable
  <2>4. SaneTable(pt'[c], heap_start'[c])
    <3>1. ASSUME NEW s \in Slot
          PROVE  /\ ~pt'[c][s].valid => pt'[c][s] = NoEntry
                 /\ pt'[c][s].valid /\ ~pt'[c][s].write /\ ~pt'[c][s].cow
                      => s \in Page /\ s < heap_start[p]
      <4>1. CASE s \in KernelStack
        <5>1. kernel[s] \in Frame
          BY <1>1, <1>4, <4>1, TypeFacts
        <5>2. pt'[c][s].valid /\ pt'[c][s].write
          BY <1>3, <4>1, <5>1, CreateType DEF Copied
        <5> QED
          BY <5>2
      <4>2. CASE s \in below
        <5>1. pt'[c][s] = SharedEntry(pt[p][s], mark)
          BY <1>3, <4>2 DEF Copied
        <5> HIDE DEF below
        <5> QED
          BY <2>2, <4>2, <5>1
      <4>3. CASE s \in sp[p]..MAX_PT_LEN-1
        <5>1. pt'[c][s] = IF pt[p][s].valid THEN StackCopy(p, got, copy, s) ELSE pt[p][s]
          BY <1>3, <4>3 DEF Copied
        <5>2. CASE ~pt[p][s].valid
          BY <1>1, <5>1, <5>2 DEF SaneTable
        <5>3. CASE pt[p][s].valid
          <6>1. PICK f : /\ f = IF s \in got THEN copy[s] ELSE KernelFrame
                         /\ f \in Frame
            BY <1>1, <1>4, TypeFacts, MemoryAssumption
          <6>2. pt'[c][s] = [pt[p][s] EXCEPT !.frame = f]
            BY <5>1, <5>3, <6>1 DEF StackCopy
          <6>3. /\ pt'[c][s].valid
                /\ pt'[c][s].write = pt[p][s].write /\ pt'[c][s].cow = pt[p][s].cow
            BY <1>1, <5>3, <6>1, <6>2, StackCopyType
          <6> QED
            BY <1>1, <5>3, <6>3 DEF SaneTable
        <5> QED
          BY <5>2, <5>3
      <4> QED
        BY <1>1, <4>1, <4>2, <4>3, SplitAtSp
    <3> QED
      BY <2>1, <3>1 DEF SaneTable
  <2>5. ASSUME NEW q \in Proc \ {p, c}
        PROVE  SaneTable(pt'[q], heap_start'[q])
    <3>1. pt'[q] = pt[q] /\ heap_start'[q] = heap_start[q]
      BY <1>3, <2>1 DEF Copied
    <3> QED
      BY <3>1 DEF Counts, SaneTables
  <2> QED
    BY <2>3, <2>4, <2>5 DEF SaneTables, SaneTable
<1>6. ASSUME NEW f \in PageFrames PROVE Accounted(f)'
  <2>1. Accounted(f) /\ f \in Frame /\ frc[f] \in -CHAR_MAX-1..CHAR_MAX
    BY <1>1, TypeFacts DEF Counts, PageFrames
  <2>2. /\ \A q \in Proc \ {c}, s \in Slot :
             <<q, s>> \in Uses(f)' <=> <<q, s>> \in Uses(f)
        /\ \A s \in Slot :
             <<c, s>> \in Uses(f)' <=>
               \/ s \in KernelStack /\ kernel[s] = f
               \/ s \in below /\ <<p, s>> \in Uses(f)
               \/ s \in got /\ copy[s] = f
        /\ \A s \in Slot : <<c, s>> \notin Uses(f)
    BY <1>1, <1>3, CopyUses
  <2> HIDE DEF below, got
  <2>3. f \in free => Uses(f) = {}
    BY <2>1 DEF Accounted
  <2>4. KernelStack \subseteq Slot /\ got \subseteq Slot
    BY <1>4, SlotFacts
  <2>5. CASE f \in Image(kernel)
    <3>1. PICK s \in KernelStack : kernel[s] = f
      BY <1>4, <2>5
    <3>2. Uses(f) = {} /\ f \notin Image(copy)
      BY <1>4, <2>3, <2>5, <3>1
    <3>3. {<<c, s>>} \in SUBSET (Proc \X Slot)
      BY <2>4
    <3>4. \A q \in Proc, t \in Slot :
            <<q, t>> \in Uses(f)' <=> <<q, t>> \in {<<c, s>>}
      <4>1. /\ \A t \in got : copy[t] # f
            /\ \A t \in KernelStack : kernel[t] = f <=> t = s
        BY <1>4, <3>1, <3>2
      <4>2. \A t \in Slot : <<c, t>> \in Uses(f)' <=> t = s
        BY <2>2, <3>1, <3>2, <4>1
      <4> QED
        BY <2>2, <3>2, <4>2
    <3>5. Uses(f)' = {<<c, s>>}
      BY <3>3, <3>4, UsesEqual, UsesMember
    <3>6. frc'[f] = 1 /\ f \notin free'
      BY <1>3, <2>1, <2>5 DEF CopiedPool
    <3> QED
      BY <3>5, <3>6, FreshAccount
  <2>6. CASE f \in Image(copy)
    <3>1. PICK s \in got : copy[s] = f
      BY <1>4, <2>6
    <3>2. Uses(f) = {} /\ f \notin Image(kernel)
      BY <1>4, <2>3, <2>6, <3>1
    <3>3. {<<c, s>>} \in SUBSET (Proc \X Slot)
      BY <2>4
    <3>4. \A q \in Proc, t \in Slot :
            <<q, t>> \in Uses(f)' <=> <<q, t>> \in {<<c, s>>}
      BY <1>4, <2>2, <2>4, <3>1, <3>2
    <3>5. Uses(f)' = {<<c, s>>}
      BY <3>3, <3>4, UsesEqual, UsesMember
    <3>6. frc'[f] = 1 /\ f \notin free'
      BY <1>3, <2>1, <2>6 DEF CopiedPool
    <3> QED
      BY <3>5, <3>6, FreshAccount
  <2>7. CASE f \notin Image(kernel) /\ f \notin Image(copy)
    <3> DEFINE shared == {p} \X Valid(p, below)
    <3>1. /\ \A s \in KernelStack : kernel[s] # f
          /\ \A s \in got : copy[s] # f
      BY <1>4, <2>7
    <3>2. /\ frc'[f] = Wrap(frc[f] + Cardinality(To(shared, f)))
          /\ f \in free' <=> f \in free
      BY <1>3, <2>1, <2>7 DEF CopiedPool, below
    <3>3. below \subseteq Slot /\ below \cap KernelStack = {}
      BY <1>1, SplitAtSp, SlotFacts DEF below
    <3>4. To(shared, f) = {r \in {p} \X below : r \in Uses(f)}
      <4>1. shared \in SUBSET (Proc \X Slot)
        BY <1>1, <3>3 DEF Valid
      <4>2. To(shared, f) = shared \cap Uses(f)
        BY <4>1, ToUses DEF Counts
      <4>3. \A s \in below : <<p, s>> \in Uses(f) => s \in Valid(p, below)
        BY <1>1, <3>3, UsesMember DEF Valid
      <4> QED
        BY <1>1, <4>2, <4>3 DEF Valid
    <3> HIDE DEF shared
    <3>5. CASE \E s \in below : <<p, s>> \in Uses(f)
      <4>1. PICK s \in below : <<p, s>> \in Uses(f)
        BY <3>5
      <4>2. \A r \in Uses(f) : r[2] = s
        BY <2>1, <4>1 DEF Accounted, OneSlot
      <4>3. To(shared, f) = {<<p, s>>}
        BY <3>4, <4>1, <4>2
      <4>4. Uses(f)' = Uses(f) \cup {<<c, s>>}
        <5>1. Uses(f) \cup {<<c, s>>} \in SUBSET (Proc \X Slot)
          BY <3>3, UsesMember
        <5>2. \A t \in Slot : <<c, t>> \in Uses(f)' <=> t = s
          <6>1. \A t \in below : <<p, t>> \in Uses(f) => t = s
            BY <4>2
          <6> QED
            BY <2>2, <3>1, <3>3, <4>1, <6>1
        <5>3. \A q \in Proc, t \in Slot :
                <<q, t>> \in Uses(f)' <=> <<q, t>> \in Uses(f) \cup {<<c, s>>}
          BY <2>2, <3>3, <5>2
        <5> QED
          BY <5>1, <5>3, UsesEqual, UsesMember
      <4>5. Cardinality(Uses(f)') = Cardinality(Uses(f)) + 1
        <5>1. <<c, s>> \notin Uses(f)
          BY <2>2, <3>3
        <5> QED
          BY <4>4, <5>1, UsesFinite, FS_AddElement
      <4>6. OneSlot(Uses(f)')
        <5>1. s \notin KernelStack
          BY <3>3
        <5> QED
          BY <4>2, <4>4, <5>1 DEF OneSlot
      <4>7. frc'[f] = Cardinality(Uses(f)')
        <5>1. frc[f] = Cardinality(Uses(f)) /\ Cardinality(Uses(f)) \in Nat
          BY <2>1, <4>1, UsesFinite DEF Accounted
        <5>2. Cardinality(Uses(f)') <= Cardinality(Proc)
          BY <4>6, OneSlotBound, UsesMember
        <5>3. Cardinality(Proc) \in Nat
          BY MemoryAssumption, FS_CardinalityType
        <5>4. Cardinality(Uses(f)) + 1 \in -CHAR_MAX-1..CHAR_MAX
          BY <4>5, <5>1, <5>2, <5>3, MemoryAssumption
        <5>5. Cardinality(To(shared, f)) = 1
          BY <4>3, FS_Singleton
        <5> QED
          BY <3>2, <4>5, <5>1, <5>4, <5>5, WrapSmall
      <4>8. f \notin free /\ f \notin free'
        BY <2>3, <3>2, <4>1
      <4>9. Uses(f)' # {}
        BY <4>4
      <4> QED
        BY <4>6, <4>7, <4>8, <4>9 DEF Accounted
    <3>6. CASE ~ \E s \in below : <<p, s>> \in Uses(f)
      <4>1. To(shared, f) = {}
        BY <3>4, <3>6
      <4>2. frc'[f] = frc[f]
        <5>1. Cardinality(To(shared, f)) = 0
          BY <4>1, FS_EmptySet
        <5>2. frc[f] + 0 = frc[f]
          BY <2>1
        <5> QED
          BY <2>1, <3>2, <5>1, <5>2, WrapSmall
      <4>3. \A q \in Proc, t \in Slot :
              <<q, t>> \in Uses(f)' <=> <<q, t>> \in Uses(f)
        <5>1. \A t \in Slot : <<c, t>> \notin Uses(f)'
          BY <2>2, <3>1, <3>6
        <5> QED
          BY <2>2, <5>1
      <4>4. Uses(f)' = Uses(f)
        <5>1. Uses(f) \in SUBSET (Proc \X Slot) /\ Uses(f)' \in SUBSET (Proc \X Slot)
          BY UsesMember
        <5> QED
          BY <4>3, <5>1, UsesEqual
      <4> QED
        BY <1>1, <2>1, <3>2, <4>2, <4>4, SameAccount
    <3> QED
      BY <3>5, <3>6
  <2> QED
    BY <2>5, <2>6, <2>7
<1> QED
  BY <1>5, <1>6

\* Exit keeps the accounts of all it removes, even of the threads whose kernel stacks
\* it forgets.
LEMMA KillCounts ==
  ASSUME Counts, Cardinality(Proc) <= CHAR_MAX,
         NEW p \in Proc, killProcess(p)
  PROVE  SaneTables' /\ \A f \in PageFrames : Accounted(f)'
<1> DEFINE dead == {p} \cup Threads(p)
           refs == {r \in dead \X Slot :
                      pt[r[1]][r[2]].valid /\ (r[2] \in Page \/ r[1] = p)}
<1>1. /\ Shape /\ TypeOK /\ p \in live /\ ~halted /\ halted' = halted
      /\ freePageFrames(refs)
      /\ pt' = [q \in Proc |-> IF q \in dead THEN NoTable ELSE pt[q]]
      /\ heap_start' = [q \in Proc |-> IF q \in dead THEN 0 ELSE heap_start[q]]
      /\ Threads(p) = {} \/ "killThreads" \in Situations
  BY DEF killProcess, Runs, Counts, Shape
<1>2. dead \subseteq Proc
  BY <1>1, TypeFacts DEF Threads
<1>3. refs \in SUBSET (Proc \X Slot)
  BY <1>2
<1>4. \A q \in dead, s \in Slot :
        <<q, s>> \in refs <=> pt[q][s].valid /\ (s \in Page \/ q = p)
  OBVIOUS
<1>5. \A r \in refs : r[1] \in dead
  OBVIOUS
<1>6. Threads(p) = {} => dead = {p}
  OBVIOUS
<1> HIDE DEF dead, refs
<1>7. SaneTables'
  <2>1. ASSUME NEW q \in Proc PROVE SaneTable(pt'[q], heap_start'[q])
    <3>1. CASE q \in dead
      <4>1. \A s \in Slot : pt'[q][s] = NoEntry
        BY <1>1, <3>1 DEF NoTable
      <4>2. ~NoEntry.valid
        BY DEF NoEntry
      <4> QED
        BY <4>1, <4>2 DEF SaneTable
    <3>2. CASE q \notin dead
      <4>1. pt'[q] = pt[q] /\ heap_start'[q] = heap_start[q]
        BY <1>1, <3>2
      <4> QED
        BY <4>1 DEF Counts, SaneTables
    <3> QED
      BY <3>1, <3>2
  <2> QED
    BY <2>1 DEF SaneTables, SaneTable
<1>8. ASSUME NEW f \in PageFrames PROVE Accounted(f)'
  <2>1. Accounted(f) /\ f \in Frame
    BY DEF Counts, PageFrames
  <2>2. ASSUME NEW q \in Proc, NEW s \in Slot
        PROVE  <<q, s>> \in Uses(f)' <=> <<q, s>> \in Uses(f) /\ q \notin dead
    <3>1. CASE q \in dead
      <4>1. ~pt'[q][s].valid
        BY <1>1, <3>1 DEF NoTable, NoEntry
      <4> QED
        BY <3>1, <4>1, UsesMember
    <3>2. CASE q \notin dead
      <4>1. pt'[q] = pt[q]
        BY <1>1, <3>2
      <4> QED
        BY <3>2, <4>1, UsesMember
    <3> QED
      BY <3>1, <3>2
  <2>3. /\ frc' = Dropped(refs) /\ free' = free \cup Frees(refs)
    BY <1>1 DEF freePageFrames
  <2>4. CASE \A q \in dead, s \in Slot :
               <<q, s>> \in Uses(f) => s \in Page \/ q = p
    <3>1. \A q \in Proc, s \in Slot :
            <<q, s>> \in Uses(f)' <=> <<q, s>> \in Uses(f) \ refs
      <4>1. ASSUME NEW q \in Proc, NEW s \in Slot, <<q, s>> \in Uses(f)
            PROVE  q \in dead <=> <<q, s>> \in refs
        <5>1. pt[q][s].valid
          BY <4>1, UsesMember
        <5>2. <<q, s>> \in refs => q \in dead
          BY <1>5
        <5> QED
          BY <1>4, <2>4, <4>1, <5>1, <5>2
      <4> QED
        BY <2>2, <4>1
    <3>2. Uses(f) \ refs \in SUBSET (Proc \X Slot)
      BY UsesMember
    <3>3. Uses(f)' = Uses(f) \ refs
      BY <3>1, <3>2, UsesEqual, UsesMember
    <3> QED
      BY <1>1, <1>3, <2>3, <3>3, DropAccount
  <2>5. CASE ~ \A q \in dead, s \in Slot :
                 <<q, s>> \in Uses(f) => s \in Page \/ q = p
    <3>1. PICK q \in dead, s \in Slot :
            <<q, s>> \in Uses(f) /\ s \notin Page /\ q # p
      BY <2>5
    <3>2. s \in KernelStack
      BY <3>1, SlotFacts
    <3>3. \A r \in Uses(f) : r = <<q, s>>
      BY <2>1, <3>1, <3>2 DEF Accounted, OneSlot
    <3>4. \A t \in Proc, u \in Slot : <<t, u>> \notin Uses(f)'
      BY <2>2, <3>1, <3>3
    <3>5. Uses(f)' = {}
      <4>1. {} \in SUBSET (Proc \X Slot) /\ \A r : r \notin {}
        OBVIOUS
      <4> QED
        BY <3>4, <4>1, UsesEqual, UsesMember
    <3>6. "killThreads" \in Situations
      BY <1>1, <1>6, <3>1
    <3> QED
      BY <3>5, <3>6 DEF Accounted, OneSlot
  <2> QED
    BY <2>4, <2>5
<1> QED
  BY <1>7, <1>8

\* The frames of init are in use once, all others are on the list.
LEMMA InitCounts == Init => Counts
<1> SUFFICES ASSUME Init PROVE Counts
  OBVIOUS
<1>1. PICK prog \in Program :
        \E stack \in Placements(KernelStack, Frame \ {KernelFrame}) :
        \E place \in Placements(ProgramPages(prog),
                                Frame \ ({KernelFrame} \cup Image(stack))) :
          Booted(prog, stack, place)
  BY InitBooted
<1>2. PICK stack \in Placements(KernelStack, Frame \ {KernelFrame}) :
        \E place \in Placements(ProgramPages(prog),
                                Frame \ ({KernelFrame} \cup Image(stack))) :
          Booted(prog, stack, place)
  BY <1>1
<1> DEFINE F == Frame \ {KernelFrame}
           G == Frame \ ({KernelFrame} \cup Image(stack))
           pages == ProgramPages(prog)
<1>3. PICK place \in Placements(pages, G) : Booted(prog, stack, place)
  BY <1>2
<1>4. /\ KernelStack \in SUBSET Slot /\ pages \in SUBSET Slot
      /\ pages \subseteq Page
      /\ F \in SUBSET Frame /\ G \in SUBSET Frame
      /\ stack \in Placements(KernelStack, F) /\ place \in Placements(pages, G)
  BY ProgramFacts, SlotFacts
<1> HIDE DEF F, G, pages
<1>5. /\ stack \in [KernelStack -> F]
      /\ \A s, t \in KernelStack : stack[s] = stack[t] => s = t
  BY <1>4, MemoryAssumption DEF PlacementsAreInjections
<1>6. /\ place \in [pages -> G]
      /\ \A s, t \in pages : place[s] = place[t] => s = t
  BY <1>4, MemoryAssumption DEF PlacementsAreInjections
<1>7. /\ Image(stack) = {stack[s] : s \in KernelStack}
      /\ Image(place) = {place[s] : s \in pages}
  BY <1>5, <1>6 DEF Image
<1>8. /\ stack \in [KernelStack -> Frame] /\ place \in [pages -> Frame]
      /\ BootTable(stack) \in [Slot -> Entry]
  BY <1>4, <1>5, <1>6, BootType
<1> DEFINE table == LoadedTable(BootTable(stack), prog, place)
<1>9. /\ \A s \in KernelStack : /\ table[s].valid /\ table[s].write
                                /\ table[s].frame = stack[s]
      /\ \A s \in pages : /\ table[s].valid /\ table[s].frame = place[s]
                          /\ table[s].write \/ s \in TextPages(prog)
      /\ \A s \in Page \ pages : table[s] = NoEntry
  <2>1. /\ BootTable(stack) \in [Slot -> Entry]
        /\ pages \in SUBSET ProgramPages(prog)
        /\ place \in [pages -> Frame]
        /\ table = LoadedTable(BootTable(stack), prog, place)
    BY <1>8 DEF pages
  <2> HIDE DEF table
  <2>2. \A s \in KernelStack : table[s] = BootTable(stack)[s]
    BY <2>1, LoadedFacts
  <2>3. \A s \in pages : /\ table[s].valid /\ table[s].frame = place[s] /\ ~table[s].cow
                         /\ table[s].write \/ s \in TextPages(prog)
    BY <2>1, LoadedFacts
  <2>4. \A s \in Page \ pages : table[s] = NoEntry
    BY <2>1, LoadedFacts
  <2>5. \A s \in KernelStack : /\ BootTable(stack)[s].valid
                               /\ BootTable(stack)[s].write
                               /\ BootTable(stack)[s].frame = stack[s]
    BY <1>8, BootType
  <2> QED
    BY <2>2, <2>3, <2>4, <2>5
<1>10. /\ pt = [p \in Proc |-> IF p = InitProc THEN table ELSE NoTable]
       /\ heap_start[InitProc] = prog.text + prog.data
       /\ InitProc \in Proc
  BY <1>3, MemoryAssumption DEF Booted
<1> HIDE DEF table
<1>11. SaneTables
  <2>1. ~NoEntry.valid /\ \A s \in Slot : NoTable[s] = NoEntry
    BY DEF NoEntry, NoTable
  <2>2. \A s \in TextPages(prog) : s \in Page /\ s < prog.text + prog.data
    <3>1. TextPages(prog) \subseteq ProgramPages(prog)
      BY DEF ProgramPages
    <3>2. TextPages(prog) \subseteq Page
      BY <1>4, <3>1 DEF pages
    <3>3. \A s \in TextPages(prog) : s < prog.text + prog.data
      BY ProgramFacts
    <3> QED
      BY <3>2, <3>3
  <2>3. SaneTable(table, heap_start[InitProc])
    <3>1. ASSUME NEW s \in Slot
          PROVE  /\ ~table[s].valid => table[s] = NoEntry
                 /\ table[s].valid /\ ~table[s].write /\ ~table[s].cow
                      => s \in Page /\ s < prog.text + prog.data
      <4>1. CASE s \in KernelStack
        BY <1>9, <4>1
      <4>2. CASE s \in pages
        BY <1>9, <2>2, <4>2
      <4>3. CASE s \in Page \ pages
        BY <1>9, <2>1, <4>3
      <4> QED
        BY <4>1, <4>2, <4>3, SlotFacts
    <3> QED
      BY <1>10, <3>1 DEF SaneTable
  <2> QED
    BY <1>10, <2>1, <2>3 DEF SaneTables, SaneTable
<1>12. ASSUME NEW f \in PageFrames PROVE Accounted(f)
  <2>1. ASSUME NEW q \in Proc, NEW s \in Slot
        PROVE  <<q, s>> \in Uses(f) <=>
                 \/ q = InitProc /\ s \in KernelStack /\ stack[s] = f
                 \/ q = InitProc /\ s \in pages /\ place[s] = f
    <3>1. CASE q # InitProc
      <4>1. ~pt[q][s].valid
        BY <1>10, <3>1 DEF NoTable, NoEntry
      <4> QED
        BY <3>1, <4>1, UsesMember
    <3>2. CASE q = InitProc /\ s \in KernelStack
      <4>1. s \notin pages
        BY <1>4, <3>2, SlotFacts
      <4>2. pt[q][s].valid /\ pt[q][s].frame = stack[s]
        BY <1>9, <1>10, <3>2
      <4> QED
        BY <3>2, <4>1, <4>2, UsesMember
    <3>3. CASE q = InitProc /\ s \in pages
      <4>1. s \notin KernelStack
        BY <1>4, <3>3, SlotFacts
      <4>2. pt[q][s].valid /\ pt[q][s].frame = place[s]
        BY <1>9, <1>10, <3>3
      <4> QED
        BY <3>3, <4>1, <4>2, UsesMember
    <3>4. CASE q = InitProc /\ s \in Page \ pages
      <4>1. s \notin KernelStack
        BY <3>4, SlotFacts
      <4>2. ~pt[q][s].valid
        BY <1>9, <1>10, <3>4 DEF NoEntry
      <4> QED
        BY <3>4, <4>1, <4>2, UsesMember
    <3> QED
      BY <3>1, <3>2, <3>3, <3>4, SlotFacts
  <2>2. /\ frc[f] = IF f \in Image(stack) \cup Image(place) THEN 1 ELSE 0
        /\ f \in free <=> f \notin Image(stack) \cup Image(place)
    BY <1>3 DEF Booted, PageFrames
  <2>3. CASE f \in Image(stack) \cup Image(place)
    <3>1. PICK s \in Slot :
            \/ s \in KernelStack /\ stack[s] = f
            \/ s \in pages /\ place[s] = f
      BY <1>4, <1>7, <2>3
    <3>2. \A t \in pages : place[t] \notin Image(stack)
      BY <1>6 DEF G
    <3>3. \A t \in Slot : \/ t \in KernelStack /\ stack[t] = f
                          \/ t \in pages /\ place[t] = f
                          => t = s
      <4>1. CASE s \in KernelStack /\ stack[s] = f
        <5>1. \A t \in pages : place[t] # f
          BY <1>7, <3>2, <4>1
        <5> QED
          BY <1>5, <4>1, <5>1
      <4>2. CASE s \in pages /\ place[s] = f
        <5>1. \A t \in KernelStack : stack[t] # f
          BY <1>7, <3>2, <4>2
        <5> QED
          BY <1>6, <4>2, <5>1
      <4> QED
        BY <3>1, <4>1, <4>2
    <3>4. {<<InitProc, s>>} \in SUBSET (Proc \X Slot)
      BY <1>10
    <3>5. \A q \in Proc, t \in Slot :
            <<q, t>> \in Uses(f) <=> <<q, t>> \in {<<InitProc, s>>}
      BY <2>1, <3>1, <3>3
    <3>6. Uses(f) = {<<InitProc, s>>}
      BY <3>4, <3>5, UsesEqual, UsesMember
    <3>7. Cardinality(Uses(f)) = 1 /\ OneSlot(Uses(f)) /\ Uses(f) # {}
      BY <3>6, FS_Singleton DEF OneSlot
    <3> QED
      BY <2>2, <2>3, <3>7 DEF Accounted
  <2>4. CASE f \notin Image(stack) \cup Image(place)
    <3>1. \A q \in Proc, t \in Slot : <<q, t>> \notin Uses(f)
      BY <1>7, <2>1, <2>4
    <3>2. {} \in SUBSET (Proc \X Slot) /\ \A r : r \notin {}
      OBVIOUS
    <3>3. Uses(f) = {}
      BY <3>1, <3>2, UsesEqual, UsesMember
    <3> QED
      BY <2>2, <2>4, <3>3 DEF Accounted, OneSlot
  <2> QED
    BY <2>3, <2>4
<1> QED
  BY <1>11, <1>12, InitShape DEF Counts

\* Every step keeps the accounts of all frames.
LEMMA CountsStep ==
  ASSUME Counts, [Next]_vars,
         Cardinality(Proc) <= CHAR_MAX, "overShared" \notin Situations
  PROVE  Counts'
<1>1. Shape'
  BY ShapeStep DEF Counts
<1>2. ASSUME pt' = pt, heap_start' = heap_start, halted' = halted,
             \A f \in PageFrames : /\ frc'[f] = frc[f]
                                   /\ f \in free' <=> f \in free
      PROVE  SaneTables' /\ \A f \in PageFrames : Accounted(f)'
  <2>1. SaneTables'
    BY <1>2 DEF Counts, SaneTables, SaneTable
  <2>2. \A f : Uses(f)' = Uses(f)
    BY <1>2 DEF Uses
  <2> QED
    BY <1>2, <2>1, <2>2, SameAccount DEF Counts
<1>3. CASE UNCHANGED vars
  BY <1>1, <1>2, <1>3 DEF vars, layout, frames, Counts
<1>4. CASE Next
  <2> SUFFICES ASSUME NEW p \in Proc,
                      \/ \E i \in Page, v \in Val : Store(p, i, v)
                      \/ \E i \in Page : MoveSp(p, i)
                      \/ \E i \in Page : handleMemoryTrap(p, i)
                      \/ \E b \in Page : setProcessBrk(p, b)
                      \/ \E prog \in Program : loadProgram(p, prog)
                      \/ \E c \in Proc : forkProcess(p, c)
                      \/ \E c \in Proc : createThread(p, c)
                      \/ createProcessDescriptorFails(p)
                      \/ killProcess(p)
               PROVE  SaneTables' /\ \A f \in PageFrames : Accounted(f)'
    BY <1>1, <1>4 DEF Next, Counts
  <2>1. CASE \E i \in Page, v \in Val : Store(p, i, v)
    BY <1>2, <2>1 DEF Store, layout
  <2>2. CASE \E i \in Page : MoveSp(p, i)
    BY <1>2, <2>2 DEF MoveSp, frames
  <2>3. CASE \E i \in Page : handleMemoryTrap(p, i)
    BY <2>3, TrapCounts
  <2>4. CASE \E b \in Page : setProcessBrk(p, b)
    BY <2>4, BrkCounts
  <2>5. CASE \E prog \in Program : loadProgram(p, prog)
    BY <2>5, LoadCounts
  <2>6. CASE \E c \in Proc : forkProcess(p, c)
    BY <2>6, CopyCounts DEF forkProcess, Runs
  <2>7. CASE \E c \in Proc : createThread(p, c)
    BY <2>7, CopyCounts DEF createThread, Runs
  <2>8. CASE createProcessDescriptorFails(p)
    <3>1. \A f \in PageFrames : /\ frc'[f] = frc[f]
                                /\ f \in free' <=> f \in free
      BY <2>8, TypeFacts
         DEF createProcessDescriptorFails, PageFrames, Counts, Shape
    <3> QED
      BY <1>2, <2>8, <3>1 DEF createProcessDescriptorFails, layout
  <2>9. CASE killProcess(p)
    BY <2>9, KillCounts
  <2> QED
    BY <2>1, <2>2, <2>3, <2>4, <2>5, <2>6, <2>7, <2>8, <2>9
<1> QED
  BY <1>3, <1>4

------------------------------------------------------------------------------
\* Frame 0.  As long as Fork and the creation of threads find their frames nobody
\* frees a null pointer and none gets into a table, so the kernel keeps its text.

NoNull == \A p \in Proc, s \in Slot : pt[p][s].valid => pt[p][s].frame # KernelFrame

KernelKept == KernelFrame \notin free /\ frc[KernelFrame] = 1

\* Giving up entries that are in use leaves frame 0 alone.
LEMMA DropKernel ==
  ASSUME NoNull, frc[KernelFrame] = 1, NEW refs \in SUBSET (Proc \X Slot),
         \A r \in refs : pt[r[1]][r[2]].valid
  PROVE  KernelFrame \notin Frees(refs) /\ Dropped(refs)[KernelFrame] = 1
<1>1. To(refs, KernelFrame) = {}
  <2>1. \A r \in refs : r[1] \in Proc /\ r[2] \in Slot
    OBVIOUS
  <2> QED
    BY <2>1 DEF To, NoNull
<1>2. Cardinality(To(refs, KernelFrame)) = 0
  BY <1>1, FS_EmptySet
<1>3. KernelFrame \notin Frees(refs)
  BY <1>2 DEF Frees
<1>4. Wrap(1) = 1
  BY WrapSmall, MemoryAssumption
<1>5. Dropped(refs)[KernelFrame] = Wrap(frc[KernelFrame] - 0)
  BY <1>2, MemoryAssumption DEF Dropped
<1> QED
  BY <1>3, <1>4, <1>5

\* Allocation hands out frames of the list, which frame 0 is not on.
LEMMA ClaimKernel ==
  ASSUME NEW counts, NEW fs, KernelFrame \notin fs, counts[KernelFrame] = 1
  PROVE  Claimed(counts, fs)[KernelFrame] = 1
BY MemoryAssumption DEF Claimed

\* A step that changes one table and enters no null frame into it.
LEMMA OwnNull ==
  ASSUME TypeOK, NoNull, NEW p \in Proc, NEW table, pt' = [pt EXCEPT ![p] = table],
         \A s \in Slot : table[s].valid => table[s].frame # KernelFrame
  PROVE  NoNull'
<1>1. pt'[p] = table /\ \A q \in Proc \ {p} : pt'[q] = pt[q]
  BY TypeFacts
<1>2. \A q \in Proc, s \in Slot : pt'[q][s].valid => pt'[q][s].frame # KernelFrame
  BY <1>1 DEF NoNull
<1> QED
  BY <1>2 DEF NoNull

\* A memory trap that gives p a frame of the list.
LEMMA EntryNull ==
  ASSUME TypeOK, NoNull, NEW p \in Proc, NEW i \in Slot, NEW e \in Entry,
         pt' = [pt EXCEPT ![p][i] = e], e.frame # KernelFrame
  PROVE  NoNull'
<1>1. \A q \in Proc, s \in Slot : pt'[q][s] = IF q = p /\ s = i THEN e ELSE pt[q][s]
  BY TypeFacts
<1> QED
  BY <1>1 DEF NoNull

\* A memory trap counts down a shared frame and maps a frame of the list.
LEMMA TrapNull ==
  ASSUME Counts, NoNull, KernelKept, NEW p \in Proc, NEW i \in Page,
         handleMemoryTrap(p, i)
  PROVE  NoNull' /\ KernelKept'
<1> DEFINE old == pt[p][i].frame
<1>1. /\ TypeOK /\ i \in Slot /\ pt[p][i] \in Entry /\ old \in Frame
      /\ free \in SUBSET Frame /\ {i} \in SUBSET Slot
  BY SlotFacts, TypeFacts DEF Counts, Shape, Entry
<1>2. ASSUME NEW place \in Placements({i}, free)
      PROVE  /\ place[i] \in free /\ place[i] # KernelFrame
             /\ createPTE(place[i], TRUE, FALSE) \in Entry
             /\ createPTE(place[i], TRUE, FALSE).frame = place[i]
  <2>1. place \in [{i} -> free]
    BY <1>1, <1>2, PlacementFacts
  <2> QED
    BY <1>1, <2>1, CreateType DEF KernelKept
<1>3. pt[p][i].cow => pt[p][i].valid /\ old # KernelFrame
  BY <1>1 DEF Counts, SaneTables, SaneTable, NoEntry, NoNull
<1>4. CASE CopyShared(p, i)
  <2> DEFINE less == [frc EXCEPT ![old] = @ - 1]
  <2>1. less[KernelFrame] = 1
    BY <1>3, <1>4 DEF CopyShared, KernelKept
  <2> HIDE DEF less
  <2>2. CASE free = {} /\ frc' = less /\ Halt
    BY <2>1, <2>2 DEF Halt, KernelKept, NoNull
  <2>3. CASE \E place \in Placements({i}, free) :
               /\ pt' = [pt EXCEPT ![p][i] = createPTE(place[i], TRUE, FALSE)]
               /\ frc' = Claimed(less, {place[i]})
               /\ free' = free \ {place[i]}
    <3>1. PICK place \in Placements({i}, free) :
               /\ pt' = [pt EXCEPT ![p][i] = createPTE(place[i], TRUE, FALSE)]
               /\ frc' = Claimed(less, {place[i]})
               /\ free' = free \ {place[i]}
      BY <2>3
    <3>2. frc'[KernelFrame] = 1
      BY <1>2, <2>1, <3>1, ClaimKernel
    <3>3. NoNull'
      BY <1>1, <1>2, <3>1, EntryNull
    <3> QED
      BY <3>1, <3>2, <3>3 DEF KernelKept
  <2> QED
    BY <1>4, <2>2, <2>3 DEF CopyShared, less
<1>5. CASE UnsetCopyOnWrite(p, i)
  <2>1. /\ pt' = [pt EXCEPT ![p][i] = createPTE(old, TRUE, FALSE)]
        /\ old # KernelFrame /\ frc' = frc /\ free' = free
    BY <1>1, <1>3, <1>5, TypeFacts DEF UnsetCopyOnWrite, frames
  <2>2. createPTE(old, TRUE, FALSE) \in Entry /\ createPTE(old, TRUE, FALSE).frame = old
    BY <1>1, CreateType
  <2>3. NoNull'
    BY <1>1, <2>1, <2>2, EntryNull
  <2> QED
    BY <2>1, <2>3 DEF KernelKept
<1>6. CASE GrowStack(p, i)
  <2>1. CASE frc' = frc /\ Halt
    BY <2>1 DEF Halt, KernelKept, NoNull
  <2>2. CASE \E place \in Placements({i}, free) :
               /\ pt' = [pt EXCEPT ![p][i] = createPTE(place[i], TRUE, FALSE)]
               /\ frc' = Claimed(frc, {place[i]})
               /\ free' = free \ {place[i]}
    <3>1. PICK place \in Placements({i}, free) :
               /\ pt' = [pt EXCEPT ![p][i] = createPTE(place[i], TRUE, FALSE)]
               /\ frc' = Claimed(frc, {place[i]})
               /\ free' = free \ {place[i]}
      BY <2>2
    <3>2. frc'[KernelFrame] = 1
      BY <1>2, <3>1, ClaimKernel DEF KernelKept
    <3>3. NoNull'
      BY <1>1, <1>2, <3>1, EntryNull
    <3> QED
      BY <3>1, <3>2, <3>3 DEF KernelKept
  <2> QED
    BY <1>6, <2>1, <2>2 DEF GrowStack
<1> QED
  BY <1>4, <1>5, <1>6 DEF handleMemoryTrap

\* An entry in use of a program's table is one of the kernel stack's or has a
\* frame of its own.
LEMMA LoadedEntries ==
  ASSUME NEW table \in [Slot -> Entry], NEW prog \in Program,
         NEW S \in SUBSET ProgramPages(prog), NEW place \in [S -> Frame],
         NEW new, new = LoadedTable(table, prog, place)
  PROVE  \A s \in Slot : new[s].valid =>
           \/ s \in KernelStack /\ new[s] = table[s]
           \/ s \in S /\ new[s].frame = place[s]
<1> DEFINE w(s) == s \notin TextPages(prog) \/ DOMAIN place # ProgramPages(prog)
<1>1. S \subseteq Page /\ DOMAIN place = S
  BY ProgramFacts
<1>2. new = [s \in Slot |->
               CASE s \in KernelStack -> table[s]
                 [] s \in S -> createPTE(place[s], w(s), FALSE)
                 [] OTHER -> NoEntry]
  BY <1>1 DEF LoadedTable
<1> HIDE DEF w
<1>3. ASSUME NEW s \in Slot, new[s].valid
      PROVE  \/ s \in KernelStack /\ new[s] = table[s]
             \/ s \in S /\ new[s].frame = place[s]
  <2>1. CASE s \in KernelStack
    <3>1. s \notin S
      BY <1>1, <2>1, SlotFacts
    <3> QED
      BY <1>2, <2>1, <3>1
  <2>2. CASE s \in S
    <3>1. s \notin KernelStack
      BY <1>1, <2>2, SlotFacts
    <3>2. new[s] = createPTE(place[s], w(s), FALSE)
      BY <1>2, <2>2, <3>1
    <3> QED
      BY <2>2, <3>2 DEF createPTE
  <2>3. CASE s \notin KernelStack /\ s \notin S
    <3>1. new[s] = NoEntry
      BY <1>2, <2>3
    <3> QED
      BY <1>3, <3>1 DEF NoEntry
  <2> QED
    BY <2>1, <2>2, <2>3
<1> QED
  BY <1>3

\* Brk maps frames of the list and gives up pages of the heap, all of them mapped.
LEMMA BrkNull ==
  ASSUME Counts, NoNull, KernelKept, NEW p \in Proc, NEW b \in Page,
         setProcessBrk(p, b)
  PROVE  NoNull' /\ KernelKept'
<1>1. /\ TypeOK /\ p \in live /\ Orderly(p) /\ b >= heap_start[p]
      /\ free \in SUBSET Frame
      /\ current_brk[p] \in 0..MAX_PT_LEN /\ heap_start[p] \in 0..MAX_PT_LEN
  BY TypeFacts DEF setProcessBrk, Runs, Counts, Shape
<1>2. CASE increaseBrk(p, b)
  <2> DEFINE pages == current_brk[p]..b-1
             got   == Served(pages, Cardinality(free))
  <2>1. got \in SUBSET Slot
    <3>1. pages \subseteq Page /\ got \subseteq pages
      BY <1>1, MemoryAssumption DEF Served, Page
    <3> QED
      BY <3>1, SlotFacts
  <2>2. PICK place \in Placements(got, free) :
          /\ pt' = [pt EXCEPT ![p] = [s \in Slot |->
                      IF s \in got THEN createPTE(place[s], TRUE, FALSE) ELSE @[s]]]
          /\ frc' = Claimed(frc, Image(place))
          /\ free' = free \ Image(place)
    BY <1>2 DEF increaseBrk
  <2> HIDE DEF got
  <2>3. place \in [got -> free] /\ KernelFrame \notin Image(place)
    <3>1. free \in SUBSET Frame /\ place \in Placements(got, free)
      BY <1>1
    <3> QED
      BY <2>1, <3>1, PlacementFacts DEF KernelKept
  <2> DEFINE table == [s \in Slot |->
                         IF s \in got THEN createPTE(place[s], TRUE, FALSE) ELSE pt[p][s]]
  <2>4. \A s \in Slot : table[s].valid => table[s].frame # KernelFrame
    <3>1. \A f \in free : createPTE(f, TRUE, FALSE).frame # KernelFrame
      BY DEF createPTE, KernelKept
    <3> QED
      BY <2>3, <3>1 DEF NoNull
  <2>5. pt' = [pt EXCEPT ![p] = table]
    BY <2>2
  <2> HIDE DEF table
  <2>6. NoNull'
    BY <1>1, <2>4, <2>5, OwnNull
  <2>7. frc'[KernelFrame] = 1
    BY <2>2, <2>3, ClaimKernel DEF KernelKept
  <2> QED
    BY <2>2, <2>6, <2>7 DEF KernelKept
<1>3. CASE decreaseBrk(p, b)
  <2> DEFINE pages == b..current_brk[p]-1
             refs  == {p} \X pages
             table == [s \in Slot |-> IF s \in pages THEN NoEntry ELSE pt[p][s]]
  <2>1. pt' = [pt EXCEPT ![p] = table] /\ freePageFrames(refs)
    BY <1>3 DEF decreaseBrk
  <2>2. \A s \in pages : s \in Slot /\ pt[p][s].valid
    <3>1. pages \subseteq heap_start[p]..current_brk[p]-1
      BY <1>1, SlotFacts
    <3> QED
      BY <1>1, <3>1, HeapPages
  <2>3. refs \in SUBSET (Proc \X Slot) /\ \A r \in refs : pt[r[1]][r[2]].valid
    BY <2>2
  <2>4. \A s \in Slot : table[s].valid => table[s].frame # KernelFrame
    BY DEF NoNull, NoEntry
  <2> HIDE DEF table, refs
  <2>5. NoNull'
    BY <1>1, <2>1, <2>4, OwnNull
  <2>6. KernelFrame \notin Frees(refs) /\ Dropped(refs)[KernelFrame] = 1
    BY <2>3, DropKernel DEF KernelKept
  <2> QED
    BY <2>1, <2>5, <2>6 DEF freePageFrames, KernelKept
<1> QED
  BY <1>2, <1>3 DEF setProcessBrk

\* Exec gives up pages in use and maps frames of the list.
LEMMA LoadNull ==
  ASSUME Counts, NoNull, KernelKept, NEW p \in Proc, NEW prog \in Program,
         loadProgram(p, prog)
  PROVE  NoNull' /\ KernelKept'
<1> DEFINE old   == {p} \X Valid(p, Page)
           avail == free \cup Frees(old)
           got   == Served(ProgramPages(prog), Cardinality(avail))
<1>1. /\ TypeOK /\ pt[p] \in [Slot -> Entry] /\ free \in SUBSET Frame
      /\ frc \in [Frame -> -CHAR_MAX-1..CHAR_MAX]
  BY TypeFacts DEF Counts, Shape
<1>2. PICK place \in Placements(got, avail) :
        /\ pt' = [pt EXCEPT ![p] = LoadedTable(@, prog, place)]
        /\ frc' = Claimed(Dropped(old), Image(place))
        /\ free' = avail \ Image(place)
  BY DEF loadProgram
<1>3. /\ old \in SUBSET (Proc \X Slot) /\ \A r \in old : pt[r[1]][r[2]].valid
      /\ got \in SUBSET ProgramPages(prog) /\ got \in SUBSET Slot
  BY SlotFacts, ProgramFacts DEF Valid, Served
<1>4. avail \in SUBSET Frame
  BY <1>1, <1>3, DroppedType
<1>5. Dropped(old)[KernelFrame] = 1 /\ KernelFrame \notin avail
  <2> HIDE DEF old
  <2> QED
    BY <1>3, DropKernel DEF KernelKept
<1> HIDE DEF old, avail, got
<1>6. place \in [got -> avail] /\ place \in [got -> Frame] /\ KernelFrame \notin Image(place)
  <2>1. place \in [got -> avail] /\ Image(place) \subseteq avail
    BY <1>3, <1>4, PlacementFacts
  <2> QED
    BY <1>4, <1>5, <2>1
<1> DEFINE table == LoadedTable(pt[p], prog, place)
<1>7. pt' = [pt EXCEPT ![p] = table] /\ table = LoadedTable(pt[p], prog, place)
  BY <1>2
<1> HIDE DEF table
<1>8. table = LoadedTable(pt[p], prog, place) /\ got \in SUBSET ProgramPages(prog)
  BY <1>3, <1>7
<1>9. ASSUME NEW s \in Slot, table[s].valid PROVE table[s].frame # KernelFrame
  <2>1. \/ s \in KernelStack /\ table[s] = pt[p][s]
        \/ s \in got /\ table[s].frame = place[s]
    BY <1>1, <1>6, <1>8, <1>9, LoadedEntries
  <2> QED
    BY <1>5, <1>6, <1>9, <2>1 DEF NoNull
<1>10. NoNull'
  BY <1>1, <1>7, <1>9, OwnNull
<1>11. frc'[KernelFrame] = 1
  BY <1>2, <1>5, <1>6, ClaimKernel
<1> QED
  BY <1>2, <1>5, <1>10, <1>11 DEF KernelKept

\* Fork and the creation of a thread share entries in use and copy the stack into
\* frames of the list.
LEMMA CopyNull ==
  ASSUME Counts, NoNull, KernelKept, "forkShort" \notin Situations,
         NEW p \in live, NEW c \in Proc, NEW leader,
         NEW mark \in BOOLEAN, CopyProcess(p, c, leader, mark)
  PROVE  NoNull' /\ KernelKept'
<1> DEFINE got    == StackFrames(p)
           shared == {p} \X Valid(p, 0..sp[p]-1)
<1>1. /\ Shape /\ TypeOK /\ p \in Proc /\ p # c
      /\ free \in SUBSET Frame
  BY TypeFacts DEF CopyProcess, Counts, Shape
<1>2. PICK kernel \in Placements(KernelStack, free) :
           \E copy \in Placements(got, free \ Image(kernel)) :
             Copied(p, c, mark, kernel, got, copy) /\ CopiedPool(p, kernel, copy)
  BY <1>1, CopyFacts
<1>3. PICK copy \in Placements(got, free \ Image(kernel)) :
             Copied(p, c, mark, kernel, got, copy) /\ CopiedPool(p, kernel, copy)
  BY <1>2
<1>4. got = StackPagesOf(p)
  BY <1>1, CopyFacts
<1>5. /\ kernel \in [KernelStack -> free] /\ copy \in [got -> free]
      /\ KernelFrame \notin Image(kernel) \cup Image(copy)
  BY <1>1, CopyFrames DEF KernelKept
<1>6. ASSUME NEW s \in Slot, pt'[c][s].valid
      PROVE  pt'[c][s].frame # KernelFrame
  <2>1. CASE s \in KernelStack
    <3>1. kernel[s] \in Frame /\ kernel[s] # KernelFrame
      BY <1>1, <1>5, <2>1 DEF KernelKept
    <3>2. pt'[c][s] = createPTE(kernel[s], TRUE, FALSE)
      BY <1>3, <2>1 DEF Copied
    <3>3. createPTE(kernel[s], TRUE, FALSE).frame = kernel[s]
      BY <3>1, CreateType
    <3> QED
      BY <3>1, <3>2, <3>3
  <2>2. CASE s \in 0..sp[p]-1
    <3>1. pt'[c][s] = SharedEntry(pt[p][s], mark) /\ pt[p][s] \in Entry
      BY <1>1, <1>3, <2>2, TypeFacts DEF Copied
    <3> QED
      BY <1>1, <1>6, <3>1, SharedType DEF NoNull
  <2>3. CASE s \in sp[p]..MAX_PT_LEN-1
    <3>1. /\ pt'[c][s] = IF pt[p][s].valid THEN StackCopy(p, got, copy, s) ELSE pt[p][s]
          /\ pt[p][s] \in Entry
      BY <1>1, <1>3, <2>3, TypeFacts DEF Copied
    <3>2. pt[p][s].valid /\ s \in got
      BY <1>4, <1>6, <2>3, <3>1 DEF StackPagesOf, Valid
    <3>3. copy[s] \in Frame /\ copy[s] # KernelFrame
      BY <1>1, <1>5, <3>2 DEF KernelKept
    <3>4. pt'[c][s] = [pt[p][s] EXCEPT !.frame = copy[s]]
      BY <3>1, <3>2 DEF StackCopy
    <3>5. pt[p][s] \in Entry /\ copy[s] \in Frame
      BY <3>1, <3>3
    <3>6. [pt[p][s] EXCEPT !.frame = copy[s]].frame = copy[s]
      BY <3>5, StackCopyType
    <3> QED
      BY <3>3, <3>4, <3>6
  <2> QED
    BY <1>1, <2>1, <2>2, <2>3, SplitAtSp
<1>7. ASSUME NEW s \in Slot, pt'[p][s].valid
      PROVE  pt'[p][s].frame # KernelFrame
  <2>1. /\ pt'[p][s] = SharedEntry(pt[p][s], mark) \/ pt'[p][s] = pt[p][s]
        /\ pt[p][s] \in Entry
    BY <1>1, <1>3, TypeFacts DEF Copied
  <2> QED
    BY <1>1, <1>7, <2>1, SharedType DEF NoNull
<1>8. NoNull'
  <2>1. \A q \in Proc \ {p, c} : pt'[q] = pt[q]
    BY <1>3 DEF Copied
  <2>2. \A q \in Proc, s \in Slot : pt'[q][s].valid => pt'[q][s].frame # KernelFrame
    BY <1>6, <1>7, <2>1 DEF NoNull
  <2> QED
    BY <2>2 DEF NoNull
<1>9. frc'[KernelFrame] = 1
  <2>1. To(shared, KernelFrame) = {}
    <3>1. \A r \in shared : /\ r[1] = p /\ r[2] \in Slot
                             /\ pt[r[1]][r[2]].valid
      BY <1>1, SplitAtSp, SlotFacts DEF Valid
    <3> QED
      BY <1>1, <3>1 DEF To, NoNull
  <2>2. Cardinality(To(shared, KernelFrame)) = 0
    BY <2>1, FS_EmptySet
  <2>3. Wrap(1) = 1
    BY WrapSmall, MemoryAssumption
  <2>4. frc'[KernelFrame] = IF KernelFrame \in Image(kernel) \cup Image(copy) THEN 1
                            ELSE Wrap(frc[KernelFrame] + Cardinality(To(shared, KernelFrame)))
    BY <1>3, MemoryAssumption DEF CopiedPool
  <2> QED
    BY <1>5, <2>2, <2>3, <2>4 DEF KernelKept
<1> QED
  BY <1>3, <1>8, <1>9 DEF KernelKept, CopiedPool

\* Exit gives up entries in use.
LEMMA KillNull ==
  ASSUME Counts, NoNull, KernelKept, NEW p \in Proc, killProcess(p)
  PROVE  NoNull' /\ KernelKept'
<1> DEFINE dead == {p} \cup Threads(p)
           refs == {r \in dead \X Slot :
                      pt[r[1]][r[2]].valid /\ (r[2] \in Page \/ r[1] = p)}
<1>1. live \subseteq Proc
  BY TypeFacts DEF Counts, Shape
<1>2. /\ pt' = [q \in Proc |-> IF q \in dead THEN NoTable ELSE pt[q]]
      /\ freePageFrames(refs)
  BY DEF killProcess
<1>3. refs \in SUBSET (Proc \X Slot) /\ \A r \in refs : pt[r[1]][r[2]].valid
  BY <1>1 DEF Threads
<1>4. NoNull'
  BY <1>2 DEF NoNull, NoTable, NoEntry
<1> HIDE DEF refs
<1>5. KernelFrame \notin Frees(refs) /\ Dropped(refs)[KernelFrame] = 1
  BY <1>3, DropKernel DEF KernelKept
<1> QED
  BY <1>2, <1>4, <1>5 DEF freePageFrames, KernelKept

\* The kernel boots with its text in frame 0 and no null frame in init's table.
LEMMA InitNull == Init => NoNull /\ KernelKept
<1> SUFFICES ASSUME Init PROVE NoNull /\ KernelKept
  OBVIOUS
<1>1. PICK prog \in Program :
        \E stack \in Placements(KernelStack, Frame \ {KernelFrame}) :
        \E place \in Placements(ProgramPages(prog),
                                Frame \ ({KernelFrame} \cup Image(stack))) :
          Booted(prog, stack, place)
  BY InitBooted
<1>2. PICK stack \in Placements(KernelStack, Frame \ {KernelFrame}) :
        \E place \in Placements(ProgramPages(prog),
                                Frame \ ({KernelFrame} \cup Image(stack))) :
          Booted(prog, stack, place)
  BY <1>1
<1> DEFINE F == Frame \ {KernelFrame}
           G == Frame \ ({KernelFrame} \cup Image(stack))
           pages == ProgramPages(prog)
<1>3. PICK place \in Placements(pages, G) : Booted(prog, stack, place)
  BY <1>2
<1>4. /\ KernelStack \in SUBSET Slot /\ pages \in SUBSET Slot
      /\ F \in SUBSET Frame /\ G \in SUBSET Frame
      /\ stack \in Placements(KernelStack, F) /\ place \in Placements(pages, G)
      /\ KernelFrame \notin F /\ KernelFrame \notin G
      /\ pages \in SUBSET ProgramPages(prog)
  BY ProgramFacts, SlotFacts
<1> HIDE DEF F, G, pages
<1>5. stack \in [KernelStack -> F]
  BY <1>4, MemoryAssumption DEF PlacementsAreInjections
<1>6. place \in [pages -> G]
  BY <1>4, MemoryAssumption DEF PlacementsAreInjections
<1>7. /\ stack \in [KernelStack -> Frame] /\ place \in [pages -> Frame]
      /\ \A s \in KernelStack : stack[s] # KernelFrame
      /\ \A s \in pages : place[s] # KernelFrame
  BY <1>4, <1>5, <1>6
<1> DEFINE boot == BootTable(stack)
           table == LoadedTable(boot, prog, place)
<1>8. boot \in [Slot -> Entry] /\ \A s \in KernelStack : boot[s].frame = stack[s]
  BY <1>7, BootType
<1> HIDE DEF boot
<1>9. /\ boot \in [Slot -> Entry] /\ pages \in SUBSET ProgramPages(prog)
      /\ place \in [pages -> Frame] /\ table = LoadedTable(boot, prog, place)
  BY <1>4, <1>7, <1>8
<1>10. pt = [q \in Proc |-> IF q = InitProc THEN table ELSE NoTable]
  BY <1>3 DEF Booted, boot
<1> HIDE DEF table
<1>11. ASSUME NEW s \in Slot, table[s].valid PROVE table[s].frame # KernelFrame
  <2>1. \/ s \in KernelStack /\ table[s] = boot[s]
        \/ s \in pages /\ table[s].frame = place[s]
    BY <1>9, <1>11, LoadedEntries
  <2> QED
    BY <1>7, <1>8, <2>1
<1>12. NoNull
  BY <1>10, <1>11 DEF NoNull, NoTable, NoEntry
<1>13. KernelKept
  BY <1>3, MemoryAssumption DEF Booted, KernelKept
<1> QED
  BY <1>12, <1>13

\* Every step leaves frame 0 alone.
LEMMA NullStep ==
  ASSUME Counts, NoNull, KernelKept, [Next]_vars,
         "noDescriptor" \notin Situations, "forkShort" \notin Situations
  PROVE  NoNull' /\ KernelKept'
<1>1. CASE pt' = pt /\ frc' = frc /\ free' = free
  BY <1>1 DEF NoNull, KernelKept
<1>2. CASE Next
  <2> SUFFICES ASSUME NEW p \in Proc,
                      \/ \E i \in Page, v \in Val : Store(p, i, v)
                      \/ \E i \in Page : MoveSp(p, i)
                      \/ \E i \in Page : handleMemoryTrap(p, i)
                      \/ \E b \in Page : setProcessBrk(p, b)
                      \/ \E prog \in Program : loadProgram(p, prog)
                      \/ \E c \in Proc : forkProcess(p, c)
                      \/ \E c \in Proc : createThread(p, c)
                      \/ createProcessDescriptorFails(p)
                      \/ killProcess(p)
               PROVE  NoNull' /\ KernelKept'
    BY <1>2 DEF Next
  <2>1. CASE \E i \in Page, v \in Val : Store(p, i, v)
    BY <1>1, <2>1 DEF Store
  <2>2. CASE \E i \in Page : MoveSp(p, i)
    BY <1>1, <2>2 DEF MoveSp, frames
  <2>3. CASE \E i \in Page : handleMemoryTrap(p, i)
    BY <2>3, TrapNull
  <2>4. CASE \E b \in Page : setProcessBrk(p, b)
    BY <2>4, BrkNull
  <2>5. CASE \E prog \in Program : loadProgram(p, prog)
    BY <2>5, LoadNull
  <2>6. CASE \E c \in Proc : forkProcess(p, c)
    BY <2>6, CopyNull DEF forkProcess, Runs
  <2>7. CASE \E c \in Proc : createThread(p, c)
    BY <2>7, CopyNull DEF createThread, Runs
  <2>8. CASE createProcessDescriptorFails(p)
    BY <2>8 DEF createProcessDescriptorFails
  <2>9. CASE killProcess(p)
    BY <2>9, KillNull
  <2> QED
    BY <2>1, <2>2, <2>3, <2>4, <2>5, <2>6, <2>7, <2>8, <2>9
<1> QED
  BY <1>1, <1>2 DEF vars, frames

------------------------------------------------------------------------------
\* The theorems about counts.

\* Every step keeps the accounts and leaves frame 0 alone.
LEMMA AccountsStep ==
  ASSUME Counts, NoNull, KernelKept, [Next]_vars, Cardinality(Proc) <= CHAR_MAX,
         {"overShared", "noDescriptor", "forkShort"} \cap Situations = {}
  PROVE  Counts' /\ NoNull' /\ KernelKept'
BY CountsStep, NullStep

\* With at most as many processes as a char can count, the allocator hands out no
\* frame that is in use, frame 0 with the kernel's text included: not when threads
\* are killed with their leader, not when Brk or Exec runs out of frames half way
\* and is called again, and not once the kernel halts.  Two things are excluded:
\* that Fork or the creation of a thread runs out of frames (it frees or maps the
\* frame of the null pointer it got, frame 0, which does get on the list) and that Brk covers entries whose frames others share.
THEOREM FreeFramesUnusedHolds ==
  ASSUME Cardinality(Proc) <= CHAR_MAX,
         {"overShared", "noDescriptor", "forkShort"} \cap Situations = {}
  PROVE  Spec => []FreeFramesUnused
<1>1. Counts /\ NoNull /\ KernelKept => FreeFramesUnused
  <2> SUFFICES ASSUME Counts, KernelKept, NEW f \in free PROVE ~InUse(f)
    BY DEF FreeFramesUnused
  <2>1. f # KernelFrame /\ f \in PageFrames
    BY TypeFacts DEF Counts, Shape, PageFrames, KernelKept
  <2> QED
    BY <2>1 DEF Counts, Accounted, InUse
<1> QED
  BY InitCounts, InitNull, AccountsStep, <1>1, PTL DEF Spec

\* When moreover no leader exits before its threads and Brk covers no page that is
\* mapped (it would lose the frame behind it), the count of every frame is the
\* number of references to it, the kernel's to frame 0 included, whatever the order
\* of forks, traps, Brk, Exec and Exit, and a frame nobody uses is on the list.
THEOREM RefCountsHold ==
  ASSUME Cardinality(Proc) <= CHAR_MAX,
         Situations \subseteq {"threads", "forkThreaded", "outOfFrames"}
  PROVE  Spec => []RefCounts
<1>1. /\ {"overShared", "noDescriptor", "forkShort"} \cap Situations = {}
      /\ Situations \cap {"killThreads", "overMapped"} = {}
  OBVIOUS
<1>2. Counts /\ NoNull /\ KernelKept => RefCounts
  <2> SUFFICES ASSUME Counts, NoNull, KernelKept, ~halted, NEW f \in Frame
               PROVE  /\ frc[f] = Cardinality(Uses(f)) + (IF f = KernelFrame THEN 1 ELSE 0)
                      /\ f \in free <=> ~InUse(f)
    BY DEF RefCounts
  <2>1. CASE f = KernelFrame
    <3>1. Uses(f) = {}
      <4>1. \A r \in Proc \X Slot : pt[r[1]][r[2]].valid => pt[r[1]][r[2]].frame # f
        BY <2>1 DEF NoNull
      <4> QED
        BY <4>1 DEF Uses
    <3>2. Cardinality(Uses(f)) = 0
      BY <3>1, FS_EmptySet
    <3> QED
      BY <2>1, <3>2 DEF KernelKept, InUse
  <2>2. CASE f # KernelFrame
    <3>1. Accounted(f) /\ (Cardinality(Uses(f)) = 0 <=> Uses(f) = {})
      BY <2>2, UsesFinite DEF Counts, PageFrames
    <3> QED
      BY <1>1, <2>2, <3>1, UsesFinite DEF Accounted, InUse
  <2> QED
    BY <2>1, <2>2
<1> QED
  BY <1>1, InitCounts, InitNull, AccountsStep, <1>2, PTL DEF Spec

------------------------------------------------------------------------------
\* Sharing between processes, while frames suffice and nobody but leaders without
\* threads forks or exits.

Sharing == Counts /\ NoNull /\ OnlyThreadsShareWritable

\* No process but p has an entry in use for f.
UsedByNoOther(p, f) ==
  \A q \in Proc \ {p}, j \in Slot : pt[q][j].valid => pt[q][j].frame # f

\* A frame on the list is used by nobody, one about to be freed by nobody else.
LEMMA FreshUnused ==
  ASSUME Counts, NEW p \in Proc, NEW f \in free, f # KernelFrame
  PROVE  UsedByNoOther(p, f)
<1>1. f \in PageFrames
  BY TypeFacts DEF Counts, Shape, PageFrames
<1>2. Uses(f) = {}
  BY <1>1 DEF Counts, Accounted
<1> QED
  BY <1>2, UsesMember DEF UsedByNoOther

\* A step of p that keeps entries of its table, takes write permission from them,
\* or gives p frames that nobody else uses.
LEMMA OwnSharing ==
  ASSUME Sharing, Counts', NEW p \in live, NEW table \in [Slot -> Entry],
         pt' = [pt EXCEPT ![p] = table],
         live' = live, thread_leader' = thread_leader,
         \A s \in Slot : table[s].valid =>
           \/ /\ pt[p][s].valid /\ table[s].frame = pt[p][s].frame
              /\ table[s].write => pt[p][s].write
           \/ /\ table[s].frame # KernelFrame
              /\ UsedByNoOther(p, table[s].frame)
  PROVE  Sharing'
<1>1. /\ p \in Proc /\ live \subseteq Proc /\ pt'[p] = table
      /\ \A q \in Proc \ {p} : pt'[q] = pt[q]
  BY TypeFacts DEF Sharing, Counts, Shape
<1>2. NoNull'
  <2>1. \A s \in Slot : table[s].valid => table[s].frame # KernelFrame
    BY <1>1 DEF Sharing, NoNull
  <2>2. \A q \in Proc, s \in Slot : pt'[q][s].valid => pt'[q][s].frame # KernelFrame
    BY <1>1, <2>1 DEF Sharing, NoNull
  <2> QED
    BY <2>2 DEF NoNull
<1>3. \A q \in live : Group(q)' = Group(q)
  BY DEF Group
<1>4. ASSUME NEW a \in live, NEW b \in live, Group(a) # Group(b),
             NEW i \in Page, NEW j \in Page,
             pt'[a][i].valid, pt'[a][i].write, pt'[b][j].valid,
             pt'[a][i].frame = pt'[b][j].frame
      PROVE  FALSE
  <2>1. a # b /\ i \in Slot /\ j \in Slot /\ a \in Proc /\ b \in Proc
    BY <1>1, <1>4, SlotFacts
  <2>2. pt[a][i].valid /\ pt[a][i].write /\ pt[b][j].valid
          => pt[a][i].frame # pt[b][j].frame
    BY <1>4 DEF Sharing, OnlyThreadsShareWritable
  <2>3. CASE a = p
    BY <1>1, <1>4, <2>1, <2>2, <2>3 DEF UsedByNoOther
  <2>4. CASE b = p
    BY <1>1, <1>4, <2>1, <2>2, <2>4 DEF UsedByNoOther
  <2>5. CASE a # p /\ b # p
    BY <1>1, <1>4, <2>1, <2>2, <2>5
  <2> QED
    BY <2>3, <2>4, <2>5
<1>5. OnlyThreadsShareWritable'
  BY <1>3, <1>4 DEF OnlyThreadsShareWritable
<1> QED
  BY <1>2, <1>5 DEF Sharing

\* The case of one changed entry, which is in use afterwards.
LEMMA EntrySharing ==
  ASSUME Sharing, Counts', NEW p \in live, NEW i \in Slot, NEW e \in Entry,
         pt' = [pt EXCEPT ![p][i] = e],
         live' = live, thread_leader' = thread_leader,
         e.frame # KernelFrame, UsedByNoOther(p, e.frame)
  PROVE  Sharing'
<1> DEFINE table == [pt[p] EXCEPT ![i] = e]
<1>1. /\ pt[p] \in [Slot -> Entry] /\ p \in Proc
      /\ pt \in [Proc -> [Slot -> Entry]]
  BY TypeFacts DEF Sharing, Counts, Shape
<1>2. table \in [Slot -> Entry] /\ pt' = [pt EXCEPT ![p] = table]
  BY <1>1
<1>3. \A s \in Slot : table[s] = IF s = i THEN e ELSE pt[p][s]
  BY <1>1
<1> HIDE DEF table
<1>4. \A s \in Slot : table[s].valid =>
           \/ /\ pt[p][s].valid /\ table[s].frame = pt[p][s].frame
              /\ table[s].write => pt[p][s].write
           \/ /\ table[s].frame # KernelFrame
              /\ UsedByNoOther(p, table[s].frame)
  BY <1>3
<1> QED
  BY <1>2, <1>4, OwnSharing

\* A step that changes neither tables nor groups.
LEMMA SameSharing ==
  ASSUME Sharing, Counts', pt' = pt, live' = live, thread_leader' = thread_leader
  PROVE  Sharing'
BY DEF Sharing, NoNull, OnlyThreadsShareWritable, Group

\* A memory trap makes a page writable only for the last user or on a fresh copy.
LEMMA TrapSharing ==
  ASSUME Sharing, Counts', NEW p \in Proc, NEW i \in Page, handleMemoryTrap(p, i)
  PROVE  Sharing'
<1> DEFINE old == pt[p][i].frame
<1>1. /\ Counts /\ p \in live /\ i \in Slot /\ pt[p][i] \in Entry
      /\ old \in Frame /\ KernelFrame \notin free /\ ~halted
      /\ free \in SUBSET Frame
  <2>1. i \in Slot
    BY SlotFacts
  <2> QED
    BY <2>1, TypeFacts
       DEF handleMemoryTrap, Runs, Sharing, Counts, Shape, Entry
<1>2. ASSUME NEW place \in Placements({i}, free),
             pt' = [pt EXCEPT ![p][i] = createPTE(place[i], TRUE, FALSE)],
             live' = live, thread_leader' = thread_leader
      PROVE  Sharing'
  <2>1. place \in [{i} -> free]
    <3>1. free \in SUBSET Frame /\ {i} \in SUBSET Slot
      BY <1>1
    <3> QED
      BY <3>1, PlacementFacts
  <2>2. place[i] \in free /\ place[i] \in Frame /\ place[i] # KernelFrame
    BY <1>1, <2>1
  <2> DEFINE e == createPTE(place[i], TRUE, FALSE)
  <2>3. e \in Entry /\ e.frame = place[i] /\ UsedByNoOther(p, place[i])
    BY <1>1, <2>2, CreateType, FreshUnused
  <2>4. pt' = [pt EXCEPT ![p][i] = e]
    BY <1>2
  <2> HIDE DEF e
  <2> QED
    BY <1>1, <1>2, <2>2, <2>3, <2>4, EntrySharing
<1>3. CASE CopyShared(p, i)
  BY <1>2, <1>3, SameSharing DEF CopyShared, Halt
<1>4. CASE UnsetCopyOnWrite(p, i)
  <2>1. pt[p][i].valid /\ pt[p][i].cow /\ frc[old] <= 1
    BY <1>1, <1>4 DEF UnsetCopyOnWrite, Counts, SaneTables, SaneTable, NoEntry
  <2>2. old \in PageFrames /\ <<p, i>> \in Uses(old)
    BY <1>1, <2>1, UsesMember DEF Sharing, NoNull, PageFrames
  <2>3. Uses(old) = {<<p, i>>}
    <3>1. frc[old] = Cardinality(Uses(old))
      BY <1>1, <2>2 DEF Counts, Accounted
    <3>2. Cardinality(Uses(old)) = 1
      BY <2>1, <2>2, <3>1, UsesFinite
    <3>3. PICK r : Uses(old) = {r}
      BY <3>2, UsesFinite, FS_Singleton
    <3> QED
      BY <2>2, <3>3
  <2>4. UsedByNoOther(p, old)
    <3>1. ASSUME NEW q \in Proc \ {p}, NEW j \in Slot, pt[q][j].valid, pt[q][j].frame = old
          PROVE  FALSE
      <4>1. <<q, j>> \in Uses(old)
        BY <3>1, UsesMember
      <4> QED
        BY <2>3, <4>1
    <3> QED
      BY <3>1 DEF UsedByNoOther
  <2> DEFINE e == createPTE(old, TRUE, FALSE)
  <2>5. e \in Entry /\ e.frame = old
    BY <1>1, CreateType
  <2>6. /\ pt' = [pt EXCEPT ![p][i] = e]
        /\ live' = live /\ thread_leader' = thread_leader
    BY <1>1, <1>4, TypeFacts DEF UnsetCopyOnWrite, Counts, Shape
  <2> HIDE DEF e
  <2>7. e.frame # KernelFrame /\ UsedByNoOther(p, e.frame)
    BY <2>2, <2>4, <2>5 DEF PageFrames
  <2> QED
    BY <1>1, <2>5, <2>6, <2>7, EntrySharing
<1>5. CASE GrowStack(p, i)
  BY <1>2, <1>5, SameSharing DEF GrowStack, Halt
<1> QED
  BY <1>3, <1>4, <1>5 DEF handleMemoryTrap

\* Brk maps fresh frames, which nobody shares.
LEMMA BrkSharing ==
  ASSUME Sharing, Counts', NEW p \in Proc, NEW b \in Page, setProcessBrk(p, b)
  PROVE  Sharing'
<1>1. /\ Counts /\ TypeOK /\ p \in live /\ KernelFrame \notin free
      /\ free \in SUBSET Frame /\ pt[p] \in [Slot -> Entry]
      /\ live' = live /\ thread_leader' = thread_leader
  BY TypeFacts DEF setProcessBrk, Runs, Sharing, Counts, Shape
<1>2. CASE increaseBrk(p, b)
  <2> DEFINE pages == current_brk[p]..b-1
             got   == Served(pages, Cardinality(free))
  <2>1. got \in SUBSET Slot
    <3>1. current_brk[p] \in 0..MAX_PT_LEN
      BY <1>1, TypeFacts
    <3>2. pages \subseteq Page /\ got \subseteq pages
      BY <3>1, MemoryAssumption DEF Served, Page
    <3> QED
      BY <3>2, SlotFacts
  <2>2. PICK place \in Placements(got, free) :
          pt' = [pt EXCEPT ![p] = [s \in Slot |->
                   IF s \in got THEN createPTE(place[s], TRUE, FALSE) ELSE @[s]]]
    BY <1>2 DEF increaseBrk
  <2> HIDE DEF got
  <2>3. place \in [got -> free]
    <3>1. free \in SUBSET Frame /\ place \in Placements(got, free)
      BY <1>1
    <3> QED
      BY <2>1, <3>1, PlacementFacts
  <2> DEFINE table == [s \in Slot |->
                         IF s \in got THEN createPTE(place[s], TRUE, FALSE) ELSE pt[p][s]]
  <2>4. /\ \A s \in got : table[s] \in Entry /\ table[s].frame = place[s]
        /\ \A s \in Slot \ got : table[s] = pt[p][s]
    <3>1. \A f \in free : /\ createPTE(f, TRUE, FALSE) \in Entry
                          /\ createPTE(f, TRUE, FALSE).frame = f
      BY <1>1, CreateType
    <3> QED
      BY <2>1, <2>3, <3>1
  <2>5. table \in [Slot -> Entry]
    BY <1>1, <2>4
  <2>6. pt' = [pt EXCEPT ![p] = table]
    BY <2>2
  <2> HIDE DEF table
  <2>7. \A s \in got : place[s] # KernelFrame /\ UsedByNoOther(p, place[s])
    <3>1. \A f \in free : f # KernelFrame /\ UsedByNoOther(p, f)
      BY <1>1, FreshUnused
    <3> QED
      BY <2>3, <3>1
  <2>8. \A s \in Slot : table[s].valid =>
           \/ /\ pt[p][s].valid /\ table[s].frame = pt[p][s].frame
              /\ table[s].write => pt[p][s].write
           \/ /\ table[s].frame # KernelFrame
              /\ UsedByNoOther(p, table[s].frame)
    BY <2>4, <2>7
  <2> QED
    BY <1>1, <2>5, <2>6, <2>8, OwnSharing
<1>3. CASE decreaseBrk(p, b)
  <2> DEFINE pages == b..current_brk[p]-1
             table == [s \in Slot |-> IF s \in pages THEN NoEntry ELSE pt[p][s]]
  <2>1. pt' = [pt EXCEPT ![p] = table]
    BY <1>3 DEF decreaseBrk
  <2>2. NoEntry \in Entry /\ ~NoEntry.valid
    BY MemoryAssumption DEF NoEntry, Entry
  <2>3. table \in [Slot -> Entry]
    BY <1>1, <2>2
  <2>4. \A s \in Slot : table[s] = NoEntry \/ table[s] = pt[p][s]
    OBVIOUS
  <2> HIDE DEF table
  <2>5. \A s \in Slot : table[s].valid =>
           \/ /\ pt[p][s].valid /\ table[s].frame = pt[p][s].frame
              /\ table[s].write => pt[p][s].write
           \/ /\ table[s].frame # KernelFrame
              /\ UsedByNoOther(p, table[s].frame)
    BY <2>2, <2>4
  <2> QED
    BY <1>1, <2>1, <2>3, <2>5, OwnSharing
<1> QED
  BY <1>2, <1>3 DEF setProcessBrk

\* Exec maps fresh frames, which nobody shares.
LEMMA LoadSharing ==
  ASSUME Sharing, Counts', Cardinality(Proc) <= CHAR_MAX,
         NEW p \in Proc, NEW prog \in Program, loadProgram(p, prog)
  PROVE  Sharing'
<1> DEFINE old   == {p} \X Valid(p, Page)
           avail == free \cup Frees(old)
           got   == Served(ProgramPages(prog), Cardinality(avail))
<1>1. /\ Counts /\ TypeOK /\ p \in live /\ ~halted /\ KernelFrame \notin free
      /\ pt[p] \in [Slot -> Entry]
      /\ live' = live /\ thread_leader' = thread_leader
  BY TypeFacts DEF loadProgram, Runs, Sharing, Counts, Shape
<1>2. PICK place \in Placements(got, avail) :
        pt' = [pt EXCEPT ![p] = LoadedTable(@, prog, place)]
  BY DEF loadProgram
<1>3. /\ old \in SUBSET (Proc \X Slot)
      /\ got \in SUBSET ProgramPages(prog) /\ got \in SUBSET Slot
      /\ got \in SUBSET Page
  BY SlotFacts, ProgramFacts DEF Valid, Served
<1>4. avail \in SUBSET Frame
  BY <1>1, <1>3, DroppedType, TypeFacts
<1>5. KernelFrame \notin avail
  <2>1. To(old, KernelFrame) = {}
    <3>1. \A r \in old : pt[r[1]][r[2]].frame # KernelFrame
      BY SlotFacts DEF Valid, Sharing, NoNull
    <3> QED
      BY <3>1 DEF To
  <2>2. Cardinality(To(old, KernelFrame)) = 0
    BY <2>1, FS_EmptySet
  <2>3. KernelFrame \notin Frees(old)
    BY <2>2 DEF Frees
  <2> QED
    BY <1>1, <2>3
<1>6. \A f \in avail : f # KernelFrame /\ UsedByNoOther(p, f)
  <2>1. ASSUME NEW f \in avail PROVE f # KernelFrame /\ UsedByNoOther(p, f)
    <3>1. f \in PageFrames
      BY <1>4, <1>5 DEF PageFrames
    <3>2. CASE f \in free
      BY <1>1, <3>1, <3>2, FreshUnused DEF PageFrames
    <3>3. CASE f \in Frees(old)
      <4>1. Uses(f) \ old = {}
        BY <1>1, <1>3, <3>1, <3>3, DropCount
      <4>2. ASSUME NEW q \in Proc \ {p}, NEW j \in Slot, pt[q][j].valid, pt[q][j].frame = f
            PROVE  FALSE
        <5>1. <<q, j>> \in Uses(f) /\ <<q, j>> \notin old
          BY <4>2, UsesMember
        <5> QED
          BY <4>1, <5>1
      <4> QED
        BY <3>1, <4>2 DEF UsedByNoOther, PageFrames
    <3> QED
      BY <3>2, <3>3
  <2> QED
    BY <2>1
<1> HIDE DEF old, avail, got
<1>7. place \in [got -> avail] /\ place \in [got -> Frame]
  <2>1. place \in [got -> avail]
    BY <1>3, <1>4, PlacementFacts
  <2> QED
    BY <1>4, <2>1
<1> DEFINE table == LoadedTable(pt[p], prog, place)
<1>8. pt' = [pt EXCEPT ![p] = table] /\ table = LoadedTable(pt[p], prog, place)
  BY <1>2
<1> HIDE DEF table
<1>9. /\ pt[p] \in [Slot -> Entry] /\ got \in SUBSET ProgramPages(prog)
      /\ place \in [got -> Frame]
  BY <1>1, <1>3, <1>7
<1>10. table = LoadedTable(pt[p], prog, place)
  BY <1>8
<1>11. table \in [Slot -> Entry]
  BY <1>9, <1>10, LoadedFacts
<1>12. \A s \in Slot : table[s].valid =>
          \/ s \in KernelStack /\ table[s] = pt[p][s]
          \/ s \in got /\ table[s].frame = place[s]
  BY <1>9, <1>10, LoadedEntries
<1>13. \A s \in Slot : table[s].valid =>
           \/ /\ pt[p][s].valid /\ table[s].frame = pt[p][s].frame
              /\ table[s].write => pt[p][s].write
           \/ /\ table[s].frame # KernelFrame
              /\ UsedByNoOther(p, table[s].frame)
  <2>1. ASSUME NEW s \in Slot, table[s].valid
        PROVE  \/ /\ pt[p][s].valid /\ table[s].frame = pt[p][s].frame
                  /\ table[s].write => pt[p][s].write
               \/ /\ table[s].frame # KernelFrame
                  /\ UsedByNoOther(p, table[s].frame)
    <3>1. CASE s \in KernelStack /\ table[s] = pt[p][s]
      BY <2>1, <3>1
    <3>2. CASE s \in got /\ table[s].frame = place[s]
      BY <1>6, <1>7, <3>2
    <3> QED
      BY <1>12, <2>1, <3>1, <3>2
  <2> QED
    BY <2>1
<1> QED
  BY <1>1, <1>8, <1>11, <1>13, OwnSharing

\* Exit takes uses away and adds none.
LEMMA KillSharing ==
  ASSUME Sharing, Counts', NEW p \in Proc, killProcess(p)
  PROVE  Sharing'
<1> DEFINE dead == {p} \cup Threads(p)
<1>1. /\ live' = live \ dead
      /\ thread_leader' = [q \in Proc |-> IF q \in dead THEN NoProc ELSE thread_leader[q]]
      /\ pt' = [q \in Proc |-> IF q \in dead THEN NoTable ELSE pt[q]]
      /\ live \subseteq Proc
  BY TypeFacts DEF killProcess, Sharing, Counts, Shape
<1> HIDE DEF dead
<1>2. \A q \in live' : /\ q \in live /\ q \in Proc
                       /\ pt'[q] = pt[q] /\ Group(q)' = Group(q)
  BY <1>1 DEF Group
<1>3. NoNull'
  <2>1. ASSUME NEW q \in Proc, NEW s \in Slot, pt'[q][s].valid
        PROVE  pt'[q][s].frame # KernelFrame
    <3>1. CASE q \in dead
      BY <1>1, <2>1, <3>1 DEF NoTable, NoEntry
    <3>2. CASE q \notin dead
      BY <1>1, <2>1, <3>2 DEF Sharing, NoNull
    <3> QED
      BY <3>1, <3>2
  <2> QED
    BY <2>1 DEF NoNull
<1>4. OnlyThreadsShareWritable'
  BY <1>2 DEF OnlyThreadsShareWritable, Sharing
<1> QED
  BY <1>3, <1>4 DEF Sharing

\* A forked process shares nothing it may write, and neither does its parent; a
\* thread shares with its group.
LEMMA CopySharing ==
  ASSUME Sharing, Counts', "forkShort" \notin Situations,
         NEW p \in live, NEW c \in Proc, NEW leader \in {NoProc, p},
         NEW mark \in BOOLEAN, CopyProcess(p, c, leader, mark),
         KernelFrame \notin free, thread_leader[p] = NoProc,
         leader = NoProc => mark /\ Threads(p) = {}
  PROVE  Sharing'
<1>1. /\ Shape /\ TypeOK /\ Counts /\ p \in Proc /\ p # c /\ c \in Proc \ live
      /\ live \subseteq Proc /\ live' = live \cup {c}
      /\ thread_leader' = [thread_leader EXCEPT ![c] = leader]
      /\ NoProc \notin Proc
  BY TypeFacts, MemoryAssumption DEF CopyProcess, Sharing, Counts, Shape
<1> DEFINE got   == StackFrames(p)
           below == 0..sp[p]-1
           rest  == sp[p]..MAX_PT_LEN-1
<1>2. PICK kernel \in Placements(KernelStack, free) :
           \E copy \in Placements(got, free \ Image(kernel)) :
             Copied(p, c, mark, kernel, got, copy)
  BY <1>1, CopyFacts
<1>3. PICK copy \in Placements(got, free \ Image(kernel)) :
             Copied(p, c, mark, kernel, got, copy)
  BY <1>2
<1>4. got = StackPagesOf(p)
  BY <1>1, CopyFacts
<1>5. kernel \in [KernelStack -> free] /\ copy \in [got -> free]
  BY <1>1, CopyFrames
<1>6. \A f \in free : f # KernelFrame /\ f \in Frame
                      /\ \A q \in Proc, j \in Slot : pt[q][j].valid => pt[q][j].frame # f
  <2>1. ASSUME NEW f \in free
        PROVE  f # KernelFrame /\ f \in Frame
               /\ \A q \in Proc, j \in Slot : pt[q][j].valid => pt[q][j].frame # f
    <3>1. f # KernelFrame /\ f \in Frame /\ f \in PageFrames
      BY <1>1, TypeFacts DEF PageFrames
    <3>2. Uses(f) = {}
      BY <1>1, <3>1 DEF Counts, Accounted
    <3> QED
      BY <3>1, <3>2, UsesMember
  <2> QED
    BY <2>1
<1>7. ASSUME NEW q \in Proc \ {c}, NEW s \in Slot
      PROVE  /\ pt'[q][s].valid = pt[q][s].valid
             /\ pt'[q][s].frame = pt[q][s].frame
             /\ pt'[q][s].write => pt[q][s].write
             /\ q = p /\ mark /\ s \in below => ~(pt'[q][s].valid /\ pt'[q][s].write)
  <2>1. CASE q # p
    <3>1. pt'[q] = pt[q]
      BY <1>3, <2>1 DEF Copied
    <3> QED
      BY <2>1, <3>1
  <2>2. CASE q = p /\ s \notin below
    <3>1. pt'[q][s] = pt[q][s]
      BY <1>3, <2>2 DEF Copied
    <3> QED
      BY <2>2, <3>1
  <2>3. CASE q = p /\ s \in below
    <3>1. pt'[q][s] = SharedEntry(pt[q][s], mark) /\ pt[q][s] \in Entry
      BY <1>1, <1>3, <2>3, TypeFacts DEF Copied
    <3> QED
      BY <3>1, SharedType
  <2> QED
    BY <2>1, <2>2, <2>3
<1>8. ASSUME NEW s \in below
      PROVE  /\ pt'[c][s].valid = pt[p][s].valid
             /\ pt'[c][s].frame = pt[p][s].frame
             /\ pt'[c][s].write => pt[p][s].write
             /\ mark => ~(pt'[c][s].valid /\ pt'[c][s].write)
  <2>1. s \in Slot
    BY <1>1, SplitAtSp, SlotFacts
  <2>2. pt'[c][s] = SharedEntry(pt[p][s], mark) /\ pt[p][s] \in Entry
    BY <1>1, <1>3, <2>1, TypeFacts DEF Copied
  <2> QED
    BY <2>2, SharedType
<1>9. ASSUME NEW s \in Slot, s \notin below, pt'[c][s].valid
      PROVE  pt'[c][s].frame \in free
  <2>1. CASE s \in KernelStack
    <3>1. kernel[s] \in Frame /\ kernel[s] \in free
      BY <1>5, <1>6, <2>1
    <3>2. pt'[c][s] = createPTE(kernel[s], TRUE, FALSE)
      BY <1>3, <2>1 DEF Copied
    <3>3. createPTE(kernel[s], TRUE, FALSE).frame = kernel[s]
      BY <3>1, CreateType
    <3> QED
      BY <3>1, <3>2, <3>3
  <2>2. CASE s \in rest
    <3>1. /\ pt'[c][s] = IF pt[p][s].valid THEN StackCopy(p, got, copy, s) ELSE pt[p][s]
          /\ pt[p][s] \in Entry
      BY <1>1, <1>3, <2>2, TypeFacts DEF Copied
    <3>2. pt[p][s].valid
      BY <1>9, <3>1
    <3>3. s \in got
      BY <1>4, <2>2, <3>2 DEF StackPagesOf, Valid
    <3>4. copy[s] \in Frame /\ copy[s] \in free
      BY <1>5, <1>6, <3>3
    <3>5. pt'[c][s] = [pt[p][s] EXCEPT !.frame = copy[s]]
      BY <3>1, <3>2, <3>3 DEF StackCopy
    <3>6. pt[p][s] \in Entry /\ copy[s] \in Frame
      BY <3>1, <3>4
    <3>7. [pt[p][s] EXCEPT !.frame = copy[s]].frame = copy[s]
      BY <3>6, StackCopyType
    <3> QED
      BY <3>4, <3>5, <3>7
  <2> QED
    BY <1>1, <1>9, <2>1, <2>2, SplitAtSp
<1>10. NoNull'
  <2>1. ASSUME NEW q \in Proc, NEW s \in Slot, pt'[q][s].valid
        PROVE  pt'[q][s].frame # KernelFrame
    <3>1. CASE q # c
      BY <1>7, <2>1, <3>1 DEF Sharing, NoNull
    <3>2. CASE q = c /\ s \in below
      BY <1>1, <1>8, <2>1, <3>2 DEF Sharing, NoNull
    <3>3. CASE q = c /\ s \notin below
      BY <1>6, <1>9, <2>1, <3>3
    <3> QED
      BY <3>1, <3>2, <3>3
  <2> QED
    BY <2>1 DEF NoNull
<1>11. /\ \A q \in live : Group(q)' = Group(q)
       /\ Group(p) = p
       /\ Group(c)' = IF leader = NoProc THEN c ELSE p
       /\ leader = NoProc => \A q \in live \ {p} : Group(q) # p
  <2>1. \A q \in live : thread_leader'[q] = thread_leader[q]
    BY <1>1, TypeFacts
  <2>2. thread_leader'[c] = leader
    BY <1>1, TypeFacts
  <2>3. leader = NoProc => \A q \in live \ {p} : thread_leader[q] # p
    BY DEF Threads
  <2> QED
    BY <1>1, <2>1, <2>2, <2>3 DEF Group
<1>12. ASSUME NEW a \in live', NEW b \in live', Group(a)' # Group(b)',
              NEW i \in Page, NEW j \in Page,
              pt'[a][i].valid, pt'[a][i].write, pt'[b][j].valid,
              pt'[a][i].frame = pt'[b][j].frame
       PROVE  FALSE
  <2>1. a # b /\ i \in Slot /\ j \in Slot /\ a \in Proc /\ b \in Proc
    BY <1>1, <1>12, SlotFacts
  <2>2. \A x, y \in live : Group(x) # Group(y) =>
          \A s, t \in Page : pt[x][s].valid /\ pt[x][s].write /\ pt[y][t].valid
            => pt[x][s].frame # pt[y][t].frame
    BY DEF Sharing, OnlyThreadsShareWritable
  <2>3. CASE a # c /\ b # c
    <3>1. a \in live /\ b \in live /\ Group(a) # Group(b)
      BY <1>1, <1>11, <1>12, <2>3
    <3>2. pt[a][i].valid /\ pt[a][i].write /\ pt[b][j].valid
          /\ pt[a][i].frame = pt[b][j].frame
      BY <1>7, <1>12, <2>1, <2>3
    <3> QED
      BY <2>2, <3>1, <3>2
  <2>4. CASE a = c
    <3>1. b \in live /\ pt[b][j].valid /\ pt[b][j].frame = pt'[c][i].frame
      BY <1>1, <1>7, <1>12, <2>1, <2>4
    <3>2. i \in below
      BY <1>6, <1>9, <1>12, <2>1, <2>4, <3>1
    <3>3. ~mark /\ pt[p][i].valid /\ pt[p][i].write /\ pt[p][i].frame = pt[b][j].frame
      BY <1>8, <1>12, <2>4, <3>1, <3>2
    <3>4. Group(b) # Group(p)
      BY <1>11, <1>12, <2>4, <3>1, <3>3
    <3> QED
      BY <2>2, <3>1, <3>3, <3>4
  <2>5. CASE b = c
    <3>1. a \in live /\ pt[a][i].valid /\ pt[a][i].write
          /\ pt[a][i].frame = pt'[c][j].frame
      BY <1>1, <1>7, <1>12, <2>1, <2>5
    <3>2. j \in below
      BY <1>6, <1>9, <1>12, <2>1, <2>5, <3>1
    <3>3. pt[p][j].valid /\ pt[p][j].frame = pt[a][i].frame
      BY <1>8, <1>12, <2>5, <3>1, <3>2
    <3>4. CASE a = p
      <4>1. mark
        BY <1>11, <1>12, <2>5, <3>4
      <4>2. i = j
        <5> DEFINE f == pt[p][j].frame
        <5>1. f \in Frame /\ f # KernelFrame
          BY <1>1, <2>1, <3>3, TypeFacts DEF Sharing, NoNull, Entry
        <5>2. OneSlot(Uses(f))
          BY <1>1, <5>1 DEF Counts, Accounted, PageFrames
        <5>3. <<p, i>> \in Uses(f) /\ <<p, j>> \in Uses(f)
          BY <1>1, <2>1, <3>1, <3>3, <3>4, UsesMember
        <5> HIDE DEF f
        <5>4. <<p, i>>[2] = <<p, j>>[2]
          BY <5>2, <5>3 DEF OneSlot
        <5> QED
          BY <5>4
      <4> QED
        BY <1>1, <1>7, <1>12, <2>1, <3>2, <3>4, <4>1, <4>2
    <3>5. CASE a # p
      <4>1. Group(a) # Group(p)
        BY <1>11, <1>12, <2>5, <3>1, <3>5
      <4> QED
        BY <2>1, <2>2, <3>1, <3>3, <4>1
    <3> QED
      BY <3>4, <3>5
  <2> QED
    BY <2>1, <2>3, <2>4, <2>5
<1>13. OnlyThreadsShareWritable'
  BY <1>12 DEF OnlyThreadsShareWritable
<1> QED
  BY <1>10, <1>13 DEF Sharing

\* init has the memory to itself.
LEMMA InitSharing == Init => Sharing
<1> SUFFICES ASSUME Init PROVE Sharing
  OBVIOUS
<1>1. OnlyThreadsShareWritable
  BY DEF Init, OnlyThreadsShareWritable
<1> QED
  BY <1>1, InitCounts, InitNull DEF Sharing

\* Every step keeps writable frames within one group of threads.
LEMMA SharingStep ==
  ASSUME Sharing, [Next]_vars, Cardinality(Proc) <= CHAR_MAX,
         Situations \subseteq {"threads", "killThreads"}
  PROVE  Sharing'
<1>1. /\ "overShared" \notin Situations /\ "forkShort" \notin Situations
      /\ "forkThreaded" \notin Situations /\ "noDescriptor" \notin Situations
  OBVIOUS
<1>2. Counts'
  BY <1>1, CountsStep DEF Sharing
<1>3. CASE UNCHANGED vars
  BY <1>2, <1>3, SameSharing DEF vars
<1>4. CASE Next
  <2> SUFFICES ASSUME NEW p \in Proc,
                      \/ \E i \in Page, v \in Val : Store(p, i, v)
                      \/ \E i \in Page : MoveSp(p, i)
                      \/ \E i \in Page : handleMemoryTrap(p, i)
                      \/ \E b \in Page : setProcessBrk(p, b)
                      \/ \E prog \in Program : loadProgram(p, prog)
                      \/ \E c \in Proc : forkProcess(p, c)
                      \/ \E c \in Proc : createThread(p, c)
                      \/ createProcessDescriptorFails(p)
                      \/ killProcess(p)
               PROVE  Sharing'
    BY <1>4 DEF Next
  <2>1. CASE \E i \in Page, v \in Val : Store(p, i, v)
    BY <1>2, <2>1, SameSharing DEF Store
  <2>2. CASE \E i \in Page : MoveSp(p, i)
    BY <1>2, <2>2, SameSharing DEF MoveSp
  <2>3. CASE \E i \in Page : handleMemoryTrap(p, i)
    BY <1>2, <2>3, TrapSharing
  <2>4. CASE \E b \in Page : setProcessBrk(p, b)
    BY <1>2, <2>4, BrkSharing
  <2>5. CASE \E prog \in Program : loadProgram(p, prog)
    BY <1>2, <2>5, LoadSharing
  <2>6. CASE \E c \in Proc : forkProcess(p, c)
    <3>1. PICK c \in Proc : forkProcess(p, c)
      BY <2>6
    <3>2. /\ p \in live /\ KernelFrame \notin free /\ thread_leader[p] = NoProc
          /\ Threads(p) = {} /\ CopyProcess(p, c, NoProc, TRUE)
      BY <1>1, <3>1 DEF forkProcess, Runs
    <3> QED
      BY <1>1, <1>2, <3>2, CopySharing
  <2>7. CASE \E c \in Proc : createThread(p, c)
    <3>1. PICK c \in Proc : createThread(p, c)
      BY <2>7
    <3>2. /\ p \in live /\ KernelFrame \notin free /\ thread_leader[p] = NoProc
          /\ p # NoProc /\ CopyProcess(p, c, p, FALSE)
      BY <3>1, MemoryAssumption DEF createThread, Runs
    <3> QED
      BY <1>1, <1>2, <3>2, CopySharing
  <2>8. CASE createProcessDescriptorFails(p)
    BY <1>1, <2>8 DEF createProcessDescriptorFails
  <2>9. CASE killProcess(p)
    BY <1>2, <2>9, KillSharing
  <2> QED
    BY <2>1, <2>2, <2>3, <2>4, <2>5, <2>6, <2>7, <2>8, <2>9
<1> QED
  BY <1>3, <1>4

\* While Fork, Brk and Exec find the frames they ask for, no leader forks while
\* it has threads and Brk covers no page that is mapped, a frame some process may
\* write is in no table outside its group: Fork took the permission from parent
\* and child, and the traps give it back only to the last user or with a copy.
THEOREM OnlyThreadsShareWritableHolds ==
  ASSUME Cardinality(Proc) <= CHAR_MAX,
         Situations \subseteq {"threads", "killThreads"}
  PROVE  Spec => []OnlyThreadsShareWritable
BY InitSharing, SharingStep, PTL DEF Spec, Sharing

------------------------------------------------------------------------------
\* Memory implements PrivateMemory: while programs keep clear of every one of
\* the Situations, page sharing and copy-on-write cannot be seen.

\* What the program of q sees in page i.
View(q, i) == IF pt[q][i].valid THEN <<mem[pt[q][i].frame]>> ELSE <<>>

\* The inductive invariant: frames on the list have been forgotten, so that the
\* pages a process gets hold nothing of anybody else's, and there are no threads.
Apart ==
  /\ Sharing
  /\ \A f \in free : mem[f] = Junk
  /\ \A p \in Proc : thread_leader[p] = NoProc

\* The invariant of Memory, with the parts the steps need taken out.
LEMMA ApartFacts ==
  ASSUME Apart
  PROVE  /\ Sharing /\ Counts /\ Shape /\ TypeOK /\ SaneTables /\ NoNull
         /\ live \subseteq Proc
         /\ pt \in [Proc -> [Slot -> Entry]]
         /\ free \in SUBSET Frame
         /\ mem \in [Frame -> Val]
         /\ \A p \in Proc : Threads(p) = {}
<1>1. Sharing /\ Counts /\ Shape /\ TypeOK /\ SaneTables /\ NoNull
  BY DEF Apart, Sharing, Counts, Shape
<1>2. \A p \in Proc : Threads(p) = {}
  BY <1>1, TypeFacts, MemoryAssumption DEF Threads, Apart
<1> QED
  BY <1>1, <1>2, TypeFacts

\* A frame in use is a page frame and not on the list.
LEMMA UsedFrame ==
  ASSUME Sharing, NEW q \in Proc, NEW i \in Slot, pt[q][i].valid
  PROVE  /\ pt[q][i].frame \in PageFrames
         /\ pt[q][i].frame \notin free
<1>1. pt[q][i] \in Entry
  BY TypeFacts DEF Sharing, Counts, Shape
<1>2. pt[q][i].frame \in PageFrames
  BY <1>1 DEF Entry, PageFrames, Sharing, NoNull
<1>3. <<q, i>> \in Uses(pt[q][i].frame)
  BY UsesMember
<1> QED
  BY <1>2, <1>3 DEF Sharing, Counts, Accounted

\* Giving up references frees no frame that has another user.
LEMMA KeptFrame ==
  ASSUME Sharing, ~halted, Cardinality(Proc) <= CHAR_MAX,
         NEW refs \in SUBSET (Proc \X Slot),
         NEW q \in Proc, NEW i \in Slot, pt[q][i].valid, <<q, i>> \notin refs
  PROVE  pt[q][i].frame \notin Frees(refs)
<1> DEFINE f == pt[q][i].frame
<1>1. f \in PageFrames /\ Counts
  BY UsedFrame DEF Sharing
<1>2. <<q, i>> \in Uses(f) /\ <<q, i>> \notin refs
  BY UsesMember
<1> HIDE DEF f
<1>3. Uses(f) \ refs # {}
  BY <1>2
<1>4. f \notin Frees(refs)
  BY <1>1, <1>3, DropCount
<1> QED
  BY <1>4 DEF f

\* The image of a process is the same when its pages keep their frames and the
\* frames their contents.
LEMMA SameView ==
  ASSUME NEW q, NEW i,
         pt'[q][i].valid <=> pt[q][i].valid,
         pt[q][i].valid => /\ pt'[q][i].frame = pt[q][i].frame
                           /\ mem'[pt[q][i].frame] = mem[pt[q][i].frame]
  PROVE  View(q, i)' = View(q, i)
BY DEF View

\* The pages of the two modules are the same, and the image of a process is made
\* of its views.
LEMMA Images ==
  /\ Private!Page = Page
  /\ visible = [q \in Proc |-> [i \in Page |-> View(q, i)]]
  /\ visible' = [q \in Proc |-> [i \in Page |-> View(q, i)']]
BY DEF Private!Page, Page, visible, View

\* A step that changes no page any process sees is a stutter of PrivateMemory.
LEMMA SameImages ==
  ASSUME \A q \in Proc, i \in Page : View(q, i)' = View(q, i)
  PROVE  visible' = visible
BY Images

\* A step that changes the image of p only.
LEMMA OwnImage ==
  ASSUME NEW p \in Proc, NEW image,
         \A q \in Proc \ {p}, i \in Page : View(q, i)' = View(q, i),
         image = [i \in Page |-> View(p, i)']
  PROVE  visible' = [visible EXCEPT ![p] = image]
<1> DEFINE v  == [q \in Proc |-> [i \in Page |-> View(q, i)]]
           w  == [q \in Proc |-> [i \in Page |-> View(q, i)']]
<1>1. \A q \in Proc \ {p} : w[q] = v[q]
  OBVIOUS
<1>2. w[p] = image
  OBVIOUS
<1>3. w = [v EXCEPT ![p] = image]
  BY <1>1, <1>2
<1> QED
  BY <1>3, Images

------------------------------------------------------------------------------
\* Loading.

\* A program that got all its pages sees the image it is promised.
LEMMA LoadedView ==
  ASSUME NEW table \in [Slot -> Entry], NEW prog \in Program,
         NEW place \in [ProgramPages(prog) -> Frame],
         \A s, t \in ProgramPages(prog) : place[s] = place[t] => s = t,
         NEW contents \in [Frame -> Val],
         \A s \in ProgramPages(prog) : contents[place[s]] = Junk,
         NEW new, new = LoadedTable(table, prog, place),
         NEW m, m = LoadedMem(contents, prog, place)
  PROVE  [i \in Page |-> IF new[i].valid THEN <<m[new[i].frame]>> ELSE <<>>]
           = Private!LoadedImage(prog)
<1> DEFINE pages == ProgramPages(prog)
           filled == TextPages(prog) \cup DataPages(prog)
<1>1. /\ prog.text \in Nat /\ prog.data \in Nat /\ prog.stack \in Nat
      /\ prog.text + prog.data + prog.stack < MAX_PT_LEN
  BY ProgramFacts
<1>2. \A i \in Page : /\ i \in filled <=> i < prog.text + prog.data
                      /\ i \in pages <=> \/ i < prog.text + prog.data
                                         \/ i >= MAX_PT_LEN - prog.stack
                      /\ i \in Slot
  BY <1>1, SlotFacts, MemoryAssumption
     DEF ProgramPages, TextPages, DataPages, StackPages, Page
<1>3. pages \in SUBSET Page /\ filled \in SUBSET pages /\ DOMAIN place = pages
  BY ProgramFacts DEF ProgramPages
<1>4. \A f \in Frame : m[f] = IF \E s \in filled : place[s] = f THEN Loaded
                                                               ELSE contents[f]
  BY <1>3 DEF LoadedMem
<1> DEFINE w(s) == s \notin TextPages(prog) \/ DOMAIN place # ProgramPages(prog)
<1>5. new = [s \in Slot |-> CASE s \in KernelStack -> table[s]
                             [] s \in pages -> createPTE(place[s], w(s), FALSE)
                             [] OTHER -> NoEntry]
  BY <1>3 DEF LoadedTable
<1> HIDE DEF w
<1>6. /\ \A i \in pages : new[i].valid /\ new[i].frame = place[i]
      /\ \A i \in Page \ pages : ~new[i].valid
  <2>1. \A i \in Page : i \in Slot /\ i \notin KernelStack
    BY SlotFacts
  <2>2. \A i \in pages : new[i] = createPTE(place[i], w(i), FALSE)
    BY <1>3, <1>5, <2>1
  <2>3. \A i \in Page \ pages : new[i] = NoEntry
    BY <1>5, <2>1
  <2>4. ASSUME NEW i \in pages PROVE new[i].valid /\ new[i].frame = place[i]
    <3>1. new[i] = createPTE(place[i], w(i), FALSE)
      BY <2>2
    <3>2. /\ createPTE(place[i], w(i), FALSE).valid
          /\ createPTE(place[i], w(i), FALSE).frame = place[i]
      BY DEF createPTE
    <3> QED
      BY <3>1, <3>2
  <2> QED
    BY <2>3, <2>4 DEF NoEntry
<1> HIDE DEF pages, filled
<1>7. ASSUME NEW i \in Page
      PROVE  (IF new[i].valid THEN <<m[new[i].frame]>> ELSE <<>>)
               = CASE i < prog.text + prog.data -> <<Loaded>>
                   [] i >= MAX_PT_LEN - prog.stack -> <<Junk>>
                   [] OTHER -> <<>>
  <2>1. CASE i \in filled
    <3>1. i \in pages /\ new[i].valid /\ new[i].frame = place[i] /\ place[i] \in Frame
      BY <1>3, <1>6, <2>1 DEF pages
    <3>2. m[place[i]] = Loaded
      BY <1>4, <2>1, <3>1
    <3>3. (IF new[i].valid THEN <<m[new[i].frame]>> ELSE <<>>) = <<Loaded>>
      BY <3>1, <3>2
    <3>4. i < prog.text + prog.data /\ ~(i >= MAX_PT_LEN - prog.stack)
      BY <1>1, <1>2, <2>1, MemoryAssumption DEF Page
    <3> QED
      BY <3>3, <3>4
  <2>2. CASE i \in pages /\ i \notin filled
    <3>1. new[i].valid /\ new[i].frame = place[i] /\ place[i] \in Frame
      BY <1>6, <2>2 DEF pages
    <3>2. ~\E s \in filled : place[s] = place[i]
      BY <1>3, <2>2 DEF pages
    <3>3. m[place[i]] = Junk
      BY <1>4, <2>2, <3>1, <3>2 DEF pages
    <3>4. ~(i < prog.text + prog.data) /\ i >= MAX_PT_LEN - prog.stack
      BY <1>2, <2>2
    <3>5. (IF new[i].valid THEN <<m[new[i].frame]>> ELSE <<>>) = <<Junk>>
      BY <3>1, <3>3
    <3> QED
      BY <3>4, <3>5
  <2>3. CASE i \notin pages
    <3>1. ~(i < prog.text + prog.data) /\ ~(i >= MAX_PT_LEN - prog.stack)
      BY <1>2, <2>3
    <3> QED
      BY <1>6, <2>3, <3>1
  <2> QED
    BY <1>3, <2>1, <2>2, <2>3
<1> QED
  BY <1>7, Images DEF Private!LoadedImage

------------------------------------------------------------------------------
\* The steps.

\* A store is seen by the process that makes it and by nobody else.
LEMMA StoreStep ==
  ASSUME Apart, Sharing', NEW p \in Proc, NEW i \in Page, NEW v \in Val, Store(p, i, v)
  PROVE  Apart' /\ p \in live /\ Private!Write(p, i, v)
<1> DEFINE f == pt[p][i].frame
<1>1. /\ p \in live /\ i \in Slot /\ pt[p][i].valid /\ pt[p][i].write
      /\ pt' = pt /\ live' = live /\ thread_leader' = thread_leader /\ free' = free
      /\ mem' = [mem EXCEPT ![f] = v]
      /\ mem \in [Frame -> Val] /\ free \in SUBSET Frame
  BY SlotFacts, ApartFacts DEF Store, Runs
<1>2. f \in PageFrames /\ f \notin free /\ f \in Frame
  BY <1>1, ApartFacts, UsedFrame DEF PageFrames
<1>3. ASSUME NEW q \in Proc, NEW j \in Page, pt[q][j].valid, pt[q][j].frame = f
      PROVE  q = p /\ j = i
  <2>1. j \in Slot
    BY SlotFacts
  <2>2. q \in live
    BY <1>3, <2>1, ApartFacts DEF TypeOK, NoTable, NoEntry
  <2>3. q = p
    <3>1. Group(p) = p /\ Group(q) = q
      BY DEF Apart, Group
    <3> QED
      BY <1>1, <1>3, <2>2, <3>1 DEF Apart, Sharing, OnlyThreadsShareWritable
  <2>4. j = i
    <3>1. OneSlot(Uses(f))
      BY <1>2, ApartFacts DEF Counts, Accounted
    <3>2. <<p, i>> \in Uses(f) /\ <<p, j>> \in Uses(f)
      BY <1>1, <1>3, <2>1, <2>3, UsesMember
    <3> HIDE DEF f
    <3>3. <<p, i>>[2] = <<p, j>>[2]
      BY <3>1, <3>2 DEF OneSlot
    <3> QED
      BY <3>3
  <2> QED
    BY <2>3, <2>4
<1>4. \A q \in Proc, j \in Page :
        pt[q][j].valid => pt[q][j].frame \in Frame
  BY SlotFacts, ApartFacts DEF Entry
<1>5. ASSUME NEW q \in Proc, NEW j \in Page
      PROVE  View(q, j)' = IF q = p /\ j = i THEN <<v>> ELSE View(q, j)
  <2>1. CASE q = p /\ j = i
    BY <1>1, <1>2, <2>1 DEF View
  <2>2. CASE ~(q = p /\ j = i)
    <3>1. pt[q][j].valid => pt[q][j].frame # f
      BY <1>3, <2>2
    <3> QED
      BY <1>1, <1>4, <2>2, <3>1 DEF View
  <2> QED
    BY <2>1, <2>2
<1>6. visible[p][i] # <<>>
  BY <1>1 DEF visible
<1>7. visible' = [visible EXCEPT ![p][i] = <<v>>]
  <2> DEFINE new == [visible[p] EXCEPT ![i] = <<v>>]
  <2>1. visible[p] = [j \in Page |-> View(p, j)]
    BY Images
  <2>2. new = [j \in Page |-> View(p, j)']
    BY <1>5, <2>1
  <2>3. \A q \in Proc \ {p}, j \in Page : View(q, j)' = View(q, j)
    BY <1>5
  <2> HIDE DEF new
  <2>4. visible' = [visible EXCEPT ![p] = new]
    BY <2>2, <2>3, OwnImage
  <2> QED
    BY <2>4 DEF new
<1>8. Apart'
  <2>1. \A g \in free' : mem'[g] = Junk
    BY <1>1, <1>2 DEF Apart
  <2> QED
    BY <1>1, <2>1 DEF Apart
<1> QED
  BY <1>1, <1>6, <1>7, <1>8 DEF Private!Write

\* The memory trap: a program sees a new page of stack, and nothing of what is
\* done about copy-on-write.
LEMMA TrapStep ==
  ASSUME Apart, Sharing', NEW p \in Proc, NEW i \in Page, handleMemoryTrap(p, i)
  PROVE  Apart' /\ p \in live
         /\ live' = live /\ (visible' = visible \/ Private!Grow(p, {i}))
<1> DEFINE old == pt[p][i].frame
<1>1. /\ p \in live /\ i \in Slot /\ pt[p][i] \in Entry
      /\ pt \in [Proc -> [Slot -> Entry]]
      /\ mem \in [Frame -> Val] /\ free \in SUBSET Frame
      /\ ~(pt[p][i].valid /\ pt[p][i].write)
      /\ \A f \in free : mem[f] = Junk
  BY SlotFacts, ApartFacts DEF handleMemoryTrap, Runs, Apart
<1>2. ASSUME NEW place \in Placements({i}, free), NEW contents,
             pt' = [pt EXCEPT ![p][i] = createPTE(place[i], TRUE, FALSE)],
             free' = free \ {place[i]},
             mem' = [mem EXCEPT ![place[i]] = contents],
             live' = live, thread_leader' = thread_leader
      PROVE  /\ Apart'
             /\ \A q \in Proc, j \in Page :
                  View(q, j)' = IF q = p /\ j = i THEN <<contents>> ELSE View(q, j)
  <2>1. place[i] \in free /\ place[i] \in Frame
    <3>1. free \in SUBSET Frame /\ {i} \in SUBSET Slot
      BY <1>1
    <3>2. place \in [{i} -> free]
      BY <3>1, PlacementFacts
    <3> QED
      BY <1>1, <3>2
  <2>2. Apart'
    <3>1. \A f \in free' : mem'[f] = Junk
      BY <1>1, <1>2, <2>1
    <3> QED
      BY <1>2, <3>1 DEF Apart
  <2>3. ASSUME NEW q \in Proc, NEW j \in Page
        PROVE  View(q, j)' = IF q = p /\ j = i THEN <<contents>> ELSE View(q, j)
    <3>1. j \in Slot
      BY SlotFacts
    <3>2. CASE q = p /\ j = i
      <4>1. pt'[p][i] = createPTE(place[i], TRUE, FALSE)
        BY <1>1, <1>2, ApartFacts
      <4>2. pt'[p][i].valid /\ pt'[p][i].frame = place[i]
        BY <2>1, <4>1, CreateType
      <4>3. mem'[place[i]] = contents
        BY <1>1, <1>2, <2>1
      <4> QED
        BY <3>2, <4>2, <4>3 DEF View
    <3>3. CASE ~(q = p /\ j = i)
      <4>1. pt'[q][j] = pt[q][j]
        BY <1>1, <1>2, <3>1, <3>3, ApartFacts
      <4>2. pt[q][j].valid => pt[q][j].frame # place[i] /\ pt[q][j].frame \in Frame
        BY <2>1, <3>1, UsedFrame, ApartFacts DEF PageFrames
      <4>3. pt[q][j].valid => mem'[pt[q][j].frame] = mem[pt[q][j].frame]
        BY <1>1, <1>2, <4>2
      <4> QED
        BY <3>3, <4>1, <4>3 DEF View
    <3> QED
      BY <3>2, <3>3
  <2> QED
    BY <2>2, <2>3
<1>3. ASSUME pt' = pt, mem' = mem, free' = free, live' = live,
             thread_leader' = thread_leader
      PROVE  Apart' /\ visible' = visible
  BY <1>3 DEF Apart, visible
<1>4. CASE CopyShared(p, i)
  <2>1. pt[p][i].valid
    BY <1>1, <1>4, ApartFacts DEF CopyShared, SaneTables, SaneTable, NoEntry
  <2>2. CASE free = {} /\ Halt
    BY <1>1, <1>3, <2>2 DEF Halt
  <2>3. CASE \E place \in Placements({i}, free) :
               /\ pt' = [pt EXCEPT ![p][i] = createPTE(place[i], TRUE, FALSE)]
               /\ free' = free \ {place[i]}
               /\ mem' = [mem EXCEPT ![place[i]] = mem[old]]
               /\ live' = live /\ thread_leader' = thread_leader
    <3>1. PICK place \in Placements({i}, free) :
               /\ pt' = [pt EXCEPT ![p][i] = createPTE(place[i], TRUE, FALSE)]
               /\ free' = free \ {place[i]}
               /\ mem' = [mem EXCEPT ![place[i]] = mem[old]]
               /\ live' = live /\ thread_leader' = thread_leader
      BY <2>3
    <3>2. /\ Apart'
          /\ \A q \in Proc, j \in Page :
               View(q, j)' = IF q = p /\ j = i THEN <<mem[old]>> ELSE View(q, j)
      BY <1>2, <3>1
    <3>3. View(p, i) = <<mem[old]>>
      BY <2>1 DEF View
    <3>4. \A q \in Proc, j \in Page : View(q, j)' = View(q, j)
      BY <3>2, <3>3
    <3> QED
      BY <1>1, <3>1, <3>2, <3>4, SameImages
  <2> QED
    BY <1>4, <2>2, <2>3 DEF CopyShared
<1>5. CASE UnsetCopyOnWrite(p, i)
  <2>1. /\ pt[p][i].valid /\ old \in Frame
        /\ pt' = [pt EXCEPT ![p][i] = createPTE(old, TRUE, FALSE)]
        /\ mem' = mem /\ free' = free
        /\ live' = live /\ thread_leader' = thread_leader
    BY <1>1, <1>5, ApartFacts
       DEF UnsetCopyOnWrite, SaneTables, SaneTable, NoEntry, frames, Entry
  <2>2. ASSUME NEW q \in Proc, NEW j \in Page PROVE View(q, j)' = View(q, j)
    <3>1. CASE q = p /\ j = i
      <4>1. pt'[p][i] = createPTE(old, TRUE, FALSE)
        BY <1>1, <2>1, ApartFacts
      <4>2. createPTE(old, TRUE, FALSE).valid /\ createPTE(old, TRUE, FALSE).frame = old
        BY <2>1, CreateType
      <4>3. /\ (pt'[p][i].valid <=> pt[p][i].valid) /\ pt'[p][i].frame = old
            /\ mem'[old] = mem[old]
        BY <2>1, <4>1, <4>2
      <4> QED
        BY <3>1, <4>3, SameView
    <3>2. CASE ~(q = p /\ j = i)
      <4>1. pt'[q][j] = pt[q][j]
        BY <1>1, <2>1, <3>2, SlotFacts, ApartFacts
      <4>2. mem' = mem
        BY <2>1
      <4> QED
        BY <4>1, <4>2, SameView
    <3> QED
      BY <3>1, <3>2
  <2>3. Apart'
    BY <2>1 DEF Apart
  <2> QED
    BY <1>1, <2>1, <2>2, <2>3, SameImages
<1>6. CASE GrowStack(p, i)
  <2>1. ~pt[p][i].valid
    <3>1. Orderly(p) /\ SaneTable(pt[p], heap_start[p]) /\ p \in Proc
      BY <1>1, ApartFacts DEF Shape, SaneTables
    <3>2. i >= sp[p] /\ ~pt[p][i].cow
      BY <1>6 DEF GrowStack
    <3>3. ~(i < heap_start[p])
      <4>1. /\ sp[p] \in 0..MAX_PT_LEN /\ heap_start[p] \in 0..MAX_PT_LEN
            /\ current_brk[p] \in 0..MAX_PT_LEN
        BY <3>1, ApartFacts, TypeFacts
      <4> QED
        BY <3>1, <3>2, <4>1, MemoryAssumption DEF Orderly, Page
    <3> QED
      BY <1>1, <3>1, <3>2, <3>3 DEF SaneTable
  <2>2. CASE free = {} /\ Halt
    BY <1>1, <1>3, <2>2 DEF Halt
  <2>3. CASE \E place \in Placements({i}, free) :
               /\ pt' = [pt EXCEPT ![p][i] = createPTE(place[i], TRUE, FALSE)]
               /\ free' = free \ {place[i]} /\ mem' = mem
               /\ live' = live /\ thread_leader' = thread_leader
    <3>1. PICK place \in Placements({i}, free) :
               /\ pt' = [pt EXCEPT ![p][i] = createPTE(place[i], TRUE, FALSE)]
               /\ free' = free \ {place[i]} /\ mem' = mem
               /\ live' = live /\ thread_leader' = thread_leader
      BY <2>3
    <3>2. place[i] \in free
      <4>1. free \in SUBSET Frame /\ {i} \in SUBSET Slot
        BY <1>1
      <4>2. place \in [{i} -> free]
        BY <4>1, PlacementFacts
      <4> QED
        BY <4>2
    <3>3. mem' = [mem EXCEPT ![place[i]] = Junk]
      BY <1>1, <3>1, <3>2
    <3>4. /\ Apart'
          /\ \A q \in Proc, j \in Page :
               View(q, j)' = IF q = p /\ j = i THEN <<Junk>> ELSE View(q, j)
      BY <1>2, <3>1, <3>3
    <3> DEFINE new == [j \in Page |-> IF j \in {i} THEN <<Junk>> ELSE visible[p][j]]
    <3>5. new = [j \in Page |-> View(p, j)']
      BY <3>4, Images
    <3>6. \A q \in Proc \ {p}, j \in Page : View(q, j)' = View(q, j)
      BY <3>4
    <3> HIDE DEF new
    <3>7. visible' = [visible EXCEPT ![p] = new]
      BY <3>5, <3>6, OwnImage
    <3>8. visible[p][i] = <<>>
      BY <2>1 DEF visible
    <3>9. Private!Grow(p, {i})
      BY <3>1, <3>7, <3>8, Images DEF Private!Grow, new
    <3> QED
      BY <1>1, <3>1, <3>4, <3>9
  <2> QED
    BY <1>6, <2>2, <2>3 DEF GrowStack
<1> QED
  BY <1>4, <1>5, <1>6 DEF handleMemoryTrap

\* Brk: pages with undefined contents come, or pages go.
LEMMA BrkStep ==
  ASSUME Apart, Sharing', Situations = {}, Cardinality(Proc) <= CHAR_MAX,
         NEW p \in Proc, NEW b \in Page, setProcessBrk(p, b)
  PROVE  /\ Apart' /\ p \in live
         /\ \E S \in SUBSET Page : Private!Grow(p, S) \/ Private!Shrink(p, S)
<1>1. /\ p \in live /\ ~halted /\ Orderly(p)
      /\ live' = live /\ thread_leader' = thread_leader
      /\ pt \in [Proc -> [Slot -> Entry]] /\ current_brk[p] \in 0..MAX_PT_LEN
      /\ free \in SUBSET Frame /\ mem \in [Frame -> Val]
      /\ \A f \in free : mem[f] = Junk
  BY ApartFacts, TypeFacts DEF setProcessBrk, Runs, Shape, Apart
<1>2. CASE increaseBrk(p, b)
  <2> DEFINE pages == current_brk[p]..b-1
  <2>1. pages \in SUBSET Page /\ pages \in SUBSET Slot
    <3>1. pages \subseteq Page
      BY <1>1, MemoryAssumption DEF Page
    <3> QED
      BY <3>1, SlotFacts
  <2>2. Valid(p, pages) = {} /\ mem' = mem
    <3>1. mem' = mem /\ MayCover(p, pages)
      BY <1>2 DEF increaseBrk
    <3> QED
      BY <3>1 DEF MayCover
  <2>3. PICK place \in Placements(pages, free) :
          /\ pt' = [pt EXCEPT ![p] = [s \in Slot |->
                     IF s \in pages THEN createPTE(place[s], TRUE, FALSE) ELSE @[s]]]
          /\ free' = free \ Image(place)
    BY <1>2 DEF increaseBrk
  <2> HIDE DEF pages
  <2>4. \A s \in pages : place[s] \in free
    <3>1. place \in [pages -> free]
      BY <1>1, <2>1, PlacementFacts
    <3> QED
      BY <3>1
  <2>5. Apart'
    BY <1>1, <2>2, <2>3 DEF Apart
  <2>6. ASSUME NEW q \in Proc, NEW j \in Page
        PROVE  View(q, j)' = IF q = p /\ j \in pages THEN <<Junk>> ELSE View(q, j)
    <3>1. j \in Slot
      BY SlotFacts
    <3>2. CASE q = p /\ j \in pages
      <4>1. pt'[p][j] = createPTE(place[j], TRUE, FALSE)
        BY <1>1, <2>3, <3>1, <3>2
      <4>2. place[j] \in Frame /\ mem'[place[j]] = Junk
        BY <1>1, <2>2, <2>4, <3>2
      <4>3. pt'[p][j].valid /\ pt'[p][j].frame = place[j]
        BY <4>1, <4>2, CreateType
      <4> QED
        BY <3>2, <4>2, <4>3 DEF View
    <3>3. CASE ~(q = p /\ j \in pages)
      <4>1. pt'[q][j] = pt[q][j]
        BY <1>1, <2>3, <3>1, <3>3
      <4>2. View(q, j)' = View(q, j)
        BY <2>2, <4>1, SameView
      <4> QED
        BY <3>3, <4>2
    <3> QED
      BY <3>2, <3>3
  <2> DEFINE new == [j \in Page |-> IF j \in pages THEN <<Junk>> ELSE visible[p][j]]
  <2>7. new = [j \in Page |-> View(p, j)']
    BY <1>1, <2>6, Images, ApartFacts
  <2>8. \A q \in Proc \ {p}, j \in Page : View(q, j)' = View(q, j)
    BY <2>6
  <2> HIDE DEF new
  <2>9. visible' = [visible EXCEPT ![p] = new]
    BY <2>7, <2>8, OwnImage
  <2>10. \A j \in pages : visible[p][j] = <<>>
    BY <1>1, <2>1, <2>2, ApartFacts DEF visible, Valid
  <2>11. Private!Grow(p, pages)
    BY <1>1, <2>9, <2>10, Images DEF Private!Grow, new
  <2> QED
    BY <1>1, <2>1, <2>5, <2>11
<1>3. CASE decreaseBrk(p, b)
  <2> DEFINE pages == b..current_brk[p]-1
             refs  == {p} \X pages
  <2>1. pages \in SUBSET Page
    BY <1>1, MemoryAssumption DEF Page
  <2>2. refs \in SUBSET (Proc \X Slot)
    BY <2>1, SlotFacts
  <2>3. /\ pt' = [pt EXCEPT ![p] = [s \in Slot |-> IF s \in pages THEN NoEntry ELSE @[s]]]
        /\ free' = free \cup Frees(refs) /\ mem' = Forgotten(mem, Frees(refs))
    BY <1>3 DEF decreaseBrk, freePageFrames
  <2>4. \A r : r \in refs <=> r \in {p} \X pages
    OBVIOUS
  <2> HIDE DEF pages, refs
  <2>5. Apart'
    <3>1. \A f \in free' : mem'[f] = Junk
      BY <1>1, <2>2, <2>3 DEF Forgotten, Frees
    <3> QED
      BY <1>1, <3>1 DEF Apart
  <2>6. ASSUME NEW q \in Proc, NEW j \in Page
        PROVE  View(q, j)' = IF q = p /\ j \in pages THEN <<>> ELSE View(q, j)
    <3>1. j \in Slot
      BY SlotFacts
    <3>2. CASE q = p /\ j \in pages
      <4>1. pt'[p][j] = NoEntry
        BY <1>1, <2>3, <3>1, <3>2
      <4> QED
        BY <3>2, <4>1 DEF View, NoEntry
    <3>3. CASE ~(q = p /\ j \in pages)
      <4>1. pt'[q][j] = pt[q][j]
        BY <1>1, <2>3, <3>1, <3>3
      <4>2. <<q, j>> \notin refs
        BY <2>4, <3>3
      <4>3. ASSUME pt[q][j].valid
            PROVE  mem'[pt[q][j].frame] = mem[pt[q][j].frame]
        <5>1. pt[q][j].frame \in Frame
          BY <3>1, <4>3, UsedFrame, ApartFacts DEF PageFrames
        <5>2. pt[q][j].frame \notin Frees(refs)
          BY <1>1, <2>2, <3>1, <4>2, <4>3, KeptFrame, ApartFacts
        <5> QED
          BY <2>3, <5>1, <5>2 DEF Forgotten
      <4>4. View(q, j)' = View(q, j)
        BY <4>1, <4>3, SameView
      <4> QED
        BY <3>3, <4>4
    <3> QED
      BY <3>2, <3>3
  <2> DEFINE new == [j \in Page |-> IF j \in pages THEN <<>> ELSE visible[p][j]]
  <2>7. new = [j \in Page |-> View(p, j)']
    BY <1>1, <2>6, Images, ApartFacts
  <2>8. \A q \in Proc \ {p}, j \in Page : View(q, j)' = View(q, j)
    BY <2>6
  <2> HIDE DEF new
  <2>9. visible' = [visible EXCEPT ![p] = new]
    BY <2>7, <2>8, OwnImage
  <2>10. Private!Shrink(p, pages)
    BY <1>1, <2>9, Images DEF Private!Shrink, new
  <2> QED
    BY <1>1, <2>1, <2>5, <2>10
<1> QED
  BY <1>2, <1>3 DEF setProcessBrk

\* Exec: the program finds its file, its stack and nothing else.
LEMMA ExecStep ==
  ASSUME Apart, Sharing', Situations = {}, Cardinality(Proc) <= CHAR_MAX,
         NEW p \in Proc, NEW prog \in Program, loadProgram(p, prog)
  PROVE  Apart' /\ p \in live /\ Private!Exec(p, prog)
<1> DEFINE old   == {p} \X Valid(p, Page)
           avail == free \cup Frees(old)
           pages == ProgramPages(prog)
           contents == Forgotten(mem, Frees(old))
<1>1. /\ p \in live /\ ~halted /\ live' = live /\ thread_leader' = thread_leader
      /\ pt \in [Proc -> [Slot -> Entry]]
      /\ free \in SUBSET Frame /\ mem \in [Frame -> Val]
      /\ \A f \in free : mem[f] = Junk
  BY ApartFacts DEF loadProgram, Runs, Apart
<1>2. PICK place \in Placements(pages, avail) :
        /\ pt' = [pt EXCEPT ![p] = LoadedTable(@, prog, place)]
        /\ free' = avail \ Image(place)
        /\ mem' = LoadedMem(contents, prog, place)
  BY DEF loadProgram
<1>3. /\ old \in SUBSET (Proc \X Slot)
      /\ pages \in SUBSET Slot /\ avail \in SUBSET Frame
  BY <1>1, SlotFacts, ProgramFacts DEF Valid, Frees
<1>4. contents \in [Frame -> Val] /\ \A f \in avail : contents[f] = Junk
  <2>1. contents \in [Frame -> Val]
    BY <1>1, ContentsType
  <2> QED
    BY <1>1, <1>3, <2>1 DEF Forgotten
<1>5. \A q \in Proc \ {p}, j \in Slot :
        <<q, j>> \notin old
  OBVIOUS
<1>6. \A q \in Proc, j \in Slot : <<q, j>> \notin old /\ pt[q][j].valid =>
        /\ pt[q][j].frame \in Frame /\ pt[q][j].frame \notin avail
        /\ contents[pt[q][j].frame] = mem[pt[q][j].frame]
  <2> SUFFICES ASSUME NEW q \in Proc, NEW j \in Slot, <<q, j>> \notin old, pt[q][j].valid
               PROVE  /\ pt[q][j].frame \in Frame /\ pt[q][j].frame \notin avail
                      /\ contents[pt[q][j].frame] = mem[pt[q][j].frame]
    OBVIOUS
  <2>1. pt[q][j].frame \in Frame /\ pt[q][j].frame \notin free
    BY UsedFrame, ApartFacts DEF PageFrames
  <2>2. pt[q][j].frame \notin Frees(old)
    BY <1>1, <1>3, KeptFrame, ApartFacts
  <2> QED
    BY <2>1, <2>2 DEF Forgotten
<1> HIDE DEF old, avail, pages, contents
<1>7. place \in [pages -> avail] /\ Image(place) = {place[s] : s \in pages}
  <2>1. place \in [pages -> avail]
    BY <1>3, PlacementFacts
  <2> QED
    BY <2>1 DEF Image
<1>8. \A s, t \in pages : place[s] = place[t] => s = t
  BY <1>3, MemoryAssumption DEF PlacementsAreInjections
<1>9. \A f \in Frame : f \notin Image(place) => mem'[f] = contents[f]
  <2>1. TextPages(prog) \cup DataPages(prog) \subseteq pages
    BY DEF pages, ProgramPages
  <2> QED
    BY <1>2, <1>7, <2>1 DEF LoadedMem
<1>10. Apart'
  <2>1. \A f \in free' : mem'[f] = Junk
    BY <1>2, <1>3, <1>4, <1>9
  <2> QED
    BY <1>1, <2>1 DEF Apart
<1>11. ASSUME NEW q \in Proc \ {p}, NEW j \in Page PROVE View(q, j)' = View(q, j)
  <2>1. j \in Slot /\ <<q, j>> \notin old
    BY <1>5, SlotFacts
  <2>2. pt'[q][j] = pt[q][j]
    BY <1>1, <1>2, <1>11
  <2>3. pt[q][j].valid => mem'[pt[q][j].frame] = mem[pt[q][j].frame]
    BY <1>6, <1>7, <1>9, <2>1
  <2> QED
    BY <2>2, <2>3, SameView
<1> DEFINE table == LoadedTable(pt[p], prog, place)
<1>12. pt'[p] = table
  BY <1>1, <1>2, ApartFacts
<1>13. [j \in Page |-> View(p, j)'] = Private!LoadedImage(prog)
  <2>1. /\ pt[p] \in [Slot -> Entry] /\ table = LoadedTable(pt[p], prog, place)
        /\ place \in [ProgramPages(prog) -> Frame]
        /\ \A s, t \in ProgramPages(prog) : place[s] = place[t] => s = t
        /\ \A s \in ProgramPages(prog) : contents[place[s]] = Junk
        /\ contents \in [Frame -> Val] /\ mem' = LoadedMem(contents, prog, place)
    BY <1>1, <1>2, <1>3, <1>4, <1>7, <1>8, ApartFacts DEF pages
  <2> HIDE DEF table
  <2>2. [j \in Page |-> IF table[j].valid THEN <<mem'[table[j].frame]>> ELSE <<>>]
          = Private!LoadedImage(prog)
    BY <2>1, LoadedView
  <2>3. [j \in Page |-> View(p, j)']
          = [j \in Page |-> IF table[j].valid THEN <<mem'[table[j].frame]>> ELSE <<>>]
    BY <1>12 DEF View
  <2> QED
    BY <2>2, <2>3
<1>14. visible' = [visible EXCEPT ![p] = Private!LoadedImage(prog)]
  BY <1>11, <1>13, OwnImage
<1> QED
  BY <1>1, <1>10, <1>14 DEF Private!Exec

\* Fork: the child starts with the image of its parent, whose own is unchanged.
LEMMA ForkStep ==
  ASSUME Apart, Sharing', Situations = {}, NEW p \in Proc, NEW c \in Proc,
         forkProcess(p, c)
  PROVE  Apart' /\ p \in live /\ Private!Fork(p, c)
<1>1. /\ p \in live /\ ~halted /\ KernelFrame \notin free /\ p # c
      /\ c \in Proc \ live /\ live' = live \cup {c}
      /\ thread_leader' = [thread_leader EXCEPT ![c] = NoProc]
      /\ CopyProcess(p, c, NoProc, TRUE)
      /\ Shape /\ TypeOK /\ pt \in [Proc -> [Slot -> Entry]]
      /\ free \in SUBSET Frame /\ mem \in [Frame -> Val]
      /\ \A f \in free : mem[f] = Junk
  BY ApartFacts DEF forkProcess, CopyProcess, Runs, Apart
<1> DEFINE got   == StackFrames(p)
           below == 0..sp[p]-1
           rest  == sp[p]..MAX_PT_LEN-1
<1>2. /\ got = StackPagesOf(p)
      /\ \E kernel \in Placements(KernelStack, free) :
         \E copy \in Placements(got, free \ Image(kernel)) :
           Copied(p, c, TRUE, kernel, got, copy) /\ CopiedPool(p, kernel, copy)
  BY <1>1, CopyFacts
<1>3. PICK kernel \in Placements(KernelStack, free) :
        \E copy \in Placements(got, free \ Image(kernel)) :
          Copied(p, c, TRUE, kernel, got, copy) /\ CopiedPool(p, kernel, copy)
  BY <1>2
<1>4. PICK copy \in Placements(got, free \ Image(kernel)) :
        Copied(p, c, TRUE, kernel, got, copy) /\ CopiedPool(p, kernel, copy)
  BY <1>3
<1>5. /\ copy \in [got -> free \ Image(kernel)]
      /\ \A s, t \in got : copy[s] = copy[t] => s = t
      /\ Image(copy) = {copy[s] : s \in got}
      /\ got \subseteq Page
  <2>1. copy \in [got -> free \ Image(kernel)]
    BY <1>1, CopyFrames
  <2>2. \A s, t \in got : copy[s] = copy[t] => s = t
    BY <1>1, CopyFrames
  <2>3. got \subseteq Page
    BY <1>1, <1>2, CopyFrames
  <2> QED
    BY <2>1, <2>2, <2>3 DEF Image
<1>6. /\ free' \subseteq free
      /\ \A f \in Image(copy) : f \notin free'
      /\ mem' = [f \in Frame |->
           IF f \in Image(copy)
             THEN mem[pt[p][CHOOSE s \in got : copy[s] = f].frame] ELSE mem[f]]
  <2>1. free' = free \ (Image(kernel) \cup Image(copy))
    BY <1>4 DEF CopiedPool
  <2>2. mem' = [f \in Frame |->
          IF f \in Image(copy)
            THEN mem[pt[p][CHOOSE s \in StackFrames(p) : copy[s] = f].frame]
          ELSE IF f = KernelFrame /\ StackFrames(p) # StackPagesOf(p)
            THEN mem[pt[p][CHOOSE s \in StackPagesOf(p) :
                             \A t \in StackPagesOf(p) : t <= s].frame]
          ELSE mem[f]]
    BY <1>4 DEF CopiedPool
  <2>3. ~(StackFrames(p) # StackPagesOf(p))
    BY <1>2
  <2> QED
    BY <2>1, <2>2, <2>3
<1> HIDE DEF got
<1>7. Apart'
  <2>1. \A f \in free' : mem'[f] = Junk
    BY <1>1, <1>6
  <2>2. thread_leader' = thread_leader
    BY <1>1, ApartFacts, TypeFacts DEF Apart
  <2> QED
    BY <2>1, <2>2 DEF Apart
<1>8. \A q \in Proc, s \in Slot : pt[q][s].valid =>
        pt[q][s].frame \in Frame /\ mem'[pt[q][s].frame] = mem[pt[q][s].frame]
  <2>1. \A q \in Proc, s \in Slot : pt[q][s].valid =>
          pt[q][s].frame \in Frame /\ pt[q][s].frame \notin free
    BY UsedFrame, ApartFacts DEF PageFrames
  <2> QED
    BY <1>5, <1>6, <2>1
<1>9. ASSUME NEW q \in Proc \ {c}, NEW s \in Page PROVE View(q, s)' = View(q, s)
  <2>1. s \in Slot
    BY SlotFacts
  <2>2. (pt'[q][s].valid <=> pt[q][s].valid) /\ pt'[q][s].frame = pt[q][s].frame
    <3>1. CASE q # p
      <4>1. pt'[q] = pt[q]
        BY <1>4, <1>9, <3>1 DEF Copied
      <4> QED
        BY <4>1
    <3>2. CASE q = p /\ s \notin below
      <4>1. pt'[q][s] = pt[q][s]
        BY <1>4, <2>1, <3>2 DEF Copied
      <4> QED
        BY <4>1
    <3>3. CASE q = p /\ s \in below
      <4>1. pt'[q][s] = SharedEntry(pt[q][s], TRUE) /\ pt[q][s] \in Entry
        BY <1>1, <1>4, <2>1, <3>3 DEF Copied
      <4> QED
        BY <4>1 DEF SharedEntry, CopyOnWrite, Entry
    <3> QED
      BY <3>1, <3>2, <3>3
  <2> QED
    BY <1>8, <2>1, <2>2, SameView
<1>10. ASSUME NEW s \in Page PROVE View(c, s)' = View(p, s)
  <2>1. s \in Slot /\ s \notin KernelStack /\ (s \in below \/ s \in rest)
    BY <1>1, ApartFacts, SlotFacts, SplitAtSp
  <2>2. CASE s \in below
    <3>1. pt'[c][s] = SharedEntry(pt[p][s], TRUE) /\ pt[p][s] \in Entry
      BY <1>1, <1>4, <2>1, <2>2, ApartFacts DEF Copied
    <3>2. (pt'[c][s].valid <=> pt[p][s].valid) /\ pt'[c][s].frame = pt[p][s].frame
      BY <3>1 DEF SharedEntry, CopyOnWrite, Entry
    <3> QED
      BY <1>1, <1>8, <2>1, <3>2, ApartFacts DEF View
  <2>3. CASE s \in rest /\ ~pt[p][s].valid
    <3>1. pt'[c][s] = pt[p][s]
      BY <1>4, <2>3 DEF Copied
    <3> QED
      BY <2>3, <3>1 DEF View
  <2>4. CASE s \in rest /\ pt[p][s].valid
    <3>1. s \in got
      BY <1>2, <2>4 DEF StackPagesOf, Valid
    <3>2. pt'[c][s] = [pt[p][s] EXCEPT !.frame = copy[s]] /\ pt[p][s] \in Entry
      BY <1>1, <1>4, <2>1, <2>4, <3>1, ApartFacts DEF Copied, StackCopy
    <3>3. copy[s] \in Frame /\ copy[s] \in Image(copy)
      BY <1>1, <1>5, <3>1
    <3>4. pt'[c][s].valid /\ pt'[c][s].frame = copy[s]
      <4>1. pt[p][s] \in Entry /\ copy[s] \in Frame
        BY <3>2, <3>3
      <4>2. /\ [pt[p][s] EXCEPT !.frame = copy[s]].valid = pt[p][s].valid
            /\ [pt[p][s] EXCEPT !.frame = copy[s]].frame = copy[s]
        BY <4>1, StackCopyType
      <4> QED
        BY <2>4, <3>2, <4>2
    <3>5. mem'[copy[s]] = mem[pt[p][s].frame]
      <4>1. (CHOOSE t \in got : copy[t] = copy[s]) = s
        BY <1>5, <3>1
      <4> QED
        BY <1>6, <3>3, <4>1
    <3> QED
      BY <2>4, <3>4, <3>5 DEF View
  <2> QED
    BY <2>1, <2>2, <2>3, <2>4
<1>11. visible' = [visible EXCEPT ![c] = visible[p]]
  <2> DEFINE image == visible[p]
  <2>1. image = [s \in Page |-> View(c, s)']
    BY <1>1, <1>10, ApartFacts, Images
  <2> HIDE DEF image
  <2>2. visible' = [visible EXCEPT ![c] = image]
    BY <1>9, <2>1, OwnImage
  <2> QED
    BY <2>2 DEF image
<1> QED
  BY <1>1, <1>7, <1>11 DEF Private!Fork

\* Exit: the image is gone and no other has changed.
LEMMA ExitStep ==
  ASSUME Apart, Sharing', Cardinality(Proc) <= CHAR_MAX, NEW p \in Proc, killProcess(p)
  PROVE  Apart' /\ p \in live /\ Private!Exit(p)
<1> DEFINE refs == {r \in {p} \X Slot : pt[r[1]][r[2]].valid}
<1>1. /\ p \in live /\ ~halted /\ p # InitProc /\ Threads(p) = {}
      /\ pt \in [Proc -> [Slot -> Entry]]
      /\ free \in SUBSET Frame /\ mem \in [Frame -> Val]
      /\ \A f \in free : mem[f] = Junk
  BY ApartFacts DEF killProcess, Runs, Apart
<1>2. refs = {r \in ({p} \cup Threads(p)) \X Slot :
                pt[r[1]][r[2]].valid /\ (r[2] \in Page \/ r[1] = p)}
  BY <1>1
<1>3. /\ live' = live \ {p}
      /\ thread_leader' = [q \in Proc |-> IF q = p THEN NoProc ELSE thread_leader[q]]
      /\ pt' = [q \in Proc |-> IF q = p THEN NoTable ELSE pt[q]]
      /\ free' = free \cup Frees(refs) /\ mem' = Forgotten(mem, Frees(refs))
  BY <1>1, <1>2 DEF killProcess, freePageFrames
<1>4. refs \in SUBSET (Proc \X Slot) /\ \A q \in Proc \ {p}, j \in Slot : <<q, j>> \notin refs
  OBVIOUS
<1> HIDE DEF refs
<1>5. Apart'
  <2>1. \A f \in free' : mem'[f] = Junk
    BY <1>1, <1>3 DEF Forgotten, Frees
  <2> QED
    BY <1>3, <2>1 DEF Apart
<1>6. ASSUME NEW q \in Proc \ {p}, NEW j \in Page PROVE View(q, j)' = View(q, j)
  <2>1. j \in Slot /\ <<q, j>> \notin refs
    BY <1>4, SlotFacts
  <2>2. pt'[q][j] = pt[q][j]
    BY <1>3, <1>6
  <2>3. ASSUME pt[q][j].valid PROVE mem'[pt[q][j].frame] = mem[pt[q][j].frame]
    <3>1. pt[q][j].frame \in Frame
      BY <2>1, <2>3, UsedFrame, ApartFacts DEF PageFrames
    <3>2. pt[q][j].frame \notin Frees(refs)
      BY <1>1, <1>4, <2>1, <2>3, KeptFrame, ApartFacts
    <3> QED
      BY <1>3, <3>1, <3>2 DEF Forgotten
  <2> QED
    BY <2>2, <2>3, SameView
<1>7. [j \in Page |-> View(p, j)'] = Private!NoImage
  <2>1. \A j \in Page : ~pt'[p][j].valid
    BY <1>3, SlotFacts DEF NoTable, NoEntry
  <2> QED
    BY <2>1, Images DEF View, Private!NoImage
<1>8. visible' = [visible EXCEPT ![p] = Private!NoImage]
  BY <1>6, <1>7, OwnImage
<1> QED
  BY <1>1, <1>3, <1>5, <1>8 DEF Private!Exit

------------------------------------------------------------------------------
\* The refinement.

\* The first program is in its image, and the frames it did not get are clean.
LEMMA InitApart == Init => Apart /\ Private!Init
<1> SUFFICES ASSUME Init PROVE Apart /\ Private!Init
  OBVIOUS
<1>1. PICK prog \in Program :
        \E stack \in Placements(KernelStack, Frame \ {KernelFrame}) :
        \E place \in Placements(ProgramPages(prog),
                                Frame \ ({KernelFrame} \cup Image(stack))) :
          Booted(prog, stack, place)
  BY InitBooted
<1>2. PICK stack \in Placements(KernelStack, Frame \ {KernelFrame}) :
        \E place \in Placements(ProgramPages(prog),
                                Frame \ ({KernelFrame} \cup Image(stack))) :
          Booted(prog, stack, place)
  BY <1>1
<1> DEFINE F == Frame \ {KernelFrame}
           G == Frame \ ({KernelFrame} \cup Image(stack))
           pages == ProgramPages(prog)
<1>3. PICK place \in Placements(pages, G) : Booted(prog, stack, place)
  BY <1>2
<1>4. /\ KernelStack \in SUBSET Slot /\ pages \in SUBSET Slot
      /\ F \in SUBSET Frame /\ G \in SUBSET Frame
      /\ stack \in Placements(KernelStack, F) /\ place \in Placements(pages, G)
  BY ProgramFacts, SlotFacts
<1> HIDE DEF F, G, pages
<1>5. stack \in [KernelStack -> F]
  BY <1>4, MemoryAssumption DEF PlacementsAreInjections
<1>6. /\ place \in [pages -> G]
      /\ \A s, t \in pages : place[s] = place[t] => s = t
  <2>1. place \in [pages -> G]
    BY <1>4, PlacementFacts
  <2>2. \A s, t \in pages : place[s] = place[t] => s = t
    BY <1>4, MemoryAssumption DEF PlacementsAreInjections
  <2> QED
    BY <2>1, <2>2
<1>7. /\ place \in [pages -> Frame] /\ Image(place) = {place[s] : s \in pages}
      /\ BootTable(stack) \in [Slot -> Entry]
  BY <1>4, <1>5, <1>6, BootType DEF Image
<1> DEFINE boot == BootTable(stack)
           table == LoadedTable(boot, prog, place)
           clean == [f \in Frame |-> Junk]
<1>8. /\ boot \in [Slot -> Entry] /\ place \in [ProgramPages(prog) -> Frame]
      /\ \A s, t \in ProgramPages(prog) : place[s] = place[t] => s = t
      /\ clean \in [Frame -> Val]
      /\ \A s \in ProgramPages(prog) : clean[place[s]] = Junk
      /\ table = LoadedTable(boot, prog, place)
      /\ mem = LoadedMem(clean, prog, place)
  BY <1>3, <1>6, <1>7, MemoryAssumption DEF Booted, pages
<1>9. /\ pt = [q \in Proc |-> IF q = InitProc THEN table ELSE NoTable]
      /\ live = {InitProc} /\ InitProc \in Proc
      /\ thread_leader = [q \in Proc |-> NoProc]
      /\ \A f \in free : f \in Frame /\ f \notin Image(place)
  BY <1>3, MemoryAssumption DEF Booted
<1>10. \A f \in Frame : clean[f] = Junk
  OBVIOUS
<1> HIDE DEF boot, table, clean
<1>11. [i \in Page |-> IF table[i].valid THEN <<mem[table[i].frame]>> ELSE <<>>]
         = Private!LoadedImage(prog)
  BY <1>8, LoadedView
<1>12. \A i \in Page : ~NoTable[i].valid
  BY SlotFacts DEF NoTable, NoEntry
<1>13. visible = [q \in Proc |-> IF q = InitProc THEN Private!LoadedImage(prog)
                                                ELSE Private!NoImage]
  BY <1>9, <1>11, <1>12, Images DEF visible, Private!NoImage
<1>14. Private!Init
  BY <1>9, <1>13 DEF Private!Init
<1>15. \A f \in free : mem[f] = Junk
  <2>1. TextPages(prog) \cup DataPages(prog) \subseteq pages
    BY DEF pages, ProgramPages
  <2>2. \A f \in free : ~\E s \in TextPages(prog) \cup DataPages(prog) : place[s] = f
    BY <1>7, <1>9, <2>1
  <2> QED
    BY <1>8, <1>9, <1>10, <2>2 DEF LoadedMem
<1> QED
  BY <1>9, <1>14, <1>15, InitSharing DEF Apart

\* Every step keeps the invariant and is a step of PrivateMemory or a stutter.
LEMMA ApartStep ==
  ASSUME Apart, [Next]_vars, Situations = {}, Cardinality(Proc) <= CHAR_MAX
  PROVE  Apart' /\ [Private!Next]_<<live, visible>>
<1>1. Sharing'
  BY SharingStep DEF Apart
<1>2. CASE UNCHANGED vars
  BY <1>1, <1>2 DEF vars, frames, Apart, visible
<1>3. CASE Next
  <2> SUFFICES ASSUME NEW p \in Proc,
                      \/ \E i \in Page, v \in Val : Store(p, i, v)
                      \/ \E i \in Page : MoveSp(p, i)
                      \/ \E i \in Page : handleMemoryTrap(p, i)
                      \/ \E b \in Page : setProcessBrk(p, b)
                      \/ \E prog \in Program : loadProgram(p, prog)
                      \/ \E c \in Proc : forkProcess(p, c)
                      \/ \E c \in Proc : createThread(p, c)
                      \/ createProcessDescriptorFails(p)
                      \/ killProcess(p)
               PROVE  Apart' /\ (Private!Next \/ (live' = live /\ visible' = visible))
    BY <1>3 DEF Next
  <2>1. CASE \E i \in Page, v \in Val : Store(p, i, v)
    BY <1>1, <2>1, StoreStep, Images DEF Private!Next
  <2>2. CASE \E i \in Page : MoveSp(p, i)
    BY <1>1, <2>2 DEF MoveSp, frames, Apart, visible
  <2>3. CASE \E i \in Page : handleMemoryTrap(p, i)
    <3>1. PICK i \in Page : handleMemoryTrap(p, i)
      BY <2>3
    <3>2. /\ Apart' /\ p \in live /\ {i} \in SUBSET Private!Page
          /\ live' = live /\ (visible' = visible \/ Private!Grow(p, {i}))
      BY <1>1, <3>1, TrapStep, Images
    <3> QED
      BY <3>2 DEF Private!Next
  <2>4. CASE \E b \in Page : setProcessBrk(p, b)
    <3>1. /\ Apart' /\ p \in live
          /\ \E S \in SUBSET Private!Page : Private!Grow(p, S) \/ Private!Shrink(p, S)
      BY <1>1, <2>4, BrkStep, Images
    <3> QED
      BY <3>1 DEF Private!Next
  <2>5. CASE \E prog \in Program : loadProgram(p, prog)
    BY <1>1, <2>5, ExecStep DEF Private!Next
  <2>6. CASE \E c \in Proc : forkProcess(p, c)
    BY <1>1, <2>6, ForkStep DEF Private!Next
  <2>7. CASE \E c \in Proc : createThread(p, c)
    BY <2>7 DEF createThread
  <2>8. CASE createProcessDescriptorFails(p)
    BY <2>8 DEF createProcessDescriptorFails
  <2>9. CASE killProcess(p)
    BY <1>1, <2>9, ExitStep DEF Private!Next
  <2> QED
    BY <2>1, <2>2, <2>3, <2>4, <2>5, <2>6, <2>7, <2>8, <2>9
<1> QED
  BY <1>2, <1>3

\* Behind page tables, reference counts and copy-on-write every process has a
\* memory of its own, for any number of processes, pages, frames and programs:
\* Fork copies it, Exec replaces it, and only the process itself changes it.
THEOREM ImplementsPrivateMemoryHolds ==
  ASSUME Situations = {}, Cardinality(Proc) <= CHAR_MAX
  PROVE  Spec => ImplementsPrivateMemory
BY InitApart, ApartStep, PTL DEF Spec, ImplementsPrivateMemory, Private!Spec
==============================================================================
