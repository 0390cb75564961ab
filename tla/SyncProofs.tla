----------------------------- MODULE SyncProofs ------------------------------
(***************************************************************************)
(* Proofs about Sync for any number of processes, mutexes and condition    *)
(* variables.                                                              *)
(***************************************************************************)
EXTENDS Sync, WaitQueueProofs, FiniteSetTheorems

\* The nodes mutexAcquire and cvarWait put on a queue are those the waitqueue
\* lemmas are about.
LEMMA NodesAreExclusives == ExclusiveNode = Exclusives(Proc)
  BY DEF ExclusiveNode, Exclusives

\* What a signal leaves of a queue is a queue.
LEMMA SignalLeavesQueue ==
  ASSUME NEW queue \in Seq(ExclusiveNode), NEW exclusive \in BOOLEAN
  PROVE  SignalLeaves(queue, exclusive) \in Seq(ExclusiveNode)
<1>1. CASE queue = <<>>
  <2>1. SignalLeaves(queue, exclusive) = <<>>
    BY <1>1, SignalEmpty, Zenon
  <2> QED BY <2>1
<1>2. CASE queue # <<>> /\ exclusive = TRUE
  <2>1. queue \in Seq(Exclusives(Proc))
    BY NodesAreExclusives, Zenon
  <2> QED BY <1>2, <2>1, SignalFirst, NodesAreExclusives, Zenon
<1>3. CASE exclusive = FALSE
  <2>1. queue \in Seq(Exclusives(Proc))
    BY NodesAreExclusives, Zenon
  <2>2. SignalLeaves(queue, exclusive) = <<>>
    BY <1>3, <2>1, SignalAll, Zenon
  <2> QED BY <2>2
<1> QED BY <1>1, <1>2, <1>3, Zenon

\* Going to sleep extends a queue.
LEMMA SleepExtendsQueue ==
  ASSUME NEW queue \in Seq(ExclusiveNode), NEW p \in Proc
  PROVE  addNodeToWaitQueue(WaitQueueNode(p, TRUE), queue) \in Seq(ExclusiveNode)
  BY SleepLast, NodesAreExclusives, Zenon

States == {"free", "running", "waiting", "zombie"}

\* wakeUpProcess only ever writes a state.
LEMMA WakeStates ==
  ASSUME NEW st \in [Proc -> States], NEW woken
  PROVE  wakeUpProcess(st, woken) \in [Proc -> States]
  BY DEF wakeUpProcess, States

------------------------------------------------------------------------------
\* Types.

\* The inductive type invariant: an interrupted call knows its mutex.
CallsTyped == \A p \in Proc : at[p] # "user" => want[p] \in Mutex

Typed == TypeOK /\ CallsTyped

\* The kernel starts with typed variables and no interrupted call.
LEMMA TypedInit == Init => Typed
  BY SyncAssumption DEF Init, Typed, TypeOK, CallsTyped

\* WaitForLock keeps the types it touches.
LEMMA TypedWaitForLock ==
  ASSUME Typed, NEW p \in Proc, NEW m \in Mutex, WaitForLock(p, m),
         UNCHANGED <<thread_leader, created, cvarQueue>>
  PROVE  Typed'
<1>1. CASE TakeLock(p, m)
  BY <1>1 DEF Typed, TypeOK, CallsTyped, TakeLock, Return
<1>2. CASE SleepOnMutex(p, m)
  <2> DEFINE q == addNodeToWaitQueue(WaitQueueNode(p, TRUE), mutexQueue[m])
  <2>1. q \in Seq(ExclusiveNode)
    BY SleepExtendsQueue DEF Typed, TypeOK
  <2>2. mutexQueue' = [mutexQueue EXCEPT ![m] = q]
    BY <1>2 DEF SleepOnMutex
  <2> HIDE DEF q
  <2>3. mutexQueue' \in [Mutex -> Seq(ExclusiveNode)]
    BY <2>1, <2>2 DEF Typed, TypeOK
  <2> QED BY <1>2, <2>3 DEF Typed, TypeOK, CallsTyped, SleepOnMutex, Suspend
<1> QED BY <1>1, <1>2 DEF WaitForLock

\* mutexAcquire keeps the types, whether it returns early, locks or sleeps.
LEMMA TypedEnterAcquire ==
  ASSUME Typed, NEW p \in Proc, NEW m \in Mutex, EnterAcquire(p, m),
         UNCHANGED <<thread_leader, created, cvarQueue>>
  PROVE  Typed'
<1>1. CASE WaitForLock(p, m)
  BY <1>1, TypedWaitForLock
<1>2. CASE /\ held' = [held EXCEPT ![m] = @ \cup {p}]
           /\ Return(p)
           /\ UNCHANGED <<state, locked, current_owner, mutexQueue>>
  BY <1>2 DEF Typed, TypeOK, CallsTyped, Return
<1> QED BY <1>1, <1>2, Zenon DEF EnterAcquire

\* UnlockMutex keeps the types of the mutex it unlocks.
LEMMA TypedUnlock ==
  ASSUME Typed, NEW p \in Proc, NEW m \in Mutex, UnlockMutex(p, m)
  PROVE  /\ locked' \in [Mutex -> BOOLEAN]
         /\ current_owner' \in [Mutex -> Proc \cup {NoProc}]
         /\ mutexQueue' \in [Mutex -> Seq(ExclusiveNode)]
         /\ held' \in [Mutex -> SUBSET Proc]
<1> DEFINE q == SignalLeaves(mutexQueue[m], TRUE)
<1>1. q \in Seq(ExclusiveNode)
  BY SignalLeavesQueue DEF Typed, TypeOK
<1>2. mutexQueue' = [mutexQueue EXCEPT ![m] = q]
  BY Zenon DEF UnlockMutex
<1> HIDE DEF q
<1>3. mutexQueue' \in [Mutex -> Seq(ExclusiveNode)]
  BY <1>1, <1>2 DEF Typed, TypeOK
<1>4. locked' = [locked EXCEPT ![m] = FALSE] /\ current_owner' = [current_owner EXCEPT ![m] = NoProc]
      /\ held' = [held EXCEPT ![m] = @ \ {p}]
  BY Zenon DEF UnlockMutex
<1> QED BY <1>3, <1>4 DEF Typed, TypeOK

\* Every step keeps the types.
LEMMA TypedNext == Typed /\ [Next]_vars => Typed'
<1> SUFFICES ASSUME Typed, [Next]_vars PROVE Typed'
  OBVIOUS
<1>1. ASSUME NEW p \in Proc, NEW m \in Mutex, mutexInitialize(p, m)
      PROVE  Typed'
  BY <1>1 DEF mutexInitialize, procVars, Typed, TypeOK, CallsTyped
<1>2. ASSUME NEW p \in Proc, NEW m \in Mutex, mutexAcquire(p, m)
      PROVE  Typed'
  BY <1>2, TypedEnterAcquire DEF mutexAcquire
<1>3. ASSUME NEW p \in Proc, NEW m \in Mutex, mutexRelease(p, m)
      PROVE  Typed'
  <2>1. UnlockMutex(p, m) /\ UNCHANGED <<thread_leader, at, want, created, cvarQueue>>
    BY <1>3 DEF mutexRelease
  <2>2. state' \in [Proc -> States]
    BY <1>3, WakeStates DEF mutexRelease, Typed, TypeOK, States
  <2> QED BY <2>1, <2>2, TypedUnlock DEF Typed, TypeOK, CallsTyped, States
<1>4. ASSUME NEW p \in Proc, NEW c \in Cvar, cvarInitialize(p, c)
      PROVE  Typed'
  BY <1>4 DEF cvarInitialize, procVars, Typed, TypeOK, CallsTyped
<1>5. ASSUME NEW p \in Proc, NEW c \in Cvar, NEW exclusive \in BOOLEAN,
             SignalCvar(p, c, exclusive)
      PROVE  Typed'
  <2> DEFINE q == SignalLeaves(cvarQueue[c], exclusive)
  <2>1. state' \in [Proc -> States]
    BY <1>5, WakeStates DEF SignalCvar, Typed, TypeOK, States
  <2>2. q \in Seq(ExclusiveNode)
    BY SignalLeavesQueue DEF Typed, TypeOK
  <2>3. cvarQueue' = [cvarQueue EXCEPT ![c] = q]
    BY <1>5, Zenon DEF SignalCvar
  <2> HIDE DEF q
  <2>4. cvarQueue' \in [Cvar -> Seq(ExclusiveNode)]
    BY <2>2, <2>3 DEF Typed, TypeOK
  <2>5. UNCHANGED <<thread_leader, at, want, created, locked, current_owner, mutexQueue, held>>
    BY <1>5 DEF SignalCvar
  <2> QED BY <2>1, <2>4, <2>5 DEF Typed, TypeOK, CallsTyped, States
<1>6. ASSUME NEW p \in Proc, NEW c \in Cvar, NEW m \in Mutex, cvarWait(p, c, m)
      PROVE  Typed'
  <2> DEFINE q == addNodeToWaitQueue(WaitQueueNode(p, TRUE), cvarQueue[c])
             st == wakeUpProcess(state, SignalWakes(mutexQueue[m], TRUE))
  <2>1. UnlockMutex(p, m) /\ Suspend(p, "cvar", m) /\ UNCHANGED <<thread_leader, created>>
    BY <1>6 DEF cvarWait
  <2>2. q \in Seq(ExclusiveNode) /\ st \in [Proc -> States]
    BY SleepExtendsQueue, WakeStates DEF Typed, TypeOK, States
  <2>3. cvarQueue' = [cvarQueue EXCEPT ![c] = q] /\ state' = [st EXCEPT ![p] = "waiting"]
    BY <1>6, Zenon DEF cvarWait
  <2> HIDE DEF q, st
  <2>4. cvarQueue' \in [Cvar -> Seq(ExclusiveNode)] /\ state' \in [Proc -> States]
    BY <2>2, <2>3 DEF Typed, TypeOK, States
  <2>5. at' \in [Proc -> {"user", "acquire", "cvar"}] /\ want' \in [Proc -> Mutex \cup {NoMutex}]
        /\ CallsTyped'
    BY <2>1 DEF Typed, TypeOK, CallsTyped, Suspend
  <2> QED BY <2>1, <2>4, <2>5, TypedUnlock DEF Typed, TypeOK, States
<1>7. ASSUME NEW p \in Proc, mutexAcquireWoken(p)
      PROVE  Typed'
  <2>1. want[p] \in Mutex
    BY <1>7 DEF mutexAcquireWoken, Runs, Typed, CallsTyped
  <2> QED BY <1>7, <2>1, TypedWaitForLock DEF mutexAcquireWoken
<1>8. ASSUME NEW p \in Proc, cvarWaitWoken(p)
      PROVE  Typed'
  <2>1. want[p] \in Mutex
    BY <1>8 DEF cvarWaitWoken, Runs, Typed, CallsTyped
  <2> QED BY <1>8, <2>1, TypedEnterAcquire DEF cvarWaitWoken
<1>9. ASSUME NEW p \in Proc, NEW c \in Proc, NEW leader \in Proc \cup {NoProc},
             Spawn(p, c, leader)
      PROVE  Typed'
  BY <1>9 DEF Spawn, Typed, TypeOK, CallsTyped
<1>10. ASSUME NEW p \in Proc, killProcess(p)
       PROVE  Typed'
  BY <1>10 DEF killProcess, Typed, TypeOK, CallsTyped
<1>11. CASE UNCHANGED vars
  BY <1>11 DEF vars, Typed, TypeOK, CallsTyped
<1> QED
  BY <1>1, <1>2, <1>3, <1>4, <1>5, <1>6, <1>7, <1>8, <1>9, <1>10, <1>11,
     SyncAssumption
  DEF Next, cvarSignal, cvarBroadcast, forkProcess, createThread

\* The variables of the synchronisation code keep their types.
THEOREM TypeCorrect == Spec => []TypeOK
<1>1. Typed => TypeOK
  BY DEF Typed
<1> QED BY <1>1, TypedInit, TypedNext, PTL DEF Spec

------------------------------------------------------------------------------
\* Mutual exclusion, for programs that release only what they hold and exit
\* only when they hold nothing.

Disciplined == ~ReleaseAny /\ ~ExitHolding

\* The inductive invariant: possession, the lock bit and the owner field agree.
Ownership ==
  \A m \in Mutex :
    /\ locked[m] => m \in created /\ held[m] = {current_owner[m]}
    /\ ~locked[m] => held[m] = {} /\ current_owner[m] = NoProc

Granted == \A m \in Mutex : held'[m] \ held[m] # {} => ~locked[m]

\* No mutex exists when the kernel starts.
LEMMA OwnershipInit == Init => Ownership
  BY DEF Init, Ownership

\* The loop of mutexAcquire hands out a mutex only after finding it unlocked.
LEMMA OwnershipWaitForLock ==
  ASSUME Typed, Ownership, NEW p \in Proc, NEW m \in created \cap Mutex,
         WaitForLock(p, m), UNCHANGED created
  PROVE  Ownership' /\ Granted
<1>1. CASE TakeLock(p, m)
  BY <1>1 DEF Typed, TypeOK, Ownership, Granted, TakeLock
<1>2. CASE SleepOnMutex(p, m)
  BY <1>2 DEF Ownership, Granted, SleepOnMutex
<1> QED BY <1>1, <1>2 DEF WaitForLock

\* The early return of mutexAcquire serves the process that holds the mutex.
LEMMA OwnershipEnterAcquire ==
  ASSUME Typed, Ownership, NEW p \in Proc, NEW m \in created \cap Mutex,
         EnterAcquire(p, m), UNCHANGED created
  PROVE  Ownership' /\ Granted
<1>1. CASE WaitForLock(p, m)
  BY <1>1, OwnershipWaitForLock
<1>2. CASE /\ current_owner[m] = p
           /\ held' = [held EXCEPT ![m] = @ \cup {p}]
           /\ UNCHANGED <<locked, current_owner>>
  <2>1. held[m] = {p}
    BY <1>2, SyncAssumption DEF Ownership
  <2>2. held' = held
    BY <1>2, <2>1 DEF Typed, TypeOK
  <2> QED BY <1>2, <2>2 DEF Ownership, Granted
<1> QED BY <1>1, <1>2, Zenon DEF EnterAcquire

\* mutexRelease by the holder leaves the mutex unlocked and without an owner.
LEMMA OwnershipUnlock ==
  ASSUME Typed, Ownership, Disciplined, NEW p \in Proc, NEW m \in Mutex,
         MayRelease(p, m), UnlockMutex(p, m), UNCHANGED created
  PROVE  Ownership' /\ Granted
<1>1. held[m] = {p}
  BY DEF MayRelease, Disciplined, Ownership
<1>2. /\ locked' = [locked EXCEPT ![m] = FALSE]
      /\ current_owner' = [current_owner EXCEPT ![m] = NoProc]
      /\ held' = [held EXCEPT ![m] = @ \ {p}]
  BY Zenon DEF UnlockMutex
<1> QED BY <1>1, <1>2 DEF Typed, TypeOK, Ownership, Granted

\* A call that an interrupted process continues is about a created mutex.
CallsCreated == \A p \in Proc : at[p] # "user" => want[p] \in created

\* No call forgets, while it sleeps, that its mutex has been created.
LEMMA CallsCreatedNext ==
  ASSUME Typed, CallsCreated, [Next]_vars
  PROVE  CallsCreated'
<1>1. ASSUME NEW p \in Proc, NEW m \in created, Return(p) \/ Suspend(p, "acquire", m) \/ Suspend(p, "cvar", m),
             created \subseteq created'
      PROVE  CallsCreated'
  BY <1>1 DEF Typed, TypeOK, CallsCreated, Return, Suspend
<1>2. ASSUME NEW p \in Proc, NEW m \in created, WaitForLock(p, m), UNCHANGED created
      PROVE  CallsCreated'
  BY <1>1, <1>2 DEF WaitForLock, TakeLock, SleepOnMutex
<1>3. ASSUME NEW p \in Proc, NEW m \in created, EnterAcquire(p, m), UNCHANGED created
      PROVE  CallsCreated'
  BY <1>1, <1>2, <1>3 DEF EnterAcquire
<1>4. ASSUME NEW p \in Proc, NEW m \in Mutex, mutexAcquire(p, m)
      PROVE  CallsCreated'
  BY <1>3, <1>4 DEF mutexAcquire
<1>5. ASSUME NEW p \in Proc, mutexAcquireWoken(p) \/ cvarWaitWoken(p)
      PROVE  CallsCreated'
  <2>1. want[p] \in created
    BY <1>5 DEF mutexAcquireWoken, cvarWaitWoken, Runs, CallsCreated
  <2> QED BY <1>2, <1>3, <1>5, <2>1 DEF mutexAcquireWoken, cvarWaitWoken
<1>6. ASSUME NEW p \in Proc, NEW c \in Cvar, NEW m \in Mutex, cvarWait(p, c, m)
      PROVE  CallsCreated'
  BY <1>1, <1>6 DEF cvarWait
<1>7. ASSUME NEW p \in Proc, killProcess(p)
      PROVE  CallsCreated'
  BY <1>7 DEF killProcess, CallsCreated, Typed, TypeOK
<1>8. ASSUME UNCHANGED <<at, want>>, created \subseteq created'
      PROVE  CallsCreated'
  BY <1>8 DEF CallsCreated
<1>9. ASSUME NEW p \in Proc, NEW r \in Mutex \cup Cvar,
             \/ mutexInitialize(p, r) \/ cvarInitialize(p, r)
             \/ mutexRelease(p, r) \/ cvarSignal(p, r) \/ cvarBroadcast(p, r)
      PROVE  CallsCreated'
  BY <1>8, <1>9 DEF mutexInitialize, cvarInitialize, mutexRelease, cvarSignal,
     cvarBroadcast, SignalCvar, procVars
<1>10. ASSUME NEW p \in Proc, NEW c \in Proc, forkProcess(p) \/ createThread(p, c)
       PROVE  CallsCreated'
  BY <1>8, <1>10 DEF forkProcess, createThread, Spawn
<1>11. CASE UNCHANGED vars
  BY <1>8, <1>11 DEF vars
<1> QED BY <1>4, <1>5, <1>6, <1>7, <1>9, <1>10, <1>11 DEF Next

\* Every call of the kernel keeps owner, lock and holder in agreement.
LEMMA OwnershipNext ==
  ASSUME Disciplined, Typed, CallsCreated, Ownership, [Next]_vars
  PROVE  Ownership' /\ Granted
<1>1. ASSUME NEW p \in Proc, NEW m \in Mutex, mutexInitialize(p, m)
      PROVE  Ownership' /\ Granted
  BY <1>1 DEF mutexInitialize, Typed, TypeOK, Ownership, Granted
<1>2. ASSUME NEW p \in Proc, NEW m \in Mutex, mutexAcquire(p, m)
      PROVE  Ownership' /\ Granted
  BY <1>2, OwnershipEnterAcquire DEF mutexAcquire
<1>3. ASSUME NEW p \in Proc, NEW m \in Mutex, mutexRelease(p, m)
      PROVE  Ownership' /\ Granted
  BY <1>3, OwnershipUnlock DEF mutexRelease
<1>4. ASSUME NEW p \in Proc, NEW c \in Cvar, NEW m \in Mutex, cvarWait(p, c, m)
      PROVE  Ownership' /\ Granted
  BY <1>4, OwnershipUnlock DEF cvarWait
<1>5. ASSUME NEW p \in Proc, mutexAcquireWoken(p) \/ cvarWaitWoken(p)
      PROVE  Ownership' /\ Granted
  <2>1. want[p] \in created \cap Mutex
    BY <1>5 DEF mutexAcquireWoken, cvarWaitWoken, Runs, CallsCreated, Typed, CallsTyped
  <2> QED BY <1>5, <2>1, OwnershipWaitForLock, OwnershipEnterAcquire
          DEF mutexAcquireWoken, cvarWaitWoken
<1>6. ASSUME NEW p \in Proc, killProcess(p)
      PROVE  Ownership' /\ Granted
  <2> DEFINE dead == {p} \cup Threads(p)
  <2>1. /\ \A q \in dead, m \in Mutex : q \notin held[m]
        /\ held' = [m \in Mutex |-> held[m] \ dead]
        /\ UNCHANGED <<created, locked, current_owner>>
    BY <1>6 DEF killProcess, Disciplined
  <2> HIDE DEF dead
  <2>2. held' = held
    BY <2>1 DEF Typed, TypeOK
  <2> QED BY <2>1, <2>2 DEF Ownership, Granted
<1>7. ASSUME UNCHANGED <<locked, current_owner, held>>, created \subseteq created'
      PROVE  Ownership' /\ Granted
  BY <1>7 DEF Ownership, Granted
<1>8. ASSUME NEW p \in Proc, NEW c \in Cvar,
             cvarInitialize(p, c) \/ cvarSignal(p, c) \/ cvarBroadcast(p, c)
      PROVE  Ownership' /\ Granted
  BY <1>7, <1>8 DEF cvarInitialize, cvarSignal, cvarBroadcast, SignalCvar
<1>9. ASSUME NEW p \in Proc, NEW c \in Proc, forkProcess(p) \/ createThread(p, c)
      PROVE  Ownership' /\ Granted
  BY <1>7, <1>9 DEF forkProcess, createThread, Spawn
<1>10. CASE UNCHANGED vars
  BY <1>7, <1>10 DEF vars
<1> QED BY <1>1, <1>2, <1>3, <1>4, <1>5, <1>6, <1>8, <1>9, <1>10 DEF Next

\* No two processes are ever in possession of one mutex.
THEOREM MutualExclusionHolds ==
  ASSUME Disciplined PROVE Spec => []MutualExclusion
<1> DEFINE IInv == Typed /\ CallsCreated /\ Ownership
<1>1. Init => IInv
  BY TypedInit, OwnershipInit DEF Init, CallsCreated
<1>2. IInv /\ [Next]_vars => IInv'
  BY TypedNext, CallsCreatedNext, OwnershipNext
<1>3. IInv => MutualExclusion
  BY DEF Ownership, MutualExclusion
<1> QED BY <1>1, <1>2, <1>3, PTL DEF Spec

\* A process that comes into possession of a mutex has found it unlocked.
THEOREM GrantedWhenFreeHolds ==
  ASSUME Disciplined PROVE Spec => GrantedWhenFree
<1> DEFINE IInv == Typed /\ CallsCreated /\ Ownership
<1>1. Init => IInv
  BY TypedInit, OwnershipInit DEF Init, CallsCreated
<1>2. IInv /\ [Next]_vars => IInv'
  BY TypedNext, CallsCreatedNext, OwnershipNext
<1>3. IInv /\ [Next]_vars => [Granted]_vars
  BY OwnershipNext
<1> QED BY <1>1, <1>2, <1>3, PTL DEF Spec, GrantedWhenFree, Granted

------------------------------------------------------------------------------
\* No lost wakeup, for every program that does not exit while a thread of its
\* own is asleep.

\* The inductive invariant.  Nobody is on a queue twice, or on two queues, and
\* whoever is on a queue is asleep in the call that joined it.
MutexSleepers ==
  \A m \in Mutex :
    /\ NoRepeat(mutexQueue[m])
    /\ \A p \in Sleepers(mutexQueue[m]) :
         p \in Proc /\ state[p] = "waiting" /\ at[p] = "acquire" /\ want[p] = m

CvarSleepers ==
  \A c \in Cvar :
    /\ NoRepeat(cvarQueue[c])
    /\ \A p \in Sleepers(cvarQueue[c]) :
         p \in Proc /\ state[p] = "waiting" /\ at[p] = "cvar"

OneCvar ==
  \A c, d \in Cvar : c # d => Sleepers(cvarQueue[c]) \cap Sleepers(cvarQueue[d]) = {}

Asleep == MutexSleepers /\ CvarSleepers /\ OneCvar /\ NoLostWakeup

\* Nobody sleeps when the kernel starts.
LEMMA AsleepInit == Init => Asleep
<1>1. NoRepeat(<<>>) /\ Sleepers(<<>>) = {}
  BY DEF NoRepeat, Sleepers
<1> QED BY <1>1 DEF Init, Asleep, MutexSleepers, CvarSleepers, OneCvar, NoLostWakeup

\* Neither queues nor locks change, and no sleeper does: then nothing is lost.
LEMMA AsleepUndisturbed ==
  ASSUME Typed, Asleep, UNCHANGED <<locked, mutexQueue, cvarQueue>>,
         NEW T \in SUBSET Proc,
         \A p \in T : state[p] # "waiting" /\ ~Runs(p, "acquire"),
         \A p \in Proc \ T :
           state'[p] = state[p] /\ at'[p] = at[p] /\ want'[p] = want[p]
  PROVE  Asleep'
<1>1. MutexSleepers' /\ CvarSleepers' /\ OneCvar'
  BY DEF Asleep, MutexSleepers, CvarSleepers, OneCvar
<1>2. ASSUME NEW p \in Proc, Runs(p, "acquire")
      PROVE  Runs(p, "acquire")' /\ want'[p] = want[p]
  BY <1>2 DEF Runs
<1>3. NoLostWakeup'
  BY <1>2 DEF Asleep, NoLostWakeup
<1> QED BY <1>1, <1>3 DEF Asleep

\* The loop of mutexAcquire, entered by a call or continued by a woken one.
LEMMA AsleepWaitForLock ==
  ASSUME Typed, Asleep, NEW p \in Proc, NEW m \in Mutex, state[p] = "running",
         at[p] = "acquire" => want[p] = m,
         WaitForLock(p, m), UNCHANGED cvarQueue
  PROVE  Asleep'
<1>0. \A q \in Proc \ {p} : state'[q] = state[q] /\ at'[q] = at[q] /\ want'[q] = want[q]
  BY DEF WaitForLock, TakeLock, SleepOnMutex, Return, Suspend, Typed, TypeOK
<1>1. \A k \in Mutex : p \notin Sleepers(mutexQueue[k])
  BY DEF Asleep, MutexSleepers
<1>2. \A c \in Cvar : p \notin Sleepers(cvarQueue[c])
  BY DEF Asleep, CvarSleepers
<1>3. CvarSleepers' /\ OneCvar'
  BY <1>0, <1>2 DEF Asleep, CvarSleepers, OneCvar
<1>4. ASSUME NEW k \in Mutex \ {m}, ~locked[k], mutexQueue[k] # <<>>
      PROVE  \E q \in Proc : Runs(q, "acquire")' /\ want'[q] = k
  <2>1. PICK q \in Proc : Runs(q, "acquire") /\ want[q] = k
    BY <1>4 DEF Asleep, NoLostWakeup
  <2>2. q # p
    BY <1>4, <2>1 DEF Runs
  <2> QED BY <1>0, <2>1, <2>2 DEF Runs
<1>5. CASE TakeLock(p, m)
  <2>1. locked'[m] /\ (\A k \in Mutex \ {m} : locked'[k] = locked[k]) /\ mutexQueue' = mutexQueue
    BY <1>5 DEF TakeLock, Typed, TypeOK
  <2>2. MutexSleepers'
    BY <1>0, <1>1, <2>1 DEF Asleep, MutexSleepers
  <2>3. NoLostWakeup'
    BY <1>4, <2>1 DEF NoLostWakeup
  <2> QED BY <1>3, <2>2, <2>3 DEF Asleep
<1>6. CASE SleepOnMutex(p, m)
  <2> DEFINE after == addNodeToWaitQueue(WaitQueueNode(p, TRUE), mutexQueue[m])
  <2>1. /\ Sleepers(after) = Sleepers(mutexQueue[m]) \cup {p}
        /\ NoRepeat(after)
        /\ after # <<>>
    <3>1. mutexQueue[m] \in Seq(Exclusives(Proc))
      BY NodesAreExclusives DEF Typed, TypeOK
    <3>2. NoRepeat(mutexQueue[m]) /\ p \notin Sleepers(mutexQueue[m])
      BY <1>1 DEF Asleep, MutexSleepers
    <3> QED BY <3>1, <3>2, SleepSleepers, Zenon
  <2>2. mutexQueue' = [mutexQueue EXCEPT ![m] = after]
    BY <1>6 DEF SleepOnMutex
  <2> HIDE DEF after
  <2>3. mutexQueue'[m] = after /\ \A k \in Mutex \ {m} : mutexQueue'[k] = mutexQueue[k]
    BY <2>2 DEF Typed, TypeOK
  <2>4. locked' = locked /\ locked[m]
    BY <1>6 DEF SleepOnMutex
  <2>5. state'[p] = "waiting" /\ at'[p] = "acquire" /\ want'[p] = m
    BY <1>6 DEF SleepOnMutex, Suspend, Typed, TypeOK
  <2>6. ASSUME NEW k \in Mutex, NEW q \in Sleepers(mutexQueue'[k])
        PROVE  q \in Proc /\ state'[q] = "waiting" /\ at'[q] = "acquire" /\ want'[q] = k
    <3>1. CASE q = p
      BY <1>1, <2>1, <2>3, <2>5, <2>6, <3>1
    <3>2. CASE q # p
      <4>1. q \in Sleepers(mutexQueue[k])
        BY <2>1, <2>3, <2>6, <3>2
      <4>2. q \in Proc /\ state[q] = "waiting" /\ at[q] = "acquire" /\ want[q] = k
        BY <4>1 DEF Asleep, MutexSleepers
      <4> QED BY <1>0, <3>2, <4>2
    <3> QED BY <3>1, <3>2
  <2>7. \A k \in Mutex : NoRepeat(mutexQueue'[k])
    BY <2>1, <2>3 DEF Asleep, MutexSleepers
  <2>8. MutexSleepers'
    BY <2>6, <2>7 DEF MutexSleepers
  <2>9. NoLostWakeup'
    BY <1>4, <2>3, <2>4 DEF NoLostWakeup
  <2> QED BY <1>3, <2>8, <2>9 DEF Asleep
<1> QED BY <1>5, <1>6 DEF WaitForLock

\* mutexAcquire loses no wakeup, whichever of its paths it takes.
LEMMA AsleepEnterAcquire ==
  ASSUME Typed, Asleep, NEW p \in Proc, NEW m \in Mutex, state[p] = "running",
         at[p] # "acquire", EnterAcquire(p, m), UNCHANGED cvarQueue
  PROVE  Asleep'
<1>1. CASE WaitForLock(p, m)
  BY <1>1, AsleepWaitForLock
<1>2. CASE Return(p) /\ UNCHANGED <<state, locked, current_owner, mutexQueue>>
  <2>1. {p} \in SUBSET Proc
    OBVIOUS
  <2>2. \A q \in Proc \ {p} : state'[q] = state[q] /\ at'[q] = at[q] /\ want'[q] = want[q]
    BY <1>2 DEF Return, Typed, TypeOK
  <2>3. \A q \in {p} : state[q] # "waiting" /\ ~Runs(q, "acquire")
    BY DEF Runs
  <2> QED BY <1>2, <2>1, <2>2, <2>3, AsleepUndisturbed
<1> QED BY <1>1, <1>2, Zenon DEF EnterAcquire

\* A release: UnlockMutex, the wakeup, and then p stays awake or, in cvarWait,
\* goes to sleep outside the mutex queues.
LEMMA UnlockWakes ==
  ASSUME Typed, Asleep, NEW p \in Proc, NEW m \in Mutex, Runs(p, "user"),
         UnlockMutex(p, m),
         \A q \in Proc \ {p} : at'[q] = at[q] /\ want'[q] = want[q],
         \A q \in Proc \ {p} :
           state'[q] = wakeUpProcess(state, SignalWakes(mutexQueue[m], TRUE))[q]
  PROVE  /\ MutexSleepers'
         /\ NoLostWakeup'
         /\ \A q \in Proc \ {p} : at[q] = "cvar" => state'[q] = state[q]
<1> DEFINE W == SignalWakes(mutexQueue[m], TRUE)
           after == SignalLeaves(mutexQueue[m], TRUE)
<1>1. /\ W \subseteq Sleepers(mutexQueue[m])
      /\ Sleepers(after) = Sleepers(mutexQueue[m]) \ W
      /\ NoRepeat(after)
      /\ mutexQueue[m] # <<>> => W # {}
  <2>1. mutexQueue[m] \in Seq(Exclusives(Proc))
    BY NodesAreExclusives DEF Typed, TypeOK
  <2>2. NoRepeat(mutexQueue[m])
    BY DEF Asleep, MutexSleepers
  <2> QED BY <2>1, <2>2, SignalSleepers, Zenon
<1>2. mutexQueue' = [mutexQueue EXCEPT ![m] = after] /\ locked' = [locked EXCEPT ![m] = FALSE]
  BY Zenon DEF UnlockMutex
<1>3. \A q \in Proc \ {p} : state'[q] = IF q \in W /\ state[q] # "free" THEN "running" ELSE state[q]
  BY DEF wakeUpProcess
<1>4. mutexQueue[m] = <<>> => after = <<>>
  BY SignalEmpty, Zenon
<1> HIDE DEF W, after
<1>5. mutexQueue'[m] = after /\ \A k \in Mutex \ {m} : mutexQueue'[k] = mutexQueue[k]
  BY <1>2 DEF Typed, TypeOK
<1>6. \A q \in W : q \in Proc \ {p} /\ state[q] = "waiting" /\ at[q] = "acquire" /\ want[q] = m
  BY <1>1 DEF Asleep, MutexSleepers, Runs
<1>7. ASSUME NEW k \in Mutex, NEW q \in Sleepers(mutexQueue'[k])
      PROVE  q \in Proc /\ state'[q] = "waiting" /\ at'[q] = "acquire" /\ want'[q] = k
  <2>1. q \in Sleepers(mutexQueue[k])
    BY <1>1, <1>5, <1>7
  <2>2. q \in Proc /\ state[q] = "waiting" /\ at[q] = "acquire" /\ want[q] = k
    BY <2>1 DEF Asleep, MutexSleepers
  <2>3. q # p
    BY <2>2 DEF Runs
  <2>4. q \notin W
    BY <1>1, <1>5, <1>6, <1>7, <2>2
  <2> QED BY <1>3, <2>2, <2>3, <2>4
<1>8. \A k \in Mutex : NoRepeat(mutexQueue'[k])
  BY <1>1, <1>5 DEF Asleep, MutexSleepers
<1>9. ASSUME NEW k \in Mutex, ~locked'[k], mutexQueue'[k] # <<>>
      PROVE  \E q \in Proc : Runs(q, "acquire")' /\ want'[q] = k
  <2>1. CASE k = m
    <3>1. PICK q \in W : TRUE
      BY <1>1, <1>4, <1>5, <1>9, <2>1
    <3>2. q \in Proc \ {p} /\ state'[q] = "running"
      BY <1>3, <1>6, <3>1
    <3> QED BY <1>6, <2>1, <3>1, <3>2 DEF Runs
  <2>2. CASE k # m
    <3>1. ~locked[k] /\ mutexQueue[k] # <<>>
      BY <1>2, <1>5, <1>9, <2>2 DEF Typed, TypeOK
    <3>2. PICK q \in Proc : Runs(q, "acquire") /\ want[q] = k
      BY <3>1 DEF Asleep, NoLostWakeup
    <3>3. q # p
      BY <3>2 DEF Runs
    <3>4. state'[q] = "running"
      BY <1>3, <3>2, <3>3 DEF Runs
    <3> QED BY <3>2, <3>3, <3>4 DEF Runs
  <2> QED BY <2>1, <2>2
<1>10. MutexSleepers' /\ NoLostWakeup'
  BY <1>7, <1>8, <1>9 DEF MutexSleepers, NoLostWakeup
<1>11. \A q \in Proc \ {p} : at[q] = "cvar" => state'[q] = state[q]
  BY <1>3, <1>6
<1> QED BY <1>10, <1>11

\* mutexRelease wakes a sleeper of the mutex it frees.
LEMMA AsleepRelease ==
  ASSUME Typed, Asleep, NEW p \in Proc, NEW m \in Mutex, mutexRelease(p, m)
  PROVE  Asleep'
<1>1. Runs(p, "user") /\ UnlockMutex(p, m) /\ UNCHANGED <<at, want, cvarQueue>>
      /\ state' = wakeUpProcess(state, SignalWakes(mutexQueue[m], TRUE))
  BY DEF mutexRelease
<1>2. /\ MutexSleepers' /\ NoLostWakeup'
      /\ \A q \in Proc \ {p} : at[q] = "cvar" => state'[q] = state[q]
  BY <1>1, UnlockWakes
<1>3. \A c \in Cvar : p \notin Sleepers(cvarQueue[c])
  BY <1>1 DEF Asleep, CvarSleepers, Runs
<1>4. CvarSleepers' /\ OneCvar'
  BY <1>1, <1>2, <1>3 DEF Asleep, CvarSleepers, OneCvar
<1> QED BY <1>2, <1>4 DEF Asleep

\* cvarWait wakes a sleeper of the mutex it frees before it sleeps itself.
LEMMA AsleepCvarWait ==
  ASSUME Typed, Asleep, NEW p \in Proc, NEW c \in Cvar, NEW m \in Mutex,
         cvarWait(p, c, m)
  PROVE  Asleep'
<1> DEFINE after == addNodeToWaitQueue(WaitQueueNode(p, TRUE), cvarQueue[c])
           st == wakeUpProcess(state, SignalWakes(mutexQueue[m], TRUE))
<1>1. /\ Runs(p, "user") /\ UnlockMutex(p, m)
      /\ state' = [st EXCEPT ![p] = "waiting"]
      /\ cvarQueue' = [cvarQueue EXCEPT ![c] = after]
      /\ at' = [at EXCEPT ![p] = "cvar"] /\ want' = [want EXCEPT ![p] = m]
  BY Zenon DEF cvarWait, Suspend
<1>2. st \in [Proc -> States]
  BY WakeStates DEF Typed, TypeOK, States
<1>3. \A d \in Cvar : p \notin Sleepers(cvarQueue[d])
  BY <1>1 DEF Asleep, CvarSleepers, Runs
<1>4. /\ Sleepers(after) = Sleepers(cvarQueue[c]) \cup {p}
      /\ NoRepeat(after)
      /\ after # <<>>
  <2>1. cvarQueue[c] \in Seq(Exclusives(Proc))
    BY NodesAreExclusives DEF Typed, TypeOK
  <2>2. NoRepeat(cvarQueue[c]) /\ p \notin Sleepers(cvarQueue[c])
    BY <1>3 DEF Asleep, CvarSleepers
  <2> QED BY <2>1, <2>2, SleepSleepers, Zenon
<1>5. /\ MutexSleepers' /\ NoLostWakeup'
      /\ \A q \in Proc \ {p} : at[q] = "cvar" => state'[q] = state[q]
  <2>1. \A q \in Proc \ {p} : at'[q] = at[q] /\ want'[q] = want[q]
    BY <1>1 DEF Typed, TypeOK
  <2>2. \A q \in Proc \ {p} : state'[q] = st[q]
    BY <1>1, <1>2
  <2> QED BY <1>1, <2>1, <2>2, UnlockWakes
<1> HIDE DEF after, st
<1>6. cvarQueue'[c] = after /\ \A d \in Cvar \ {c} : cvarQueue'[d] = cvarQueue[d]
  BY <1>1 DEF Typed, TypeOK
<1>7. state'[p] = "waiting" /\ at'[p] = "cvar" /\ \A q \in Proc \ {p} : at'[q] = at[q]
  BY <1>1, <1>2 DEF Typed, TypeOK
<1>8. \A d \in Cvar : NoRepeat(cvarQueue'[d])
  BY <1>4, <1>6 DEF Asleep, CvarSleepers
<1>9. ASSUME NEW d \in Cvar, NEW q \in Sleepers(cvarQueue'[d])
      PROVE  q \in Proc /\ state'[q] = "waiting" /\ at'[q] = "cvar"
  <2>1. CASE q = p
    BY <1>7, <2>1
  <2>2. CASE q # p
    <3>1. q \in Sleepers(cvarQueue[d])
      BY <1>4, <1>6, <1>9, <2>2
    <3>2. q \in Proc /\ state[q] = "waiting" /\ at[q] = "cvar"
      BY <3>1 DEF Asleep, CvarSleepers
    <3> QED BY <1>5, <1>7, <2>2, <3>2
  <2> QED BY <2>1, <2>2
<1>10. CvarSleepers'
  BY <1>8, <1>9 DEF CvarSleepers
<1>11. OneCvar'
  BY <1>3, <1>4, <1>6 DEF Asleep, OneCvar
<1> QED BY <1>5, <1>10, <1>11 DEF Asleep

\* cvarSignal and cvarBroadcast wake processes that go for their mutex.
LEMMA AsleepSignalCvar ==
  ASSUME Typed, Asleep, NEW p \in Proc, NEW c \in Cvar,
         NEW exclusive \in BOOLEAN, SignalCvar(p, c, exclusive)
  PROVE  Asleep'
<1> DEFINE W == SignalWakes(cvarQueue[c], exclusive)
           after == SignalLeaves(cvarQueue[c], exclusive)
<1>1. /\ W \subseteq Sleepers(cvarQueue[c])
      /\ Sleepers(after) = Sleepers(cvarQueue[c]) \ W
      /\ NoRepeat(after)
      /\ cvarQueue[c] # <<>> => W # {}
  <2>1. cvarQueue[c] \in Seq(Exclusives(Proc))
    BY NodesAreExclusives DEF Typed, TypeOK
  <2>2. NoRepeat(cvarQueue[c])
    BY DEF Asleep, CvarSleepers
  <2> QED BY <2>1, <2>2, SignalSleepers, Zenon
<1>2. cvarQueue' = [cvarQueue EXCEPT ![c] = after] /\ UNCHANGED <<at, want, locked, mutexQueue>>
  BY Zenon DEF SignalCvar
<1>3. \A q \in Proc : state'[q] = IF q \in W /\ state[q] # "free" THEN "running" ELSE state[q]
  BY DEF SignalCvar, wakeUpProcess
<1> HIDE DEF W, after
<1>4. cvarQueue'[c] = after /\ \A d \in Cvar \ {c} : cvarQueue'[d] = cvarQueue[d]
  BY <1>2 DEF Typed, TypeOK
<1>5. \A q \in W : at[q] = "cvar"
  BY <1>1 DEF Asleep, CvarSleepers
<1>6. \A q \in Proc : at[q] = "acquire" => state'[q] = state[q]
  BY <1>3, <1>5
<1>7. MutexSleepers'
  BY <1>2, <1>6 DEF Asleep, MutexSleepers
<1>8. NoLostWakeup'
  BY <1>2, <1>6 DEF Asleep, NoLostWakeup, Runs
<1>9. \A d \in Cvar : Sleepers(cvarQueue'[d]) \subseteq Sleepers(cvarQueue[d]) \ W
  BY <1>1, <1>4 DEF Asleep, OneCvar
<1>10. \A d \in Cvar : NoRepeat(cvarQueue'[d])
  BY <1>1, <1>4 DEF Asleep, CvarSleepers
<1>11. CvarSleepers'
  BY <1>2, <1>3, <1>9, <1>10 DEF Asleep, CvarSleepers
<1>12. OneCvar'
  BY <1>9 DEF Asleep, OneCvar
<1> QED BY <1>7, <1>8, <1>11, <1>12 DEF Asleep

\* Every call of the kernel keeps free mutexes with sleepers attended to.
LEMMA AsleepNext ==
  ASSUME ~KillSleepers, Typed, Asleep, [Next]_vars
  PROVE  Asleep'
<1>0. Sleepers(<<>>) = {} /\ NoRepeat(<<>>)
  BY DEF Sleepers, NoRepeat
<1>1. ASSUME NEW p \in Proc, NEW m \in Mutex, mutexInitialize(p, m)
      PROVE  Asleep'
  <2>1. mutexQueue' = [mutexQueue EXCEPT ![m] = <<>>] /\ locked' = [locked EXCEPT ![m] = FALSE]
        /\ UNCHANGED <<state, at, want, cvarQueue>>
    BY <1>1 DEF mutexInitialize, procVars
  <2>2. mutexQueue'[m] = <<>>
        /\ \A k \in Mutex \ {m} : mutexQueue'[k] = mutexQueue[k] /\ locked'[k] = locked[k]
    BY <2>1 DEF Typed, TypeOK
  <2>3. MutexSleepers' /\ CvarSleepers' /\ OneCvar'
    BY <1>0, <2>1, <2>2 DEF Asleep, MutexSleepers, CvarSleepers, OneCvar
  <2>4. NoLostWakeup'
    BY <2>1, <2>2 DEF Asleep, NoLostWakeup, Runs
  <2> QED BY <2>3, <2>4 DEF Asleep
<1>2. ASSUME NEW p \in Proc, NEW c \in Cvar, cvarInitialize(p, c)
      PROVE  Asleep'
  <2>1. cvarQueue' = [cvarQueue EXCEPT ![c] = <<>>] /\ UNCHANGED <<state, at, want, locked, mutexQueue>>
    BY <1>2 DEF cvarInitialize, procVars
  <2>2. cvarQueue'[c] = <<>> /\ \A d \in Cvar \ {c} : cvarQueue'[d] = cvarQueue[d]
    BY <2>1 DEF Typed, TypeOK
  <2>3. \A d \in Cvar : Sleepers(cvarQueue'[d]) \subseteq Sleepers(cvarQueue[d])
                         /\ NoRepeat(cvarQueue'[d])
    BY <1>0, <2>2 DEF Asleep, CvarSleepers
  <2>4. CvarSleepers'
    BY <2>1, <2>3 DEF Asleep, CvarSleepers
  <2>5. OneCvar'
    BY <2>3 DEF Asleep, OneCvar
  <2>6. MutexSleepers'
    BY <2>1 DEF Asleep, MutexSleepers
  <2>7. NoLostWakeup'
    BY <2>1 DEF Asleep, NoLostWakeup, Runs
  <2> QED BY <2>4, <2>5, <2>6, <2>7 DEF Asleep
<1>3. ASSUME NEW p \in Proc, NEW m \in Mutex, mutexAcquire(p, m)
      PROVE  Asleep'
  BY <1>3, AsleepEnterAcquire DEF mutexAcquire, Runs
<1>4. ASSUME NEW p \in Proc, mutexAcquireWoken(p)
      PROVE  Asleep'
  <2>1. want[p] \in Mutex
    BY <1>4 DEF mutexAcquireWoken, Runs, Typed, CallsTyped
  <2> QED BY <1>4, <2>1, AsleepWaitForLock DEF mutexAcquireWoken, Runs
<1>5. ASSUME NEW p \in Proc, cvarWaitWoken(p)
      PROVE  Asleep'
  <2>1. want[p] \in Mutex
    BY <1>5 DEF cvarWaitWoken, Runs, Typed, CallsTyped
  <2> QED BY <1>5, <2>1, AsleepEnterAcquire DEF cvarWaitWoken, Runs
<1>6. ASSUME NEW p \in Proc, killProcess(p)
      PROVE  Asleep'
  <2> DEFINE dead == {p} \cup Threads(p)
  <2>1. /\ dead \in SUBSET Proc
        /\ \A q \in dead : state[q] # "waiting" /\ ~Runs(q, "acquire")
    BY <1>6 DEF killProcess, Threads, Runs
  <2>2. UNCHANGED <<locked, mutexQueue, cvarQueue>>
    BY <1>6 DEF killProcess
  <2>3. \A q \in Proc \ dead : state'[q] = state[q] /\ at'[q] = at[q] /\ want'[q] = want[q]
    BY <1>6 DEF killProcess
  <2> HIDE DEF dead
  <2> QED BY <2>1, <2>2, <2>3, AsleepUndisturbed
<1>7. ASSUME NEW p \in Proc, NEW c \in Proc, NEW leader, Spawn(p, c, leader)
      PROVE  Asleep'
  <2>1. CASE at[c] = "acquire"
    <3>1. MutexSleepers' /\ CvarSleepers' /\ OneCvar'
      BY <1>7 DEF Spawn, Asleep, MutexSleepers, CvarSleepers, OneCvar, Typed, TypeOK
    <3>2. NoLostWakeup'
      BY <1>7 DEF Spawn, Asleep, NoLostWakeup, Runs, Typed, TypeOK
    <3> QED BY <3>1, <3>2 DEF Asleep
  <2>2. CASE at[c] # "acquire"
    <3>1. {c} \in SUBSET Proc /\ \A q \in {c} : state[q] # "waiting" /\ ~Runs(q, "acquire")
      BY <1>7, <2>2 DEF Spawn, Runs
    <3>2. UNCHANGED <<locked, mutexQueue, cvarQueue>>
      BY <1>7 DEF Spawn
    <3>3. \A q \in Proc \ {c} : state'[q] = state[q] /\ at'[q] = at[q] /\ want'[q] = want[q]
      BY <1>7 DEF Spawn, Typed, TypeOK
    <3> QED BY <3>1, <3>2, <3>3, AsleepUndisturbed
  <2> QED BY <2>1, <2>2
<1>8. CASE UNCHANGED vars
  <2>1. UNCHANGED <<state, at, want, locked, mutexQueue, cvarQueue>>
    BY <1>8 DEF vars
  <2> DEFINE none == {}
  <2>2. none \in SUBSET Proc /\ \A q \in none : state[q] # "waiting" /\ ~Runs(q, "acquire")
    OBVIOUS
  <2>3. \A q \in Proc \ none : state'[q] = state[q] /\ at'[q] = at[q] /\ want'[q] = want[q]
    BY <2>1
  <2> HIDE DEF none
  <2> QED BY <2>1, <2>2, <2>3, AsleepUndisturbed
<1> QED
  BY <1>1, <1>2, <1>3, <1>4, <1>5, <1>6, <1>7, <1>8, AsleepRelease,
     AsleepCvarWait, AsleepSignalCvar, SyncAssumption
  DEF Next, cvarSignal, cvarBroadcast, forkProcess, createThread

\* A free mutex with sleepers always has a process on its way to it.
THEOREM NoLostWakeupHolds ==
  ASSUME ~KillSleepers PROVE Spec => []NoLostWakeup
<1> DEFINE IInv == Typed /\ Asleep
<1>1. Init => IInv
  BY TypedInit, AsleepInit
<1>2. IInv /\ [Next]_vars => IInv'
  BY TypedNext, AsleepNext
<1>3. IInv => NoLostWakeup
  BY DEF Asleep
<1> QED BY <1>1, <1>2, <1>3, PTL DEF Spec

------------------------------------------------------------------------------
\* What the calls return with, for every program.

Returned ==
  \A p \in Proc, m \in Mutex :
    Acquires(p, m) /\ at'[p] = "user"
      => /\ locked'[m] /\ current_owner'[m] = p
         /\ current_owner[m] \in {p, NoProc}

\* The loop of mutexAcquire sleeps or ends with a lock that was nobody's.
LEMMA WaitForLockReturned ==
  ASSUME Typed, OwnerLocks, NEW p \in Proc, NEW m \in Mutex,
         WaitForLock(p, m), at'[p] = "user"
  PROVE  locked'[m] /\ current_owner'[m] = p /\ current_owner[m] = NoProc
<1>1. CASE TakeLock(p, m)
  BY <1>1 DEF TakeLock, OwnerLocks, Typed, TypeOK
<1>2. ~SleepOnMutex(p, m)
  BY DEF SleepOnMutex, Suspend, Typed, TypeOK
<1> QED BY <1>1, <1>2 DEF WaitForLock

\* The early return of mutexAcquire finds the mutex locked and the caller's own.
LEMMA EnterAcquireReturned ==
  ASSUME Typed, OwnerLocks, NEW p \in Proc, NEW m \in Mutex,
         EnterAcquire(p, m), at'[p] = "user"
  PROVE  locked'[m] /\ current_owner'[m] = p /\ current_owner[m] \in {p, NoProc}
<1>1. CASE WaitForLock(p, m)
  BY <1>1, WaitForLockReturned
<1>2. CASE current_owner[m] = p /\ UNCHANGED <<locked, current_owner>>
  BY <1>2, SyncAssumption DEF OwnerLocks
<1> QED BY <1>1, <1>2, Zenon DEF EnterAcquire

\* Every call that returns, returns with the lock.
LEMMA ReturnedAlways ==
  ASSUME Typed, OwnerLocks
  PROVE  Returned
<1> SUFFICES ASSUME NEW p \in Proc, NEW m \in Mutex, Acquires(p, m), at'[p] = "user"
             PROVE  locked'[m] /\ current_owner'[m] = p /\ current_owner[m] \in {p, NoProc}
  BY DEF Returned
<1>1. CASE mutexAcquire(p, m)
  BY <1>1, EnterAcquireReturned DEF mutexAcquire
<1>2. CASE want[p] = m /\ mutexAcquireWoken(p)
  BY <1>2, WaitForLockReturned DEF mutexAcquireWoken
<1>3. CASE want[p] = m /\ cvarWaitWoken(p)
  BY <1>3, EnterAcquireReturned DEF cvarWaitWoken
<1> QED BY <1>1, <1>2, <1>3 DEF Acquires

\* Every step writes locked and current_owner of a mutex together or neither.
LEMMA OwnerLocksNext ==
  ASSUME Typed, OwnerLocks, [Next]_vars
  PROVE  OwnerLocks'
<1>1. ASSUME UNCHANGED <<locked, current_owner>>
      PROVE  OwnerLocks'
  BY <1>1 DEF OwnerLocks
<1>2. ASSUME NEW m \in Mutex, locked' = [locked EXCEPT ![m] = FALSE],
             current_owner' = [current_owner EXCEPT ![m] = NoProc]
      PROVE  OwnerLocks'
  BY <1>2 DEF OwnerLocks, Typed, TypeOK
<1>3. ASSUME NEW p \in Proc, NEW m \in Mutex, WaitForLock(p, m)
      PROVE  OwnerLocks'
  <2>1. CASE TakeLock(p, m)
    BY <2>1, SyncAssumption DEF TakeLock, OwnerLocks, Typed, TypeOK
  <2>2. CASE SleepOnMutex(p, m)
    BY <1>1, <2>2 DEF SleepOnMutex
  <2> QED BY <1>3, <2>1, <2>2 DEF WaitForLock
<1>4. ASSUME NEW p \in Proc, NEW m \in Mutex, EnterAcquire(p, m)
      PROVE  OwnerLocks'
  BY <1>1, <1>3, <1>4, Zenon DEF EnterAcquire
<1>5. ASSUME NEW p \in Proc, NEW m \in Mutex,
             mutexInitialize(p, m) \/ mutexRelease(p, m) \/ mutexAcquire(p, m)
      PROVE  OwnerLocks'
  <2>1. CASE mutexInitialize(p, m)
    BY <1>2, <2>1 DEF mutexInitialize
  <2>2. CASE mutexRelease(p, m)
    BY <1>2, <2>2 DEF mutexRelease, UnlockMutex
  <2>3. CASE mutexAcquire(p, m)
    BY <1>4, <2>3 DEF mutexAcquire
  <2> QED BY <1>5, <2>1, <2>2, <2>3
<1>6. ASSUME NEW p \in Proc, mutexAcquireWoken(p) \/ cvarWaitWoken(p)
      PROVE  OwnerLocks'
  <2>1. want[p] \in Mutex
    BY <1>6 DEF mutexAcquireWoken, cvarWaitWoken, Runs, Typed, CallsTyped
  <2> QED BY <1>3, <1>4, <1>6, <2>1 DEF mutexAcquireWoken, cvarWaitWoken
<1>7. ASSUME NEW p \in Proc, NEW c \in Cvar, NEW m \in Mutex, cvarWait(p, c, m)
      PROVE  OwnerLocks'
  BY <1>2, <1>7 DEF cvarWait, UnlockMutex
<1>8. ASSUME NEW p \in Proc, NEW c \in Cvar,
             cvarInitialize(p, c) \/ cvarSignal(p, c) \/ cvarBroadcast(p, c)
      PROVE  OwnerLocks'
  BY <1>1, <1>8 DEF cvarInitialize, cvarSignal, cvarBroadcast, SignalCvar
<1>9. ASSUME NEW p \in Proc, NEW c \in Proc, forkProcess(p) \/ createThread(p, c)
      PROVE  OwnerLocks'
  BY <1>1, <1>9 DEF forkProcess, createThread, Spawn
<1>10. ASSUME NEW p \in Proc, killProcess(p)
       PROVE  OwnerLocks'
  BY <1>1, <1>10 DEF killProcess
<1>11. CASE UNCHANGED vars
  BY <1>1, <1>11 DEF vars
<1> QED BY <1>5, <1>6, <1>7, <1>8, <1>9, <1>10, <1>11 DEF Next

\* Acquire and CvarWait return only with a mutex that is locked and owned by
\* the caller, and that was nobody else's, whatever programs release or leave
\* locked.
THEOREM ReturnsWithMutexHolds == Spec => ReturnsWithMutex
<1>1. Init => OwnerLocks
  BY DEF Init, OwnerLocks
<1>2. Typed /\ OwnerLocks /\ [Next]_vars => OwnerLocks'
  BY OwnerLocksNext
<1>3. Typed /\ OwnerLocks => [Returned]_vars
  BY ReturnedAlways
<1> QED BY <1>1, <1>2, <1>3, TypedInit, TypedNext, PTL DEF Spec, ReturnsWithMutex, Returned

------------------------------------------------------------------------------
\* Every sleeper is on a queue, once: again for programs that do not exit while
\* a thread of theirs is asleep.

\* The inductive invariant adds the converse of Asleep: a queue is empty until
\* its resource is created, and whoever is waiting is on the queue of its call.
EmptyUncreated ==
  /\ \A m \in Mutex \ created : mutexQueue[m] = <<>>
  /\ \A c \in Cvar \ created : cvarQueue[c] = <<>>

OnQueueOfCall(p) ==
  \/ at[p] = "acquire" /\ p \in Sleepers(mutexQueue[want[p]])
  \/ at[p] = "cvar" /\ \E c \in Cvar : p \in Sleepers(cvarQueue[c])

WaitingQueued == \A p \in Proc : state[p] = "waiting" => OnQueueOfCall(p)

Queued == EmptyUncreated /\ WaitingQueued

\* Nobody waits when the kernel starts.
LEMMA QueuedInit == Init => Queued
  BY DEF Init, Queued, EmptyUncreated, WaitingQueued

\* A step keeps the sleepers on their queues when nobody but T starts to wait
\* or changes its call, and when only processes that stop waiting leave a queue.
LEMMA WaitingKept ==
  ASSUME WaitingQueued, Typed, NEW T,
         \A p \in Proc \ T : /\ state'[p] = "waiting" => state[p] = "waiting"
                             /\ at'[p] = at[p] /\ want'[p] = want[p],
         \A m \in Mutex : \A p \in Sleepers(mutexQueue[m]) :
           p \in Sleepers(mutexQueue'[m]) \/ state'[p] # "waiting",
         \A c \in Cvar : \A p \in Sleepers(cvarQueue[c]) :
           p \in Sleepers(cvarQueue'[c]) \/ state'[p] # "waiting",
         \A p \in Proc \cap T : state'[p] = "waiting" => OnQueueOfCall(p)'
  PROVE  WaitingQueued'
<1>1. SUFFICES ASSUME NEW p \in Proc \ T, state'[p] = "waiting"
               PROVE  OnQueueOfCall(p)'
  BY DEF WaitingQueued
<1>2. OnQueueOfCall(p) /\ at'[p] = at[p] /\ want'[p] = want[p]
  BY <1>1 DEF WaitingQueued
<1>3. CASE at[p] = "acquire" /\ p \in Sleepers(mutexQueue[want[p]])
  <2>1. want[p] \in Mutex
    BY <1>3 DEF Typed, CallsTyped
  <2> QED BY <1>1, <1>2, <1>3, <2>1 DEF OnQueueOfCall
<1>4. CASE at[p] = "cvar" /\ \E c \in Cvar : p \in Sleepers(cvarQueue[c])
  <2>1. PICK c \in Cvar : p \in Sleepers(cvarQueue[c])
    BY <1>4
  <2>2. p \in Sleepers(cvarQueue'[c])
    BY <1>1, <2>1
  <2> QED BY <1>2, <1>4, <2>2 DEF OnQueueOfCall
<1> QED BY <1>2, <1>3, <1>4 DEF OnQueueOfCall

\* The queues stand still, and T neither starts to wait nor is waiting.
LEMMA QueuedUndisturbed ==
  ASSUME Typed, Queued, UNCHANGED <<mutexQueue, cvarQueue>>, created \subseteq created',
         NEW T, \A p \in Proc \cap T : state'[p] # "waiting",
         \A p \in Proc \ T : state'[p] = state[p] /\ at'[p] = at[p] /\ want'[p] = want[p]
  PROVE  Queued'
<1>1. EmptyUncreated'
  BY DEF Queued, EmptyUncreated
<1>2. WaitingQueued'
  BY WaitingKept DEF Queued
<1> QED BY <1>1, <1>2 DEF Queued

\* The loop of mutexAcquire puts its caller on the queue of the mutex.
LEMMA QueuedWaitForLock ==
  ASSUME Typed, Asleep, Queued, NEW p \in Proc, NEW m \in Mutex \cap created,
         state[p] = "running", WaitForLock(p, m), UNCHANGED <<created, cvarQueue>>
  PROVE  Queued'
<1>1. CASE TakeLock(p, m)
  <2>1. /\ state' = state /\ mutexQueue' = mutexQueue
        /\ \A q \in Proc \ {p} : at'[q] = at[q] /\ want'[q] = want[q]
    BY <1>1 DEF TakeLock, Return, Typed, TypeOK
  <2>2. \A q \in Proc \cap {p} : state'[q] # "waiting"
    BY <2>1
  <2> QED BY <2>1, <2>2, QueuedUndisturbed
<1>2. CASE SleepOnMutex(p, m)
  <2> DEFINE after == addNodeToWaitQueue(WaitQueueNode(p, TRUE), mutexQueue[m])
  <2>1. /\ Sleepers(after) = Sleepers(mutexQueue[m]) \cup {p}
        /\ NoRepeat(after)
        /\ after # <<>>
    <3>1. mutexQueue[m] \in Seq(Exclusives(Proc))
      BY NodesAreExclusives DEF Typed, TypeOK
    <3>2. NoRepeat(mutexQueue[m]) /\ p \notin Sleepers(mutexQueue[m])
      BY DEF Asleep, MutexSleepers
    <3> QED BY <3>1, <3>2, SleepSleepers, Zenon
  <2>2. mutexQueue' = [mutexQueue EXCEPT ![m] = after]
    BY <1>2 DEF SleepOnMutex
  <2> HIDE DEF after
  <2>3. mutexQueue'[m] = after /\ \A k \in Mutex \ {m} : mutexQueue'[k] = mutexQueue[k]
    BY <2>2 DEF Typed, TypeOK
  <2>4. /\ at'[p] = "acquire" /\ want'[p] = m
        /\ \A q \in Proc \ {p} : state'[q] = state[q] /\ at'[q] = at[q] /\ want'[q] = want[q]
    BY <1>2 DEF SleepOnMutex, Suspend, Typed, TypeOK
  <2>5. \A k \in Mutex : Sleepers(mutexQueue[k]) \subseteq Sleepers(mutexQueue'[k])
    BY <2>1, <2>3
  <2>6. OnQueueOfCall(p)'
    BY <2>1, <2>3, <2>4 DEF OnQueueOfCall
  <2>7. \A q \in Proc \cap {p} : state'[q] = "waiting" => OnQueueOfCall(q)'
    BY <2>6
  <2>8. WaitingQueued'
    <3> HIDE DEF OnQueueOfCall
    <3> QED BY <2>4, <2>5, <2>7, WaitingKept DEF Queued
  <2>9. EmptyUncreated'
    BY <2>3 DEF Queued, EmptyUncreated
  <2> QED BY <2>8, <2>9 DEF Queued
<1> QED BY <1>1, <1>2 DEF WaitForLock

\* So does mutexAcquire when it does not return at once.
LEMMA QueuedEnterAcquire ==
  ASSUME Typed, Asleep, Queued, NEW p \in Proc, NEW m \in Mutex \cap created,
         state[p] = "running", EnterAcquire(p, m), UNCHANGED <<created, cvarQueue>>
  PROVE  Queued'
<1>1. CASE WaitForLock(p, m)
  BY <1>1, QueuedWaitForLock
<1>2. CASE Return(p) /\ UNCHANGED <<state, mutexQueue>>
  <2>1. \A q \in Proc \ {p} : at'[q] = at[q] /\ want'[q] = want[q]
    BY <1>2 DEF Return, Typed, TypeOK
  <2>2. \A q \in Proc \cap {p} : state'[q] # "waiting"
    BY <1>2
  <2> QED BY <1>2, <2>1, <2>2, QueuedUndisturbed
<1> QED BY <1>1, <1>2, Zenon DEF EnterAcquire

\* A signal takes only processes off a queue that it makes runnable.
LEMMA SignalledRun ==
  ASSUME NEW queue \in Seq(ExclusiveNode), NoRepeat(queue), NEW exclusive \in BOOLEAN,
         NEW st \in [Proc -> States], \A p \in Sleepers(queue) : p \in Proc /\ st[p] = "waiting"
  PROVE  LET W == SignalWakes(queue, exclusive)
         IN  /\ W \subseteq Proc
             /\ \A p \in Proc : wakeUpProcess(st, W)[p] = IF p \in W THEN "running" ELSE st[p]
             /\ \A p \in Sleepers(queue) :
                  p \in W \/ p \in Sleepers(SignalLeaves(queue, exclusive))
<1> DEFINE W == SignalWakes(queue, exclusive)
           after == SignalLeaves(queue, exclusive)
<1>1. /\ W \subseteq Sleepers(queue)
      /\ Sleepers(after) = Sleepers(queue) \ W
      /\ NoRepeat(after)
      /\ queue # <<>> => W # {}
  <2>1. queue \in Seq(Exclusives(Proc))
    BY NodesAreExclusives
  <2> QED BY <2>1, SignalSleepers, Zenon
<1> HIDE DEF W, after
<1>2. W \subseteq Proc
  BY <1>1
<1>3. \A p \in Proc : wakeUpProcess(st, W)[p] = IF p \in W THEN "running" ELSE st[p]
  BY <1>1 DEF wakeUpProcess
<1>4. \A p \in Sleepers(queue) : p \in W \/ p \in Sleepers(after)
  BY <1>1
<1> QED BY <1>2, <1>3, <1>4, Zenon DEF W, after

\* mutexRelease, and cvarWait once its caller is on the queue of the cvar.
LEMMA QueuedUnlock ==
  ASSUME Typed, Asleep, Queued, NEW p \in Proc, NEW m \in Mutex \cap created,
         Runs(p, "user"), UnlockMutex(p, m), created' = created,
         \A q \in Proc \ {p} : at'[q] = at[q] /\ want'[q] = want[q],
         \A q \in Proc \ {p} :
           state'[q] = wakeUpProcess(state, SignalWakes(mutexQueue[m], TRUE))[q],
         state'[p] = "waiting" => OnQueueOfCall(p)',
         \A c \in Cvar : \/ cvarQueue'[c] = cvarQueue[c]
                         \/ /\ c \in created
                            /\ Sleepers(cvarQueue[c]) \subseteq Sleepers(cvarQueue'[c])
  PROVE  Queued'
<1> DEFINE W == SignalWakes(mutexQueue[m], TRUE)
           after == SignalLeaves(mutexQueue[m], TRUE)
<1>1. /\ W \subseteq Proc
      /\ \A q \in Proc : wakeUpProcess(state, W)[q] = IF q \in W THEN "running" ELSE state[q]
      /\ \A q \in Sleepers(mutexQueue[m]) : q \in W \/ q \in Sleepers(after)
  <2>1. /\ mutexQueue[m] \in Seq(ExclusiveNode)
        /\ state \in [Proc -> States]
    BY DEF Typed, TypeOK, States
  <2>2. /\ NoRepeat(mutexQueue[m])
        /\ \A q \in Sleepers(mutexQueue[m]) : q \in Proc /\ state[q] = "waiting"
    BY DEF Asleep, MutexSleepers
  <2> QED BY <2>1, <2>2, SignalledRun, Zenon
<1>2. mutexQueue' = [mutexQueue EXCEPT ![m] = after]
  BY Zenon DEF UnlockMutex
<1>3. \A q \in Proc \ {p} : state'[q] = IF q \in W THEN "running" ELSE state[q]
  BY <1>1
<1> HIDE DEF W, after
<1>4. mutexQueue'[m] = after /\ \A k \in Mutex \ {m} : mutexQueue'[k] = mutexQueue[k]
  BY <1>2 DEF Typed, TypeOK
<1>5. \A q \in Sleepers(mutexQueue[m]) : q # p
  BY DEF Asleep, MutexSleepers, Runs
<1>6. \A k \in Mutex : \A q \in Sleepers(mutexQueue[k]) :
        q \in Sleepers(mutexQueue'[k]) \/ state'[q] # "waiting"
  BY <1>1, <1>3, <1>4, <1>5 DEF Asleep, MutexSleepers
<1>7. WaitingQueued'
  <2>1. \A q \in Proc \ {p} : /\ state'[q] = "waiting" => state[q] = "waiting"
                              /\ at'[q] = at[q] /\ want'[q] = want[q]
    BY <1>3
  <2>2. \A c \in Cvar : \A q \in Sleepers(cvarQueue[c]) :
          q \in Sleepers(cvarQueue'[c]) \/ state'[q] # "waiting"
    OBVIOUS
  <2>3. \A q \in Proc \cap {p} : state'[q] = "waiting" => OnQueueOfCall(q)'
    <3> HIDE DEF OnQueueOfCall
    <3> QED OBVIOUS
  <2> QED BY <1>6, <2>1, <2>2, <2>3, WaitingKept DEF Queued
<1>8. EmptyUncreated'
  BY <1>4 DEF Queued, EmptyUncreated
<1> QED BY <1>7, <1>8 DEF Queued

\* cvarSignal and cvarBroadcast make everyone runnable whose node they free.
LEMMA QueuedSignalCvar ==
  ASSUME Typed, Asleep, Queued, NEW p \in Proc, NEW c \in Cvar,
         NEW exclusive \in BOOLEAN, SignalCvar(p, c, exclusive)
  PROVE  Queued'
<1> DEFINE W == SignalWakes(cvarQueue[c], exclusive)
           after == SignalLeaves(cvarQueue[c], exclusive)
<1>1. /\ W \subseteq Proc
      /\ \A q \in Proc : wakeUpProcess(state, W)[q] = IF q \in W THEN "running" ELSE state[q]
      /\ \A q \in Sleepers(cvarQueue[c]) : q \in W \/ q \in Sleepers(after)
  <2>1. /\ cvarQueue[c] \in Seq(ExclusiveNode)
        /\ state \in [Proc -> States]
    BY DEF Typed, TypeOK, States
  <2>2. /\ NoRepeat(cvarQueue[c])
        /\ \A q \in Sleepers(cvarQueue[c]) : q \in Proc /\ state[q] = "waiting"
    BY DEF Asleep, CvarSleepers
  <2> QED BY <2>1, <2>2, SignalledRun, Zenon
<1>2. /\ cvarQueue' = [cvarQueue EXCEPT ![c] = after]
      /\ state' = wakeUpProcess(state, W)
      /\ c \in created
      /\ UNCHANGED <<at, want, created, mutexQueue>>
  BY Zenon DEF SignalCvar
<1> HIDE DEF W, after
<1>3. cvarQueue'[c] = after /\ \A d \in Cvar \ {c} : cvarQueue'[d] = cvarQueue[d]
  BY <1>2 DEF Typed, TypeOK
<1>4. \A d \in Cvar : \A q \in Sleepers(cvarQueue[d]) :
        q \in Sleepers(cvarQueue'[d]) \/ state'[q] # "waiting"
  BY <1>1, <1>2, <1>3
<1>5. WaitingQueued'
  <2> DEFINE none == {}
  <2>1. \A q \in Proc \ none : /\ state'[q] = "waiting" => state[q] = "waiting"
                               /\ at'[q] = at[q] /\ want'[q] = want[q]
    BY <1>1, <1>2
  <2>2. \A q \in Proc \cap none : state'[q] = "waiting" => OnQueueOfCall(q)'
    OBVIOUS
  <2> HIDE DEF none
  <2> QED BY <1>2, <1>4, <2>1, <2>2, WaitingKept DEF Queued
<1>6. EmptyUncreated'
  BY <1>2, <1>3 DEF Queued, EmptyUncreated
<1> QED BY <1>5, <1>6 DEF Queued

\* cvarWait is a release that ends with the caller on the queue of the cvar.
LEMMA QueuedCvarWait ==
  ASSUME Typed, Asleep, Queued, NEW p \in Proc, NEW c \in Cvar, NEW m \in Mutex,
         cvarWait(p, c, m)
  PROVE  Queued'
<1> DEFINE after == addNodeToWaitQueue(WaitQueueNode(p, TRUE), cvarQueue[c])
           st == wakeUpProcess(state, SignalWakes(mutexQueue[m], TRUE))
<1>1. /\ Runs(p, "user") /\ UnlockMutex(p, m)
      /\ c \in created /\ m \in created /\ created' = created
      /\ state' = [st EXCEPT ![p] = "waiting"]
      /\ cvarQueue' = [cvarQueue EXCEPT ![c] = after]
      /\ at' = [at EXCEPT ![p] = "cvar"] /\ want' = [want EXCEPT ![p] = m]
  BY Zenon DEF cvarWait, Suspend
<1>2. st \in [Proc -> States]
  BY WakeStates DEF Typed, TypeOK, States
<1>3. /\ Sleepers(after) = Sleepers(cvarQueue[c]) \cup {p}
      /\ NoRepeat(after)
      /\ after # <<>>
  <2>1. cvarQueue[c] \in Seq(Exclusives(Proc))
    BY NodesAreExclusives DEF Typed, TypeOK
  <2>2. NoRepeat(cvarQueue[c]) /\ p \notin Sleepers(cvarQueue[c])
    BY <1>1 DEF Asleep, CvarSleepers, Runs
  <2> QED BY <2>1, <2>2, SleepSleepers, Zenon
<1>4. \A q \in Proc \ {p} : state'[q] = st[q]
  BY <1>1, <1>2
<1> HIDE DEF after
<1>5. cvarQueue'[c] = after /\ \A d \in Cvar \ {c} : cvarQueue'[d] = cvarQueue[d]
  BY <1>1 DEF Typed, TypeOK
<1>6. at'[p] = "cvar" /\ \A q \in Proc \ {p} : at'[q] = at[q] /\ want'[q] = want[q]
  BY <1>1 DEF Typed, TypeOK
<1>7. OnQueueOfCall(p)'
  BY <1>3, <1>5, <1>6 DEF OnQueueOfCall
<1>8. \A d \in Cvar : \/ cvarQueue'[d] = cvarQueue[d]
                      \/ /\ d \in created
                         /\ Sleepers(cvarQueue[d]) \subseteq Sleepers(cvarQueue'[d])
  BY <1>1, <1>3, <1>5
<1>9. m \in Mutex \cap created
  BY <1>1
<1> HIDE DEF OnQueueOfCall
<1> QED BY <1>1, <1>4, <1>6, <1>7, <1>8, <1>9, QueuedUnlock

\* Every call of the kernel keeps the sleepers on the queues of their calls.
LEMMA QueuedNext ==
  ASSUME ~KillSleepers, Typed, CallsCreated, Asleep, Queued, [Next]_vars
  PROVE  Queued'
<1> DEFINE none == {}
<1>0. ASSUME UNCHANGED <<state, at, want, mutexQueue, cvarQueue>>, created \subseteq created'
      PROVE  Queued'
  <2>1. \A q \in Proc \cap none : state'[q] # "waiting"
    OBVIOUS
  <2>2. \A q \in Proc \ none : state'[q] = state[q] /\ at'[q] = at[q] /\ want'[q] = want[q]
    BY <1>0
  <2> HIDE DEF none
  <2> QED BY <1>0, <2>1, <2>2, QueuedUndisturbed
<1>1. ASSUME NEW p \in Proc, NEW m \in Mutex, mutexInitialize(p, m)
      PROVE  Queued'
  <2>1. /\ m \in Mutex \ created /\ created' = created \cup {m}
        /\ mutexQueue' = [mutexQueue EXCEPT ![m] = <<>>]
        /\ UNCHANGED <<state, at, want, cvarQueue>>
    BY <1>1 DEF mutexInitialize, procVars
  <2>2. mutexQueue' = mutexQueue
    BY <2>1 DEF Queued, EmptyUncreated, Typed, TypeOK
  <2> QED BY <1>0, <2>1, <2>2
<1>2. ASSUME NEW p \in Proc, NEW c \in Cvar, cvarInitialize(p, c)
      PROVE  Queued'
  <2>1. /\ c \in Cvar \ created /\ created' = created \cup {c}
        /\ cvarQueue' = [cvarQueue EXCEPT ![c] = <<>>]
        /\ UNCHANGED <<state, at, want, mutexQueue>>
    BY <1>2 DEF cvarInitialize, procVars
  <2>2. cvarQueue' = cvarQueue
    BY <2>1 DEF Queued, EmptyUncreated, Typed, TypeOK
  <2> QED BY <1>0, <2>1, <2>2
<1>3. ASSUME NEW p \in Proc, NEW m \in Mutex, mutexAcquire(p, m)
      PROVE  Queued'
  BY <1>3, QueuedEnterAcquire DEF mutexAcquire, Runs
<1>4. ASSUME NEW p \in Proc, mutexAcquireWoken(p) \/ cvarWaitWoken(p)
      PROVE  Queued'
  <2>1. want[p] \in Mutex \cap created /\ state[p] = "running"
    BY <1>4 DEF mutexAcquireWoken, cvarWaitWoken, Runs, Typed, CallsTyped, CallsCreated
  <2> QED BY <1>4, <2>1, QueuedWaitForLock, QueuedEnterAcquire
          DEF mutexAcquireWoken, cvarWaitWoken
<1>5. ASSUME NEW p \in Proc, NEW m \in Mutex, mutexRelease(p, m)
      PROVE  Queued'
  <2>1. /\ Runs(p, "user") /\ UnlockMutex(p, m) /\ m \in Mutex \cap created
        /\ state' = wakeUpProcess(state, SignalWakes(mutexQueue[m], TRUE))
        /\ UNCHANGED <<at, want, created, cvarQueue>>
    BY <1>5 DEF mutexRelease
  <2>2. state'[p] # "waiting"
    BY <2>1 DEF wakeUpProcess, Runs
  <2> QED BY <2>1, <2>2, QueuedUnlock
<1>6. ASSUME NEW p \in Proc, killProcess(p)
      PROVE  Queued'
  <2> DEFINE dead == {p} \cup Threads(p)
  <2>1. /\ \A q \in Proc \cap dead : state'[q] # "waiting"
        /\ \A q \in Proc \ dead : state'[q] = state[q] /\ at'[q] = at[q] /\ want'[q] = want[q]
    BY <1>6 DEF killProcess, Threads
  <2>2. UNCHANGED <<created, mutexQueue, cvarQueue>>
    BY <1>6 DEF killProcess
  <2> HIDE DEF dead
  <2> QED BY <2>1, <2>2, QueuedUndisturbed
<1>7. ASSUME NEW p \in Proc, NEW c \in Proc, NEW leader, Spawn(p, c, leader)
      PROVE  Queued'
  <2>1. /\ \A q \in Proc \cap {c} : state'[q] # "waiting"
        /\ \A q \in Proc \ {c} : state'[q] = state[q] /\ at'[q] = at[q] /\ want'[q] = want[q]
    BY <1>7 DEF Spawn, Typed, TypeOK
  <2>2. UNCHANGED <<created, mutexQueue, cvarQueue>>
    BY <1>7 DEF Spawn
  <2> QED BY <2>1, <2>2, QueuedUndisturbed
<1>8. CASE UNCHANGED vars
  BY <1>0, <1>8 DEF vars
<1> QED
  BY <1>1, <1>2, <1>3, <1>4, <1>5, <1>6, <1>7, <1>8, QueuedCvarWait,
     QueuedSignalCvar, SyncAssumption
  DEF Next, cvarSignal, cvarBroadcast, forkProcess, createThread

\* The places of a process on one queue: none, or the one it has.
LEMMA OnePlace ==
  ASSUME NEW queue, NEW p
  PROVE  /\ p \notin Sleepers(queue) => PlacesOn(queue, p) = {}
         /\ p \in Sleepers(queue) /\ NoRepeat(queue)
              => \E i : PlacesOn(queue, p) = {i}
<1>1. ASSUME p \in Sleepers(queue), NoRepeat(queue)
      PROVE  \E i : PlacesOn(queue, p) = {i}
  <2>1. PICK i \in 1..Len(queue) : queue[i].process = p
    BY <1>1 DEF Sleepers
  <2>2. PlacesOn(queue, p) = {i}
    BY <1>1, <2>1 DEF PlacesOn, NoRepeat
  <2> QED BY <2>2
<1>2. p \notin Sleepers(queue) => PlacesOn(queue, p) = {}
  BY DEF PlacesOn, Sleepers
<1> QED BY <1>1, <1>2

\* A process sleeps exactly while one waitqueue node points at it.
LEMMA SleepersCounted ==
  ASSUME Typed, Asleep, Queued
  PROVE  SleepersQueued
<1> SUFFICES ASSUME NEW p \in Proc
             PROVE  Cardinality(PlacesOf(p)) = IF state[p] = "waiting" THEN 1 ELSE 0
  BY DEF SleepersQueued
<1> DEFINE onMutex == UNION {{m} \X PlacesOn(mutexQueue[m], p) : m \in Mutex}
           onCvar == UNION {{c} \X PlacesOn(cvarQueue[c], p) : c \in Cvar}
<1>0. PlacesOf(p) = onMutex \cup onCvar
  BY DEF PlacesOf
<1>1. ASSUME \A m \in Mutex : p \notin Sleepers(mutexQueue[m])
      PROVE  onMutex = {}
  <2>1. \A m \in Mutex : PlacesOn(mutexQueue[m], p) = {}
    BY <1>1, OnePlace
  <2>2. \A m \in Mutex : {m} \X PlacesOn(mutexQueue[m], p) = {}
    BY <2>1
  <2> QED BY <2>2
<1>2. ASSUME \A c \in Cvar : p \notin Sleepers(cvarQueue[c])
      PROVE  onCvar = {}
  <2>1. \A c \in Cvar : PlacesOn(cvarQueue[c], p) = {}
    BY <1>2, OnePlace
  <2>2. \A c \in Cvar : {c} \X PlacesOn(cvarQueue[c], p) = {}
    BY <2>1
  <2> QED BY <2>2
<1>3. ASSUME state[p] # "waiting"
      PROVE  PlacesOf(p) = {}
  BY <1>0, <1>1, <1>2, <1>3 DEF Asleep, MutexSleepers, CvarSleepers
<1>4. ASSUME NEW m \in Mutex, at[p] = "acquire", p \in Sleepers(mutexQueue[m])
      PROVE  \E x : PlacesOf(p) = {x}
  <2>1. onCvar = {}
    BY <1>2, <1>4 DEF Asleep, CvarSleepers
  <2>2. \A k \in Mutex \ {m} : PlacesOn(mutexQueue[k], p) = {}
    BY <1>4, OnePlace DEF Asleep, MutexSleepers
  <2>3. PICK i : PlacesOn(mutexQueue[m], p) = {i}
    BY <1>4, OnePlace DEF Asleep, MutexSleepers
  <2>4. onMutex = {<<m, i>>}
    BY <2>2, <2>3
  <2> QED BY <1>0, <2>1, <2>4
<1>5. ASSUME NEW c \in Cvar, at[p] = "cvar", p \in Sleepers(cvarQueue[c])
      PROVE  \E x : PlacesOf(p) = {x}
  <2>1. onMutex = {}
    BY <1>1, <1>5 DEF Asleep, MutexSleepers
  <2>2. \A d \in Cvar \ {c} : PlacesOn(cvarQueue[d], p) = {}
    BY <1>5, OnePlace DEF Asleep, OneCvar
  <2>3. PICK i : PlacesOn(cvarQueue[c], p) = {i}
    BY <1>5, OnePlace DEF Asleep, CvarSleepers
  <2>4. onCvar = {<<c, i>>}
    BY <2>2, <2>3
  <2> QED BY <1>0, <2>1, <2>4
<1>6. ASSUME state[p] = "waiting"
      PROVE  \E x : PlacesOf(p) = {x}
  <2>1. OnQueueOfCall(p)
    BY <1>6 DEF Queued, WaitingQueued
  <2>2. at[p] = "acquire" => want[p] \in Mutex
    BY DEF Typed, CallsTyped
  <2> QED BY <1>4, <1>5, <2>1, <2>2 DEF OnQueueOfCall
<1>7. ASSUME NEW x, PlacesOf(p) = {x}
      PROVE  Cardinality(PlacesOf(p)) = 1
  BY <1>7, FS_Singleton
<1>8. Cardinality({}) = 0
  BY FS_EmptySet
<1> QED BY <1>3, <1>6, <1>7, <1>8

\* Nobody who sleeps is out of reach of every signal, and no signal reaches a
\* process that does not sleep on its queue.
THEOREM SleepersQueuedHolds ==
  ASSUME ~KillSleepers PROVE Spec => []SleepersQueued
<1> DEFINE IInv == Typed /\ CallsCreated /\ Asleep /\ Queued
<1>1. Init => IInv
  BY TypedInit, AsleepInit, QueuedInit DEF Init, CallsCreated
<1>2. IInv /\ [Next]_vars => IInv'
  BY TypedNext, CallsCreatedNext, AsleepNext, QueuedNext
<1>3. IInv => SleepersQueued
  BY SleepersCounted
<1> QED BY <1>1, <1>2, <1>3, PTL DEF Spec
==============================================================================
