-------------------------------- MODULE Sync ---------------------------------
(***************************************************************************)
(* Mutexes and condition variables: sync/mutex.c, sync/cvar.c and the part *)
(* of sync/sync.c and process/kill.c they depend on.                       *)
(*                                                                         *)
(* The kernel is never preempted, so a system call is atomic from its trap *)
(* to the point where it sleeps (sleepOnWaitQueue calls schedule) or       *)
(* returns.  A call that sleeps is split there: at[p] says which call p    *)
(* will continue when it is next scheduled, want[p] which mutex that call  *)
(* is about.  Which runnable process runs next is left open; any process   *)
(* in state "running" may take the next step.                              *)
(*                                                                         *)
(* A process is identified by the address of its descriptor, because that  *)
(* is what a waitqueue node and current_owner hold.  free() makes an       *)
(* address available to the next malloc(), so a freed address may later    *)
(* stand for an unrelated process.                                         *)
(*                                                                         *)
(* A call that names an id of the wrong type, or one not created yet,      *)
(* returns ERROR before it changes anything and is therefore a stuttering  *)
(* step.  mutexAcquire, mutexRelease and the cvar calls fall off their end *)
(* without a return statement; in the i386 build the caller then finds a   *)
(* pointer or 0 in %eax, never ERROR, so checkForError in cvarWait lets    *)
(* every completed mutexRelease through.                                   *)
(***************************************************************************)
EXTENDS WaitQueue, FiniteSets

CONSTANTS
  Proc,         \* addresses of process descriptors
  InitProc,     \* the process the kernel starts with; it never exits
  Mutex, Cvar,  \* resources that can be created
  NoProc,       \* the null descriptor pointer
  NoMutex,      \* no mutex is involved in the interrupted call
  ReleaseAny,   \* do programs release mutexes they do not hold?
  ExitHolding,  \* do programs exit while they hold a mutex?
  KillSleepers  \* do leaders exit while a thread of theirs is asleep?

ASSUME SyncAssumption ==
  /\ InitProc \in Proc /\ NoProc \notin Proc
  /\ NoMutex \notin Mutex
  /\ {ReleaseAny, ExitHolding, KillSleepers} \subseteq BOOLEAN

VARIABLES
  state,          \* descriptor->state, or "free" for an unused address
  thread_leader,  \* descriptor->thread_leader
  at, want,       \* the kernel call p continues when it runs, and its mutex
  created,        \* resource_head: the resources that exist
  locked,         \* mutex->locked
  current_owner,  \* mutex->current_owner
  mutexQueue,     \* mutex->waitqueue
  cvarQueue,      \* cvar->waitqueue
  held            \* history: who returned from Acquire and has not released

procVars == <<state, thread_leader, at, want>>
vars == <<state, thread_leader, at, want, created, locked, current_owner,
          mutexQueue, cvarQueue, held>>

Init ==
  /\ state = [p \in Proc |-> IF p = InitProc THEN "running" ELSE "free"]
  /\ thread_leader = [p \in Proc |-> NoProc]
  /\ at = [p \in Proc |-> "user"]
  /\ want = [p \in Proc |-> NoMutex]
  /\ created = {}
  /\ locked = [m \in Mutex |-> FALSE]
  /\ current_owner = [m \in Mutex |-> NoProc]
  /\ mutexQueue = [m \in Mutex |-> <<>>]
  /\ cvarQueue = [c \in Cvar |-> <<>>]
  /\ held = [m \in Mutex |-> {}]

------------------------------------------------------------------------------
\* Shared pieces of the calls.

Runs(p, place) == state[p] = "running" /\ at[p] = place

\* wakeUpProcess writes RUNNING through the node's pointer, whatever the
\* descriptor there is now; in a freed block the write reaches no process.
wakeUpProcess(st, woken) ==
  [p \in Proc |-> IF p \in woken /\ st[p] # "free" THEN "running" ELSE st[p]]

\* p returns to user mode.
Return(p) ==
  /\ at' = [at EXCEPT ![p] = "user"]
  /\ want' = [want EXCEPT ![p] = NoMutex]

\* p goes to sleep inside a call that will continue at place.
Suspend(p, place, m) ==
  /\ at' = [at EXCEPT ![p] = place]
  /\ want' = [want EXCEPT ![p] = m]

TakeLock(p, m) ==
  /\ ~locked[m]
  /\ locked' = [locked EXCEPT ![m] = TRUE]
  /\ current_owner' = [current_owner EXCEPT ![m] = p]
  /\ held' = [held EXCEPT ![m] = @ \cup {p}]
  /\ Return(p)
  /\ UNCHANGED <<state, mutexQueue>>

SleepOnMutex(p, m) ==
  /\ locked[m]
  /\ mutexQueue' = [mutexQueue EXCEPT ![m] =
                      addNodeToWaitQueue(WaitQueueNode(p, TRUE), @)]
  /\ state' = [state EXCEPT ![p] = "waiting"]
  /\ Suspend(p, "acquire", m)
  /\ UNCHANGED <<locked, current_owner, held>>

\* A version that sleeps once and takes the mutex whatever it finds on waking.
WaitForLockOnce(p, m) ==
  \/ TakeLock(p, m)
  \/ at[p] = "user" /\ SleepOnMutex(p, m)
  \/ /\ at[p] # "user" /\ locked[m]
     /\ current_owner' = [current_owner EXCEPT ![m] = p]
     /\ held' = [held EXCEPT ![m] = @ \cup {p}]
     /\ Return(p)
     /\ UNCHANGED <<state, locked, mutexQueue>>

\* while (mutex->locked) sleepOnWaitQueue(...), then lock it.
WaitForLock(p, m) == TakeLock(p, m) \/ SleepOnMutex(p, m)

\* mutexAcquire from its first line: an owner returns at once.
EnterAcquire(p, m) ==
  \/ /\ current_owner[m] = p
     /\ held' = [held EXCEPT ![m] = @ \cup {p}]
     /\ Return(p)
     /\ UNCHANGED <<state, locked, current_owner, mutexQueue>>
  \/ current_owner[m] # p /\ WaitForLock(p, m)

\* A version that leaves the node of the process it wakes on the queue.
UnlockMutexKeepNode(p, m) ==
  /\ locked' = [locked EXCEPT ![m] = FALSE]
  /\ current_owner' = [current_owner EXCEPT ![m] = NoProc]
  /\ held' = [held EXCEPT ![m] = @ \ {p}]
  /\ UNCHANGED mutexQueue

\* The assignments of mutexRelease; the caller adds what becomes of state.
UnlockMutex(p, m) ==
  /\ locked' = [locked EXCEPT ![m] = FALSE]
  /\ current_owner' = [current_owner EXCEPT ![m] = NoProc]
  /\ held' = [held EXCEPT ![m] = @ \ {p}]
  /\ mutexQueue' = [mutexQueue EXCEPT ![m] = SignalLeaves(@, TRUE)]

MayRelease(p, m) == ReleaseAny \/ p \in held[m]

------------------------------------------------------------------------------
\* The system calls.

mutexInitialize(p, m) ==
  /\ Runs(p, "user") /\ m \in Mutex \ created
  /\ created' = created \cup {m}
  /\ locked' = [locked EXCEPT ![m] = FALSE]
  /\ current_owner' = [current_owner EXCEPT ![m] = NoProc]
  /\ mutexQueue' = [mutexQueue EXCEPT ![m] = <<>>]
  /\ UNCHANGED <<procVars, cvarQueue, held>>

cvarInitialize(p, c) ==
  /\ Runs(p, "user") /\ c \in Cvar \ created
  /\ created' = created \cup {c}
  /\ cvarQueue' = [cvarQueue EXCEPT ![c] = <<>>]
  /\ UNCHANGED <<procVars, locked, current_owner, mutexQueue, held>>

mutexAcquire(p, m) ==
  /\ Runs(p, "user") /\ m \in created
  /\ EnterAcquire(p, m)
  /\ UNCHANGED <<thread_leader, created, cvarQueue>>

\* p was woken inside the loop of mutexAcquire.
mutexAcquireWoken(p) ==
  /\ Runs(p, "acquire")
  /\ WaitForLock(p, want[p])
  /\ UNCHANGED <<thread_leader, created, cvarQueue>>

\* A version that forgets to signal the waitqueue.
mutexReleaseSilent(p, m) ==
  /\ Runs(p, "user") /\ m \in created /\ MayRelease(p, m)
  /\ locked' = [locked EXCEPT ![m] = FALSE]
  /\ current_owner' = [current_owner EXCEPT ![m] = NoProc]
  /\ held' = [held EXCEPT ![m] = @ \ {p}]
  /\ UNCHANGED <<procVars, mutexQueue, created, cvarQueue>>

mutexRelease(p, m) ==
  /\ Runs(p, "user") /\ m \in created /\ MayRelease(p, m)
  /\ UnlockMutex(p, m)
  /\ state' = wakeUpProcess(state, SignalWakes(mutexQueue[m], TRUE))
  /\ UNCHANGED <<thread_leader, at, want, created, cvarQueue>>

\* Release the mutex, wake its first waiter, then sleep on the cvar.
cvarWait(p, c, m) ==
  /\ Runs(p, "user") /\ {c, m} \subseteq created /\ MayRelease(p, m)
  /\ UnlockMutex(p, m)
  /\ cvarQueue' = [cvarQueue EXCEPT ![c] =
                     addNodeToWaitQueue(WaitQueueNode(p, TRUE), @)]
  /\ state' = [wakeUpProcess(state, SignalWakes(mutexQueue[m], TRUE))
                 EXCEPT ![p] = "waiting"]
  /\ Suspend(p, "cvar", m)
  /\ UNCHANGED <<thread_leader, created>>

\* p was woken by a signal: mutexAcquire is the rest of cvarWait.
cvarWaitWoken(p) ==
  /\ Runs(p, "cvar")
  /\ EnterAcquire(p, want[p])
  /\ UNCHANGED <<thread_leader, created, cvarQueue>>

SignalCvar(p, c, exclusive) ==
  /\ Runs(p, "user") /\ c \in created
  /\ state' = wakeUpProcess(state, SignalWakes(cvarQueue[c], exclusive))
  /\ cvarQueue' = [cvarQueue EXCEPT ![c] = SignalLeaves(@, exclusive)]
  /\ UNCHANGED <<thread_leader, at, want, created, locked, current_owner,
                 mutexQueue, held>>

cvarSignal(p, c) == SignalCvar(p, c, TRUE)

cvarBroadcast(p, c) == SignalCvar(p, c, FALSE)

------------------------------------------------------------------------------
\* Processes come and go.  The process tree is kept flat: InitProc forks, so
\* every leader is a child of InitProc and killKernelContext releases its
\* descriptor within Exit.  Wait and Join are not calls of this model; a thread
\* that exits stays a zombie until its leader does.

\* The descriptor c becomes a runnable process.
Spawn(p, c, leader) ==
  /\ Runs(p, "user") /\ state[c] = "free"
  /\ thread_leader[p] = NoProc
  /\ state' = [state EXCEPT ![c] = "running"]
  /\ thread_leader' = [thread_leader EXCEPT ![c] = leader]
  /\ UNCHANGED <<at, want, created, locked, current_owner, mutexQueue,
                 cvarQueue, held>>

forkProcess(c) == Spawn(InitProc, c, NoProc)

createThread(p, c) == Spawn(p, c, p)

Threads(p) == {t \in Proc : thread_leader[t] = p}

\* killProcess and killKernelContext.  A leader's threads are killed and their
\* descriptors freed with its own; a thread becomes a zombie.  Neither a mutex
\* they own nor a waitqueue node of theirs is touched.  A leader with a
\* runnable thread is excluded: the kernel then switches to the descriptor it
\* has just freed, and nothing after that step has a meaning.
killProcess(p) ==
  LET freed == IF thread_leader[p] = NoProc THEN {p} \cup Threads(p) ELSE {}
      dead  == {p} \cup Threads(p)
  IN /\ Runs(p, "user") /\ p # InitProc
     /\ \A t \in Threads(p) : \/ state[t] = "zombie"
                              \/ KillSleepers /\ state[t] = "waiting"
     /\ ExitHolding \/ \A q \in dead, m \in Mutex : q \notin held[m]
     /\ state' = [q \in Proc |-> IF q \in freed THEN "free"
                                 ELSE IF q = p THEN "zombie" ELSE state[q]]
     /\ thread_leader' = [q \in Proc |->
                            IF q \in freed THEN NoProc ELSE thread_leader[q]]
     /\ at' = [q \in Proc |-> IF q \in dead THEN "user" ELSE at[q]]
     /\ want' = [q \in Proc |-> IF q \in dead THEN NoMutex ELSE want[q]]
     /\ held' = [m \in Mutex |-> held[m] \ dead]
     /\ UNCHANGED <<created, locked, current_owner, mutexQueue, cvarQueue>>

Next ==
  \E p \in Proc :
    \/ \E m \in Mutex : \/ mutexInitialize(p, m)
                        \/ mutexAcquire(p, m)
                        \/ mutexRelease(p, m)
    \/ \E c \in Cvar : \/ cvarInitialize(p, c)
                       \/ cvarSignal(p, c)
                       \/ cvarBroadcast(p, c)
    \/ \E c \in Cvar, m \in Mutex : cvarWait(p, c, m)
    \/ mutexAcquireWoken(p)
    \/ cvarWaitWoken(p)
    \/ forkProcess(p)
    \/ \E c \in Proc : createThread(p, c)
    \/ killProcess(p)

\* schedule() gives every runnable process its turn, and a clock interrupt
\* calls it at every tick, so a process the kernel has made runnable continues
\* the call it was in.  Nothing makes a program issue its next call.
Fairness ==
  \A p \in Proc : WF_vars(mutexAcquireWoken(p)) /\ WF_vars(cvarWaitWoken(p))

Spec == Init /\ [][Next]_vars /\ Fairness

------------------------------------------------------------------------------
\* Properties.

\* sleepOnWaitQueue makes exclusive nodes only.
ExclusiveNode == [process : Proc, is_exclusive : {TRUE}]

\* Every variable ranges over what its C declaration, or its place in a call,
\* allows.
TypeOK ==
  /\ state \in [Proc -> {"free", "running", "waiting", "zombie"}]
  /\ thread_leader \in [Proc -> Proc \cup {NoProc}]
  /\ at \in [Proc -> {"user", "acquire", "cvar"}]
  /\ want \in [Proc -> Mutex \cup {NoMutex}]
  /\ created \subseteq Mutex \cup Cvar
  /\ locked \in [Mutex -> BOOLEAN]
  /\ current_owner \in [Mutex -> Proc \cup {NoProc}]
  /\ mutexQueue \in [Mutex -> Seq(ExclusiveNode)]
  /\ cvarQueue \in [Cvar -> Seq(ExclusiveNode)]
  /\ held \in [Mutex -> SUBSET Proc]

\* mutexAcquire and cvarWait never leave two processes in possession of one
\* mutex.
MutualExclusion == \A m \in Mutex : \A p, q \in held[m] : p = q

\* A process that enters possession of a mutex finds it unlocked: the early
\* return of mutexAcquire is only for the process that locked it.
GrantedWhenFree ==
  [][\A m \in Mutex : held'[m] \ held[m] # {} => ~locked[m]]_vars

\* No wakeup is lost: while a free mutex has sleepers, a process that was
\* woken for it is on its way to take it, through every order in which
\* mutexRelease, cvarWait and barging acquirers can follow each other.
NoLostWakeup ==
  \A m \in Mutex :
    ~locked[m] /\ mutexQueue[m] # <<>>
      => \E p \in Proc : Runs(p, "acquire") /\ want[p] = m

\* The places of p on the waitqueues of the system.
PlacesOn(queue, p) == {i \in 1..Len(queue) : queue[i].process = p}

PlacesOf(p) ==
  (UNION {{m} \X PlacesOn(mutexQueue[m], p) : m \in Mutex})
  \cup (UNION {{c} \X PlacesOn(cvarQueue[c], p) : c \in Cvar})

\* A process sleeps exactly while one waitqueue node points at it, so no
\* signal reaches a process that does not sleep on that queue and no sleeper
\* is out of reach of every signal.
SleepersQueued ==
  \A p \in Proc :
    Cardinality(PlacesOf(p)) = IF state[p] = "waiting" THEN 1 ELSE 0

\* A mutex is locked exactly while its current_owner names somebody.
OwnerLocks == \A m \in Mutex : locked[m] <=> current_owner[m] # NoProc

\* p enters or continues a call that is to return with m.
Acquires(p, m) ==
  \/ mutexAcquire(p, m)
  \/ want[p] = m /\ (mutexAcquireWoken(p) \/ cvarWaitWoken(p))

\* Acquire and CvarWait return with the lock: whether the call slept, was
\* overtaken, or returned at once, the fields of the mutex then say that it is
\* locked and owned by the caller, and before they named nobody else.  An owner
\* that calls again changes nothing, and finds its mutex locked.
ReturnsWithMutex ==
  /\ []OwnerLocks
  /\ [][\A p \in Proc, m \in Mutex :
          Acquires(p, m) /\ at'[p] = "user"
            => /\ locked'[m] /\ current_owner'[m] = p
               /\ current_owner[m] \in {p, NoProc}]_vars

\* A mutex that is free while processes sleep on it is taken again.
LockProgress ==
  \A m \in Mutex : (~locked[m] /\ mutexQueue[m] # <<>>) ~> locked[m]
==============================================================================
