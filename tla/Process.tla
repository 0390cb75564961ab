------------------------------- MODULE Process -------------------------------
(***************************************************************************)
(* The process tree and the scheduler: process/process.c, fork.c, kill.c,  *)
(* switch.c and the clock interrupt of traps/traps.c, on the lists of      *)
(* core/list.h.                                                            *)
(*                                                                         *)
(* The kernel runs with interrupts off.  A call is atomic up to the point  *)
(* where schedule switches away from the caller: at[p] says whether p goes *)
(* on in user mode or inside the loop of waitForPID or joinThread.  Only   *)
(* the current process acts, and interrupts arrive while it is in user     *)
(* mode.                                                                   *)
(*                                                                         *)
(* PIDs are never reused, so a PID stands for the descriptor it was given  *)
(* to, and PID 1 is that of InitProc.  wake_up_time is kept relative to    *)
(* elapsed_clock_ticks: left is the number of ticks until it is reached.   *)
(* A Fork or a thread creation that gets no memory or no PID returns       *)
(* before it touches the tree and is left out; so are the calls the kernel *)
(* turns down at once and the exit status itself.                          *)
(***************************************************************************)
EXTENDS List, FiniteSets, Functions

CONSTANTS
  Proc,        \* addresses of process descriptors
  InitProc,    \* the process loadInit starts
  NoProc,      \* the null descriptor pointer
  Delays,      \* the values of ticks in calls of Delay
  Situations,  \* what programs may get themselves into, see below
  Malloc(_)    \* the addresses malloc may return, of those that are free

\* "orphans"     a process exits while children of its run
\* "killThreads" a leader exits while threads of its are runnable
\* "killSleepers" a leader exits while threads of its are on a waitqueue
\* "joinAgain"   a leader that has joined a thread creates or joins another
\*               or exits
\* "initCalls"   the initial process waits, joins, delays, sleeps or exits: the
\*               kernel was started with a program other than apps/idle.c
AllSituations ==
  {"orphans", "killThreads", "killSleepers", "joinAgain", "initCalls"}

ASSUME ProcessAssumption ==
  /\ InitProc \in Proc /\ NoProc \notin Proc /\ IsFiniteSet(Proc)
  /\ Delays \subseteq Nat \ {0}
  /\ Situations \subseteq AllSituations
  /\ \A S \in SUBSET Proc : Malloc(S) \subseteq S

VARIABLES
  live,           \* the descriptors that are allocated
  links,          \* the list nodes inside them
  parent, thread_leader,
  state,          \* "running" (PROCESS_RUNNING), "waiting" or "zombie"
  left,           \* clock ticks before wake_up_time
  at,             \* "user", or "wait" or "join" inside these calls
  want,           \* the thread p joins; NoProc if the id is nobody's
  queued,         \* how many nodes on waitqueues point to the address p
  current,        \* getCurrentProcess()
  kernel,         \* "up", or stopped: "spins" in schedule, or "undefined"
  joined          \* history: the leaders that have joined a thread

tree == <<live, links, parent, thread_leader>>
calls == <<at, want, queued>>
vars == <<tree, state, left, calls, current, kernel, joined>>

------------------------------------------------------------------------------
\* The nodes of a descriptor, and the head of the list of processes.

Member == {"children", "siblings", "thread_group", "thread_peers",
           "process_list"}
process_head == <<NoProc, "process_list">>
Node == (Proc \X Member) \cup {process_head}

children(p) == <<p, "children">>
siblings(p) == <<p, "siblings">>
thread_group(p) == <<p, "thread_group">>
thread_peers(p) == <<p, "thread_peers">>
process_list(p) == <<p, "process_list">>
elementForNode(node) == node[1]

\* Does forEachElement(pos, head, member) meet descriptors only, and end?
Sound(l, alive, head, member) ==
  /\ Ends(l.next, head, Cardinality(Proc))
  /\ \A n \in Range(forEachNode(l.next, head, Cardinality(Proc))) :
       n[2] = member /\ elementForNode(n) \in alive

\* The descriptors it visits then.
forEachElement(l, head) ==
  LET nodes == forEachNode(l.next, head, Cardinality(Proc))
  IN [i \in 1..Len(nodes) |-> elementForNode(nodes[i])]

Init ==
  /\ live = {InitProc}
  /\ links = addLastNode([next |-> [n \in Node |-> n], prev |-> [n \in Node |-> n]],
                         process_list(InitProc), process_head)
  /\ parent = [p \in Proc |-> NoProc]
  /\ thread_leader = [p \in Proc |-> NoProc]
  /\ state = [p \in Proc |-> "running"]
  /\ left = [p \in Proc |-> 0]
  /\ at = [p \in Proc |-> "user"]
  /\ want = [p \in Proc |-> NoProc]
  /\ queued = [p \in Proc |-> 0]
  /\ current = InitProc
  /\ kernel = "up"
  /\ joined = {}

------------------------------------------------------------------------------
\* schedule.

Runs(p, place) == kernel = "up" /\ current = p /\ at[p] = place

Verdict(ok) == IF ok THEN "up" ELSE "undefined"

\* A version that does not look at wake_up_time.
RunnableEarly(states, ticks, p) == states[p] = "running"

Runnable(states, ticks, p) == states[p] = "running" /\ ticks[p] = 0

Least(S) == CHOOSE n \in S : \A m \in S : n <= m

\* The first descriptor after start that can run, or NoProc.  A walk of the
\* whole list passes the head and ends where it starts.
FirstAfter(l, states, ticks, start) ==
  LET nth == Follow(l.next, start)
      Can(n) == nth[n] # process_head /\ Runnable(states, ticks, elementForNode(nth[n]))
      steps == {n \in 1..Cardinality(Proc)+1 : Can(n)}
  IN IF steps = {} THEN NoProc
     ELSE elementForNode(nth[Least(steps)])

\* A version that looks from the head of the list every time.
NextFromHead(l, states, ticks, p) == FirstAfter(l, states, ticks, process_head)

NextProcess(l, states, ticks, p) == FirstAfter(l, states, ticks, process_list(p))

\* With nobody to run schedule goes round the list for ever: interrupts are
\* off, so neither the clock nor a terminal changes that.
schedule(l, states, ticks, p) ==
  LET new_process == NextProcess(l, states, ticks, p)
  IN /\ current' = IF new_process = NoProc THEN p ELSE new_process
     /\ kernel' = IF new_process = NoProc THEN "spins" ELSE "up"

\* A version that does not count the tick.
trapClockUncounted ==
  /\ Runs(current, "user")
  /\ left' = left
  /\ schedule(links, state, left', current)
  /\ UNCHANGED <<tree, state, calls, joined>>

\* A version that goes on counting for who is not delayed.
trapClockBelow ==
  /\ Runs(current, "user")
  /\ left' = [p \in Proc |-> left[p] - 1]
  /\ schedule(links, state, left', current)
  /\ UNCHANGED <<tree, state, calls, joined>>

\* The clock interrupt.
trapClock ==
  /\ Runs(current, "user")
  /\ left' = [p \in Proc |-> IF left[p] = 0 THEN 0 ELSE left[p] - 1]
  /\ schedule(links, state, left', current)
  /\ UNCHANGED <<tree, state, calls, joined>>

\* Which processes have programs that block or exit?
MayBlock(p) == p # InitProc \/ "initCalls" \in Situations

delayProcess(p, ticks) ==
  /\ Runs(p, "user") /\ MayBlock(p)
  /\ left' = [left EXCEPT ![p] = ticks]
  /\ schedule(links, state, left', p)
  /\ UNCHANGED <<tree, state, calls, joined>>

\* The process joins a waitqueue and sleeps.
putProcessToSleep(p) ==
  /\ Runs(p, "user") /\ MayBlock(p)
  /\ state' = [state EXCEPT ![p] = "waiting"]
  /\ queued' = [queued EXCEPT ![p] = @ + 1]
  /\ schedule(links, state', left, p)
  /\ UNCHANGED <<tree, left, at, want, joined>>

\* A call of the current process or an interrupt signals a queue with a node for
\* q on it.  RUNNING is written through the node's pointer, whatever is there now:
\* nothing that follows has a meaning if that is a freed block, or a zombie, whose
\* kernel stack is gone and which schedule may now choose.
wakeUpProcess(q) ==
  /\ Runs(current, "user") /\ queued[q] > 0
  /\ queued' = [queued EXCEPT ![q] = @ - 1]
  /\ state' = IF q \in live THEN [state EXCEPT ![q] = "running"] ELSE state
  /\ kernel' = Verdict(q \in live /\ state[q] # "zombie")
  /\ UNCHANGED <<tree, left, at, want, current, joined>>

------------------------------------------------------------------------------
\* Fork and thread creation.

\* Insert node at the end of the list of head, once its descriptor is
\* initialised.  The end must be a node of a descriptor that exists.
EndsLive(head) == elementForNode(links.prev[head]) \in live

\* What the two calls share: a descriptor of its own for the child.
NewDescriptor(c, p, leader) ==
  /\ live' = live \cup {c}
  /\ parent' = [parent EXCEPT ![c] = p]
  /\ thread_leader' = [thread_leader EXCEPT ![c] = leader]
  /\ state' = [state EXCEPT ![c] = "running"]
  /\ UNCHANGED <<left, calls, current, joined>>

Fresh(c) == linkedListNodeInit(links, {c} \X Member)

forkProcess(p) ==
  /\ Runs(p, "user") /\ thread_leader[p] = NoProc
  /\ \E c \in Malloc(Proc \ live) :
       /\ NewDescriptor(c, p, NoProc)
       /\ links' = addLastNode(addLastNode(Fresh(c), siblings(c), children(p)),
                               process_list(c), process_head)
  /\ kernel' = IF EndsLive(children(p)) THEN "up" ELSE "undefined"

\* Which leaders have programs that create, join or abandon threads?
MayUseThreads(p) == p \notin joined \/ "joinAgain" \in Situations

\* The thread comes right after its leader in the list of processes.
createThread(p) ==
  /\ Runs(p, "user") /\ thread_leader[p] = NoProc /\ MayUseThreads(p)
  /\ \E c \in Malloc(Proc \ live) :
       /\ NewDescriptor(c, NoProc, p)
       /\ links' = insertNode(addLastNode(Fresh(c), thread_peers(c), thread_group(p)),
                              process_list(c), process_list(p))
  /\ kernel' = IF EndsLive(thread_group(p)) THEN "up" ELSE "undefined"

------------------------------------------------------------------------------
\* Releasing descriptors.  t is the part of the state this changes: links,
\* live, and whether all the kernel did so far has a meaning.

\* A version that leaves the descriptor on its parent's list.
releaseProcessKeepSibling(t, p) ==
  [links |-> linkedListNodeInit(removeNode(t.links, process_list(p)), {p} \X Member),
   live |-> t.live \ {p},
   ok |-> t.ok /\ listIsEmpty(t.links, children(p))]

\* releaseProcess.  A descriptor that is released has no children, unless its
\* list was spliced to another: its head still points there, and the loop over
\* the children never comes back to it.  free() leaves the links behind, and
\* processDescriptorInit resets them before they are used again.
releaseProcess(t, p) ==
  LET off == removeNode(removeNode(t.links, siblings(p)), process_list(p))
  IN [links |-> linkedListNodeInit(off, {p} \X Member),
      live |-> t.live \ {p},
      ok |-> t.ok /\ p \in t.live /\ listIsEmpty(t.links, children(p))]

\* The fields of the descriptors that are released.
Forget(t) ==
  /\ links' = t.links /\ live' = t.live
  /\ thread_leader' = [q \in Proc |-> IF q \in t.live THEN thread_leader[q] ELSE NoProc]
  /\ left' = [q \in Proc |-> IF q \in t.live THEN left[q] ELSE 0]

Now == [links |-> links, live |-> live, ok |-> TRUE]

------------------------------------------------------------------------------
\* Wait and Join.

\* A version that looks at the first child only.
FirstOnly(seq) == {i \in DOMAIN seq : i = 1 /\ state[seq[i]] = "zombie"}

\* Where the zombies are in a walk over descriptors.
Zombies(seq) == {i \in DOMAIN seq : state[seq[i]] = "zombie"}

\* The caller has found nothing to collect and polls again when it is next.
Poll(p, place, t) ==
  /\ at' = [at EXCEPT ![p] = place]
  /\ want' = [want EXCEPT ![p] = t]
  /\ schedule(links, state, left, p)
  /\ UNCHANGED <<tree, state, left, queued, joined>>

\* The caller releases c and returns.
Collect(p, c) ==
  LET t == releaseProcess(Now, c)
  IN /\ Forget(t)
     /\ parent' = [parent EXCEPT ![c] = NoProc]
     /\ state' = [state EXCEPT ![c] = "running"]
     /\ at' = [at EXCEPT ![p] = "user"]
     /\ want' = [want EXCEPT ![p] = NoProc]
     /\ kernel' = Verdict(t.ok)
     /\ UNCHANGED <<queued, current>>

\* Reading a list that is not sound.
Undefined ==
  kernel' = "undefined" /\ UNCHANGED <<tree, state, left, calls, current, joined>>

\* The loop of waitForPID(1, status): the first zombie among the children.
WaitLoop(p) ==
  LET kids == forEachElement(links, children(p))
  IN IF ~Sound(links, live, children(p), "siblings") THEN Undefined
     ELSE IF Zombies(kids) = {} THEN Poll(p, "wait", NoProc)
     ELSE Collect(p, kids[Least(Zombies(kids))]) /\ UNCHANGED joined

waitForPID(p) ==
  /\ Runs(p, "user") /\ MayBlock(p)
  /\ ~listIsEmpty(links, children(p))
  /\ WaitLoop(p)

waitForPIDPolls(p) == Runs(p, "wait") /\ WaitLoop(p)

\* The loop of joinThread.  The thread stays on its leader's list.
JoinLoop(p, t) ==
  LET threads == forEachElement(links, thread_group(p))
  IN IF ~Sound(links, live, thread_group(p), "thread_peers") THEN Undefined
     ELSE IF \E i \in Zombies(threads) : threads[i] = t
       THEN Collect(p, t) /\ joined' = joined \cup {p}
       ELSE Poll(p, "join", t)

Threads(p) == {t \in live : thread_leader[t] = p}

joinThread(p, t) ==
  /\ Runs(p, "user") /\ MayBlock(p) /\ MayUseThreads(p)
  /\ ~listIsEmpty(links, thread_group(p))
  /\ t \in Threads(p) \cup {NoProc}
  /\ JoinLoop(p, t)

joinThreadPolls(p) == Runs(p, "join") /\ JoinLoop(p, want[p])

------------------------------------------------------------------------------
\* Exit.

MayExit(p) ==
  /\ MayBlock(p) /\ MayUseThreads(p)
  /\ "orphans" \in Situations
       \/ \A c \in live : parent[c] = p => state[c] = "zombie"
  /\ "killThreads" \in Situations
       \/ \A t \in Threads(p) : ~Runnable(state, left, t)
  /\ "killSleepers" \in Situations
       \/ \A t \in Threads(p) : state[t] # "waiting"

\* A version that keeps the descriptor whoever the parent is.
killKernelContextKeep(t, p) == t

\* A version that does not keep the descriptor for the parent.
killKernelContextRelease(t, p) ==
  IF thread_leader[p] = NoProc THEN releaseProcess(t, p) ELSE t

\* A process whose parent is PID 1 is released at once; a thread never is.
killKernelContext(t, p) ==
  IF thread_leader[p] = NoProc /\ parent[p] = InitProc
  THEN releaseProcess(t, p) ELSE t

\* Release the descriptors of a walk at the positions which, in this order.
releaseRound(x, i) ==
  [x EXCEPT !.t = IF i \in x.which THEN releaseProcess(@, x.walk[i]) ELSE @]

Release == INSTANCE Rounds WITH Round <- releaseRound

releaseEach(t, walk, which) ==
  Release!Loop([t |-> t, walk |-> walk, which |-> which], 1, Len(walk) + 1).t

\* The next process is chosen first, as the descriptors are then.  Zombies among
\* the children are released, the other children go to the parent of p, and the
\* threads of p are killed and released; a thread on a waitqueue leaves its node
\* there.
killProcess(p) ==
  LET new_process == NextProcess(links, state, left, p)
      kids    == forEachElement(links, children(p))
      threads == forEachElement(links, thread_group(p))
      running == {kids[i] : i \in DOMAIN kids \ Zombies(kids)}
      t1 == releaseEach(Now, kids, Zombies(kids))
      t2 == [t1 EXCEPT !.links =
               IF running = {} THEN @
               ELSE spliceLinkedLists(@, children(p), children(parent[p]))]
      t3 == releaseEach(t2, threads, DOMAIN threads)
      t4 == killKernelContext(t3, p)
  IN /\ Runs(p, "user") /\ MayExit(p)
     /\ IF /\ Sound(links, live, children(p), "siblings")
           /\ Sound(links, live, thread_group(p), "thread_peers")
           /\ thread_leader[p] = NoProc => parent[p] \in live
        THEN /\ Forget(t4)
             /\ parent' = [q \in Proc |-> CASE q \notin t4.live -> NoProc
                                           [] q \in running -> parent[p]
                                           [] OTHER -> parent[q]]
             /\ state' = [q \in Proc |-> CASE q \notin t4.live -> "running"
                                          [] q = p -> "zombie"
                                          [] OTHER -> state[q]]
             /\ current' = new_process
             /\ kernel' = Verdict(t4.ok /\ new_process # p /\ new_process \in t4.live)
             /\ joined' = joined \ {p}
             /\ UNCHANGED calls
        ELSE Undefined

------------------------------------------------------------------------------
Next ==
  \/ trapClock
  \/ \E p \in Proc :
       \/ \E ticks \in Delays : delayProcess(p, ticks)
       \/ putProcessToSleep(p) \/ wakeUpProcess(p)
       \/ forkProcess(p) \/ createThread(p)
       \/ waitForPID(p) \/ waitForPIDPolls(p)
       \/ \E t \in Proc \cup {NoProc} : joinThread(p, t)
       \/ joinThreadPolls(p)
       \/ killProcess(p)

\* The clock interrupts user mode, and the kernel goes on with a call it is in.
Goes == trapClock \/ \E p \in Proc : waitForPIDPolls(p) \/ joinThreadPolls(p)
Fairness == WF_vars(Goes)

Spec == Init /\ [][Next]_vars /\ Fairness

------------------------------------------------------------------------------
\* Properties.

\* Every variable has the type of its declaration.
TypeOK ==
  /\ live \subseteq Proc
  /\ links \in [next : [Node -> Node], prev : [Node -> Node]]
  /\ {parent, thread_leader, want} \subseteq [Proc -> Proc \cup {NoProc}]
  /\ state \in [Proc -> {"running", "waiting", "zombie"}]
  /\ left \in [Proc -> Nat]
  /\ at \in [Proc -> {"user", "wait", "join"}]
  /\ queued \in [Proc -> Nat]
  /\ current \in Proc
  /\ kernel \in {"up", "spins", "undefined"}
  /\ joined \subseteq Proc

\* Calls and exits in any order leave the kernel with pointers to descriptors
\* that exist and with somebody to run: it never walks or writes through a
\* descriptor that was freed, never switches to one nor back to a zombie, and
\* never waits with interrupts off.
KernelDefined == kernel = "up"

\* The list at head has the members S, forwards and backwards.
Lists(head, S) ==
  LET most == Cardinality(Proc)
      forward == forEachNode(links.next, head, most)
      backward == forEachNode(links.prev, head, most)
  IN /\ Ends(links.next, head, most) /\ Ends(links.prev, head, most)
     /\ Range(forEachElement(links, head)) = S
     /\ Len(backward) = Len(forward)
     /\ \A i \in 1..Len(forward) : backward[Len(forward) + 1 - i] = forward[i]

\* The lists say what the fields say: every descriptor is on the list of all
\* processes, every child on its parent's list of children and every thread
\* on its leader's, once and in both directions, until the leader exits or joins.
ListsMatch ==
  /\ Lists(process_head, live)
  /\ \A p \in live :
       /\ Lists(children(p), {c \in live : parent[c] = p})
       /\ p \notin joined /\ state[p] # "zombie"
            => Lists(thread_group(p), Threads(p))

\* The process that runs is one that exists, is awake and is not delayed.
CurrentRuns ==
  current \in live /\ state[current] = "running" /\ left[current] = 0

\* A zombie always has somebody left who can collect it: its parent, or for a
\* thread its leader, has not exited.  The parent is not init, whose children are
\* released as they exit; init may lead a zombie thread.
ZombiesCollectable ==
  \A p \in live : state[p] = "zombie" =>
    LET collector == IF thread_leader[p] = NoProc THEN parent[p] ELSE thread_leader[p]
    IN /\ collector \in live /\ state[collector] # "zombie"
       /\ thread_leader[p] = NoProc => collector # InitProc

\* The exit status of a child is kept until the parent itself takes it, by Wait
\* or by exiting; only children of init are let go as they exit.
StatusKept ==
  [][\A p \in live :
       thread_leader[p] = NoProc /\ parent[p] # InitProc /\ p \notin live'
         => state[p] = "zombie" /\ current = parent[p]]_vars

\* Whoever can run gets its turn, whatever the others do and create: schedule
\* goes on from the current process and comes by everybody.
RunnableRuns ==
  \A p \in Proc : []<>(p \in live /\ Runnable(state, left, p) => current = p)

\* Delays end: with everybody else asleep, delayed or polling in Wait and Join,
\* the clock still ticks.
DelayEnds == \A p \in Proc : []<>(left[p] = 0)

\* Wait returns once a child has exited, and Join once its thread has.
Due(p) ==
  \/ at[p] = "wait" /\ \E c \in live : parent[c] = p /\ state[c] = "zombie"
  \/ at[p] = "join" /\ want[p] # NoProc /\ state[want[p]] = "zombie"
CallsReturn == \A p \in Proc : []<>~Due(p)
==============================================================================
