------------------------------ MODULE TtyProofs -------------------------------
(***************************************************************************)
(* Proofs about Tty for any number of processes, any length of line and    *)
(* message and any bound on the lines and transmissions.                   *)
(***************************************************************************)
EXTENDS Tty, WaitQueueProofs

------------------------------------------------------------------------------
\* The inductive invariants.

\* Nobody is on a queue of the terminal twice, and whoever is on one is asleep
\* in the call that joined it.  Readers make exclusive nodes only.
ReadSleepers ==
  /\ read_queue \in Seq(Exclusives(Proc))
  /\ NoRepeat(read_queue)
  /\ \A p \in Sleepers(read_queue) : state[p] = "waiting" /\ at[p] = "read"

WriteSleepers ==
  /\ NoRepeat(write_queue)
  /\ \A p \in Sleepers(write_queue) :
       state[p] = "waiting" /\ at[p] \in {"write", "transmit"}

Asleep == TypeOK /\ ReadSleepers /\ WriteSleepers

\* Without a failing malloc the terminal is in one of three phases.  Nobody
\* writes; the writer sleeps in front of everyone else until its chunk has been
\* printed; or the chunk has been printed and the writer has been woken.
AllExclusive(first) == \A i \in first..Len(write_queue) : write_queue[i].is_exclusive

ChunkAt(p) == Smaller(arg[p] - position[p], TERMINAL_MAX_LINE)

Idle ==
  /\ write_current = NoProc
  /\ transmitting = <<>>
  /\ AllExclusive(1)

Printing(p) ==
  /\ state[p] = "waiting"
  /\ transmitting = <<[process |-> p, bytes |-> ChunkAt(p)]>>
  /\ write_queue # <<>> /\ write_queue[1] = WaitQueueNode(p, FALSE)
  /\ AllExclusive(2)
  /\ printed[p] = position[p]

Printed(p) ==
  /\ state[p] = "running"
  /\ transmitting = <<>>
  /\ AllExclusive(1)
  /\ printed[p] = position[p] + ChunkAt(p)

Writing(p) ==
  /\ write_current = p
  /\ at[p] = "transmit"
  /\ position[p] < arg[p]
  /\ Printing(p) \/ Printed(p)

Phases == Idle \/ \E p \in Proc : Writing(p)

------------------------------------------------------------------------------
\* The queues.

\* waitQueueNodeInit makes a node of the terminal's queues.
LEMMA NodeTyped ==
  ASSUME NEW p \in Proc, NEW exclusive \in BOOLEAN
  PROVE  /\ WaitQueueNode(p, exclusive) \in Node
         /\ WaitQueueNode(p, exclusive).process = p
         /\ WaitQueueNode(p, exclusive).is_exclusive = exclusive
  BY DEF WaitQueueNode, Node

\* ttyWriteFinished marks nodes; it moves none and turns none non-exclusive.
LEMMA MarkKeeps ==
  ASSUME NEW queue \in Seq(Node)
  PROVE  LET marked == MarkExclusive(queue)
         IN  /\ marked \in Seq(Node)
             /\ Len(marked) = Len(queue)
             /\ \A i \in 1..Len(queue) :
                  /\ marked[i].process = queue[i].process
                  /\ queue[i].is_exclusive => marked[i].is_exclusive
             /\ queue # <<>> => marked[1].is_exclusive
             /\ Sleepers(marked) = Sleepers(queue)
             /\ NoRepeat(queue) => NoRepeat(marked)
<1> DEFINE marked == MarkExclusive(queue)
           n == Len(queue)
<1>1. n \in Nat /\ \A i \in 1..n : queue[i] \in Node
  OBVIOUS
<1>2. ASSUME NEW i \in 1..n
      PROVE  /\ marked[i] \in Node
             /\ marked[i].process = queue[i].process
             /\ queue[i].is_exclusive => marked[i].is_exclusive
             /\ i = 1 => marked[i].is_exclusive
  <2>1. marked[i] = IF \A j \in 1..i : ~queue[j].is_exclusive
                    THEN [queue[i] EXCEPT !.is_exclusive = TRUE] ELSE queue[i]
    BY DEF MarkExclusive
  <2>2. queue[i] \in Node
    BY <1>1
  <2>3. CASE \A j \in 1..i : ~queue[j].is_exclusive
    <3>1. marked[i] = [queue[i] EXCEPT !.is_exclusive = TRUE]
      BY <2>1, <2>3, Zenon
    <3> HIDE DEF marked
    <3> QED BY <2>2, <3>1 DEF Node
  <2>4. CASE ~ \A j \in 1..i : ~queue[j].is_exclusive
    <3>1. marked[i] = queue[i]
      BY <2>1, <2>4, Zenon
    <3> HIDE DEF marked
    <3>2. i = 1 => queue[i].is_exclusive
      BY <2>4
    <3> QED BY <2>2, <3>1, <3>2
  <2> QED BY <2>3, <2>4, Zenon
<1>3. marked \in [1..n -> Node]
  <2>1. marked = [i \in 1..n |-> marked[i]]
    BY DEF MarkExclusive
  <2> HIDE DEF marked
  <2> QED BY <1>2, <2>1
<1> HIDE DEF marked
<1>4. marked \in Seq(Node) /\ Len(marked) = n
  BY <1>1, <1>3
<1>5. queue # <<>> => marked[1].is_exclusive
  <2>1. queue # <<>> => 1 \in 1..n
    BY <1>1
  <2> QED BY <1>2, <2>1
<1>6. Sleepers(marked) = Sleepers(queue)
  BY <1>2, <1>4 DEF Sleepers
<1>7. NoRepeat(queue) => NoRepeat(marked)
  BY <1>2, <1>4 DEF NoRepeat
<1> QED BY <1>2, <1>4, <1>5, <1>6, <1>7, Zenon DEF marked

------------------------------------------------------------------------------
\* The chunks of a message.

Transmission == [process : Proc, bytes : Nat]

\* Products of the lengths stay in order.
LEMMA TimesMonotone ==
  ASSUME NEW a \in Int, NEW b \in Int, NEW c \in Nat, a <= b
  PROVE  a * c <= b * c /\ a * c \in Int /\ b * c \in Int
  BY Z3

\* The number of chunks the loop of ttyWrite makes of what is left of a message.
LEMMA ChunkCount ==
  ASSUME NEW left \in Int
  PROVE  LET n == (left + TERMINAL_MAX_LINE - 1) \div TERMINAL_MAX_LINE
         IN  /\ n \in Int
             /\ (n - 1) * TERMINAL_MAX_LINE < left
             /\ left <= n * TERMINAL_MAX_LINE
<1> DEFINE T == TERMINAL_MAX_LINE
           n == (left + T - 1) \div T
           r == (left + T - 1) % T
<1>1. T \in Int /\ T > 0
  BY TtyAssumption
<1> HIDE DEF T
<1>2. n \in Int /\ r \in 0..(T - 1) /\ left + T - 1 = n * T + r
  BY <1>1, Z3
<1> HIDE DEF n, r
<1>3. (n - 1) * T = n * T - T
  BY <1>1, <1>2, Z3
<1> QED BY <1>1, <1>2, <1>3 DEF T, n

\* ttyWrite transmits nothing exactly when nothing is left; otherwise it begins
\* with a chunk of what is left, no longer than a line.
LEMMA ChunksTyped ==
  ASSUME NEW p \in Proc, NEW length \in Nat, NEW pos \in Nat
  PROVE  LET chunks == Chunks(p, length, pos)
         IN  /\ chunks \in Seq(Transmission)
             /\ length <= pos => Len(chunks) = 0
             /\ pos < length =>
                  /\ Len(chunks) >= 1
                  /\ chunks[1] = [process |-> p,
                                  bytes |-> Smaller(length - pos, TERMINAL_MAX_LINE)]
<1> DEFINE T == TERMINAL_MAX_LINE
           left == length - pos
           n == (left + T - 1) \div T
           chunks == Chunks(p, length, pos)
           chunk(i) == [process |-> p, bytes |-> Smaller(left - (i - 1) * T, T)]
<1>1. T \in Int /\ T > 0 /\ left \in Int
  BY TtyAssumption
<1>2. n \in Int /\ (n - 1) * T < left /\ left <= n * T
  BY <1>1, ChunkCount
<1>3. chunks = [i \in 1..n |-> chunk(i)]
  BY DEF Chunks
<1> HIDE DEF T, left, n, chunks
<1>4. ASSUME NEW i \in 1..n
      PROVE  chunk(i) \in Transmission
  <2>1. (i - 1) * T \in Int /\ (i - 1) * T <= (n - 1) * T
    BY <1>1, <1>2, TimesMonotone
  <2>2. left - (i - 1) * T \in Nat
    BY <1>1, <1>2, <2>1
  <2> QED BY <1>1, <2>2 DEF Smaller, Transmission
<1>5. n >= 1 => chunk(1) = [process |-> p, bytes |-> Smaller(left, T)]
  <2>1. left - (1 - 1) * T = left
    BY <1>1, Z3
  <2> QED BY <2>1
<1>6. left <= 0 => n <= 0
  <2>1. n >= 1 => (1 - 1) * T <= (n - 1) * T
    BY <1>1, <1>2, TimesMonotone
  <2>2. (1 - 1) * T = 0
    BY <1>1, Z3
  <2> QED BY <1>1, <1>2, <2>1, <2>2
<1>7. left > 0 => n >= 1
  <2>1. n <= 0 => n * T <= 0 * T
    BY <1>1, <1>2, TimesMonotone
  <2>2. 0 * T = 0
    BY <1>1, Z3
  <2> QED BY <1>1, <1>2, <2>1, <2>2
<1> HIDE DEF chunk
<1>8. chunks \in Seq(Transmission) /\ Len(chunks) = IF n >= 1 THEN n ELSE 0
  <2>1. CASE n >= 1
    <3>1. n \in Nat /\ chunks \in [1..n -> Transmission]
      BY <1>2, <1>3, <1>4, <2>1
    <3> QED BY <2>1, <3>1
  <2>2. CASE ~(n >= 1)
    <3>1. 1..n = 1..0
      BY <1>2, <2>2
    <3>2. chunks \in [1..0 -> Transmission]
      BY <1>3, <1>4, <3>1
    <3> QED BY <2>2, <3>2
  <2> QED BY <2>1, <2>2
<1>9. n >= 1 => chunks[1] = chunk(1)
  BY <1>2, <1>3
<1> QED BY <1>1, <1>2, <1>5, <1>6, <1>7, <1>8, <1>9 DEF left, T, chunks

------------------------------------------------------------------------------
\* Joining a queue and being taken off it.

\* The nodes of a queue are those of processes.
LEMMA SleepersAreProcs ==
  ASSUME NEW S \in {Node, Exclusives(Proc)}, NEW queue \in Seq(S)
  PROVE  /\ queue \in Seq(Node)
         /\ Sleepers(queue) \subseteq Proc
         /\ queue # <<>> => queue[1] \in S /\ queue[1].process \in Sleepers(queue)
<1>1. S \subseteq Node /\ \A node \in S : node.process \in Proc
  BY DEF Node, Exclusives
<1>2. \A i \in 1..Len(queue) : queue[i] \in S
  OBVIOUS
<1>3. Sleepers(queue) \subseteq Proc
  BY <1>1, <1>2 DEF Sleepers
<1>4. queue \in Seq(Node)
  BY <1>1, <1>2
<1>5. queue # <<>> => queue[1] \in S /\ queue[1].process \in Sleepers(queue)
  <2>1. queue # <<>> => 1 \in 1..Len(queue)
    OBVIOUS
  <2> QED BY <1>2, <2>1 DEF Sleepers
<1> QED BY <1>3, <1>4, <1>5

\* signalWaitQueue takes the first process off a queue that an exclusive node
\* heads, and makes that one runnable.
LEMMA SignalStep ==
  ASSUME NEW S \in {Node, Exclusives(Proc)}, NEW queue \in Seq(S), NoRepeat(queue),
         queue # <<>> => queue[1].is_exclusive,
         TypeOK, signalWaitQueue(queue)
  PROVE  LET leaves == SignalLeaves(queue, TRUE)
             woken  == IF queue = <<>> THEN {} ELSE {queue[1].process}
         IN  /\ leaves \in Seq(S)
             /\ NoRepeat(leaves)
             /\ Sleepers(leaves) = Sleepers(queue) \ woken
             /\ woken \subseteq Sleepers(queue)
             /\ state' \in [Proc -> {"running", "waiting"}]
             /\ \A q \in Proc : state'[q] = IF q \in woken THEN "running" ELSE state[q]
<1> DEFINE leaves == SignalLeaves(queue, TRUE)
           woken  == IF queue = <<>> THEN {} ELSE {queue[1].process}
<1>0. NoRepeat(<<>>) /\ Sleepers(<<>>) = {} /\ <<>> \in Seq(S)
  BY DEF NoRepeat, Sleepers
<1>1. woken \subseteq Sleepers(queue)
  BY SleepersAreProcs
<1>2. SignalWakes(queue, TRUE) = woken
  BY SignalEmpty, SignalHead, Zenon
<1>3. leaves \in Seq(S) /\ NoRepeat(leaves) /\ Sleepers(leaves) = Sleepers(queue) \ woken
  <2>1. CASE queue = <<>>
    <3>1. leaves = <<>>
      BY <2>1, SignalEmpty, Zenon
    <3> QED BY <1>0, <2>1, <3>1, Zenon
  <2>2. CASE queue # <<>>
    BY <2>2, SignalHead, Zenon
  <2> QED BY <2>1, <2>2, Zenon
<1>4. state' = [p \in Proc |-> IF p \in woken THEN "running" ELSE state[p]]
  BY <1>2, Zenon DEF signalWaitQueue, wakeUpProcess
<1> HIDE DEF leaves, woken
<1>5. /\ state' \in [Proc -> {"running", "waiting"}]
      /\ \A q \in Proc : state'[q] = IF q \in woken THEN "running" ELSE state[q]
  BY <1>4 DEF TypeOK
<1> QED BY <1>1, <1>3, <1>5, Zenon DEF leaves, woken

\* A process that sleeps on a queue joins its sleepers, at the back or the front.
LEMMA JoinStep ==
  ASSUME NEW S \in {Node, Exclusives(Proc)}, NEW queue \in Seq(S), NoRepeat(queue),
         NEW p \in Proc, p \notin Sleepers(queue),
         NEW exclusive \in BOOLEAN, S = Node \/ exclusive
  PROVE  LET after == addNodeToWaitQueue(WaitQueueNode(p, exclusive), queue)
         IN  /\ after \in Seq(S)
             /\ NoRepeat(after)
             /\ Sleepers(after) = Sleepers(queue) \cup {p}
<1> DEFINE node == WaitQueueNode(p, exclusive)
           after == addNodeToWaitQueue(node, queue)
<1>1. node \in S /\ node.process = p /\ node.is_exclusive = exclusive
  BY DEF WaitQueueNode, Node, Exclusives
<1> HIDE DEF node
<1>2. CASE exclusive
  <2>1. after = Append(queue, node)
    BY <1>1, <1>2 DEF addNodeToWaitQueue
  <2>2. Append(queue, node) \in Seq(S)
    BY <1>1
  <2>3. /\ Sleepers(Append(queue, node)) = Sleepers(queue) \cup {node.process}
        /\ NoRepeat(Append(queue, node))
        /\ Append(queue, node) # <<>>
    <3>1. node.process \notin Sleepers(queue)
      BY <1>1
    <3> QED BY <1>1, <3>1, AppendSleepers, Zenon
  <2> HIDE DEF after
  <2>4. /\ after \in Seq(S)
        /\ NoRepeat(after)
        /\ Sleepers(after) = Sleepers(queue) \cup {p}
    BY <1>1, <2>1, <2>2, <2>3, Zenon
  <2> QED BY <2>4, Zenon DEF node, after
<1>3. CASE ~exclusive
  <2> DEFINE front == <<node>> \o queue
  <2>1. after = front
    BY <1>1, <1>3 DEF addNodeToWaitQueue
  <2>2. /\ front \in Seq(S)
        /\ Len(front) = Len(queue) + 1
        /\ front[1] = node
        /\ \A i \in 1..Len(queue) : front[i + 1] = queue[i]
        /\ Sleepers(front) = Sleepers(queue) \cup {node.process}
        /\ NoRepeat(front)
    <3>1. node.process \notin Sleepers(queue)
      BY <1>1
    <3> QED BY <1>1, <3>1, FrontSleepers, Zenon
  <2> HIDE DEF after, front
  <2>3. /\ after \in Seq(S)
        /\ NoRepeat(after)
        /\ Sleepers(after) = Sleepers(queue) \cup {p}
    BY <1>1, <2>1, <2>2, Zenon
  <2> QED BY <2>3, Zenon DEF node, after
<1> QED BY <1>2, <1>3, Zenon

------------------------------------------------------------------------------
\* Types and queues: input.

\* Nobody sleeps at a terminal that has just been set up.
LEMMA AsleepInit == Init => Asleep /\ NoLostReader
<1>1. NoRepeat(<<>>) /\ Sleepers(<<>>) = {}
  BY DEF NoRepeat, Sleepers
<1>2. ASSUME Init PROVE TypeOK
  <2>1. /\ state \in [Proc -> {"running", "waiting"}]
        /\ at \in [Proc -> {"user", "read", "write", "transmit"}]
    BY <1>2 DEF Init
  <2>2. /\ arg \in [Proc -> Nat] /\ position \in [Proc -> Nat] /\ printed \in [Proc -> Nat]
    BY <1>2 DEF Init
  <2>3. /\ write_queue \in Seq(Node) /\ read_queue \in Seq(Node)
        /\ transmitting \in Seq([process : Proc, bytes : Nat])
    BY <1>2 DEF Init
  <2>4. /\ write_current \in Proc \cup {NoProc} /\ read_buffer \in BOOLEAN
        /\ read_buffer_size \in Nat /\ read_buffer_position \in 0..read_buffer_size
        /\ lines \in 0..MaxLines
    <3>1. /\ write_current = NoProc /\ read_buffer = FALSE /\ lines = 0
          /\ read_buffer_size = 0 /\ read_buffer_position = 0
      BY <1>2 DEF Init
    <3>2. write_current \in Proc \cup {NoProc} /\ read_buffer \in BOOLEAN
      BY <3>1
    <3>3. read_buffer_size \in Nat /\ read_buffer_position \in 0..read_buffer_size
      BY <3>1
    <3>4. lines \in 0..MaxLines
      BY <3>1, TtyAssumption
    <3> QED BY <3>2, <3>3, <3>4
  <2> QED BY <2>1, <2>2, <2>3, <2>4 DEF TypeOK
<1>3. Init => ReadSleepers /\ WriteSleepers /\ NoLostReader
  BY <1>1 DEF Init, ReadSleepers, WriteSleepers, NoLostReader
<1> QED BY <1>2, <1>3 DEF Asleep

\* A writer that sleeps is left alone by a step that touches no sleeping writer.
LEMMA WriteSleepersKept ==
  ASSUME WriteSleepers, write_queue' = write_queue,
         write_queue \in Seq(Node),
         \A q \in Proc : state[q] = "waiting" /\ at[q] \in {"write", "transmit"}
                           => state'[q] = state[q] /\ at'[q] = at[q]
  PROVE  WriteSleepers'
<1>1. Sleepers(write_queue) \subseteq Proc
  BY SleepersAreProcs
<1> QED BY <1>1 DEF WriteSleepers

\* So is a reader.
LEMMA ReadSleepersKept ==
  ASSUME ReadSleepers, read_queue' = read_queue,
         \A q \in Proc : state[q] = "waiting" /\ at[q] = "read"
                           => state'[q] = state[q] /\ at'[q] = at[q]
  PROVE  ReadSleepers'
<1>1. Sleepers(read_queue) \subseteq Proc
  BY SleepersAreProcs DEF ReadSleepers
<1> QED BY <1>1 DEF ReadSleepers

\* What a signal of the read queue does: a reader is woken if one sleeps.
LEMMA ReadSignal ==
  ASSUME Asleep, signalWaitQueue(read_queue),
         read_queue' = SignalLeaves(read_queue, TRUE)
  PROVE  \E woken \in SUBSET Proc :
           /\ read_queue' \in Seq(Exclusives(Proc))
           /\ NoRepeat(read_queue')
           /\ Sleepers(read_queue') = Sleepers(read_queue) \ woken
           /\ state' \in [Proc -> {"running", "waiting"}]
           /\ \A q \in Proc : state'[q] = IF q \in woken THEN "running" ELSE state[q]
           /\ \A q \in woken : state[q] = "waiting" /\ at[q] = "read"
           /\ read_queue # <<>> => woken # {}
           /\ read_queue = <<>> => read_queue' = <<>>
<1> DEFINE leaves == SignalLeaves(read_queue, TRUE)
           woken == IF read_queue = <<>> THEN {} ELSE {read_queue[1].process}
<1>1. read_queue \in Seq(Exclusives(Proc)) /\ NoRepeat(read_queue) /\ TypeOK
  BY DEF Asleep, ReadSleepers
<1>2. /\ Sleepers(read_queue) \subseteq Proc
      /\ read_queue # <<>> => read_queue[1].is_exclusive
  BY <1>1, SleepersAreProcs DEF Exclusives
<1>3. /\ leaves \in Seq(Exclusives(Proc))
      /\ NoRepeat(leaves)
      /\ Sleepers(leaves) = Sleepers(read_queue) \ woken
      /\ woken \subseteq Sleepers(read_queue)
      /\ state' \in [Proc -> {"running", "waiting"}]
      /\ \A q \in Proc : state'[q] = IF q \in woken THEN "running" ELSE state[q]
  BY <1>1, <1>2, SignalStep
<1>4. read_queue = <<>> => leaves = <<>>
  BY SignalEmpty, Zenon
<1>5. read_queue # <<>> => woken # {}
  OBVIOUS
<1>6. read_queue' = leaves
  OBVIOUS
<1> HIDE DEF leaves, woken
<1>7. woken \in SUBSET Proc /\ \A q \in woken : state[q] = "waiting" /\ at[q] = "read"
  BY <1>2, <1>3 DEF Asleep, ReadSleepers
<1> QED BY <1>3, <1>4, <1>5, <1>6, <1>7

\* One round of ttyRead passes the wakeup on when it finds input, and sleeps
\* when it does not.
LEMMA AsleepReadRound ==
  ASSUME Asleep, NEW p \in Proc, state[p] = "running", at[p] \in {"user", "read"},
         NEW u_length \in Nat, ReadRound(p, u_length)
  PROVE  Asleep' /\ NoLostReader'
<1>1. CASE ReadChunk(p, u_length)
  <2>1. PICK woken \in SUBSET Proc :
           /\ read_queue' \in Seq(Exclusives(Proc))
           /\ NoRepeat(read_queue')
           /\ Sleepers(read_queue') = Sleepers(read_queue) \ woken
           /\ state' \in [Proc -> {"running", "waiting"}]
           /\ \A q \in Proc : state'[q] = IF q \in woken THEN "running" ELSE state[q]
           /\ \A q \in woken : state[q] = "waiting" /\ at[q] = "read"
           /\ read_queue # <<>> => woken # {}
           /\ read_queue = <<>> => read_queue' = <<>>
    BY <1>1, ReadSignal DEF ReadChunk
  <2>2. /\ at' = [at EXCEPT ![p] = "user"] /\ arg' = [arg EXCEPT ![p] = 0]
        /\ UNCHANGED <<position, read_buffer, read_buffer_size, lines, writeVars>>
    BY <1>1 DEF ReadRound, ReadChunk
  <2>3. read_buffer_position' \in 0..read_buffer_size'
    BY <1>1, <2>2 DEF ReadChunk, ReadReady, Smaller, Asleep, TypeOK
  <2>4. read_queue' \in Seq(Node)
    BY <2>1, SleepersAreProcs
  <2>5. TypeOK'
    BY <2>1, <2>2, <2>3, <2>4 DEF Asleep, TypeOK, writeVars
  <2>6. \A q \in Proc \ {p} : at'[q] = at[q]
    BY <2>2 DEF Asleep, TypeOK
  <2>7. Sleepers(read_queue) \subseteq Proc
    BY SleepersAreProcs DEF Asleep, ReadSleepers
  <2>8. ReadSleepers'
    BY <2>1, <2>6, <2>7 DEF Asleep, ReadSleepers
  <2>9. WriteSleepers'
    BY <2>1, <2>2, <2>6, WriteSleepersKept DEF Asleep, TypeOK, writeVars
  <2>10. NoLostReader'
    BY <2>1, <2>6 DEF NoLostReader, Runs
  <2> QED BY <2>5, <2>8, <2>9, <2>10 DEF Asleep
<1>2. CASE ReadSleep(p, u_length)
  <2> DEFINE after == addNodeToWaitQueue(WaitQueueNode(p, TRUE), read_queue)
  <2>1. p \notin Sleepers(read_queue)
    BY DEF Asleep, ReadSleepers
  <2>2. after \in Seq(Exclusives(Proc)) /\ NoRepeat(after) /\ Sleepers(after) = Sleepers(read_queue) \cup {p}
    <3>1. read_queue \in Seq(Exclusives(Proc)) /\ NoRepeat(read_queue)
      BY DEF Asleep, ReadSleepers
    <3> QED BY <2>1, <3>1, JoinStep
  <2>3. /\ read_queue' = after
        /\ state' = [state EXCEPT ![p] = "waiting"] /\ at' = [at EXCEPT ![p] = "read"]
        /\ arg' = [arg EXCEPT ![p] = u_length]
        /\ UNCHANGED <<position, read_buffer, read_buffer_size, read_buffer_position, lines, writeVars>>
    BY <1>2 DEF ReadRound, ReadSleep, putProcessToSleep
  <2> HIDE DEF after
  <2>4. after \in Seq(Node)
    BY <2>2, SleepersAreProcs
  <2>5. TypeOK'
    BY <2>3, <2>4 DEF Asleep, TypeOK, writeVars
  <2>6. \A q \in Proc \ {p} : state'[q] = state[q] /\ at'[q] = at[q]
    BY <2>3 DEF Asleep, TypeOK
  <2>7. state'[p] = "waiting" /\ at'[p] = "read"
    BY <2>3 DEF Asleep, TypeOK
  <2>8. Sleepers(read_queue) \subseteq Proc
    BY SleepersAreProcs DEF Asleep, ReadSleepers
  <2>9. ReadSleepers'
    BY <2>2, <2>3, <2>6, <2>7, <2>8 DEF Asleep, ReadSleepers
  <2>10. WriteSleepers'
    BY <2>3, <2>6, WriteSleepersKept DEF Asleep, TypeOK, writeVars
  <2>11. NoLostReader'
    BY <1>2, <2>3 DEF ReadSleep, NoLostReader, ReadReady
  <2> QED BY <2>5, <2>9, <2>10, <2>11 DEF Asleep
<1> QED BY <1>1, <1>2 DEF ReadRound

\* A line that arrives wakes a reader, with or without room for it.
LEMMA AsleepReceive ==
  ASSUME Asleep, NoLostReader,
         ttyReadBeginNoSpace \/ \E length \in 0..TERMINAL_MAX_LINE : ttyReadBegin(length)
  PROVE  Asleep' /\ NoLostReader'
<1>1. CASE ttyReadBeginNoSpace
  <2>1. /\ read_buffer' = FALSE /\ lines < MaxLines /\ lines' = lines + 1
        /\ UNCHANGED <<procVars, read_queue, read_buffer_size, read_buffer_position, writeVars>>
    BY <1>1 DEF ttyReadBeginNoSpace
  <2>2. TypeOK'
    <3>1. lines' \in 0..MaxLines
      BY <2>1, TtyAssumption DEF Asleep, TypeOK
    <3>2. UNCHANGED <<state, at, arg, position, write_current, write_queue, transmitting, printed>>
      BY <2>1 DEF procVars, writeVars
    <3> QED BY <2>1, <3>1, <3>2 DEF Asleep, TypeOK
  <2>3. ReadSleepers' /\ WriteSleepers'
    BY <2>1 DEF Asleep, ReadSleepers, WriteSleepers, procVars, writeVars
  <2> QED BY <2>1, <2>2, <2>3 DEF Asleep, NoLostReader, ReadReady
<1>2. ASSUME NEW length \in 0..TERMINAL_MAX_LINE, ttyReadBegin(length)
      PROVE  Asleep' /\ NoLostReader'
  <2>1. PICK woken \in SUBSET Proc :
           /\ read_queue' \in Seq(Exclusives(Proc))
           /\ NoRepeat(read_queue')
           /\ Sleepers(read_queue') = Sleepers(read_queue) \ woken
           /\ state' \in [Proc -> {"running", "waiting"}]
           /\ \A q \in Proc : state'[q] = IF q \in woken THEN "running" ELSE state[q]
           /\ \A q \in woken : state[q] = "waiting" /\ at[q] = "read"
           /\ read_queue # <<>> => woken # {}
           /\ read_queue = <<>> => read_queue' = <<>>
    BY <1>2, ReadSignal DEF ttyReadBegin
  <2>2. /\ read_buffer' = TRUE /\ read_buffer_size' = length /\ read_buffer_position' = 0
        /\ lines < MaxLines /\ lines' = lines + 1
        /\ UNCHANGED <<at, arg, position, writeVars>>
    BY <1>2 DEF ttyReadBegin
  <2>3. read_queue' \in Seq(Node)
    BY <2>1, SleepersAreProcs
  <2>4. length \in Nat
    BY TtyAssumption
  <2>5. TypeOK'
    BY <2>1, <2>2, <2>3, <2>4, TtyAssumption DEF Asleep, TypeOK, writeVars
  <2>6. Sleepers(read_queue) \subseteq Proc
    BY SleepersAreProcs DEF Asleep, ReadSleepers
  <2>7. ReadSleepers'
    BY <2>1, <2>2, <2>6 DEF Asleep, ReadSleepers
  <2>8. WriteSleepers'
    BY <2>1, <2>2, WriteSleepersKept DEF Asleep, TypeOK, writeVars
  <2>9. NoLostReader'
    BY <2>1, <2>2 DEF NoLostReader, Runs
  <2> QED BY <2>5, <2>7, <2>8, <2>9 DEF Asleep
<1> QED BY <1>1, <1>2

------------------------------------------------------------------------------
\* Types and queues: output.

\* A step of the output side leaves readers on their way.
LEMMA ReadersUndisturbed ==
  ASSUME NoLostReader, UNCHANGED readVars,
         \A q \in Proc : at[q] = "read" /\ state[q] = "running"
                           => state'[q] = state[q] /\ at'[q] = at[q]
  PROVE  NoLostReader'
  BY DEF NoLostReader, ReadReady, Runs, readVars

\* A writer that runs goes to sleep, in front of the queue or at its end.
LEMMA AsleepWriteSleep ==
  ASSUME Asleep, NoLostReader, NEW p \in Proc, state[p] = "running", at[p] # "read",
         NEW exclusive \in BOOLEAN, NEW place \in {"write", "transmit"},
         write_queue' = addNodeToWaitQueue(WaitQueueNode(p, exclusive), write_queue),
         putProcessToSleep(p, place), UNCHANGED readVars,
         arg' \in [Proc -> Nat], position' \in [Proc -> Nat],
         write_current' \in Proc \cup {NoProc},
         transmitting' \in Seq([process : Proc, bytes : Nat]),
         printed' \in [Proc -> Nat]
  PROVE  Asleep' /\ NoLostReader'
<1> DEFINE after == addNodeToWaitQueue(WaitQueueNode(p, exclusive), write_queue)
<1>1. p \notin Sleepers(write_queue) /\ p \notin Sleepers(read_queue)
  BY DEF Asleep, WriteSleepers, ReadSleepers
<1>2. after \in Seq(Node) /\ NoRepeat(after) /\ Sleepers(after) = Sleepers(write_queue) \cup {p}
  <2>1. write_queue \in Seq(Node) /\ NoRepeat(write_queue)
    BY DEF Asleep, WriteSleepers, TypeOK
  <2> QED BY <1>1, <2>1, JoinStep
<1>3. write_queue' = after /\ state' = [state EXCEPT ![p] = "waiting"]
      /\ at' = [at EXCEPT ![p] = place]
  BY DEF putProcessToSleep
<1> HIDE DEF after
<1>4. TypeOK'
  <2>1. state' \in [Proc -> {"running", "waiting"}]
        /\ at' \in [Proc -> {"user", "read", "write", "transmit"}]
    BY <1>3 DEF Asleep, TypeOK
  <2> QED BY <1>2, <1>3, <2>1 DEF Asleep, TypeOK, readVars
<1>5. /\ \A q \in Proc \ {p} : state'[q] = state[q] /\ at'[q] = at[q]
      /\ state'[p] = "waiting" /\ at'[p] = place
  BY <1>3 DEF Asleep, TypeOK
<1>6. Sleepers(write_queue) \subseteq Proc
  BY SleepersAreProcs DEF Asleep, TypeOK
<1>7. WriteSleepers'
  BY <1>2, <1>3, <1>5, <1>6 DEF Asleep, WriteSleepers
<1>8. ReadSleepers'
  BY <1>5, ReadSleepersKept DEF Asleep, readVars
<1>9. NoLostReader'
  BY <1>5, ReadersUndisturbed
<1> QED BY <1>4, <1>7, <1>8, <1>9 DEF Asleep

\* The loop of ttyWrite: transmit and sleep, or return.
LEMMA AsleepWriteLoop ==
  ASSUME Asleep, NoLostReader, NEW p \in Proc, state[p] = "running", at[p] # "read",
         NEW length \in Nat, NEW pos \in Nat, WriteLoop(p, length, pos),
         UNCHANGED readVars, printed' \in [Proc -> Nat]
  PROVE  Asleep' /\ NoLostReader'
<1> DEFINE chunks == Chunks(p, length, pos)
<1>1. chunks \in Seq(Transmission) /\ Len(chunks) \in Nat
  <2>1. chunks \in Seq(Transmission)
    BY ChunksTyped
  <2> HIDE DEF chunks
  <2> QED BY <2>1
<1>2. PICK unslept \in 0..Len(chunks) :
        TransmitAndSleep(p, length, pos, unslept) \/ WriteDone(p, length, pos, unslept)
  BY <1>1 DEF WriteLoop
<1>3. CASE TransmitAndSleep(p, length, pos, unslept)
  <2>1. SubSeq(chunks, 1, unslept + 1) \in Seq(Transmission)
    <3>1. unslept + 1 \in 1..Len(chunks)
      BY <1>1, <1>3 DEF TransmitAndSleep
    <3> HIDE DEF chunks
    <3> QED BY <1>1, <3>1
  <2>2. transmitting' = transmitting \o SubSeq(chunks, 1, unslept + 1)
    BY <1>3 DEF TransmitAndSleep
  <2> HIDE DEF chunks
  <2>3. transmitting' \in Seq([process : Proc, bytes : Nat])
    BY <2>1, <2>2 DEF Asleep, TypeOK, Transmission
  <2>4. unslept * TERMINAL_MAX_LINE \in Nat
    BY <1>1, TtyAssumption, Z3
  <2>5. pos + unslept * TERMINAL_MAX_LINE \in Nat
    BY <2>4
  <2>6. position' = [position EXCEPT ![p] = pos + unslept * TERMINAL_MAX_LINE]
    BY <1>3 DEF TransmitAndSleep
  <2>7. position' \in [Proc -> Nat]
    BY <2>5, <2>6 DEF Asleep, TypeOK
  <2>8. arg' \in [Proc -> Nat] /\ write_current' \in Proc \cup {NoProc}
    BY <1>3 DEF TransmitAndSleep, Asleep, TypeOK
  <2>9. /\ write_queue' = addNodeToWaitQueue(WaitQueueNode(p, FALSE), write_queue)
        /\ putProcessToSleep(p, "transmit")
    BY <1>3 DEF TransmitAndSleep
  <2> QED BY <2>3, <2>7, <2>8, <2>9, AsleepWriteSleep
<1>4. CASE WriteDone(p, length, pos, unslept)
  <2>1. /\ transmitting' = transmitting \o chunks /\ write_current' = NoProc
        /\ at' = [at EXCEPT ![p] = "user"] /\ arg' = [arg EXCEPT ![p] = 0]
        /\ position' = [position EXCEPT ![p] = 0]
        /\ UNCHANGED <<state, write_queue>>
    BY <1>4 DEF WriteDone
  <2> HIDE DEF chunks
  <2>2. transmitting' \in Seq([process : Proc, bytes : Nat])
    BY <1>1, <2>1 DEF Asleep, TypeOK, Transmission
  <2>3. TypeOK'
    BY <2>1, <2>2 DEF Asleep, TypeOK, readVars
  <2>4. \A q \in Proc \ {p} : at'[q] = at[q]
    BY <2>1 DEF Asleep, TypeOK
  <2>5. ReadSleepers' /\ WriteSleepers'
    BY <2>1, <2>4, ReadSleepersKept, WriteSleepersKept DEF Asleep, TypeOK, readVars
  <2>6. NoLostReader'
    BY <2>1, <2>4, ReadersUndisturbed
  <2> QED BY <2>3, <2>5, <2>6 DEF Asleep
<1> QED BY <1>2, <1>3, <1>4

\* ttyWrite waits until nobody writes, then enters its loop.
LEMMA AsleepWaitForTerminal ==
  ASSUME Asleep, NoLostReader, NEW p \in Proc, state[p] = "running", at[p] # "read",
         NEW length \in Nat, WaitForTerminal(p, length), UNCHANGED readVars
  PROVE  Asleep' /\ NoLostReader'
<1>1. CASE WriteLoop(p, length, 0) /\ printed' = [printed EXCEPT ![p] = 0]
  <2>1. printed' \in [Proc -> Nat]
    BY <1>1 DEF Asleep, TypeOK
  <2> QED BY <1>1, <2>1, AsleepWriteLoop
<1>2. CASE /\ write_queue' = addNodeToWaitQueue(WaitQueueNode(p, TRUE), write_queue)
           /\ putProcessToSleep(p, "write")
           /\ arg' = [arg EXCEPT ![p] = length]
           /\ UNCHANGED <<position, write_current, transmitting, printed>>
  <2>1. /\ arg' \in [Proc -> Nat] /\ position' \in [Proc -> Nat]
        /\ write_current' \in Proc \cup {NoProc}
        /\ transmitting' \in Seq([process : Proc, bytes : Nat])
        /\ printed' \in [Proc -> Nat]
    BY <1>2 DEF Asleep, TypeOK
  <2> QED BY <1>2, <2>1, AsleepWriteSleep
<1> QED BY <1>1, <1>2 DEF WaitForTerminal

\* What TRAP_TTY_TRANSMIT does to the queue: the first writer leaves it and
\* runs, and the writers behind it keep their order.
LEMMA WriteSignal ==
  ASSUME Asleep, ttyWriteFinished
  PROVE  LET woken == IF write_queue = <<>> THEN {} ELSE {write_queue[1].process}
         IN  /\ write_queue' \in Seq(Node)
             /\ NoRepeat(write_queue')
             /\ Sleepers(write_queue') = Sleepers(write_queue) \ woken
             /\ woken \subseteq Sleepers(write_queue)
             /\ state' \in [Proc -> {"running", "waiting"}]
             /\ \A q \in Proc : state'[q] = IF q \in woken THEN "running" ELSE state[q]
<1> DEFINE marked == MarkExclusive(write_queue)
           leaves == SignalLeaves(marked, TRUE)
           woken == IF write_queue = <<>> THEN {} ELSE {write_queue[1].process}
           first == IF marked = <<>> THEN {} ELSE {marked[1].process}
<1>1. write_queue \in Seq(Node) /\ NoRepeat(write_queue) /\ TypeOK
  BY DEF Asleep, WriteSleepers, TypeOK
<1>2. /\ marked \in Seq(Node)
      /\ Len(marked) = Len(write_queue)
      /\ \A i \in 1..Len(write_queue) :
           /\ marked[i].process = write_queue[i].process
           /\ write_queue[i].is_exclusive => marked[i].is_exclusive
      /\ write_queue # <<>> => marked[1].is_exclusive
      /\ Sleepers(marked) = Sleepers(write_queue)
      /\ NoRepeat(marked)
  BY <1>1, MarkKeeps
<1>3. signalWaitQueue(marked) /\ write_queue' = leaves
  BY DEF ttyWriteFinished
<1> HIDE DEF marked
<1>4. marked = <<>> <=> write_queue = <<>>
  BY <1>1, <1>2
<1>5. first = woken
  <2>1. write_queue # <<>> => 1 \in 1..Len(write_queue)
    BY <1>1
  <2> QED BY <1>2, <1>4, <2>1
<1>6. /\ leaves \in Seq(Node)
      /\ NoRepeat(leaves)
      /\ Sleepers(leaves) = Sleepers(marked) \ first
      /\ first \subseteq Sleepers(marked)
      /\ state' \in [Proc -> {"running", "waiting"}]
      /\ \A q \in Proc : state'[q] = IF q \in first THEN "running" ELSE state[q]
  BY <1>1, <1>2, <1>3, <1>4, SignalStep
<1> HIDE DEF leaves, first, woken
<1> QED BY <1>2, <1>3, <1>5, <1>6 DEF woken

\* The transmit interrupt wakes a writer and disturbs no reader.
LEMMA AsleepWriteFinished ==
  ASSUME Asleep, NoLostReader, ttyWriteFinished
  PROVE  Asleep' /\ NoLostReader'
<1> DEFINE woken == IF write_queue = <<>> THEN {} ELSE {write_queue[1].process}
<1>1. /\ write_queue' \in Seq(Node)
      /\ NoRepeat(write_queue')
      /\ Sleepers(write_queue') = Sleepers(write_queue) \ woken
      /\ woken \subseteq Sleepers(write_queue)
      /\ state' \in [Proc -> {"running", "waiting"}]
      /\ \A q \in Proc : state'[q] = IF q \in woken THEN "running" ELSE state[q]
  BY WriteSignal
<1> HIDE DEF woken
<1>2. /\ transmitting # <<>>
      /\ printed' = [printed EXCEPT ![Head(transmitting).process] = @ + Head(transmitting).bytes]
      /\ transmitting' = Tail(transmitting)
      /\ UNCHANGED <<at, arg, position, write_current, readVars>>
  BY DEF ttyWriteFinished
<1>3. transmitting \in Seq(Transmission)
  BY DEF Asleep, TypeOK, Transmission
<1>4. Head(transmitting) \in Transmission /\ transmitting' \in Seq(Transmission)
  BY <1>2, <1>3
<1>5. printed' \in [Proc -> Nat]
  <2> DEFINE done == Head(transmitting)
  <2>1. done.process \in Proc /\ done.bytes \in Nat
    BY <1>4 DEF Transmission
  <2>2. printed' = [printed EXCEPT ![done.process] = @ + done.bytes]
    BY <1>2
  <2> HIDE DEF done
  <2> QED BY <2>1, <2>2 DEF Asleep, TypeOK
<1>6. TypeOK'
  BY <1>1, <1>2, <1>4, <1>5 DEF Transmission, Asleep, TypeOK, readVars
<1>7. Sleepers(write_queue) \subseteq Proc
  BY SleepersAreProcs DEF Asleep, TypeOK
<1>8. WriteSleepers'
  BY <1>1, <1>2, <1>7 DEF Asleep, WriteSleepers
<1>9. \A q \in woken : at[q] # "read"
  BY <1>1 DEF Asleep, WriteSleepers
<1>10. \A q \in Proc : at[q] = "read" => state'[q] = state[q]
  BY <1>1, <1>9
<1>11. ReadSleepers'
  BY <1>2, <1>10, ReadSleepersKept DEF Asleep, readVars
<1>12. NoLostReader'
  BY <1>2, <1>10, ReadersUndisturbed
<1> QED BY <1>6, <1>8, <1>11, <1>12 DEF Asleep

------------------------------------------------------------------------------
\* Theorems for every terminal.

\* Every step keeps the types, the sleepers on their queues, and some reader on
\* its way to the input that others sleep for.
LEMMA AsleepNext == Asleep /\ NoLostReader /\ [Next]_vars => Asleep' /\ NoLostReader'
<1> SUFFICES ASSUME Asleep, NoLostReader, [Next]_vars
             PROVE  Asleep' /\ NoLostReader'
  OBVIOUS
<1>1. ASSUME NEW p \in Proc, NEW u_length \in ReadLengths, ttyRead(p, u_length)
      PROVE  Asleep' /\ NoLostReader'
  BY <1>1, AsleepReadRound, TtyAssumption DEF ttyRead, Runs
<1>2. ASSUME NEW p \in Proc, ttyReadWoken(p)
      PROVE  Asleep' /\ NoLostReader'
  BY <1>2, AsleepReadRound DEF ttyReadWoken, Runs, Asleep, TypeOK
<1>3. ASSUME NEW p \in Proc, NEW length \in WriteLengths, ttyWrite(p, length)
      PROVE  Asleep' /\ NoLostReader'
  BY <1>3, AsleepWaitForTerminal, TtyAssumption DEF ttyWrite, Runs
<1>4. ASSUME NEW p \in Proc, ttyWriteWoken(p)
      PROVE  Asleep' /\ NoLostReader'
  BY <1>4, AsleepWaitForTerminal DEF ttyWriteWoken, Runs, Asleep, TypeOK
<1>5. ASSUME NEW p \in Proc, ttyWriteNextChunk(p)
      PROVE  Asleep' /\ NoLostReader'
  <2>1. /\ Runs(p, "transmit") /\ UNCHANGED <<printed, readVars>>
        /\ WriteLoop(p, arg[p], position[p] + TERMINAL_MAX_LINE)
    BY <1>5 DEF ttyWriteNextChunk
  <2>2. /\ arg[p] \in Nat /\ position[p] + TERMINAL_MAX_LINE \in Nat
        /\ printed' \in [Proc -> Nat]
    BY <2>1, TtyAssumption DEF Asleep, TypeOK
  <2> QED BY <2>1, <2>2, AsleepWriteLoop DEF Runs
<1>6. CASE UNCHANGED vars
  BY <1>6 DEF vars, procVars, readVars, writeVars, Asleep, TypeOK, ReadSleepers,
     WriteSleepers, NoLostReader, ReadReady, Runs
<1> QED BY <1>1, <1>2, <1>3, <1>4, <1>5, <1>6, AsleepReceive, AsleepWriteFinished
        DEF Next

\* The variables of the terminal keep their types, and the read position never
\* leaves the line in the buffer, even when malloc fails.
THEOREM TypeCorrect == Spec => []TypeOK
<1>1. Asleep => TypeOK
  BY DEF Asleep
<1> QED BY <1>1, AsleepInit, AsleepNext, PTL DEF Spec

\* Input that readers sleep for always has a reader on its way to it.
THEOREM NoLostReaderHolds == Spec => []NoLostReader
  BY AsleepInit, AsleepNext, PTL DEF Spec

\* The loop of ttyWrite is entered when nobody else is between two chunks, and
\* leaves its caller there only as write_current.
LEMMA DoNotMixWriteLoop ==
  ASSUME TypeOK, NEW p \in Proc, NEW length, NEW pos, WriteLoop(p, length, pos),
         \A q \in Proc \ {p} : at[q] # "transmit"
  PROVE  WritesDoNotMix'
<1>1. \/ write_current' = p /\ at' = [at EXCEPT ![p] = "transmit"]
      \/ at' = [at EXCEPT ![p] = "user"]
  BY DEF WriteLoop, TransmitAndSleep, putProcessToSleep, WriteDone
<1> QED BY <1>1 DEF WritesDoNotMix, TypeOK

\* No step lets a second process between two chunks.
LEMMA DoNotMixNext ==
  ASSUME TypeOK, WritesDoNotMix, [Next]_vars
  PROVE  WritesDoNotMix'
<1>1. ASSUME NEW p \in Proc, NEW length, WaitForTerminal(p, length)
      PROVE  WritesDoNotMix'
  <2>1. CASE write_current = NoProc /\ WriteLoop(p, length, 0)
    <3>1. \A q \in Proc : at[q] # "transmit"
      BY <2>1, TtyAssumption DEF WritesDoNotMix
    <3> QED BY <2>1, <3>1, DoNotMixWriteLoop
  <2>2. CASE putProcessToSleep(p, "write") /\ write_current' = write_current
    BY <2>2 DEF putProcessToSleep, WritesDoNotMix, TypeOK
  <2> QED BY <1>1, <2>1, <2>2 DEF WaitForTerminal
<1>2. ASSUME NEW p \in Proc, ttyWriteNextChunk(p)
      PROVE  WritesDoNotMix'
  <2>1. WriteLoop(p, arg[p], position[p] + TERMINAL_MAX_LINE) /\ at[p] = "transmit"
    BY <1>2 DEF ttyWriteNextChunk, Runs
  <2>2. \A q \in Proc \ {p} : at[q] # "transmit"
    BY <2>1 DEF WritesDoNotMix
  <2> QED BY <2>1, <2>2, DoNotMixWriteLoop
<1>3. ASSUME NEW p \in Proc, NEW u_length, ReadRound(p, u_length)
      PROVE  WritesDoNotMix'
  <2>1. /\ write_current' = write_current
        /\ at' = [at EXCEPT ![p] = "user"] \/ at' = [at EXCEPT ![p] = "read"]
    BY <1>3 DEF ReadRound, ReadChunk, ReadSleep, putProcessToSleep, writeVars
  <2> QED BY <2>1 DEF WritesDoNotMix, TypeOK
<1>4. ASSUME UNCHANGED <<at, write_current>>
      PROVE  WritesDoNotMix'
  BY <1>4 DEF WritesDoNotMix
<1>5. ASSUME NEW length, ttyReadBegin(length) \/ ttyReadBeginNoSpace \/ ttyWriteFinished
      PROVE  WritesDoNotMix'
  BY <1>4, <1>5 DEF ttyReadBegin, ttyReadBeginNoSpace, ttyWriteFinished, procVars, writeVars
<1>6. CASE UNCHANGED vars
  BY <1>4, <1>6 DEF vars, procVars, writeVars
<1> QED BY <1>1, <1>2, <1>3, <1>5, <1>6
        DEF Next, ttyRead, ttyReadWoken, ttyWrite, ttyWriteWoken

\* The chunks of two messages are never mixed, even when malloc fails.
THEOREM WritesDoNotMixHolds == Spec => []WritesDoNotMix
<1> DEFINE IInv == Asleep /\ NoLostReader /\ WritesDoNotMix
<1>1. Init => IInv
  BY AsleepInit DEF Init, WritesDoNotMix
<1>2. IInv /\ [Next]_vars => IInv'
  BY AsleepNext, DoNotMixNext DEF Asleep
<1> QED BY <1>1, <1>2, PTL DEF Spec

------------------------------------------------------------------------------
\* One transmission at a time, when malloc serves every node of a writer.

\* The phase of the output does not change when no writer between two chunks
\* is touched.
LEMMA PhasesKept ==
  ASSUME Phases, UNCHANGED writeVars,
         \A q \in Proc : at[q] = "transmit" =>
           /\ state'[q] = state[q] /\ at'[q] = at[q]
           /\ arg'[q] = arg[q] /\ position'[q] = position[q]
  PROVE  Phases'
<1>1. CASE Idle
  BY <1>1 DEF Phases, Idle, AllExclusive, writeVars
<1>2. ASSUME NEW p \in Proc, Writing(p)
      PROVE  Writing(p)'
  BY <1>2 DEF Writing, Printing, Printed, ChunkAt, AllExclusive, writeVars
<1> QED BY <1>1, <1>2 DEF Phases

\* Entered while the terminal is idle, the loop of ttyWrite hands it one chunk
\* and sleeps in front of everyone, or returns because nothing is left.
LEMMA PhasesWriteLoop ==
  ASSUME ~NodeMayFail, Asleep, NEW p \in Proc, state[p] = "running",
         NEW length \in Nat, NEW pos \in Nat, WriteLoop(p, length, pos),
         transmitting = <<>>, AllExclusive(1),
         pos < length => printed'[p] = pos
  PROVE  /\ Phases'
         /\ at'[p] = "user" => length <= pos
         /\ \A q \in Proc \ {p} : at'[q] = at[q]
<1> DEFINE chunks == Chunks(p, length, pos)
           first == [process |-> p, bytes |-> Smaller(length - pos, TERMINAL_MAX_LINE)]
<1>1. /\ chunks \in Seq(Transmission)
      /\ length <= pos => Len(chunks) = 0
      /\ pos < length => Len(chunks) >= 1 /\ chunks[1] = first
  BY ChunksTyped
<1>2. TransmitAndSleep(p, length, pos, 0) \/ WriteDone(p, length, pos, 0)
  BY DEF WriteLoop
<1>3. CASE pos < length
  <2>1. TransmitAndSleep(p, length, pos, 0)
    BY <1>1, <1>2, <1>3 DEF WriteDone
  <2>2. /\ transmitting' = transmitting \o SubSeq(chunks, 1, 0 + 1)
        /\ write_current' = p
        /\ write_queue' = addNodeToWaitQueue(WaitQueueNode(p, FALSE), write_queue)
        /\ state' = [state EXCEPT ![p] = "waiting"]
        /\ at' = [at EXCEPT ![p] = "transmit"]
        /\ arg' = [arg EXCEPT ![p] = length]
        /\ position' = [position EXCEPT ![p] = pos + 0 * TERMINAL_MAX_LINE]
    BY <2>1 DEF TransmitAndSleep, putProcessToSleep
  <2>3. pos + 0 * TERMINAL_MAX_LINE = pos
    BY TtyAssumption, Z3
  <2>4. /\ state'[p] = "waiting" /\ at'[p] = "transmit"
        /\ arg'[p] = length /\ position'[p] = pos
        /\ \A q \in Proc \ {p} : at'[q] = at[q]
    BY <2>2, <2>3 DEF Asleep, TypeOK
  <2>5. transmitting' = <<first>>
    <3>1. SubSeq(chunks, 1, 0 + 1) = <<chunks[1]>>
      <4> HIDE DEF chunks
      <4>1. chunks \in Seq(Transmission) /\ Len(chunks) \in Nat /\ Len(chunks) >= 1
        BY <1>1, <1>3
      <4> DEFINE one == SubSeq(chunks, 1, 0 + 1)
      <4>2. one \in Seq(Transmission) /\ Len(one) = 1 /\ one[1] = chunks[1]
        BY <4>1
      <4> HIDE DEF one
      <4>3. one = <<chunks[1]>>
        BY <4>2
      <4> QED BY <4>3 DEF one
    <3>2. chunks[1] = first
      BY <1>1, <1>3
    <3> HIDE DEF chunks, first
    <3> QED BY <2>2, <3>1, <3>2
  <2>6. /\ write_queue' # <<>> /\ write_queue'[1] = WaitQueueNode(p, FALSE)
        /\ AllExclusive(2)'
    <3> DEFINE node == WaitQueueNode(p, FALSE)
    <3>1. write_queue' = <<node>> \o write_queue
      BY <2>2 DEF addNodeToWaitQueue, WaitQueueNode
    <3>2. write_queue \in Seq(Node) /\ node \in Node
      BY NodeTyped DEF Asleep, TypeOK
    <3> HIDE DEF node
    <3>3. /\ Len(write_queue) \in Nat
          /\ Len(write_queue') = Len(write_queue) + 1
          /\ write_queue'[1] = node
          /\ \A i \in 2..(Len(write_queue) + 1) : write_queue'[i] = write_queue[i - 1]
      BY <3>1, <3>2
    <3>4. AllExclusive(2)'
      BY <3>3 DEF AllExclusive
    <3> QED BY <3>3, <3>4 DEF node
  <2>7. Printing(p)'
    BY <1>3, <2>4, <2>5, <2>6 DEF Printing, ChunkAt
  <2>8. Writing(p)'
    BY <1>3, <2>2, <2>4, <2>7 DEF Writing
  <2> QED BY <1>3, <2>4, <2>8 DEF Phases
<1>4. CASE length <= pos
  <2>1. WriteDone(p, length, pos, 0)
    BY <1>1, <1>2, <1>4 DEF TransmitAndSleep
  <2>2. /\ transmitting' = transmitting \o chunks
        /\ write_current' = NoProc
        /\ write_queue' = write_queue
        /\ at' = [at EXCEPT ![p] = "user"]
    BY <2>1 DEF WriteDone
  <2>3. chunks = <<>>
    <3> HIDE DEF chunks
    <3> QED BY <1>1, <1>4
  <2> HIDE DEF chunks
  <2>4. transmitting' = <<>>
    BY <2>2, <2>3
  <2>5. Idle'
    BY <2>2, <2>4 DEF Idle, AllExclusive
  <2>6. \A q \in Proc \ {p} : at'[q] = at[q]
    BY <2>2 DEF Asleep, TypeOK
  <2> QED BY <1>4, <2>5, <2>6 DEF Phases
<1> QED BY <1>3, <1>4

\* A writer that finds the terminal taken sleeps behind the others.
LEMMA PhasesWaitForTerminal ==
  ASSUME ~NodeMayFail, Asleep, Phases, NEW p \in Proc, state[p] = "running",
         at[p] \in {"user", "write"}, NEW length \in Nat, WaitForTerminal(p, length)
  PROVE  Phases' /\ \A q \in Proc \ {p} : at'[q] = at[q]
<1>1. CASE write_current = NoProc /\ WriteLoop(p, length, 0) /\ printed' = [printed EXCEPT ![p] = 0]
  <2>1. Idle
    BY <1>1, TtyAssumption DEF Phases, Writing
  <2>2. printed'[p] = 0
    BY <1>1 DEF Asleep, TypeOK
  <2> QED BY <1>1, <2>1, <2>2, PhasesWriteLoop DEF Idle
<1>2. CASE /\ write_current # NoProc
           /\ write_queue' = addNodeToWaitQueue(WaitQueueNode(p, TRUE), write_queue)
           /\ putProcessToSleep(p, "write")
           /\ arg' = [arg EXCEPT ![p] = length]
           /\ UNCHANGED <<position, write_current, transmitting, printed>>
  <2>1. PICK q \in Proc : Writing(q)
    BY <1>2 DEF Phases, Idle
  <2>2. q # p
    BY <2>1 DEF Writing
  <2>3. \A r \in Proc \ {p} : state'[r] = state[r] /\ at'[r] = at[r] /\ arg'[r] = arg[r]
    BY <1>2 DEF putProcessToSleep, Asleep, TypeOK
  <2> DEFINE node == WaitQueueNode(p, TRUE)
  <2>4. write_queue' = Append(write_queue, node)
    BY <1>2 DEF addNodeToWaitQueue, WaitQueueNode
  <2>5. write_queue \in Seq(Node) /\ node \in Node /\ node.is_exclusive
    BY NodeTyped DEF Asleep, TypeOK
  <2> HIDE DEF node
  <2>6. /\ Len(write_queue) \in Nat
        /\ Len(write_queue') = Len(write_queue) + 1
        /\ \A i \in 1..Len(write_queue) : write_queue'[i] = write_queue[i]
        /\ write_queue'[Len(write_queue) + 1] = node
    BY <2>4, <2>5
  <2>7. /\ AllExclusive(1) => AllExclusive(1)'
        /\ AllExclusive(2) => AllExclusive(2)'
    BY <2>5, <2>6 DEF AllExclusive
  <2>8. write_queue # <<>> => write_queue' # <<>> /\ write_queue'[1] = write_queue[1]
    <3>1. write_queue # <<>> => 1 \in 1..Len(write_queue)
      BY <2>5
    <3> QED BY <2>6, <3>1
  <2>9. ChunkAt(q)' = ChunkAt(q)
    BY <1>2, <2>2, <2>3 DEF ChunkAt
  <2>10. Printing(q) => Printing(q)'
    BY <1>2, <2>2, <2>3, <2>7, <2>8, <2>9 DEF Printing
  <2>11. Printed(q) => Printed(q)'
    BY <1>2, <2>2, <2>3, <2>7, <2>9 DEF Printed
  <2>12. Writing(q)'
    BY <1>2, <2>1, <2>2, <2>3, <2>10, <2>11 DEF Writing
  <2> QED BY <2>3, <2>12 DEF Phases
<1> QED BY <1>1, <1>2 DEF WaitForTerminal

\* The transmit interrupt is for the writer that sleeps in front of everyone.
LEMMA PhasesWriteFinished ==
  ASSUME Asleep, Phases, ttyWriteFinished
  PROVE  Phases'
<1>1. PICK p \in Proc : Writing(p) /\ Printing(p)
  BY DEF ttyWriteFinished, Phases, Idle, Writing, Printed
<1> DEFINE done == [process |-> p, bytes |-> ChunkAt(p)]
           woken == IF write_queue = <<>> THEN {} ELSE {write_queue[1].process}
           marked == MarkExclusive(write_queue)
           leaves == SignalLeaves(marked, TRUE)
<1>2. /\ printed' = [printed EXCEPT ![Head(transmitting).process] = @ + Head(transmitting).bytes]
      /\ transmitting' = Tail(transmitting)
      /\ write_queue' = leaves
      /\ UNCHANGED <<at, arg, position, write_current>>
  BY DEF ttyWriteFinished
<1>3. /\ write_queue \in Seq(Node) /\ NoRepeat(write_queue)
      /\ write_queue # <<>> /\ write_queue[1].process = p
      /\ AllExclusive(2)
  BY <1>1, NodeTyped DEF Asleep, TypeOK, WriteSleepers, Printing
<1>4. state'[p] = "running"
  <2>1. \A q \in Proc : state'[q] = IF q \in woken THEN "running" ELSE state[q]
    BY WriteSignal
  <2> QED BY <1>3, <2>1
<1>5. transmitting' = <<>>
  <2>1. transmitting = <<done>>
    BY <1>1 DEF Printing
  <2> HIDE DEF done
  <2> QED BY <1>2, <2>1
<1>6. printed'[p] = position'[p] + ChunkAt(p)'
  <2>1. transmitting = <<done>> /\ printed[p] = position[p]
    BY <1>1 DEF Printing
  <2>2. Head(transmitting).process = p /\ Head(transmitting).bytes = ChunkAt(p)
    BY <2>1
  <2>3. printed'[p] = printed[p] + ChunkAt(p)
    BY <1>2, <2>2 DEF Asleep, TypeOK
  <2> QED BY <1>2, <2>1, <2>3 DEF ChunkAt
<1>7. AllExclusive(1)'
  <2>1. /\ marked \in Seq(Node)
        /\ Len(marked) = Len(write_queue)
        /\ \A i \in 1..Len(write_queue) :
             /\ marked[i].process = write_queue[i].process
             /\ write_queue[i].is_exclusive => marked[i].is_exclusive
        /\ marked[1].is_exclusive
        /\ NoRepeat(marked)
    BY <1>3, MarkKeeps
  <2> HIDE DEF marked
  <2>2. marked # <<>>
    BY <1>3, <2>1
  <2>3. Len(leaves) = Len(marked) - 1 /\ \A i \in 1..Len(leaves) : leaves[i] = marked[i + 1]
    BY <2>1, <2>2, SignalHead, Zenon
  <2> HIDE DEF leaves
  <2>4. Len(write_queue) \in Nat
    BY <1>3
  <2>5. \A i \in 1..Len(leaves) : i + 1 \in 2..Len(write_queue) /\ i + 1 \in 1..Len(write_queue)
    BY <2>1, <2>3, <2>4
  <2>6. \A i \in 1..Len(leaves) : leaves[i].is_exclusive
    BY <1>3, <2>1, <2>3, <2>5 DEF AllExclusive
  <2> QED BY <1>2, <2>6 DEF AllExclusive
<1>8. Printed(p)'
  BY <1>4, <1>5, <1>6, <1>7 DEF Printed
<1>9. Writing(p)'
  BY <1>1, <1>2, <1>8 DEF Writing
<1> QED BY <1>9 DEF Phases

PrintedAtReturn ==
  \A p \in Proc : at[p] = "transmit" /\ at'[p] = "user" => printed[p] = arg[p]

\* Every step keeps the output in its phases, and ends a write only when the
\* last of its chunks has been printed.
LEMMA PhasesNext ==
  ASSUME ~NodeMayFail, Asleep, WritesDoNotMix, Phases, [Next]_vars
  PROVE  Phases' /\ PrintedAtReturn
<1>1. ASSUME NEW p \in Proc, NEW length \in Nat, state[p] = "running",
             at[p] \in {"user", "write"}, WaitForTerminal(p, length)
      PROVE  Phases' /\ PrintedAtReturn
  BY <1>1, PhasesWaitForTerminal DEF PrintedAtReturn
<1>2. ASSUME NEW p \in Proc, ttyWriteNextChunk(p)
      PROVE  Phases' /\ PrintedAtReturn
  <2> DEFINE pos == position[p] + TERMINAL_MAX_LINE
  <2>1. /\ state[p] = "running" /\ at[p] = "transmit" /\ printed' = printed
        /\ WriteLoop(p, arg[p], pos)
    BY <1>2 DEF ttyWriteNextChunk, Runs
  <2>2. /\ arg[p] \in Nat /\ position[p] \in Nat /\ pos \in Nat
        /\ TERMINAL_MAX_LINE \in Nat
    BY TtyAssumption DEF Asleep, TypeOK
  <2>3. Writing(p) /\ Printed(p)
    <3>1. write_current = p /\ write_current # NoProc
      BY <2>1, TtyAssumption DEF WritesDoNotMix
    <3> QED BY <2>1, <3>1 DEF Phases, Idle, Writing, Printing
  <2>4. /\ transmitting = <<>> /\ AllExclusive(1)
        /\ printed[p] = position[p] + Smaller(arg[p] - position[p], TERMINAL_MAX_LINE)
        /\ position[p] < arg[p]
    BY <2>3 DEF Writing, Printed, ChunkAt
  <2>5. pos < arg[p] => printed'[p] = pos
    BY <2>1, <2>2, <2>4 DEF Smaller
  <2>6. arg[p] <= pos => printed[p] = arg[p]
    BY <2>2, <2>4 DEF Smaller
  <2> HIDE DEF pos
  <2>7. /\ Phases'
        /\ at'[p] = "user" => arg[p] <= pos
        /\ \A q \in Proc \ {p} : at'[q] = at[q]
    BY <2>1, <2>2, <2>4, <2>5, PhasesWriteLoop
  <2> QED BY <2>6, <2>7 DEF PrintedAtReturn
<1>3. ASSUME UNCHANGED writeVars,
             \A q \in Proc : at[q] = "transmit" =>
               /\ state'[q] = state[q] /\ at'[q] = at[q]
               /\ arg'[q] = arg[q] /\ position'[q] = position[q]
      PROVE  Phases' /\ PrintedAtReturn
  BY <1>3, PhasesKept DEF PrintedAtReturn
<1>4. ASSUME signalWaitQueue(read_queue), read_queue' = SignalLeaves(read_queue, TRUE)
      PROVE  \A q \in Proc : at[q] = "transmit" => state'[q] = state[q]
  BY <1>4, ReadSignal
<1>5. ASSUME NEW p \in Proc, NEW u_length, at[p] # "transmit", ReadRound(p, u_length)
      PROVE  Phases' /\ PrintedAtReturn
  <2>1. UNCHANGED <<position, writeVars>>
    BY <1>5 DEF ReadRound
  <2>2. \A q \in Proc \ {p} : at'[q] = at[q] /\ arg'[q] = arg[q]
    BY <1>5 DEF ReadRound, ReadChunk, ReadSleep, putProcessToSleep, Asleep, TypeOK
  <2>3. \A q \in Proc \ {p} : at[q] = "transmit" => state'[q] = state[q]
    BY <1>4, <1>5 DEF ReadRound, ReadChunk, ReadSleep, putProcessToSleep, Asleep, TypeOK
  <2> QED BY <1>3, <1>5, <2>1, <2>2, <2>3
<1>6. ASSUME NEW length, ttyReadBegin(length)
      PROVE  Phases' /\ PrintedAtReturn
  BY <1>3, <1>4, <1>6 DEF ttyReadBegin
<1>7. CASE ttyReadBeginNoSpace
  BY <1>3, <1>7 DEF ttyReadBeginNoSpace, procVars
<1>8. CASE ttyWriteFinished
  BY <1>8, PhasesWriteFinished DEF ttyWriteFinished, PrintedAtReturn
<1>9. CASE UNCHANGED vars
  BY <1>3, <1>9 DEF vars, procVars
<1>10. ASSUME NEW p \in Proc
       PROVE  arg[p] \in Nat
  BY DEF Asleep, TypeOK
<1> QED BY <1>1, <1>2, <1>5, <1>6, <1>7, <1>8, <1>9, <1>10, TtyAssumption
        DEF Next, ttyRead, ttyReadWoken, ttyWrite, ttyWriteWoken, Runs

\* The invariant the last two theorems share.
TransmitInv == Asleep /\ NoLostReader /\ WritesDoNotMix /\ Phases

\* A terminal that has just been set up is idle.
LEMMA TransmitInvInit == Init => TransmitInv
  BY AsleepInit DEF Init, TransmitInv, WritesDoNotMix, Phases, Idle, AllExclusive

\* Every step keeps it.
LEMMA TransmitInvNext ==
  ASSUME ~NodeMayFail
  PROVE  TransmitInv /\ [Next]_vars => TransmitInv'
  BY AsleepNext, DoNotMixNext, PhasesNext DEF TransmitInv, Asleep

\* TtyTransmit is only called when the terminal has finished the last one.
THEOREM OneTransmissionHolds ==
  ASSUME ~NodeMayFail PROVE Spec => []OneTransmission
<1>1. ASSUME TransmitInv PROVE OneTransmission
  <2>1. \/ transmitting = <<>>
        \/ \E p \in Proc : transmitting = <<[process |-> p, bytes |-> ChunkAt(p)]>>
    BY <1>1 DEF TransmitInv, Phases, Idle, Writing, Printing, Printed
  <2>2. transmitting = <<>> \/ \E chunk : transmitting = <<chunk>>
    BY <2>1, Zenon
  <2> QED BY <2>2 DEF OneTransmission
<1> QED BY <1>1, TransmitInvInit, TransmitInvNext, PTL DEF Spec

\* ttyWrite returns only when the terminal has printed all of its message.
THEOREM ReturnsPrintedHolds ==
  ASSUME ~NodeMayFail PROVE Spec => ReturnsPrinted
<1>1. TransmitInv /\ [Next]_vars => [PrintedAtReturn]_vars
  BY PhasesNext DEF TransmitInv
<1> QED BY <1>1, TransmitInvInit, TransmitInvNext, PTL
        DEF Spec, ReturnsPrinted, PrintedAtReturn
==============================================================================
