--------------------------- MODULE WaitQueueProofs ----------------------------
(***************************************************************************)
(* What a signal does to a queue of exclusive nodes, for queues of any     *)
(* length over any set of processes.                                       *)
(***************************************************************************)
EXTENDS WaitQueue, TLAPS

Exclusives(P) == [process : P, is_exclusive : {TRUE}]

\* An exclusive wakeup of signalWaitQueueWithOptions stops after one node.
LEMMA SignalOne ==
  ASSUME NEW P, NEW queue \in Seq(Exclusives(P)), queue # <<>>
  PROVE  SignalCount(queue, TRUE) = 1
<1>1. Len(queue) \in Nat /\ Len(queue) >= 1
  OBVIOUS
<1>5. \A i \in 1..Len(queue) : queue[i] \in Exclusives(P)
  OBVIOUS
<1>6. \A i \in 1..Len(queue) : queue[i].is_exclusive = TRUE
  BY <1>5, Zenon DEF Exclusives
<1> DEFINE E == {i \in 1..Len(queue) : queue[i].is_exclusive}
<1>2. E = 1..Len(queue) /\ 1 \in E
  BY <1>1, <1>6
<1>4. (CHOOSE i \in E : \A j \in E : i <= j) = 1
  <2>1. \A j \in E : 1 <= j
    BY <1>1, <1>2
  <2>2. \A i \in E : (\A j \in E : i <= j) => i = 1
    BY <1>1, <1>2
  <2> QED BY <1>2, <2>1, <2>2
<1> QED BY <1>1, <1>2, <1>4 DEF SignalCount

\* Signalling an empty queue wakes nobody.
LEMMA SignalEmpty ==
  ASSUME NEW exclusive \in BOOLEAN
  PROVE  /\ SignalCount(<<>>, exclusive) = 0
         /\ SignalWakes(<<>>, exclusive) = {}
         /\ SignalLeaves(<<>>, exclusive) = <<>>
<1>1. SignalCount(<<>>, exclusive) = 0
  BY DEF SignalCount
<1>2. SignalWakes(<<>>, exclusive) = {}
  BY <1>1 DEF SignalWakes
<1>3. SignalLeaves(<<>>, exclusive) = <<>>
  BY <1>1 DEF SignalLeaves
<1> QED BY <1>1, <1>2, <1>3

\* signalWaitQueue wakes the first process of a queue and leaves the others.
LEMMA SignalFirst ==
  ASSUME NEW P, NEW queue \in Seq(Exclusives(P)), queue # <<>>
  PROVE  /\ SignalWakes(queue, TRUE) = {queue[1].process}
         /\ queue[1].process \in P
         /\ SignalLeaves(queue, TRUE) \in Seq(Exclusives(P))
         /\ Len(SignalLeaves(queue, TRUE)) = Len(queue) - 1
         /\ \A i \in 1..(Len(queue) - 1) :
              SignalLeaves(queue, TRUE)[i] = queue[i + 1]
<1>1. SignalCount(queue, TRUE) = 1
  BY SignalOne
<1>2. Len(queue) \in Nat /\ Len(queue) >= 1 /\ queue[1] \in Exclusives(P)
  OBVIOUS
<1>3. queue[1].process \in P
  BY <1>2 DEF Exclusives
<1>4. SignalWakes(queue, TRUE) = {queue[1].process}
  <2>1. SignalWakes(queue, TRUE) = {queue[i].process : i \in 1..1}
    BY <1>1, Zenon DEF SignalWakes
  <2>2. 1..1 = {1}
    OBVIOUS
  <2> QED BY <2>1, <2>2, Zenon
<1>5. SignalLeaves(queue, TRUE) = SubSeq(queue, 2, Len(queue))
  <2>1. SignalLeaves(queue, TRUE) = SubSeq(queue, 1 + 1, Len(queue))
    BY <1>1, Zenon DEF SignalLeaves
  <2>2. 1 + 1 = 2
    OBVIOUS
  <2> QED BY <2>1, <2>2, Zenon
<1> DEFINE rest == SubSeq(queue, 2, Len(queue))
<1> DEFINE S == Exclusives(P)
<1> HIDE DEF S
<1>6. queue \in Seq(S)
  BY DEF S
<1>7. /\ rest = Tail(queue)
      /\ rest \in Seq(S)
      /\ Len(Tail(queue)) = Len(queue) - 1
      /\ \A i \in 1..(Len(queue) - 1) : rest[i] = queue[i + 1]
  BY <1>6
<1> HIDE DEF rest
<1> QED BY <1>3, <1>4, <1>5, <1>7, Zenon DEF rest, S

\* A broadcast wakes every process of a queue and leaves it empty.
LEMMA SignalAll ==
  ASSUME NEW P, NEW queue \in Seq(Exclusives(P))
  PROVE  /\ SignalWakes(queue, FALSE) = Sleepers(queue)
         /\ SignalLeaves(queue, FALSE) = <<>>
<1>1. SignalCount(queue, FALSE) = Len(queue)
  BY DEF SignalCount
<1>2. SignalLeaves(queue, FALSE) = SubSeq(queue, Len(queue) + 1, Len(queue))
  BY <1>1 DEF SignalLeaves
<1>3. SubSeq(queue, Len(queue) + 1, Len(queue)) = <<>>
  OBVIOUS
<1> QED BY <1>1, <1>2, <1>3 DEF SignalWakes, Sleepers

\* sleepOnWaitQueue puts the caller behind everyone who sleeps already.
LEMMA SleepLast ==
  ASSUME NEW P, NEW queue \in Seq(Exclusives(P)), NEW p \in P
  PROVE  \E node \in Exclusives(P) :
           /\ node.process = p
           /\ addNodeToWaitQueue(WaitQueueNode(p, TRUE), queue) = Append(queue, node)
           /\ Append(queue, node) \in Seq(Exclusives(P))
<1> DEFINE node == WaitQueueNode(p, TRUE)
<1>1. node \in Exclusives(P) /\ node.process = p /\ node.is_exclusive
  BY DEF WaitQueueNode, Exclusives
<1> HIDE DEF node
<1>2. addNodeToWaitQueue(node, queue) = Append(queue, node)
  BY <1>1 DEF addNodeToWaitQueue
<1>3. Append(queue, node) \in Seq(Exclusives(P))
  BY <1>1
<1> QED BY <1>1, <1>2, <1>3, Zenon DEF node

------------------------------------------------------------------------------
\* The same facts about the set of processes on a queue.

NoRepeat(queue) ==
  \A i, j \in 1..Len(queue) : queue[i].process = queue[j].process => i = j

\* A signal takes off the queue exactly the processes it wakes, and it wakes
\* somebody if anybody sleeps.
LEMMA SignalSleepers ==
  ASSUME NEW P, NEW queue \in Seq(Exclusives(P)), NoRepeat(queue),
         NEW exclusive \in BOOLEAN
  PROVE  /\ SignalWakes(queue, exclusive) \subseteq Sleepers(queue)
         /\ Sleepers(SignalLeaves(queue, exclusive))
              = Sleepers(queue) \ SignalWakes(queue, exclusive)
         /\ NoRepeat(SignalLeaves(queue, exclusive))
         /\ queue # <<>> => SignalWakes(queue, exclusive) # {}
<1> DEFINE wakes  == SignalWakes(queue, exclusive)
           leaves == SignalLeaves(queue, exclusive)
<1>0. Sleepers(<<>>) = {} /\ NoRepeat(<<>>)
  BY DEF Sleepers, NoRepeat
<1>1. CASE queue = <<>>
  <2>1. wakes = {} /\ leaves = <<>>
    BY <1>1, SignalEmpty, Zenon
  <2> QED BY <1>0, <1>1, <2>1, Zenon
<1>2. CASE queue # <<>> /\ exclusive = TRUE
  <2> DEFINE S == Exclusives(P)
  <2> HIDE DEF S, wakes, leaves
  <2>1. queue \in Seq(S) /\ queue # <<>> /\ NoRepeat(queue)
    BY <1>2 DEF S
  <2>2. /\ wakes = {queue[1].process}
        /\ leaves \in Seq(S)
        /\ Len(leaves) = Len(queue) - 1
        /\ \A i \in 1..(Len(queue) - 1) : leaves[i] = queue[i + 1]
    BY <1>2, SignalFirst, Zenon DEF S, wakes, leaves
  <2>3. 1 \in 1..Len(queue) /\ Len(queue) \in Nat
    BY <2>1
  <2>4. wakes \subseteq Sleepers(queue) /\ wakes # {}
    BY <2>2, <2>3 DEF Sleepers
  <2>5. \A i \in 1..Len(leaves) :
          /\ i + 1 \in 2..Len(queue)
          /\ leaves[i].process = queue[i + 1].process
    BY <2>2, <2>3
  <2>6. NoRepeat(leaves)
    BY <2>1, <2>2, <2>3, <2>5 DEF NoRepeat
  <2>7. ASSUME NEW x \in Sleepers(leaves)
        PROVE  x \in Sleepers(queue) \ wakes
    <3>1. PICK i \in 1..Len(leaves) : x = leaves[i].process
      BY <2>7 DEF Sleepers
    <3>2. i + 1 \in 1..Len(queue) /\ x = queue[i + 1].process /\ i + 1 # 1
      BY <2>5, <3>1
    <3>3. queue[i + 1].process # queue[1].process
      BY <2>1, <2>3, <3>2 DEF NoRepeat
    <3> QED BY <2>2, <3>2, <3>3 DEF Sleepers
  <2>8. ASSUME NEW x \in Sleepers(queue) \ wakes
        PROVE  x \in Sleepers(leaves)
    <3>1. PICK i \in 1..Len(queue) : x = queue[i].process
      BY DEF Sleepers
    <3>2. i # 1
      BY <2>2, <3>1
    <3>3. i - 1 \in 1..Len(leaves) /\ leaves[i - 1] = queue[i]
      BY <2>2, <2>3, <3>2
    <3> QED BY <3>1, <3>3 DEF Sleepers
  <2>9. Sleepers(leaves) = Sleepers(queue) \ wakes
    BY <2>7, <2>8, Zenon
  <2> QED BY <2>4, <2>6, <2>9, Zenon DEF wakes, leaves
<1>3. CASE queue # <<>> /\ exclusive = FALSE
  <2>1. wakes = Sleepers(queue) /\ leaves = <<>>
    BY <1>3, SignalAll, Zenon
  <2>2. 1 \in 1..Len(queue)
    BY <1>3
  <2>3. Sleepers(queue) # {}
    BY <2>2 DEF Sleepers
  <2> QED BY <1>0, <2>1, <2>3, Zenon
<1> QED BY <1>1, <1>2, <1>3, Zenon

\* A node at the end of a queue adds its process to the sleepers.
LEMMA AppendSleepers ==
  ASSUME NEW S, NEW queue \in Seq(S), NoRepeat(queue),
         NEW node \in S, node.process \notin Sleepers(queue)
  PROVE  /\ Sleepers(Append(queue, node)) = Sleepers(queue) \cup {node.process}
         /\ NoRepeat(Append(queue, node))
         /\ Append(queue, node) # <<>>
<1> DEFINE p == node.process
           after == Append(queue, node)
           n == Len(queue)
<1> HIDE DEF after
<1>1. n \in Nat
  OBVIOUS
<1>2. /\ Len(after) = n + 1
      /\ after[n + 1].process = p
      /\ \A i \in 1..n : after[i] = queue[i]
  BY <1>1 DEF after
<1> HIDE DEF n
<1>3. \A i \in 1..n : queue[i].process # p
  BY DEF Sleepers, n
<1>4. NoRepeat(after)
  <2>1. SUFFICES ASSUME NEW i \in 1..(n + 1), NEW j \in 1..(n + 1),
                        after[i].process = after[j].process
                 PROVE  i = j
    BY <1>2 DEF NoRepeat
  <2>2. CASE i \in 1..n /\ j \in 1..n
    BY <1>2, <2>1, <2>2 DEF NoRepeat, n
  <2>3. CASE i = n + 1 /\ j \in 1..n
    BY <1>2, <1>3, <2>1, <2>3
  <2>4. CASE j = n + 1 /\ i \in 1..n
    BY <1>2, <1>3, <2>1, <2>4
  <2>5. i \in 1..n \/ i = n + 1
    BY <1>1
  <2>6. j \in 1..n \/ j = n + 1
    BY <1>1
  <2> QED BY <2>2, <2>3, <2>4, <2>5, <2>6, Zenon
<1>5. Sleepers(after) = Sleepers(queue) \cup {p}
  <2>1. Len(queue) = n
    BY DEF n
  <2>2. ASSUME NEW x \in Sleepers(after) PROVE x \in Sleepers(queue) \cup {p}
    <3>1. PICK i \in 1..(n + 1) : x = after[i].process
      BY <1>2 DEF Sleepers
    <3> QED BY <1>1, <1>2, <2>1, <3>1 DEF Sleepers
  <2>3. ASSUME NEW x \in Sleepers(queue) PROVE x \in Sleepers(after)
    <3>1. PICK i \in 1..n : x = queue[i].process
      BY <2>1 DEF Sleepers
    <3>2. i \in 1..(n + 1) /\ after[i] = queue[i]
      BY <1>1, <1>2
    <3> QED BY <1>2, <3>1, <3>2 DEF Sleepers
  <2>4. p \in Sleepers(after)
    <3>1. n + 1 \in 1..(n + 1)
      BY <1>1
    <3> QED BY <1>2, <3>1 DEF Sleepers
  <2> QED BY <2>2, <2>3, <2>4, Zenon
<1>6. after # <<>>
  <2>1. Len(after) # 0
    BY <1>1, <1>2
  <2> QED BY <2>1
<1> QED BY <1>4, <1>5, <1>6, Zenon DEF after

\* A process that goes to sleep joins the sleepers.
LEMMA SleepSleepers ==
  ASSUME NEW P, NEW queue \in Seq(Exclusives(P)), NoRepeat(queue),
         NEW p \in P, p \notin Sleepers(queue)
  PROVE  LET after == addNodeToWaitQueue(WaitQueueNode(p, TRUE), queue)
         IN  /\ Sleepers(after) = Sleepers(queue) \cup {p}
             /\ NoRepeat(after)
             /\ after # <<>>
<1>1. PICK node \in Exclusives(P) :
        /\ node.process = p
        /\ addNodeToWaitQueue(WaitQueueNode(p, TRUE), queue) = Append(queue, node)
        /\ Append(queue, node) \in Seq(Exclusives(P))
  BY SleepLast, Zenon
<1>2. /\ Sleepers(Append(queue, node)) = Sleepers(queue) \cup {p}
      /\ NoRepeat(Append(queue, node))
      /\ Append(queue, node) # <<>>
  <2>1. node.process \notin Sleepers(queue)
    BY <1>1, Zenon
  <2> QED BY <1>1, <2>1, AppendSleepers, Zenon
<1> QED BY <1>1, <1>2, Zenon

------------------------------------------------------------------------------
\* Queues with nodes of both kinds.

\* A node at the front of a queue adds its process to the sleepers too.
LEMMA FrontSleepers ==
  ASSUME NEW S, NEW queue \in Seq(S), NoRepeat(queue),
         NEW node \in S, node.process \notin Sleepers(queue)
  PROVE  LET after == <<node>> \o queue
         IN  /\ after \in Seq(S)
             /\ Len(after) = Len(queue) + 1
             /\ after[1] = node
             /\ \A i \in 1..Len(queue) : after[i + 1] = queue[i]
             /\ Sleepers(after) = Sleepers(queue) \cup {node.process}
             /\ NoRepeat(after)
<1> DEFINE after == <<node>> \o queue
           n == Len(queue)
<1>1. /\ n \in Nat
      /\ after \in Seq(S)
      /\ Len(after) = n + 1
      /\ after[1] = node
      /\ \A i \in 1..n : after[i + 1] = queue[i]
  OBVIOUS
<1> HIDE DEF after
<1>2. \A i \in 1..(n + 1) : i = 1 \/ (i - 1 \in 1..n /\ after[i] = queue[i - 1])
  BY <1>1
<1>3. Sleepers(after) = Sleepers(queue) \cup {node.process}
  <2>1. ASSUME NEW x \in Sleepers(after) PROVE x \in Sleepers(queue) \cup {node.process}
    BY <1>1, <1>2 DEF Sleepers
  <2>2. ASSUME NEW x \in Sleepers(queue) PROVE x \in Sleepers(after)
    <3>1. PICK i \in 1..n : x = queue[i].process
      BY DEF Sleepers
    <3>2. i + 1 \in 1..Len(after) /\ x = after[i + 1].process
      BY <1>1, <3>1
    <3> QED BY <3>2 DEF Sleepers
  <2>3. 1 \in 1..Len(after) /\ node.process = after[1].process
    BY <1>1
  <2>4. node.process \in Sleepers(after)
    BY <2>3 DEF Sleepers
  <2> QED BY <2>1, <2>2, <2>4, Zenon
<1>4. NoRepeat(after)
  <2>1. \A i \in 1..n : queue[i].process # node.process
    BY DEF Sleepers
  <2>2. SUFFICES ASSUME NEW i \in 1..(n + 1), NEW j \in 1..(n + 1),
                        after[i].process = after[j].process
                 PROVE  i = j
    BY <1>1 DEF NoRepeat
  <2>3. CASE i = 1 \/ j = 1
    BY <1>1, <1>2, <2>1, <2>2, <2>3
  <2>4. CASE i # 1 /\ j # 1
    <3>1. /\ i - 1 \in 1..n /\ after[i] = queue[i - 1]
          /\ j - 1 \in 1..n /\ after[j] = queue[j - 1]
      BY <1>2, <2>4
    <3>2. i - 1 = j - 1
      BY <2>2, <3>1 DEF NoRepeat
    <3> QED BY <3>2
  <2> QED BY <2>3, <2>4
<1> QED BY <1>1, <1>3, <1>4, Zenon DEF after

\* An exclusive wakeup of a queue whose first node is exclusive takes that node.
LEMMA SignalHead ==
  ASSUME NEW S, NEW queue \in Seq(S), queue # <<>>, queue[1].is_exclusive,
         NoRepeat(queue)
  PROVE  LET leaves == SignalLeaves(queue, TRUE)
         IN  /\ SignalWakes(queue, TRUE) = {queue[1].process}
             /\ leaves \in Seq(S)
             /\ Len(leaves) = Len(queue) - 1
             /\ \A i \in 1..Len(leaves) : leaves[i] = queue[i + 1]
             /\ Sleepers(leaves) = Sleepers(queue) \ {queue[1].process}
             /\ NoRepeat(leaves)
<1> DEFINE leaves == SignalLeaves(queue, TRUE)
           n == Len(queue)
           E == {i \in 1..n : queue[i].is_exclusive}
<1>1. n \in Nat /\ n >= 1
  OBVIOUS
<1>2. 1 \in E /\ \A j \in E : 1 <= j
  BY <1>1
<1>3. (CHOOSE i \in E : \A j \in E : i <= j) = 1
  <2>1. \A i \in E : (\A j \in E : i <= j) => i = 1
    BY <1>1, <1>2
  <2> QED BY <1>2, <2>1
<1>4. SignalCount(queue, TRUE) = 1
  <2>1. E # {}
    BY <1>2
  <2> QED BY <1>3, <2>1, Zenon DEF SignalCount
<1>5. SignalWakes(queue, TRUE) = {queue[1].process}
  <2>1. SignalWakes(queue, TRUE) = {queue[i].process : i \in 1..1}
    BY <1>4, Zenon DEF SignalWakes
  <2>2. 1..1 = {1}
    OBVIOUS
  <2> QED BY <2>1, <2>2, Zenon
<1>6. leaves = SubSeq(queue, 2, n)
  <2>1. leaves = SubSeq(queue, 1 + 1, n)
    BY <1>4, Zenon DEF SignalLeaves
  <2>2. 1 + 1 = 2
    OBVIOUS
  <2> QED BY <2>1, <2>2, Zenon
<1>7. /\ leaves \in Seq(S)
      /\ Len(leaves) = n - 1
      /\ \A i \in 1..(n - 1) : leaves[i] = queue[i + 1]
  <2> DEFINE rest == SubSeq(queue, 2, Len(queue))
  <2>1. /\ rest = Tail(queue)
        /\ rest \in Seq(S)
        /\ Len(Tail(queue)) = Len(queue) - 1
        /\ \A i \in 1..(Len(queue) - 1) : rest[i] = queue[i + 1]
    OBVIOUS
  <2> HIDE DEF rest, leaves
  <2>2. leaves = rest
    BY <1>6 DEF rest
  <2> QED BY <2>1, <2>2
<1> HIDE DEF leaves
<1>8. NoRepeat(leaves)
  BY <1>1, <1>7 DEF NoRepeat
<1>9. Sleepers(leaves) = Sleepers(queue) \ {queue[1].process}
  <2>1. ASSUME NEW x \in Sleepers(leaves)
        PROVE  x \in Sleepers(queue) \ {queue[1].process}
    <3>1. PICK i \in 1..(n - 1) : x = leaves[i].process
      BY <1>7 DEF Sleepers
    <3>2. i + 1 \in 1..n /\ x = queue[i + 1].process /\ i + 1 # 1 /\ 1 \in 1..n
      BY <1>1, <1>7, <3>1
    <3>3. queue[i + 1].process # queue[1].process
      BY <3>2 DEF NoRepeat
    <3> QED BY <3>2, <3>3 DEF Sleepers
  <2>2. ASSUME NEW x \in Sleepers(queue) \ {queue[1].process}
        PROVE  x \in Sleepers(leaves)
    <3>1. PICK i \in 1..n : x = queue[i].process
      BY DEF Sleepers
    <3>2. i - 1 \in 1..(n - 1) /\ leaves[i - 1] = queue[i]
      BY <1>1, <1>7, <2>2, <3>1
    <3> QED BY <1>7, <3>1, <3>2 DEF Sleepers
  <2> QED BY <2>1, <2>2, Zenon
<1> QED BY <1>5, <1>7, <1>8, <1>9 DEF leaves
==============================================================================
