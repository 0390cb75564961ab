------------------------------ MODULE WaitQueue ------------------------------
(***************************************************************************)
(* The waitqueues of sync/waitqueue.c: the queue a process joins before it *)
(* sleeps and the signal that takes processes off it.  A queue is the      *)
(* sequence of its nodes, the node the next signal looks at first.         *)
(*                                                                         *)
(* The kernel runs with interrupts off, so each operation below is one     *)
(* atomic step of the process that calls it.  The loop of                  *)
(* signalWaitQueueWithOptions reads node.next of a node that it has just   *)
(* handed to free(): free() overwrites only the first words of the block   *)
(* (is_exclusive and the handler), and nothing is allocated in between, so *)
(* the loop visits the queue in order.                                     *)
(***************************************************************************)
EXTENDS Integers, Sequences

\* A version without the assignment that follows waitQueueNodeInit.
WaitQueueNodeUnmarked(p, exclusive) == [process |-> p, is_exclusive |-> FALSE]

\* waitQueueNodeInit and the assignment of is_exclusive that follows it.
WaitQueueNode(p, exclusive) == [process |-> p, is_exclusive |-> exclusive]

\* A version that does not let a non-exclusive node go first.
addNodeLast(node, queue) == Append(queue, node)

\* An exclusive node goes to the back, any other to the front.
addNodeToWaitQueue(node, queue) ==
  IF node.is_exclusive THEN Append(queue, node) ELSE <<node>> \o queue

\* How many nodes one signal dequeues: it stops after the first exclusive
\* node of an exclusive wakeup, and otherwise takes the whole queue.
SignalCount(queue, wakeup_is_exclusive) ==
  LET Exclusive == {i \in 1..Len(queue) : queue[i].is_exclusive}
  IN  IF wakeup_is_exclusive /\ Exclusive # {}
      THEN CHOOSE i \in Exclusive : \A j \in Exclusive : i <= j
      ELSE Len(queue)

\* The processes a signal makes runnable, and the queue it leaves.
SignalWakes(queue, wakeup_is_exclusive) ==
  {queue[i].process : i \in 1..SignalCount(queue, wakeup_is_exclusive)}

SignalLeaves(queue, wakeup_is_exclusive) ==
  SubSeq(queue, SignalCount(queue, wakeup_is_exclusive) + 1, Len(queue))

Sleepers(queue) == {queue[i].process : i \in 1..Len(queue)}
==============================================================================
