-------------------------------- MODULE List ---------------------------------
(***************************************************************************)
(* The circular doubly linked lists of core/list.h.  The links of a set of *)
(* nodes are a record of two functions, next and prev, from nodes to       *)
(* nodes; an operation maps links to links.  Each reads and writes them in *)
(* the order of its assignments, so it also does what the code does to     *)
(* nodes that are on no list, on two, or on one that has been taken apart. *)
(***************************************************************************)
EXTENDS Integers, Sequences

\* linkedListNodeInit on every node of S.
linkedListNodeInit(links, S) ==
  [links EXCEPT !.next = [n \in DOMAIN @ |-> IF n \in S THEN n ELSE @[n]],
                !.prev = [n \in DOMAIN @ |-> IF n \in S THEN n ELSE @[n]]]

listIsEmpty(links, head) == links.next[head] = head

insertNode(links, node, head) ==
  LET second == links.next[head]
  IN [next |-> [links.next EXCEPT ![node] = second, ![head] = node],
      prev |-> [links.prev EXCEPT ![second] = node, ![node] = head]]

addLastNode(links, node, head) == insertNode(links, node, links.prev[head])

\* A version that forgets the back link of the node that follows.
removeNodeForward(links, node) ==
  [links EXCEPT !.next[links.prev[node]] = links.next[node]]

\* A node that is removed keeps its own links.
removeNode(links, node) ==
  LET next == [links.next EXCEPT ![links.prev[node]] = links.next[node]]
  IN [next |-> next,
      prev |-> [links.prev EXCEPT ![next[node]] = links.prev[node]]]

\* Splice list second into list first, one assignment after the other.
spliceLinkedLists(links, second, first) ==
  LET next1 == [links.next EXCEPT ![links.prev[second]] = first]
      prev1 == [links.prev EXCEPT ![next1[second]] = links.prev[first]]
      next2 == [next1 EXCEPT ![prev1[first]] = prev1[second]]
      prev2 == [prev1 EXCEPT ![first] = next2[second]]
  IN IF listIsEmpty(links, second) THEN links
     ELSE [next |-> next2, prev |-> prev2]

------------------------------------------------------------------------------
\* The node n links after head, in the direction of link.
Follow(link, head) ==
  LET nth[n \in Nat] == IF n = 0 THEN head ELSE link[nth[n - 1]] IN nth

\* Does a walk from head come back to head after at most most nodes?
Ends(link, head, most) ==
  LET nth == Follow(link, head) IN \E n \in 1..most+1 : nth[n] = head

\* forEachNode (link = next) and forEachNodeReversed (link = prev): the nodes
\* they visit, for a walk that ends.
forEachNode(link, head, most) ==
  LET nth == Follow(link, head)
  IN [i \in 1..(CHOOSE n \in 0..most :
                  nth[n + 1] = head /\ \A m \in 1..n : nth[m] # head) |-> nth[i]]
==============================================================================
