----------------------------- MODULE ProcessProofs -----------------------------
(***************************************************************************)
(* Proofs about Process for any number of descriptors and any delays, of   *)
(* programs that stay out of the situations of AllSituations: the lists    *)
(* are those the fields describe, nothing is read after it was freed,      *)
(* schedule finds somebody, and statuses are kept for who collects them.   *)
(***************************************************************************)
EXTENDS Process, ListProofs

ReleaseRule == INSTANCE RoundsProofs WITH Round <- releaseRound

------------------------------------------------------------------------------
\* Nodes.

\* A node tells its descriptor and its member.
LEMMA NodeFacts ==
  /\ process_head \in Node /\ process_head[1] = NoProc
  /\ process_head[2] = "process_list"
  /\ \A p \in Proc :
       /\ {children(p), siblings(p), thread_group(p), thread_peers(p),
           process_list(p)} \subseteq Node
       /\ children(p)[1] = p /\ children(p)[2] = "children"
       /\ siblings(p)[1] = p /\ siblings(p)[2] = "siblings"
       /\ thread_group(p)[1] = p /\ thread_group(p)[2] = "thread_group"
       /\ thread_peers(p)[1] = p /\ thread_peers(p)[2] = "thread_peers"
       /\ process_list(p)[1] = p /\ process_list(p)[2] = "process_list"
  /\ \A n \in Node : n[1] \in Proc \cup {NoProc} /\ n[2] \in Member
  /\ \A n \in Node, p \in Proc : n \in {p} \X Member <=> n[1] = p
  /\ NoProc \notin Proc
BY ProcessAssumption DEF process_head, Node, Member, children, siblings,
   thread_group, thread_peers, process_list

\* The lists a descriptor may be on have different nodes.
LEMMA KindsDiffer ==
  /\ "children" # "siblings" /\ "children" # "thread_group"
  /\ "children" # "thread_peers" /\ "children" # "process_list"
  /\ "siblings" # "thread_group" /\ "siblings" # "thread_peers"
  /\ "siblings" # "process_list" /\ "thread_group" # "thread_peers"
  /\ "thread_group" # "process_list" /\ "thread_peers" # "process_list"
OBVIOUS

------------------------------------------------------------------------------
\* The lists of a process tree.

ProcessNodes(A) == {process_list(p) : p \in A}
ChildNodes(A, par, p) == {siblings(c) : c \in {q \in A : par[q] = p}}
ThreadNodes(A, lead, p) == {thread_peers(t) : t \in {q \in A : lead[q] = p}}

\* The links l join the descriptors A as par and lead say; the threads of those
\* in whole are still on their leader's list, and who has no parent is on none.
Rings(l, A, par, lead, whole) ==
  /\ l \in LinksOf(Node)
  /\ Ring(l, process_head, ProcessNodes(A))
  /\ \A p \in A : Ring(l, children(p), ChildNodes(A, par, p))
  /\ \A p \in A : p \in whole => Ring(l, thread_group(p), ThreadNodes(A, lead, p))
  /\ \A p \in A : par[p] = NoProc => Ring(l, siblings(p), {})

\* Every member of a list is a node of its kind, of a descriptor of A.
LEMMA ProcessMembers ==
  ASSUME NEW A \in SUBSET Proc
  PROVE  /\ ProcessNodes(A) \in SUBSET Node
         /\ \A n \in ProcessNodes(A) :
              n[1] \in A /\ n[2] = "process_list" /\ n = process_list(n[1])
BY NodeFacts DEF ProcessNodes

LEMMA ChildMembers ==
  ASSUME NEW A \in SUBSET Proc, NEW par, NEW p
  PROVE  /\ ChildNodes(A, par, p) \in SUBSET Node
         /\ \A n \in ChildNodes(A, par, p) :
              n[1] \in A /\ n[2] = "siblings" /\ par[n[1]] = p /\ n = siblings(n[1])
BY NodeFacts DEF ChildNodes

LEMMA ThreadMembers ==
  ASSUME NEW A \in SUBSET Proc, NEW lead, NEW p
  PROVE  /\ ThreadNodes(A, lead, p) \in SUBSET Node
         /\ \A n \in ThreadNodes(A, lead, p) :
              n[1] \in A /\ n[2] = "thread_peers" /\ lead[n[1]] = p /\ n = thread_peers(n[1])
BY NodeFacts DEF ThreadNodes

\* Lists without a descriptor.
LEMMA ProcessWithout ==
  ASSUME NEW A \in SUBSET Proc, NEW q \in A
  PROVE  ProcessNodes(A \ {q}) = ProcessNodes(A) \ {process_list(q)}
<1>1. \A p \in Proc : process_list(p) = process_list(q) => p = q
  BY DEF process_list
<1> QED
  BY <1>1 DEF ProcessNodes

LEMMA ChildWithout ==
  ASSUME NEW A \in SUBSET Proc, NEW par, NEW q \in A, NEW p
  PROVE  /\ ChildNodes(A \ {q}, par, p) = ChildNodes(A, par, p) \ {siblings(q)}
         /\ par[q] # p => ChildNodes(A \ {q}, par, p) = ChildNodes(A, par, p)
<1>1. \A c \in Proc : siblings(c) = siblings(q) => c = q
  BY DEF siblings
<1> QED
  BY <1>1 DEF ChildNodes

LEMMA ThreadWithout ==
  ASSUME NEW A \in SUBSET Proc, NEW lead, NEW q \in A, NEW p, lead[q] # p
  PROVE  ThreadNodes(A \ {q}, lead, p) = ThreadNodes(A, lead, p)
BY DEF ThreadNodes

\* removeNode of the siblings of q takes it off its parent's list.
LEMMA OffParent ==
  ASSUME NEW l, NEW A \in SUBSET Proc, NEW par, NEW lead, NEW whole,
         Rings(l, A, par, lead, whole), NEW q \in A,
         par[q] = NoProc \/ par[q] \in A
  PROVE  LET m == removeNode(l, siblings(q))
         IN /\ m \in LinksOf(Node)
            /\ \A n \in Node :
                 \/ n[2] \notin {"children", "siblings"}
                 \/ n[2] = "siblings" /\ par[n[1]] = NoProc
                 => m.next[n] = l.next[n] /\ m.prev[n] = l.prev[n]
            /\ \A p \in A : Ring(m, children(p), ChildNodes(A \ {q}, par, p))
<1> DEFINE m == removeNode(l, siblings(q))
           P == par[q]
           kids == ChildNodes(A, par, P)
<1>1. /\ l \in LinksOf(Node) /\ siblings(q) \in Node
      /\ \A p \in A : Ring(l, children(p), ChildNodes(A, par, p))
      /\ P = NoProc => Ring(l, siblings(q), {})
  BY NodeFacts DEF Rings
<1>2. CASE P = NoProc
  <2>1. /\ m \in LinksOf(Node)
        /\ \A n \in Node : m.next[n] = l.next[n] /\ m.prev[n] = l.prev[n]
    BY <1>1, <1>2, RemoveAlone
  <2>2. ASSUME NEW p \in A
        PROVE  Ring(m, children(p), ChildNodes(A \ {q}, par, p))
    <3>1. ChildNodes(A \ {q}, par, p) = ChildNodes(A, par, p)
      <4>1. par[q] # p
        BY <1>2, NodeFacts
      <4> QED
        BY <4>1 DEF ChildNodes
    <3> DEFINE h == children(p)
               S == ChildNodes(A, par, p)
    <3>2. h \in Node /\ S \in SUBSET Node /\ Ring(l, h, S)
      BY <1>1, NodeFacts, ChildMembers
    <3> HIDE DEF h, S, m
    <3>3. \A n \in S \cup {h} : m.next[n] = l.next[n] /\ m.prev[n] = l.prev[n]
      BY <2>1, <3>2
    <3>4. Ring(m, h, S)
      BY <3>2, <3>3, RingSame
    <3> QED
      BY <3>1, <3>4 DEF h, S
  <2> QED
    BY <2>1, <2>2
<1>3. CASE P \in A
  <2> DEFINE H == children(P)
  <2>1. /\ Ring(l, H, kids) /\ H \in Node /\ kids \in SUBSET Node
        /\ siblings(q) \in kids
    <3>1. siblings(q) \in kids
      BY DEF ChildNodes
    <3> QED
      BY <1>1, <1>3, <3>1, NodeFacts, ChildMembers
  <2>2. /\ Ring(m, H, kids \ {siblings(q)})
        /\ m \in LinksOf(Node)
        /\ \A n \in Node : n \notin kids \cup {H} =>
             m.next[n] = l.next[n] /\ m.prev[n] = l.prev[n]
    <3> HIDE DEF kids, H
    <3> QED
      BY <1>1, <2>1, RingRemove
  <2>3. \A n \in kids \cup {H} :
          \/ n[2] = "children" /\ n[1] = P
          \/ n[2] = "siblings" /\ par[n[1]] = P
    BY <1>3, NodeFacts, ChildMembers
  <2>4. P # NoProc
    BY <1>3, NodeFacts
  <2>5. ASSUME NEW p \in A
        PROVE  Ring(m, children(p), ChildNodes(A \ {q}, par, p))
    <3>1. CASE p = P
      BY <2>2, <3>1, ChildWithout
    <3>2. CASE p # P
      <4> DEFINE h == children(p)
                 S == ChildNodes(A, par, p)
      <4>1. S = ChildNodes(A \ {q}, par, p)
        BY <3>2 DEF ChildNodes
      <4>2. h \in Node /\ S \in SUBSET Node /\ Ring(l, h, S)
        BY <1>1, NodeFacts, ChildMembers
      <4>3. \A n \in S \cup {h} :
              \/ n[2] = "children" /\ n[1] = p
              \/ n[2] = "siblings" /\ par[n[1]] = p
        BY NodeFacts, ChildMembers
      <4> HIDE DEF h, S, m, H, kids
      <4>4. \A n \in S \cup {h} : n \in Node /\ n \notin kids \cup {H}
        BY <2>3, <3>2, <4>2, <4>3
      <4>5. \A n \in S \cup {h} : m.next[n] = l.next[n] /\ m.prev[n] = l.prev[n]
        BY <2>2, <4>4
      <4>6. Ring(m, h, S)
        BY <4>2, <4>5, RingSame
      <4> QED
        BY <4>1, <4>6 DEF h
    <3> QED
      BY <3>1, <3>2
  <2> HIDE DEF H, kids, m
  <2>6. ASSUME NEW n \in Node,
               \/ n[2] \notin {"children", "siblings"}
               \/ n[2] = "siblings" /\ par[n[1]] = NoProc
        PROVE  m.next[n] = l.next[n] /\ m.prev[n] = l.prev[n]
    <3>1. n \notin kids \cup {H}
      BY <2>3, <2>4, <2>6
    <3> QED
      BY <2>2, <3>1
  <2> QED
    BY <2>2, <2>5, <2>6 DEF m
<1> QED
  BY <1>2, <1>3

\* What releaseProcess does to the links.
Off(l, q) ==
  linkedListNodeInit(removeNode(removeNode(l, siblings(q)), process_list(q)), {q} \X Member)

\* A descriptor without children that is taken off its lists leaves the others
\* whole, but for the threads of its leader.
LEMMA ReleaseLinks ==
  ASSUME NEW l, NEW A \in SUBSET Proc, NEW par, NEW lead, NEW whole,
         Rings(l, A, par, lead, whole), NEW q \in A,
         par[q] = NoProc \/ par[q] \in A,
         \A c \in A : par[c] # q, lead[q] \notin whole
  PROVE  Rings(Off(l, q), A \ {q}, par, lead, whole)
<1> DEFINE l1 == removeNode(l, siblings(q))
           l2 == removeNode(l1, process_list(q))
           m == Off(l, q)
           procs == ProcessNodes(A)
<1>1. /\ l \in LinksOf(Node) /\ q \in Proc /\ process_list(q) \in procs
      /\ process_head \in Node /\ procs \in SUBSET Node
      /\ Ring(l, process_head, procs)
  BY NodeFacts, ProcessMembers DEF Rings, ProcessNodes
<1>2. /\ l1 \in LinksOf(Node)
      /\ \A n \in Node :
           \/ n[2] \notin {"children", "siblings"}
           \/ n[2] = "siblings" /\ par[n[1]] = NoProc
           => l1.next[n] = l.next[n] /\ l1.prev[n] = l.prev[n]
      /\ \A p \in A : Ring(l1, children(p), ChildNodes(A \ {q}, par, p))
  BY OffParent
<1> HIDE DEF l1
<1>3. Ring(l1, process_head, procs)
  <2>1. \A n \in procs \cup {process_head} : n \in Node /\ n[2] = "process_list"
    BY <1>1, NodeFacts, ProcessMembers
  <2> HIDE DEF procs
  <2>2. \A n \in procs \cup {process_head} :
          l1.next[n] = l.next[n] /\ l1.prev[n] = l.prev[n]
    BY <1>2, <2>1, KindsDiffer
  <2> QED
    BY <1>1, <2>2, RingSame
<1>4. /\ l2 \in LinksOf(Node)
      /\ Ring(l2, process_head, ProcessNodes(A \ {q}))
      /\ \A n \in Node : n[2] # "process_list" =>
           l2.next[n] = l1.next[n] /\ l2.prev[n] = l1.prev[n]
  <2>1. \A n \in procs \cup {process_head} : n[2] = "process_list"
    BY NodeFacts, ProcessMembers
  <2>2. procs \ {process_list(q)} = ProcessNodes(A \ {q})
    BY ProcessWithout
  <2> DEFINE n == process_list(q)
             h == process_head
  <2>3. /\ l1 \in LinksOf(Node) /\ h \in Node /\ procs \in SUBSET Node
        /\ Ring(l1, h, procs) /\ n \in procs
    BY <1>1, <1>2, <1>3
  <2> HIDE DEF procs, n, h
  <2>4. /\ Ring(removeNode(l1, n), h, procs \ {n})
        /\ removeNode(l1, n) \in LinksOf(Node)
        /\ \A x \in Node : x \notin procs \cup {h} =>
             /\ removeNode(l1, n).next[x] = l1.next[x]
             /\ removeNode(l1, n).prev[x] = l1.prev[x]
    BY ONLY <2>3, RingRemove
  <2> QED
    BY <2>1, <2>2, <2>4 DEF n, h
<1>5. m = linkedListNodeInit(l2, {q} \X Member)
  BY DEF Off, l1
<1> HIDE DEF l2, m
<1>6. /\ m \in LinksOf(Node)
      /\ \A n \in Node : n[1] # q => m.next[n] = l2.next[n] /\ m.prev[n] = l2.prev[n]
  <2>1. \A n \in Node : n[1] # q => n \notin {q} \X Member
    BY NodeFacts
  <2> QED
    BY <1>4, <1>5, <2>1, NodesReset
<1> DEFINE B == A \ {q}
<1>7. B \in SUBSET Proc /\ \A p \in B : p \in A /\ p # q /\ p \in Proc
  OBVIOUS
<1> HIDE DEF B
<1>8. Ring(m, process_head, ProcessNodes(B))
  <2>1. \A n \in ProcessNodes(B) \cup {process_head} : n \in Node /\ n[1] # q
    BY <1>1, <1>7, NodeFacts, ProcessMembers
  <2> QED
    BY <1>4, <1>6, <2>1, RingSame DEF B
<1>9. ASSUME NEW p \in B PROVE Ring(m, children(p), ChildNodes(B, par, p))
  <2> DEFINE S == ChildNodes(B, par, p)
             h == children(p)
  <2>1. \A n \in S \cup {h} : n \in Node /\ n[1] # q /\ n[2] # "process_list"
    BY <1>7, NodeFacts, ChildMembers, KindsDiffer
  <2>2. Ring(l1, h, S)
    BY <1>2, <1>7 DEF B
  <2> HIDE DEF S, h
  <2>3. \A n \in S \cup {h} : m.next[n] = l1.next[n] /\ m.prev[n] = l1.prev[n]
    BY <1>4, <1>6, <2>1
  <2> QED
    BY <2>2, <2>3, RingSame DEF S, h
<1>10. ASSUME NEW p \in B, p \in whole
       PROVE  Ring(m, thread_group(p), ThreadNodes(B, lead, p))
  <2> DEFINE S == ThreadNodes(B, lead, p)
             h == thread_group(p)
  <2>1. \A n \in S \cup {h} : /\ n \in Node /\ n[1] # q /\ n[2] # "process_list"
                              /\ n[2] \notin {"children", "siblings"}
    BY <1>7, NodeFacts, ThreadMembers, KindsDiffer
  <2>2. lead[q] # p
    BY <1>10
  <2>3. Ring(l, h, S)
    BY <1>7, <1>10, <2>2, ThreadWithout DEF B, Rings
  <2> HIDE DEF S, h
  <2>4. \A n \in S \cup {h} : m.next[n] = l.next[n] /\ m.prev[n] = l.prev[n]
    BY <1>2, <1>4, <1>6, <2>1
  <2> QED
    BY <2>3, <2>4, RingSame DEF S, h
<1>11. ASSUME NEW p \in B, par[p] = NoProc PROVE Ring(m, siblings(p), {})
  <2> DEFINE h == siblings(p)
  <2>1. h \in Node /\ h[1] = p /\ h[2] = "siblings" /\ p # q /\ p \in A
    BY <1>7, NodeFacts
  <2>2. Ring(l, h, {})
    BY <1>7, <1>11 DEF Rings
  <2> HIDE DEF h
  <2>3. m.next[h] = l.next[h] /\ m.prev[h] = l.prev[h]
    BY <1>2, <1>4, <1>6, <1>11, <2>1, KindsDiffer
  <2>4. \A n \in {} \cup {h} : m.next[n] = l.next[n] /\ m.prev[n] = l.prev[n]
    BY <2>3
  <2> QED
    BY <2>2, <2>4, RingSame DEF h
<1> QED
  BY <1>6, <1>8, <1>9, <1>10, <1>11 DEF Rings, B, m

------------------------------------------------------------------------------
\* Releasing.

\* Where releaseProcess works.
Parts == [links : LinksOf(Node), live : SUBSET Proc, ok : BOOLEAN]

\* What is kept while descriptors are released: all was in order so far, and
\* the lists join those that are left.
Kept(t, A, par, lead, whole) ==
  /\ t \in Parts /\ t.ok /\ t.live = A
  /\ Rings(t.links, A, par, lead, whole)

\* Releasing one.
LEMMA ReleaseOne ==
  ASSUME NEW t, NEW A \in SUBSET Proc, NEW par, NEW lead, NEW whole,
         Kept(t, A, par, lead, whole), NEW q \in A,
         par[q] = NoProc \/ par[q] \in A,
         \A c \in A : par[c] # q, lead[q] \notin whole
  PROVE  Kept(releaseProcess(t, q), A \ {q}, par, lead, whole)
<1> DEFINE s == releaseProcess(t, q)
           l == t.links
<1>1. t \in Parts /\ t.ok /\ t.live = A /\ Rings(l, A, par, lead, whole)
  BY DEF Kept
<1>2. s = [links |-> Off(l, q), live |-> A \ {q},
           ok |-> t.ok /\ q \in A /\ listIsEmpty(l, children(q))]
  BY <1>1 DEF releaseProcess, Off
<1> HIDE DEF s, l
<1>3. Rings(Off(l, q), A \ {q}, par, lead, whole)
  BY <1>1, ReleaseLinks
<1>4. listIsEmpty(l, children(q))
  <2>1. ChildNodes(A, par, q) = {}
    BY DEF ChildNodes
  <2>2. Ring(l, children(q), {})
    BY <1>1, <2>1 DEF Rings
  <2> QED
    BY <2>2, RingEmpty
<1>5. Off(l, q) \in LinksOf(Node)
  BY <1>3 DEF Rings
<1>6. s.links = Off(l, q) /\ s.live = A \ {q} /\ s.ok
  BY <1>1, <1>2, <1>4
<1>7. s \in Parts
  <2>1. (t.ok /\ q \in A /\ listIsEmpty(l, children(q))) \in BOOLEAN
    OBVIOUS
  <2> QED
    BY <1>2, <1>5, <2>1 DEF Parts
<1> QED
  BY <1>3, <1>6, <1>7 DEF Kept, s

\* Releasing those of a walk that are to be, once each.
LEMMA ReleaseSome ==
  ASSUME NEW t, NEW A \in SUBSET Proc, NEW par, NEW lead, NEW whole,
         Kept(t, A, par, lead, whole),
         NEW walk, NEW n \in Nat, Len(walk) = n, NEW which \in SUBSET (1..n),
         \A i \in which : /\ walk[i] \in A
                          /\ par[walk[i]] = NoProc \/ par[walk[i]] \in A
                          /\ \A c \in A : par[c] # walk[i]
                          /\ lead[walk[i]] \notin whole,
         \A i, j \in which : walk[i] = walk[j] => i = j
  PROVE  Kept(releaseEach(t, walk, which), A \ {walk[i] : i \in which}, par, lead, whole)
<1> DEFINE gone(i) == {walk[j] : j \in {k \in which : k < i}}
           start == [t |-> t, walk |-> walk, which |-> which]
           States == [t : Parts, walk : {walk}, which : {which}]
           Good == [i \in 1..n+1 |->
                      {x \in States : Kept(x.t, A \ gone(i), par, lead, whole)}]
<1>1. start \in Good[1]
  <2>1. gone(1) = {}
    OBVIOUS
  <2>2. A \ gone(1) = A
    BY <2>1
  <2>3. start \in States /\ start.t = t
    BY DEF Kept
  <2>4. 1 \in 1..n+1
    OBVIOUS
  <2> HIDE DEF start, gone
  <2> QED
    BY <2>2, <2>3, <2>4
<1>2. ASSUME NEW i \in 1..n+1-1, NEW x \in Good[i]
      PROVE  releaseRound(x, i) \in Good[i + 1]
  <2>1. i \in 1..n+1 /\ i + 1 \in 1..n+1 /\ i \in Nat
    OBVIOUS
  <2>2. x \in States /\ Kept(x.t, A \ gone(i), par, lead, whole)
    BY <2>1
  <2>3. x.walk = walk /\ x.which = which
    BY <2>2
  <2> DEFINE y == releaseRound(x, i)
  <2>4. y.walk = walk /\ y.which = which
        /\ y.t = IF i \in which THEN releaseProcess(x.t, walk[i]) ELSE x.t
    BY <2>2, <2>3 DEF releaseRound
  <2>5. y = [t |-> y.t, walk |-> walk, which |-> which]
    BY <2>2, <2>3 DEF releaseRound
  <2>6. Kept(y.t, A \ gone(i + 1), par, lead, whole)
    <3>1. CASE i \in which
      <4> DEFINE q == walk[i]
                 B == A \ gone(i)
      <4>1. gone(i + 1) = gone(i) \cup {q}
        <5>1. {k \in which : k < i + 1} = {k \in which : k < i} \cup {i}
          <6>1. \A k \in Nat : k < i + 1 <=> k < i \/ k = i
            BY <2>1
          <6>2. \A k \in which : k \in Nat
            OBVIOUS
          <6> QED
            BY <3>1, <6>1, <6>2
        <5> QED
          BY <5>1
      <4>2. q \notin gone(i)
        <5>1. \A k \in which : k < i => k # i
          OBVIOUS
        <5>2. \A k \in which : k < i => walk[k] # walk[i]
          BY <3>1, <5>1
        <5> QED
          BY <5>2
      <4>3. par[q] \notin gone(i)
        <5>1. \A k \in which : walk[k] # par[q]
          BY <3>1
        <5> QED
          BY <5>1
      <4>4. A \ gone(i + 1) = B \ {q}
        BY <4>1
      <4>5. /\ q \in B /\ B \in SUBSET Proc
            /\ par[q] = NoProc \/ par[q] \in B
            /\ \A c \in B : par[c] # q
            /\ lead[q] \notin whole
        BY <3>1, <4>2, <4>3
      <4>6. Kept(x.t, B, par, lead, whole)
        BY <2>2
      <4>7. y.t = releaseProcess(x.t, q)
        BY <2>4, <3>1
      <4> HIDE DEF q, B, y, gone
      <4>8. Kept(releaseProcess(x.t, q), B \ {q}, par, lead, whole)
        BY <4>5, <4>6, ReleaseOne
      <4> QED
        BY <4>4, <4>7, <4>8
    <3>2. CASE i \notin which
      <4>1. {k \in which : k < i + 1} = {k \in which : k < i}
        <5>1. \A k \in which : k < i + 1 => k < i \/ k = i
          BY <2>1
        <5>2. \A k \in which : k < i => k < i + 1
          BY <2>1
        <5> QED
          BY <3>2, <5>1, <5>2
      <4>2. gone(i + 1) = gone(i)
        BY <4>1
      <4> QED
        BY <2>2, <2>4, <3>2, <4>2
    <3> QED
      BY <3>1, <3>2
  <2>7. y \in States
    <3>1. y.t \in Parts
      BY <2>6 DEF Kept
    <3> HIDE DEF y
    <3> QED
      BY <2>5, <3>1
  <2> HIDE DEF y, gone
  <2> QED
    BY <2>1, <2>6, <2>7 DEF y
<1> HIDE DEF Good, start
<1>3. ReleaseRule!Loop(start, 1, n + 1) \in Good[n + 1]
  <2>1. 1 \in Int /\ n + 1 \in Int /\ 1 <= n + 1
    OBVIOUS
  <2>2. \A i \in 1..n+1-1 : \A x \in Good[i] : releaseRound(x, i) \in Good[i + 1]
    BY <1>2
  <2> QED
    BY <1>1, <2>1, <2>2, ReleaseRule!LoopRule
<1>4. Release!Loop(start, 1, n + 1) = ReleaseRule!Loop(start, 1, n + 1)
  BY DEF Release!Loop, Release!After, ReleaseRule!Loop, ReleaseRule!After
<1>5. releaseEach(t, walk, which) = Release!Loop(start, 1, n + 1).t
  BY DEF releaseEach, start
<1> DEFINE r == Release!Loop(start, 1, n + 1)
<1>6. r \in Good[n + 1]
  BY <1>3, <1>4
<1> HIDE DEF r
<1>7. Kept(r.t, A \ gone(n + 1), par, lead, whole)
  <2>1. n + 1 \in 1..n+1
    OBVIOUS
  <2> QED
    BY <1>6, <2>1 DEF Good
<1>8. gone(n + 1) = {walk[i] : i \in which}
  <2>1. {k \in which : k < n + 1} = which
    <3>1. \A k \in which : k < n + 1
      OBVIOUS
    <3> QED
      BY <3>1
  <2> QED
    BY <2>1
<1> QED
  BY <1>5, <1>7, <1>8 DEF r

------------------------------------------------------------------------------
\* Walks over the lists of descriptors.

Nodes(B, kind) == {<<c, kind>> : c \in B}

\* The three kinds of lists, as nodes of one kind.
LEMMA NodesOf ==
  /\ \A A : ProcessNodes(A) = Nodes(A, "process_list")
  /\ \A A, par, p : ChildNodes(A, par, p) = Nodes({q \in A : par[q] = p}, "siblings")
  /\ \A A, lead, p : ThreadNodes(A, lead, p) = Nodes({q \in A : lead[q] = p}, "thread_peers")
BY DEF ProcessNodes, ChildNodes, ThreadNodes, Nodes, process_list, siblings, thread_peers

\* No more nodes of a kind than descriptors.
LEMMA NodesFew ==
  ASSUME NEW B \in SUBSET Proc, NEW kind
  PROVE  /\ IsFiniteSet(B) /\ IsFiniteSet(Nodes(B, kind))
         /\ Cardinality(Nodes(B, kind)) = Cardinality(B)
         /\ Cardinality(Nodes(B, kind)) <= Cardinality(Proc)
         /\ Cardinality(Proc) \in Nat
<1>1. IsFiniteSet(Proc)
  BY ProcessAssumption
<1>2. IsFiniteSet(B) /\ Cardinality(B) <= Cardinality(Proc) /\ Cardinality(Proc) \in Nat
  BY <1>1, FS_Subset, FS_CardinalityType
<1> DEFINE f == [c \in B |-> <<c, kind>>]
<1>3. f \in Bijection(B, Nodes(B, kind))
  BY DEF Nodes, Bijection, Injection, Surjection, IsInjective
<1> HIDE DEF f
<1>4. IsFiniteSet(Nodes(B, kind)) /\ Cardinality(Nodes(B, kind)) = Cardinality(B)
  BY <1>2, <1>3, FS_Bijection DEF ExistsBijection
<1> QED
  BY <1>2, <1>4

\* What walk, of k elements, is a walk of: the list at head of l, of B.
WalkOf(l, head, B, kind, walk, k) ==
  LET most == Cardinality(Proc)
  IN /\ walk \in [1..k -> B] /\ Len(walk) = k /\ DOMAIN walk = 1..k
     /\ B = {walk[i] : i \in 1..k}
     /\ \A i, j \in 1..k : walk[i] = walk[j] => i = j
     /\ forEachElement(l, head) = walk
     /\ forEachNode(l.next, head, most) = [i \in 1..k |-> <<walk[i], kind>>]
     /\ forEachNode(l.prev, head, most) = [i \in 1..k |-> <<walk[k + 1 - i], kind>>]
     /\ Ends(l.next, head, most) /\ Ends(l.prev, head, most)

\* A list of nodes of one kind is walked.
LEMMA RingWalk ==
  ASSUME NEW l, NEW head, NEW B \in SUBSET Proc, NEW kind,
         Ring(l, head, Nodes(B, kind))
  PROVE  \E k \in Nat : \E walk : WalkOf(l, head, B, kind, walk, k)
<1> DEFINE S == Nodes(B, kind)
           most == Cardinality(Proc)
<1>1. IsFiniteSet(S) /\ Cardinality(S) <= most /\ most \in Nat /\ Ring(l, head, S)
  BY NodesFew
<1>2. \A n \in S : n = <<n[1], kind>> /\ n[1] \in B
  BY DEF Nodes
<1>3. \A c \in B : <<c, kind>> \in S /\ <<c, kind>>[1] = c
  BY DEF Nodes
<1> HIDE DEF S, most
<1>4. PICK k \in 0..most : \E w \in [0..k -> S \cup {head}] :
                            BothWays(l, head, S, most, k, w)
  BY <1>1, RingVisits
<1>5. PICK w \in [0..k -> S \cup {head}] :
           /\ Circle(l, w, k) /\ S = {w[i] : i \in 1..k}
           /\ Ends(l.next, head, most) /\ Ends(l.prev, head, most)
           /\ forEachNode(l.next, head, most) = [i \in 1..k |-> w[i]]
           /\ forEachNode(l.prev, head, most) = [i \in 1..k |-> w[k + 1 - i]]
  BY <1>4 DEF BothWays
<1> DEFINE walk == [i \in 1..k |-> w[i][1]]
<1>6. k \in Nat /\ \A i \in 1..k : i \in 0..k /\ k + 1 - i \in 1..k
  BY <1>1
<1>7. \A i \in 1..k : w[i] \in S /\ w[i] = <<w[i][1], kind>> /\ w[i][1] \in B
  BY <1>2, <1>5
<1>8. /\ walk \in [1..k -> B] /\ DOMAIN walk = 1..k
      /\ \A i \in 1..k : w[i] = <<walk[i], kind>>
  BY <1>7
<1>9. Len(walk) = k
  BY <1>6
<1> HIDE DEF walk
<1>10. forEachNode(l.next, head, most) = [i \in 1..k |-> <<walk[i], kind>>]
  BY <1>5, <1>8
<1>11. forEachNode(l.prev, head, most) = [i \in 1..k |-> <<walk[k + 1 - i], kind>>]
  BY <1>5, <1>6, <1>8
<1>12. forEachElement(l, head) = walk
  <2> DEFINE nodes == forEachNode(l.next, head, most)
  <2>1. Len(nodes) = k /\ \A i \in 1..k : nodes[i] = <<walk[i], kind>>
    BY <1>6, <1>10
  <2> HIDE DEF nodes
  <2>2. forEachElement(l, head) = [i \in 1..Len(nodes) |-> nodes[i][1]]
    BY DEF forEachElement, elementForNode, nodes, most
  <2>3. [i \in 1..k |-> nodes[i][1]] = walk
    BY <1>8, <2>1
  <2> QED
    BY <2>1, <2>2, <2>3
<1>13. \A i, j \in 1..k : walk[i] = walk[j] => i = j
  <2>1. \A i, j \in 0..k : w[i] = w[j] => i = j
    BY <1>5 DEF Circle
  <2> QED
    BY <1>6, <1>8, <2>1
<1>14. B = {walk[i] : i \in 1..k}
  <2>1. \A c \in B : \E i \in 1..k : walk[i] = c
    <3> SUFFICES ASSUME NEW c \in B PROVE \E i \in 1..k : walk[i] = c
      OBVIOUS
    <3>1. PICK i \in 1..k : <<c, kind>> = w[i]
      BY <1>3, <1>5
    <3>2. <<c, kind>> = <<walk[i], kind>>
      BY <1>8, <3>1
    <3> QED
      BY <3>2
  <2> QED
    BY <1>8, <2>1
<1>15. WalkOf(l, head, B, kind, walk, k)
  BY <1>5, <1>8, <1>9, <1>10, <1>11, <1>12, <1>13, <1>14 DEF WalkOf, most
<1> QED
  BY <1>6, <1>15

\* The kernel may read a list of descriptors that are allocated.
LEMMA WalkSound ==
  ASSUME NEW l, NEW head, NEW B, NEW kind, NEW walk, NEW k \in Nat,
         WalkOf(l, head, B, kind, walk, k), NEW alive, B \subseteq alive
  PROVE  Sound(l, alive, head, kind)
<1> DEFINE nodes == forEachNode(l.next, head, Cardinality(Proc))
<1>1. nodes = [i \in 1..k |-> <<walk[i], kind>>] /\ \A i \in 1..k : walk[i] \in alive
  BY DEF WalkOf
<1>2. Ends(l.next, head, Cardinality(Proc))
  BY DEF WalkOf
<1> HIDE DEF nodes
<1>3. \A n \in Range(nodes) : n[2] = kind /\ n[1] \in alive
  BY <1>1 DEF Range
<1> QED
  BY <1>2, <1>3 DEF Sound, elementForNode, nodes

\* schedule finds somebody who can run, and not the caller while another can.
LEMMA NextRuns ==
  ASSUME NEW l, NEW A \in SUBSET Proc, Ring(l, process_head, ProcessNodes(A)),
         InitProc \in A, NEW p \in A, NEW states, NEW ticks,
         Runnable(states, ticks, InitProc)
  PROVE  /\ NextProcess(l, states, ticks, p) \in A
         /\ Runnable(states, ticks, NextProcess(l, states, ticks, p))
         /\ p # InitProc => NextProcess(l, states, ticks, p) # p
<1> DEFINE procs == ProcessNodes(A)
           start == process_list(p)
           T == (procs \cup {process_head}) \ {start}
           most == Cardinality(Proc)
           nth == Follow(l.next, start)
           Can(n) == nth[n] # process_head /\ Runnable(states, ticks, elementForNode(nth[n]))
           steps == {n \in 1..most+1 : Can(n)}
<1>1. /\ start \in procs /\ process_list(InitProc) \in procs
      /\ \A n \in procs : n[1] \in A /\ n = process_list(n[1]) /\ n # process_head
      /\ process_list(InitProc)[1] = InitProc /\ start[1] = p
  BY NodeFacts, ProcessMembers DEF ProcessNodes
<1>2. IsFiniteSet(T) /\ Cardinality(T) <= most /\ most \in Nat
  <2>1. procs = Nodes(A, "process_list")
    BY DEF ProcessNodes, Nodes, process_list
  <2>2. IsFiniteSet(procs) /\ Cardinality(procs) <= most /\ most \in Nat
    BY <2>1, NodesFew
  <2> HIDE DEF most, start, procs
  <2> DEFINE U == procs \cup {process_head}
             h == process_head
  <2>3. h \notin procs
    BY <1>1
  <2> HIDE DEF h
  <2>4. IsFiniteSet(procs \cup {h}) /\ Cardinality(procs \cup {h}) = Cardinality(procs) + 1
    BY <2>2, <2>3, FS_AddElement
  <2>5. U = procs \cup {h} /\ start \in U
    BY <1>1 DEF h
  <2> HIDE DEF U
  <2>6. IsFiniteSet(U) /\ Cardinality(U) = Cardinality(procs) + 1
    BY <2>4, <2>5
  <2>7. IsFiniteSet(U \ {start}) /\ Cardinality(U \ {start}) = Cardinality(U) - 1
    BY <2>5, <2>6, FS_RemoveElement
  <2>8. Cardinality(procs) \in Nat
    BY <2>2, FS_CardinalityType
  <2> QED
    BY <2>2, <2>6, <2>7, <2>8 DEF U
<1>3. Ring(l, start, T)
  <2> HIDE DEF start
  <2> QED
    BY <1>1, RingRotate
<1> HIDE DEF T, most
<1>4. PICK k \in 0..most : \E w \in [0..k -> T \cup {start}] :
                            BothWays(l, start, T, most, k, w)
  BY <1>2, <1>3, RingVisits
<1>5. PICK w \in [0..k -> T \cup {start}] :
           /\ w[0] = start /\ Circle(l, w, k) /\ T = {w[i] : i \in 1..k}
           /\ \A i \in 0..k : nth[i] = w[i]
           /\ nth[k + 1] = start
  BY <1>4 DEF BothWays
<1>6. k \in Nat /\ k <= most /\ k + 1 \in 1..most+1
      /\ \A i \in 1..k : i \in 0..k /\ i \in 1..most+1 /\ i <= k
  BY <1>2
<1> HIDE DEF start, nth
<1>7. \A i \in 1..k : nth[i] \in T
  BY <1>5, <1>6
<1>8. \E i \in steps : i <= k + 1 /\ (p # InitProc => i <= k)
  <2>1. CASE p = InitProc
    <3>1. nth[k + 1] # process_head /\ elementForNode(nth[k + 1]) = InitProc
      BY <1>1, <1>5, <2>1 DEF elementForNode
    <3> QED
      BY <1>6, <2>1, <3>1
  <2>2. CASE p # InitProc
    <3>1. process_list(InitProc) \in T
      BY <1>1, <2>2 DEF T
    <3>2. PICK i \in 1..k : process_list(InitProc) = w[i]
      BY <1>5, <3>1
    <3>3. nth[i] = process_list(InitProc) /\ nth[i] # process_head
      BY <1>1, <1>5, <1>6, <3>2
    <3>4. elementForNode(nth[i]) = InitProc
      BY <1>1, <3>3 DEF elementForNode
    <3>5. i \in steps /\ i <= k /\ i <= k + 1
      BY <1>6, <3>3, <3>4
    <3> QED
      BY <3>5
  <2> QED
    BY <2>1, <2>2
<1>9. steps \in SUBSET Nat /\ steps # {}
  BY <1>2, <1>8
<1> DEFINE x == Least(steps)
<1>10. x \in steps /\ \A m \in steps : x <= m
  <2>1. \E n \in steps : \A m \in steps : n <= m
    <3> HIDE DEF steps
    <3> QED
      BY <1>9, Walk!Least
  <2> HIDE DEF steps
  <2> QED
    BY <2>1 DEF Least
<1>11. NextProcess(l, states, ticks, p) = elementForNode(nth[x])
  BY <1>9 DEF NextProcess, FirstAfter, nth, start, most
<1> HIDE DEF x
<1>12. x \in Nat /\ x # 0 /\ x <= k + 1 /\ (p # InitProc => x <= k) /\ Can(x)
  <2>1. x \in 1..most+1 /\ Can(x)
    BY <1>10
  <2>2. PICK i \in steps : i <= k + 1 /\ (p # InitProc => i <= k)
    BY <1>8
  <2>3. x <= i /\ i \in Nat /\ x \in Nat /\ x # 0
    BY <1>2, <1>10, <2>1, <2>2
  <2> HIDE DEF steps
  <2>4. x <= k + 1 /\ (p # InitProc => x <= k)
    BY <1>6, <2>2, <2>3
  <2> QED
    BY <2>1, <2>3, <2>4
<1>13. nth[x] \in procs /\ (p # InitProc => nth[x] # start)
  <2>1. CASE x <= k
    <3>1. x \in 1..k
      BY <1>6, <1>12, <2>1
    <3>2. nth[x] \in T
      BY <1>7, <3>1
    <3> QED
      BY <1>12, <3>2 DEF T
  <2>2. CASE ~(x <= k)
    <3>1. x = k + 1
      BY <1>6, <1>12, <2>2
    <3> QED
      BY <1>1, <1>5, <1>12, <2>2, <3>1
  <2> QED
    BY <2>1, <2>2
<1>14. nth[x][1] \in A /\ (p # InitProc => nth[x][1] # p)
  BY <1>1, <1>13 DEF start
<1> QED
  BY <1>11, <1>12, <1>14 DEF elementForNode

------------------------------------------------------------------------------
\* The inductive invariant.

\* Whose threads are all on its list.
Whole(states, j) == {p \in Proc : p \notin j /\ states[p] # "zombie"}

\* The initial process can always run.
InitAwake(A, par, lead, states, ticks) ==
  /\ InitProc \in A /\ par[InitProc] = NoProc /\ lead[InitProc] = NoProc
  /\ Runnable(states, ticks, InitProc)

\* Everybody else is the child or the thread of a process that has not exited.
Family(A, par, lead, states) ==
  /\ \A p \in A : p # InitProc /\ lead[p] = NoProc =>
       par[p] \in A /\ states[par[p]] # "zombie" /\ lead[par[p]] = NoProc
  /\ \A p \in A : lead[p] # NoProc =>
       /\ par[p] = NoProc
       /\ lead[p] \in A /\ states[lead[p]] # "zombie" /\ lead[lead[p]] = NoProc
  /\ \A p \in A : states[p] = "zombie" /\ lead[p] = NoProc => par[p] # InitProc

\* Every node on a waitqueue is the only one of a descriptor that exists and waits.
OnQueue(A, states, nodes) ==
  \A p \in Proc : nodes[p] # 0 => nodes[p] = 1 /\ p \in A /\ states[p] = "waiting"

IInv ==
  /\ TypeOK /\ kernel = "up" /\ CurrentRuns
  /\ InitAwake(live, parent, thread_leader, state, left)
  /\ Family(live, parent, thread_leader, state)
  /\ OnQueue(live, state, queued)
  /\ \A p \in Proc : at[p] = "join" => p \notin joined
  /\ Rings(links, live, parent, thread_leader, Whole(state, joined))

\* Rings asks less of fewer leaders.
LEMMA RingsWeaker ==
  ASSUME NEW l, NEW A, NEW par, NEW lead, NEW whole, NEW less,
         Rings(l, A, par, lead, whole), \A p \in A : p \in less => p \in whole
  PROVE  Rings(l, A, par, lead, less)
BY DEF Rings

\* schedule chooses a descriptor that exists, is awake and is not delayed.
LEMMA ScheduleRuns ==
  ASSUME IInv, NEW states, NEW ticks, NEW p \in live,
         Runnable(states, ticks, InitProc), schedule(links, states, ticks, p)
  PROVE  /\ kernel' = "up" /\ current' \in live
         /\ states[current'] = "running" /\ ticks[current'] = 0
<1> DEFINE new == NextProcess(links, states, ticks, p)
<1>1. /\ live \in SUBSET Proc /\ InitProc \in live
      /\ Ring(links, process_head, ProcessNodes(live))
  BY DEF IInv, TypeOK, InitAwake, Rings
<1>2. new \in live /\ Runnable(states, ticks, new)
  BY <1>1, NextRuns
<1>3. new # NoProc
  BY <1>1, <1>2, NodeFacts
<1>4. current' = new /\ kernel' = "up"
  BY <1>3 DEF schedule
<1> HIDE DEF new
<1> QED
  BY <1>2, <1>4 DEF Runnable

\* A step that only puts to sleep, wakes, delays or lets time pass.
LEMMA QuietKeeps ==
  ASSUME IInv, UNCHANGED <<tree, joined>>,
         \A q \in Proc : state'[q] = "zombie" <=> state[q] = "zombie",
         Runnable(state', left', InitProc)
  PROVE  /\ InitAwake(live', parent', thread_leader', state', left')
         /\ Family(live', parent', thread_leader', state')
         /\ Rings(links', live', parent', thread_leader', Whole(state', joined'))
<1>1. /\ live' = live /\ links' = links /\ parent' = parent
      /\ thread_leader' = thread_leader /\ joined' = joined
  BY DEF tree
<1>2. live \subseteq Proc
  BY DEF IInv, TypeOK
<1>3. InitAwake(live', parent', thread_leader', state', left')
  BY <1>1 DEF IInv, InitAwake
<1>4. Family(live', parent', thread_leader', state')
  <2>1. Family(live, parent, thread_leader, state)
    BY DEF IInv
  <2> QED
    BY <1>1, <1>2, <2>1 DEF Family
<1>5. Rings(links', live', parent', thread_leader', Whole(state', joined'))
  <2>1. Whole(state', joined') = Whole(state, joined)
    BY <1>1 DEF Whole
  <2> QED
    BY <1>1, <2>1 DEF IInv
<1> QED
  BY <1>3, <1>4, <1>5

\* The clock interrupt.
LEMMA ClockKeeps ==
  ASSUME IInv, trapClock
  PROVE  IInv'
<1>1. /\ UNCHANGED <<tree, joined>> /\ state' = state /\ at' = at /\ want' = want
      /\ queued' = queued
      /\ left' = [p \in Proc |-> IF left[p] = 0 THEN 0 ELSE left[p] - 1]
      /\ schedule(links, state, left', current)
  BY DEF trapClock, calls
<1>2. TypeOK /\ current \in live /\ Runnable(state, left, InitProc)
  BY DEF IInv, CurrentRuns, InitAwake
<1>3. left' \in [Proc -> Nat]
  BY <1>1, <1>2 DEF TypeOK
<1>4. Runnable(state, left', InitProc) /\ Runnable(state', left', InitProc)
  BY <1>1, <1>2, ProcessAssumption DEF Runnable
<1> DEFINE ticks == left'
<1>5. Runnable(state, ticks, InitProc) /\ schedule(links, state, ticks, current)
  BY <1>1, <1>4
<1> HIDE DEF ticks
<1>6. /\ kernel' = "up" /\ current' \in live
      /\ state[current'] = "running" /\ ticks[current'] = 0
  BY <1>2, <1>5, ScheduleRuns
<1>7. TypeOK' /\ CurrentRuns'
  BY <1>1, <1>2, <1>3, <1>6 DEF TypeOK, CurrentRuns, tree, ticks
<1>8. /\ InitAwake(live', parent', thread_leader', state', left')
      /\ Family(live', parent', thread_leader', state')
      /\ Rings(links', live', parent', thread_leader', Whole(state', joined'))
  BY <1>1, <1>4, QuietKeeps
<1>9. (\A p \in Proc : at[p] = "join" => p \notin joined)'
  BY <1>1 DEF IInv
<1>10. OnQueue(live', state', queued')
  BY <1>1 DEF IInv, tree
<1> QED
  BY <1>6, <1>7, <1>8, <1>9, <1>10 DEF IInv

\* Delay.
LEMMA DelayKeeps ==
  ASSUME IInv, Situations = {}, NEW p \in Proc, NEW ticks \in Delays, delayProcess(p, ticks)
  PROVE  IInv'
<1>1. /\ UNCHANGED <<tree, joined>> /\ state' = state /\ at' = at /\ want' = want
      /\ queued' = queued
      /\ left' = [left EXCEPT ![p] = ticks] /\ p # InitProc /\ current = p
      /\ schedule(links, state, left', p)
  BY DEF delayProcess, calls, MayBlock, Runs
<1>2. TypeOK /\ p \in live /\ Runnable(state, left, InitProc)
  BY <1>1 DEF IInv, CurrentRuns, InitAwake
<1>3. left' \in [Proc -> Nat]
  BY <1>1, <1>2, ProcessAssumption DEF TypeOK
<1>4. Runnable(state, left', InitProc) /\ Runnable(state', left', InitProc)
  BY <1>1, <1>2, ProcessAssumption DEF Runnable, TypeOK
<1> DEFINE lefts == left'
<1>5. Runnable(state, lefts, InitProc) /\ schedule(links, state, lefts, p)
  BY <1>1, <1>4
<1> HIDE DEF lefts
<1>6. /\ kernel' = "up" /\ current' \in live
      /\ state[current'] = "running" /\ lefts[current'] = 0
  BY <1>2, <1>5, ScheduleRuns
<1>7. TypeOK' /\ CurrentRuns'
  BY <1>1, <1>2, <1>3, <1>6 DEF TypeOK, CurrentRuns, tree, lefts
<1>8. /\ InitAwake(live', parent', thread_leader', state', left')
      /\ Family(live', parent', thread_leader', state')
      /\ Rings(links', live', parent', thread_leader', Whole(state', joined'))
  BY <1>1, <1>4, QuietKeeps
<1>9. (\A q \in Proc : at[q] = "join" => q \notin joined)'
  BY <1>1 DEF IInv
<1>10. OnQueue(live', state', queued')
  BY <1>1 DEF IInv, tree
<1> QED
  BY <1>6, <1>7, <1>8, <1>9, <1>10 DEF IInv

\* Sleeping on a wait queue.
LEMMA SleepKeeps ==
  ASSUME IInv, Situations = {}, NEW p \in Proc, putProcessToSleep(p)
  PROVE  IInv'
<1>1. /\ UNCHANGED <<tree, joined>> /\ left' = left /\ at' = at /\ want' = want
      /\ queued' = [queued EXCEPT ![p] = @ + 1]
      /\ state' = [state EXCEPT ![p] = "waiting"] /\ p # InitProc /\ current = p
      /\ schedule(links, state', left, p)
  BY DEF putProcessToSleep, calls, MayBlock, Runs
<1>2. TypeOK /\ p \in live /\ state[p] = "running" /\ Runnable(state, left, InitProc)
  BY <1>1 DEF IInv, CurrentRuns, InitAwake
<1>3. /\ state' \in [Proc -> {"running", "waiting", "zombie"}]
      /\ \A q \in Proc : state'[q] = "zombie" <=> state[q] = "zombie"
  BY <1>1, <1>2 DEF TypeOK
<1>4. Runnable(state', left, InitProc) /\ Runnable(state', left', InitProc)
  BY <1>1, <1>2, ProcessAssumption DEF Runnable, TypeOK
<1> DEFINE states == state'
<1>5. Runnable(states, left, InitProc) /\ schedule(links, states, left, p)
  BY <1>1, <1>4
<1> HIDE DEF states
<1>6. /\ kernel' = "up" /\ current' \in live
      /\ states[current'] = "running" /\ left[current'] = 0
  BY <1>2, <1>5, ScheduleRuns
<1>7. TypeOK' /\ CurrentRuns'
  BY <1>1, <1>2, <1>3, <1>6 DEF TypeOK, CurrentRuns, tree, states
<1>8. /\ InitAwake(live', parent', thread_leader', state', left')
      /\ Family(live', parent', thread_leader', state')
      /\ Rings(links', live', parent', thread_leader', Whole(state', joined'))
  BY <1>1, <1>3, <1>4, QuietKeeps
<1>9. (\A q \in Proc : at[q] = "join" => q \notin joined)'
  BY <1>1 DEF IInv
<1>10. OnQueue(live', state', queued')
  <2>1. queued[p] = 0 /\ OnQueue(live, state, queued)
    BY <1>2 DEF IInv, OnQueue
  <2>2. \A q \in Proc : /\ queued'[q] = IF q = p THEN 1 ELSE queued[q]
                        /\ state'[q] = IF q = p THEN "waiting" ELSE state[q]
    BY <1>1, <1>2, <2>1 DEF TypeOK
  <2> QED
    BY <1>1, <1>2, <2>1, <2>2 DEF OnQueue, tree
<1> QED
  BY <1>6, <1>7, <1>8, <1>9, <1>10 DEF IInv

\* Waking up.
LEMMA WakeKeeps ==
  ASSUME IInv, NEW q \in Proc, wakeUpProcess(q)
  PROVE  IInv'
<1>1. /\ UNCHANGED <<tree, joined>> /\ left' = left /\ at' = at /\ want' = want
      /\ queued' = [queued EXCEPT ![q] = @ - 1]
      /\ state' = [state EXCEPT ![q] = "running"] /\ state[q] = "waiting"
      /\ queued[q] = 1 /\ current' = current /\ kernel' = "up"
  <2>1. TypeOK /\ queued[q] # 0
    BY DEF wakeUpProcess, IInv, TypeOK
  <2>2. queued[q] = 1 /\ q \in live /\ state[q] = "waiting"
    BY <2>1 DEF IInv, OnQueue
  <2> QED
    BY <2>2 DEF wakeUpProcess, Verdict
<1>2. TypeOK /\ CurrentRuns /\ Runnable(state, left, InitProc)
  BY DEF IInv, InitAwake
<1>3. /\ state' \in [Proc -> {"running", "waiting", "zombie"}]
      /\ \A p \in Proc : state'[p] = "zombie" <=> state[p] = "zombie"
      /\ \A p \in Proc : state[p] = "running" => state'[p] = "running"
  BY <1>1, <1>2 DEF TypeOK
<1>4. Runnable(state', left', InitProc)
  BY <1>1, <1>2, <1>3, ProcessAssumption DEF Runnable
<1>5. TypeOK' /\ CurrentRuns'
  BY <1>1, <1>2, <1>3 DEF TypeOK, CurrentRuns, tree
<1>6. /\ InitAwake(live', parent', thread_leader', state', left')
      /\ Family(live', parent', thread_leader', state')
      /\ Rings(links', live', parent', thread_leader', Whole(state', joined'))
  BY <1>1, <1>3, <1>4, QuietKeeps
<1>7. (\A p \in Proc : at[p] = "join" => p \notin joined)'
  BY <1>1 DEF IInv
<1>8. OnQueue(live', state', queued')
  <2>1. \A p \in Proc : /\ queued'[p] = IF p = q THEN 0 ELSE queued[p]
                        /\ p # q => state'[p] = state[p]
    BY <1>1, <1>2 DEF TypeOK
  <2> QED
    BY <1>1, <2>1 DEF IInv, OnQueue, tree
<1> QED
  BY <1>1, <1>2, <1>5, <1>6, <1>7, <1>8 DEF IInv

------------------------------------------------------------------------------
\* The state loadInit leaves.

LEMMA InitInv ==
  ASSUME Init
  PROVE  IInv
<1> DEFINE l0 == [next |-> [n \in Node |-> n], prev |-> [n \in Node |-> n]]
           n0 == process_list(InitProc)
           h == process_head
<1>1. /\ n0 \in Node /\ h \in Node /\ n0 # h /\ InitProc \in Proc
      /\ n0[2] = "process_list" /\ h[2] = "process_list" /\ InitProc # NoProc
  BY NodeFacts, ProcessAssumption
<1>2. l0 \in LinksOf(Node) /\ \A n \in Node : l0.next[n] = n /\ l0.prev[n] = n
  BY DEF LinksOf
<1>3. links = addLastNode(l0, n0, h) /\ live = {InitProc}
  BY DEF Init
<1> HIDE DEF l0, n0, h
<1>4. Ring(l0, h, {})
  BY <1>1, <1>2, RingEmpty
<1>5. /\ Ring(links, h, {} \cup {n0}) /\ links \in LinksOf(Node)
      /\ \A q \in Node : q \notin {} \cup {h, n0} =>
           links.next[q] = l0.next[q] /\ links.prev[q] = l0.prev[q]
  BY <1>1, <1>2, <1>3, <1>4, RingAddLast
<1>6. ASSUME NEW n \in Node, n[2] # "process_list" PROVE Ring(links, n, {})
  <2>1. links.next[n] = n /\ links.prev[n] = n
    BY <1>1, <1>2, <1>5, <1>6
  <2> QED
    BY <2>1, RingEmpty
<1>7. /\ parent = [p \in Proc |-> NoProc] /\ thread_leader = [p \in Proc |-> NoProc]
      /\ state = [p \in Proc |-> "running"] /\ left = [p \in Proc |-> 0]
      /\ at = [p \in Proc |-> "user"] /\ current = InitProc /\ kernel = "up" /\ joined = {}
      /\ want = [p \in Proc |-> NoProc] /\ queued = [p \in Proc |-> 0]
  BY DEF Init
<1>8. Rings(links, live, parent, thread_leader, Whole(state, joined))
  <2>1. Ring(links, process_head, ProcessNodes(live))
    <3>1. ProcessNodes(live) = {} \cup {n0}
      BY <1>3 DEF ProcessNodes, n0
    <3> QED
      BY <1>5, <3>1 DEF h
  <2>2. ASSUME NEW p \in live
        PROVE  /\ Ring(links, children(p), ChildNodes(live, parent, p))
               /\ Ring(links, thread_group(p), ThreadNodes(live, thread_leader, p))
               /\ Ring(links, siblings(p), {})
    <3>1. p = InitProc
      BY <1>3
    <3>2. ChildNodes(live, parent, p) = {} /\ ThreadNodes(live, thread_leader, p) = {}
      BY <1>1, <1>3, <1>7, <3>1 DEF ChildNodes, ThreadNodes
    <3>3. /\ children(p) \in Node /\ children(p)[2] # "process_list"
          /\ thread_group(p) \in Node /\ thread_group(p)[2] # "process_list"
          /\ siblings(p) \in Node /\ siblings(p)[2] # "process_list"
      BY <1>1, <3>1, NodeFacts, KindsDiffer
    <3> QED
      BY <1>6, <3>2, <3>3
  <2> QED
    BY <1>5, <2>1, <2>2 DEF Rings
<1>9. TypeOK
  BY <1>1, <1>3, <1>5, <1>7 DEF TypeOK, LinksOf
<1>10. CurrentRuns /\ InitAwake(live, parent, thread_leader, state, left)
  BY <1>1, <1>3, <1>7 DEF CurrentRuns, InitAwake, Runnable
<1>11. Family(live, parent, thread_leader, state)
  BY <1>1, <1>3, <1>7 DEF Family
<1>12. OnQueue(live, state, queued)
  BY <1>7 DEF OnQueue
<1> QED
  BY <1>7, <1>8, <1>9, <1>10, <1>11, <1>12 DEF IInv

------------------------------------------------------------------------------
\* Fork and thread creation.

\* The nodes of a new descriptor are on no list.
LEMMA FreshNodes ==
  ASSUME NEW l, NEW A \in SUBSET Proc, NEW par, NEW lead, NEW whole,
         Rings(l, A, par, lead, whole), NEW c \in Proc, c \notin A
  PROVE  LET m == linkedListNodeInit(l, {c} \X Member)
         IN /\ Rings(m, A, par, lead, whole)
            /\ m \in LinksOf(Node)
            /\ \A n \in Node : n[1] = c => Ring(m, n, {})
<1> DEFINE m == linkedListNodeInit(l, {c} \X Member)
<1>1. l \in LinksOf(Node)
  BY DEF Rings
<1>2. /\ m \in LinksOf(Node)
      /\ \A n \in Node : n[1] # c => m.next[n] = l.next[n] /\ m.prev[n] = l.prev[n]
      /\ \A n \in Node : n[1] = c => m.next[n] = n /\ m.prev[n] = n
  <2>1. \A n \in Node : n \in {c} \X Member <=> n[1] = c
    BY NodeFacts
  <2> QED
    BY <1>1, <2>1, NodesReset
<1> HIDE DEF m
<1>3. ASSUME NEW head, NEW S, Ring(l, head, S),
             \A n \in S \cup {head} : n \in Node /\ n[1] # c
      PROVE  Ring(m, head, S)
  <2>1. \A n \in S \cup {head} : m.next[n] = l.next[n] /\ m.prev[n] = l.prev[n]
    BY <1>2, <1>3
  <2> QED
    BY <1>3, <2>1, RingSame
<1>4. Ring(m, process_head, ProcessNodes(A))
  <2>1. \A n \in ProcessNodes(A) \cup {process_head} : n \in Node /\ n[1] # c
    BY NodeFacts, ProcessMembers
  <2>2. Ring(l, process_head, ProcessNodes(A))
    BY DEF Rings
  <2> QED
    BY <1>3, <2>1, <2>2
<1>5. ASSUME NEW p \in A PROVE Ring(m, children(p), ChildNodes(A, par, p))
  <2>1. \A n \in ChildNodes(A, par, p) \cup {children(p)} : n \in Node /\ n[1] # c
    BY NodeFacts, ChildMembers
  <2>2. Ring(l, children(p), ChildNodes(A, par, p))
    BY DEF Rings
  <2> QED
    BY <1>3, <2>1, <2>2
<1>6. ASSUME NEW p \in A, p \in whole
      PROVE  Ring(m, thread_group(p), ThreadNodes(A, lead, p))
  <2>1. \A n \in ThreadNodes(A, lead, p) \cup {thread_group(p)} : n \in Node /\ n[1] # c
    BY NodeFacts, ThreadMembers
  <2>2. Ring(l, thread_group(p), ThreadNodes(A, lead, p))
    BY <1>6 DEF Rings
  <2> QED
    BY <1>3, <2>1, <2>2
<1>7. ASSUME NEW p \in A, par[p] = NoProc PROVE Ring(m, siblings(p), {})
  <2>1. \A n \in {} \cup {siblings(p)} : n \in Node /\ n[1] # c
    BY NodeFacts
  <2>2. Ring(l, siblings(p), {})
    BY <1>7 DEF Rings
  <2> QED
    BY <1>3, <2>1, <2>2
<1>8. Rings(m, A, par, lead, whole)
  BY <1>2, <1>4, <1>5, <1>6, <1>7 DEF Rings
<1>9. \A n \in Node : n[1] = c => Ring(m, n, {})
  BY <1>2, RingEmpty
<1> QED
  BY <1>2, <1>8, <1>9 DEF m

\* Only the list of all processes changes.
ElsewhereSame(l, m) ==
  \A n \in Node : n[2] # "process_list" => m.next[n] = l.next[n] /\ m.prev[n] = l.prev[n]

\* A new descriptor in the list of all processes.
LEMMA IntoProcesses ==
  ASSUME NEW l \in LinksOf(Node), NEW A \in SUBSET Proc,
         Ring(l, process_head, ProcessNodes(A)), NEW c \in Proc, c \notin A,
         NEW a \in ProcessNodes(A) \cup {process_head},
         NEW m, m = insertNode(l, process_list(c), a)
  PROVE  /\ m \in LinksOf(Node)
         /\ Ring(m, process_head, ProcessNodes(A \cup {c}))
         /\ ElsewhereSame(l, m)
<1> DEFINE n0 == process_list(c)
           h == process_head
           S == ProcessNodes(A)
<1>1. /\ l \in LinksOf(Node) /\ n0 \in Node /\ h \in Node /\ S \in SUBSET Node
      /\ n0 \notin S \cup {h} /\ a \in S \cup {h} /\ Ring(l, h, S)
      /\ \A n \in S \cup {h, n0} : n[2] = "process_list"
  BY NodeFacts, ProcessMembers
<1>2. S \cup {n0} = ProcessNodes(A \cup {c}) /\ m = insertNode(l, n0, a)
  BY DEF ProcessNodes
<1> HIDE DEF n0, h, S
<1>3. /\ Ring(m, h, S \cup {n0})
      /\ m \in LinksOf(Node)
      /\ \A q \in Node : q \notin S \cup {h, n0} =>
           m.next[q] = l.next[q] /\ m.prev[q] = l.prev[q]
  <2>1. /\ Ring(insertNode(l, n0, a), h, S \cup {n0})
        /\ insertNode(l, n0, a) \in LinksOf(Node)
        /\ \A q \in Node : q \notin S \cup {h, n0} =>
             /\ insertNode(l, n0, a).next[q] = l.next[q]
             /\ insertNode(l, n0, a).prev[q] = l.prev[q]
    BY ONLY <1>1, RingInsert
  <2> QED
    BY <1>2, <2>1
<1>4. \A n \in Node : n[2] # "process_list" =>
        m.next[n] = l.next[n] /\ m.prev[n] = l.prev[n]
  BY <1>1, <1>3
<1> QED
  BY <1>2, <1>3, <1>4 DEF n0, h, ElsewhereSame

\* The child goes on the list of its parent and on that of all processes.
LEMMA ForkLinks ==
  ASSUME NEW l, NEW A \in SUBSET Proc, NEW par, NEW lead, NEW whole,
         Rings(l, A, par, lead, whole), NEW c \in Proc, c \notin A, NEW p \in A,
         \A q \in A : par[q] # c /\ lead[q] # c,
         NEW par2, NEW lead2, NEW less,
         \A q \in A : par2[q] = par[q] /\ lead2[q] = lead[q],
         par2[c] = p, lead2[c] = NoProc,
         \A q \in A : q \in less => q \in whole,
         NEW m, m = addLastNode(addLastNode(linkedListNodeInit(l, {c} \X Member),
                                            siblings(c), children(p)),
                                process_list(c), process_head)
  PROVE  Rings(m, A \cup {c}, par2, lead2, less)
<1> DEFINE l0 == linkedListNodeInit(l, {c} \X Member)
           n1 == siblings(c)
           h1 == children(p)
           S1 == ChildNodes(A, par, p)
           l1 == addLastNode(l0, n1, h1)
           B == A \cup {c}
<1>1. /\ Rings(l0, A, par, lead, whole) /\ l0 \in LinksOf(Node)
      /\ \A n \in Node : n[1] = c => Ring(l0, n, {})
  BY FreshNodes
<1> HIDE DEF l0
<1>2. /\ n1 \in Node /\ h1 \in Node /\ S1 \in SUBSET Node
      /\ n1 \notin S1 \cup {h1} /\ Ring(l0, h1, S1)
      /\ \A n \in S1 : n[1] \in A /\ n[2] = "siblings" /\ par[n[1]] = p
      /\ n1[1] = c /\ n1[2] = "siblings" /\ h1[1] = p /\ h1[2] = "children"
      /\ p \in Proc /\ c # p /\ NoProc \notin Proc
  BY <1>1, NodeFacts, ChildMembers, KindsDiffer DEF Rings
<1> HIDE DEF n1, h1, S1
<1>3. /\ Ring(l1, h1, S1 \cup {n1})
      /\ l1 \in LinksOf(Node)
      /\ \A q \in Node : q \notin S1 \cup {h1, n1} =>
           l1.next[q] = l0.next[q] /\ l1.prev[q] = l0.prev[q]
  BY <1>1, <1>2, RingAddLast
<1> HIDE DEF l1
<1>4. Ring(l1, process_head, ProcessNodes(A))
  <2> DEFINE h == process_head
             S == ProcessNodes(A)
  <2>1. \A n \in S \cup {h} : n \in Node /\ n[2] = "process_list"
    BY NodeFacts, ProcessMembers
  <2>2. Ring(l0, h, S)
    BY <1>1 DEF Rings
  <2> HIDE DEF h, S
  <2>3. \A n \in S \cup {h} : n \notin S1 \cup {h1, n1}
    BY <1>2, <2>1, KindsDiffer
  <2>4. \A n \in S \cup {h} : l1.next[n] = l0.next[n] /\ l1.prev[n] = l0.prev[n]
    BY <1>3, <2>1, <2>3
  <2> QED
    BY <2>2, <2>4, RingSame DEF h, S
<1>5. /\ m \in LinksOf(Node)
      /\ Ring(m, process_head, ProcessNodes(B))
      /\ \A n \in Node : n[2] # "process_list" =>
           m.next[n] = l1.next[n] /\ m.prev[n] = l1.prev[n]
  <2> DEFINE a == l1.prev[process_head]
  <2>1. a \in ProcessNodes(A) \cup {process_head}
    BY <1>4, RingNeighbours
  <2>2. m = insertNode(l1, process_list(c), a)
    BY DEF l1, l0, n1, h1, addLastNode
  <2>3. A \in SUBSET Proc /\ c \in Proc /\ c \notin A
    OBVIOUS
  <2> HIDE DEF a
  <2> QED
    <3>1. l1 \in LinksOf(Node)
      BY <1>3
    <3>2. m \in LinksOf(Node)
      BY ONLY <1>4, <2>1, <2>2, <2>3, <3>1, IntoProcesses, Zenon
    <3>3. Ring(m, process_head, ProcessNodes(A \cup {c}))
      BY ONLY <1>4, <2>1, <2>2, <2>3, <3>1, IntoProcesses, Zenon
    <3>4. ElsewhereSame(l1, m)
      BY ONLY <1>4, <2>1, <2>2, <2>3, <3>1, IntoProcesses, Zenon
    <3> QED
      BY <3>2, <3>3, <3>4 DEF ElsewhereSame
<1>6. ASSUME NEW head, NEW S, Ring(l0, head, S),
             \A n \in S \cup {head} : /\ n \in Node /\ n[2] # "process_list"
                                      /\ n \notin S1 \cup {h1, n1}
      PROVE  Ring(m, head, S)
  <2>1. \A n \in S \cup {head} : m.next[n] = l0.next[n] /\ m.prev[n] = l0.prev[n]
    BY <1>3, <1>5, <1>6
  <2> QED
    BY ONLY <1>6, <2>1, RingSame
<1>7. ASSUME NEW q \in B PROVE Ring(m, children(q), ChildNodes(B, par2, q))
  <2>1. CASE q = p
    <3>1. ChildNodes(B, par2, p) = S1 \cup {n1}
      BY DEF ChildNodes, S1, n1
    <3>2. \A n \in S1 \cup {n1} \cup {h1} : n \in Node /\ n[2] # "process_list"
      BY <1>2, KindsDiffer
    <3>3. \A n \in (S1 \cup {n1}) \cup {h1} : m.next[n] = l1.next[n] /\ m.prev[n] = l1.prev[n]
      BY <1>5, <3>2
    <3>4. Ring(m, h1, S1 \cup {n1})
      BY ONLY <1>3, <3>3, RingSame
    <3> QED
      BY <2>1, <3>1, <3>4 DEF h1
  <2>2. CASE q = c
    <3>1. ChildNodes(B, par2, c) = {}
      BY <1>2 DEF ChildNodes
    <3>2. /\ children(c) \in Node /\ children(c)[1] = c /\ children(c)[2] = "children"
      BY NodeFacts
    <3>3. Ring(l0, children(c), {})
      BY <1>1, <3>2
    <3>4. \A n \in {} \cup {children(c)} : /\ n \in Node /\ n[2] # "process_list"
                                           /\ n \notin S1 \cup {h1, n1}
      BY <1>2, <3>2, KindsDiffer
    <3> QED
      BY <1>6, <2>2, <3>1, <3>3, <3>4
  <2>3. CASE q # p /\ q # c
    <3> DEFINE h == children(q)
               S == ChildNodes(A, par, q)
    <3>1. q \in A
      BY <2>3
    <3>2. ChildNodes(B, par2, q) = S
      BY <2>3 DEF ChildNodes
    <3>3. Ring(l0, h, S)
      BY <1>1, <3>1 DEF Rings
    <3>4. /\ h \in Node /\ h[1] = q /\ h[2] = "children"
          /\ \A n \in S : n \in Node /\ n[1] \in A /\ n[2] = "siblings" /\ par[n[1]] = q
      BY <3>1, NodeFacts, ChildMembers
    <3> HIDE DEF h, S
    <3>5. \A n \in S \cup {h} : /\ n \in Node /\ n[2] # "process_list"
                                /\ n \notin S1 \cup {h1, n1}
      BY <1>2, <2>3, <3>4, KindsDiffer
    <3> QED
      BY <1>6, <3>2, <3>3, <3>5 DEF h
  <2> QED
    BY <2>1, <2>2, <2>3
<1>8. ASSUME NEW q \in B, q \in less
      PROVE  Ring(m, thread_group(q), ThreadNodes(B, lead2, q))
  <2> DEFINE h == thread_group(q)
             S == ThreadNodes(B, lead2, q)
  <2>1. h \in Node /\ h[1] = q /\ h[2] = "thread_group"
    BY NodeFacts
  <2>2. \A n \in S : n \in Node /\ n[2] = "thread_peers"
    BY ThreadMembers
  <2>3. Ring(l0, h, S)
    <3>1. CASE q = c
      <4>1. S = {}
        BY <1>2, <3>1 DEF ThreadNodes
      <4> QED
        BY <1>1, <2>1, <3>1, <4>1
    <3>2. CASE q # c
      <4>1. S = ThreadNodes(A, lead, q)
        BY <1>2, <3>2 DEF ThreadNodes
      <4> QED
        BY <1>1, <1>8, <3>2, <4>1 DEF Rings
    <3> QED
      BY <3>1, <3>2
  <2> HIDE DEF h, S
  <2>4. \A n \in S \cup {h} : /\ n \in Node /\ n[2] # "process_list"
                              /\ n \notin S1 \cup {h1, n1}
    BY <1>2, <2>1, <2>2, KindsDiffer
  <2> QED
    BY <1>6, <2>3, <2>4 DEF h, S
<1>9. ASSUME NEW q \in B, par2[q] = NoProc PROVE Ring(m, siblings(q), {})
  <2>1. q \in A /\ q # c /\ par[q] = NoProc
    BY <1>2, <1>9
  <2>2. Ring(l0, siblings(q), {})
    BY <1>1, <2>1 DEF Rings
  <2>3. siblings(q) \in Node /\ siblings(q)[1] = q /\ siblings(q)[2] = "siblings"
    BY NodeFacts
  <2>4. \A n \in {} \cup {siblings(q)} : /\ n \in Node /\ n[2] # "process_list"
                                         /\ n \notin S1 \cup {h1, n1}
    BY <1>2, <2>1, <2>3, KindsDiffer
  <2> QED
    BY <1>6, <2>2, <2>4
<1> QED
  BY <1>5, <1>7, <1>8, <1>9 DEF Rings

\* The thread goes on the list of its leader, and right after it on that of all.
LEMMA ThreadLinks ==
  ASSUME NEW l, NEW A \in SUBSET Proc, NEW par, NEW lead, NEW whole,
         Rings(l, A, par, lead, whole), NEW c \in Proc, c \notin A, NEW p \in A,
         p \in whole,
         \A q \in A : par[q] # c /\ lead[q] # c,
         NEW par2, NEW lead2, NEW less,
         \A q \in A : par2[q] = par[q] /\ lead2[q] = lead[q],
         par2[c] = NoProc, lead2[c] = p,
         \A q \in A : q \in less => q \in whole,
         NEW m, m = insertNode(addLastNode(linkedListNodeInit(l, {c} \X Member),
                                           thread_peers(c), thread_group(p)),
                               process_list(c), process_list(p))
  PROVE  Rings(m, A \cup {c}, par2, lead2, less)
<1> DEFINE l0 == linkedListNodeInit(l, {c} \X Member)
           n1 == thread_peers(c)
           h1 == thread_group(p)
           S1 == ThreadNodes(A, lead, p)
           l1 == addLastNode(l0, n1, h1)
           B == A \cup {c}
<1>1. /\ Rings(l0, A, par, lead, whole) /\ l0 \in LinksOf(Node)
      /\ \A n \in Node : n[1] = c => Ring(l0, n, {})
  BY FreshNodes
<1> HIDE DEF l0
<1>2. /\ n1 \in Node /\ h1 \in Node /\ S1 \in SUBSET Node
      /\ n1 \notin S1 \cup {h1} /\ Ring(l0, h1, S1)
      /\ \A n \in S1 : n[1] \in A /\ n[2] = "thread_peers" /\ lead[n[1]] = p
      /\ n1[1] = c /\ n1[2] = "thread_peers" /\ h1[1] = p /\ h1[2] = "thread_group"
      /\ p \in Proc /\ c # p /\ NoProc \notin Proc
  BY <1>1, NodeFacts, ThreadMembers, KindsDiffer DEF Rings
<1> HIDE DEF n1, h1, S1
<1>3. /\ Ring(l1, h1, S1 \cup {n1})
      /\ l1 \in LinksOf(Node)
      /\ \A q \in Node : q \notin S1 \cup {h1, n1} =>
           l1.next[q] = l0.next[q] /\ l1.prev[q] = l0.prev[q]
  BY ONLY <1>1, <1>2, RingAddLast
<1> HIDE DEF l1
<1>4. Ring(l1, process_head, ProcessNodes(A))
  <2> DEFINE h == process_head
             S == ProcessNodes(A)
  <2>1. \A n \in S \cup {h} : n \in Node /\ n[2] = "process_list"
    BY NodeFacts, ProcessMembers
  <2>2. Ring(l0, h, S)
    BY <1>1 DEF Rings
  <2> HIDE DEF h, S
  <2>3. \A n \in S \cup {h} : n \notin S1 \cup {h1, n1}
    BY <1>2, <2>1, KindsDiffer
  <2>4. \A n \in S \cup {h} : l1.next[n] = l0.next[n] /\ l1.prev[n] = l0.prev[n]
    BY <1>3, <2>1, <2>3
  <2> QED
    BY <2>2, <2>4, RingSame DEF h, S
<1>5. /\ m \in LinksOf(Node)
      /\ Ring(m, process_head, ProcessNodes(B))
      /\ \A n \in Node : n[2] # "process_list" =>
           m.next[n] = l1.next[n] /\ m.prev[n] = l1.prev[n]
  <2> DEFINE a == process_list(p)
  <2>1. a \in ProcessNodes(A) \cup {process_head}
    BY DEF ProcessNodes
  <2>2. m = insertNode(l1, process_list(c), a)
    BY DEF l1, l0, n1, h1
  <2>3. A \in SUBSET Proc /\ c \in Proc /\ c \notin A
    OBVIOUS
  <2> HIDE DEF a
  <2>4. l1 \in LinksOf(Node)
    BY <1>3
  <2>5. m \in LinksOf(Node)
    BY ONLY <1>4, <2>1, <2>2, <2>3, <2>4, IntoProcesses, Zenon
  <2>6. Ring(m, process_head, ProcessNodes(A \cup {c}))
    BY ONLY <1>4, <2>1, <2>2, <2>3, <2>4, IntoProcesses, Zenon
  <2>7. ElsewhereSame(l1, m)
    BY ONLY <1>4, <2>1, <2>2, <2>3, <2>4, IntoProcesses, Zenon
  <2> QED
    BY <2>5, <2>6, <2>7 DEF ElsewhereSame
<1>6. ASSUME NEW head, NEW S, Ring(l0, head, S),
             \A n \in S \cup {head} : /\ n \in Node /\ n[2] # "process_list"
                                      /\ n \notin S1 \cup {h1, n1}
      PROVE  Ring(m, head, S)
  <2>1. \A n \in S \cup {head} : m.next[n] = l0.next[n] /\ m.prev[n] = l0.prev[n]
    BY <1>3, <1>5, <1>6
  <2> QED
    BY ONLY <1>6, <2>1, RingSame
<1>7. ASSUME NEW q \in B, q \in less
      PROVE  Ring(m, thread_group(q), ThreadNodes(B, lead2, q))
  <2>1. CASE q = p
    <3>1. ThreadNodes(B, lead2, p) = S1 \cup {n1}
      BY DEF ThreadNodes, S1, n1
    <3>2. \A n \in S1 \cup {n1} \cup {h1} : n \in Node /\ n[2] # "process_list"
      BY <1>2, KindsDiffer
    <3>3. \A n \in (S1 \cup {n1}) \cup {h1} : m.next[n] = l1.next[n] /\ m.prev[n] = l1.prev[n]
      BY <1>5, <3>2
    <3>4. Ring(m, h1, S1 \cup {n1})
      BY ONLY <1>3, <3>3, RingSame
    <3> QED
      BY <2>1, <3>1, <3>4 DEF h1
  <2>2. CASE q = c
    <3>1. ThreadNodes(B, lead2, c) = {}
      BY <1>2 DEF ThreadNodes
    <3>2. /\ thread_group(c) \in Node /\ thread_group(c)[1] = c
          /\ thread_group(c)[2] = "thread_group"
      BY NodeFacts
    <3>3. Ring(l0, thread_group(c), {})
      BY <1>1, <3>2
    <3>4. \A n \in {} \cup {thread_group(c)} : /\ n \in Node /\ n[2] # "process_list"
                                               /\ n \notin S1 \cup {h1, n1}
      BY <1>2, <3>2, KindsDiffer
    <3> QED
      BY <1>6, <2>2, <3>1, <3>3, <3>4
  <2>3. CASE q # p /\ q # c
    <3> DEFINE h == thread_group(q)
               S == ThreadNodes(A, lead, q)
    <3>1. q \in A
      BY <2>3
    <3>2. ThreadNodes(B, lead2, q) = S
      BY <2>3 DEF ThreadNodes
    <3>3. Ring(l0, h, S)
      BY <1>1, <1>7, <3>1 DEF Rings
    <3>4. /\ h \in Node /\ h[1] = q /\ h[2] = "thread_group"
          /\ \A n \in S : n \in Node /\ n[1] \in A /\ n[2] = "thread_peers" /\ lead[n[1]] = q
      BY <3>1, NodeFacts, ThreadMembers
    <3> HIDE DEF h, S
    <3>5. \A n \in S \cup {h} : /\ n \in Node /\ n[2] # "process_list"
                                /\ n \notin S1 \cup {h1, n1}
      BY <1>2, <2>3, <3>4, KindsDiffer
    <3> QED
      BY <1>6, <3>2, <3>3, <3>5 DEF h
  <2> QED
    BY <2>1, <2>2, <2>3
<1>8. ASSUME NEW q \in B
      PROVE  Ring(m, children(q), ChildNodes(B, par2, q))
  <2> DEFINE h == children(q)
             S == ChildNodes(B, par2, q)
  <2>1. h \in Node /\ h[1] = q /\ h[2] = "children" /\ q \in Proc
    BY NodeFacts
  <2>2. \A n \in S : n \in Node /\ n[2] = "siblings"
    BY ChildMembers
  <2>3. Ring(l0, h, S)
    <3>1. CASE q = c
      <4>1. S = {}
        BY <1>2, <3>1 DEF ChildNodes
      <4> QED
        BY <1>1, <2>1, <3>1, <4>1
    <3>2. CASE q # c
      <4>1. S = ChildNodes(A, par, q)
        BY <1>2, <2>1, <3>2 DEF ChildNodes
      <4> QED
        BY <1>1, <3>2, <4>1 DEF Rings
    <3> QED
      BY <3>1, <3>2
  <2> HIDE DEF h, S
  <2>4. \A n \in S \cup {h} : /\ n \in Node /\ n[2] # "process_list"
                              /\ n \notin S1 \cup {h1, n1}
    BY <1>2, <2>1, <2>2, KindsDiffer
  <2> QED
    BY <1>6, <2>3, <2>4 DEF h, S
<1>9. ASSUME NEW q \in B, par2[q] = NoProc PROVE Ring(m, siblings(q), {})
  <2>1. siblings(q) \in Node /\ siblings(q)[1] = q /\ siblings(q)[2] = "siblings"
    BY NodeFacts
  <2>2. Ring(l0, siblings(q), {})
    <3>1. CASE q = c
      BY <1>1, <2>1, <3>1
    <3>2. CASE q # c
      <4>1. q \in A /\ par[q] = NoProc
        BY <1>9, <3>2
      <4> QED
        BY <1>1, <4>1 DEF Rings
    <3> QED
      BY <3>1, <3>2
  <2>3. \A n \in {} \cup {siblings(q)} : /\ n \in Node /\ n[2] # "process_list"
                                         /\ n \notin S1 \cup {h1, n1}
    BY <1>2, <2>1, KindsDiffer
  <2> QED
    BY <1>6, <2>2, <2>3
<1> QED
  BY <1>5, <1>7, <1>8, <1>9 DEF Rings

\* A new descriptor c, with parent p1 and leader p2, changes nobody else's fields.
Grown(c, p1, p2) ==
  /\ CurrentRuns' /\ live' = live \cup {c} /\ joined' = joined
  /\ InitAwake(live', parent', thread_leader', state', left')
  /\ Family(live', parent', thread_leader', state')
  /\ OnQueue(live', state', queued')
  /\ (\A q \in Proc : at[q] = "join" => q \notin joined)'
  /\ \A q \in live : /\ parent'[q] = parent[q]
                     /\ thread_leader'[q] = thread_leader[q]
                     /\ parent[q] # c /\ thread_leader[q] # c
                     /\ q \in Whole(state', joined') => q \in Whole(state, joined)
  /\ parent'[c] = p1 /\ thread_leader'[c] = p2
  /\ links' \in LinksOf(Node) /\ kernel' = "up" => TypeOK'

\* What a new child or thread leaves true of the tree, whatever its lists.
LEMMA NewFamily ==
  ASSUME IInv, NEW p \in live, NEW c \in Proc, c \notin live, NEW p1, NEW p2,
         NewDescriptor(c, p1, p2), thread_leader[p] = NoProc, state[p] # "zombie",
         (p1 = p /\ p2 = NoProc) \/ (p1 = NoProc /\ p2 = p)
  PROVE  Grown(c, p1, p2)
<1>1. /\ live' = live \cup {c} /\ parent' = [parent EXCEPT ![c] = p1]
      /\ thread_leader' = [thread_leader EXCEPT ![c] = p2]
      /\ state' = [state EXCEPT ![c] = "running"]
      /\ left' = left /\ at' = at /\ want' = want /\ current' = current /\ joined' = joined
      /\ queued' = queued
  BY DEF NewDescriptor, calls
<1>2. /\ TypeOK /\ live \subseteq Proc /\ CurrentRuns
      /\ InitAwake(live, parent, thread_leader, state, left)
      /\ Family(live, parent, thread_leader, state) /\ NoProc \notin Proc
      /\ p \in Proc /\ p # NoProc /\ c # NoProc /\ c # p /\ p1 \in Proc \cup {NoProc}
      /\ p2 \in Proc \cup {NoProc}
  BY ProcessAssumption DEF IInv, TypeOK
<1>3. /\ \A q \in live : /\ parent'[q] = parent[q] /\ thread_leader'[q] = thread_leader[q]
                         /\ state'[q] = state[q]
      /\ parent'[c] = p1 /\ thread_leader'[c] = p2 /\ state'[c] = "running"
  BY <1>1, <1>2 DEF TypeOK
<1>4. \A q \in live : parent[q] # c /\ thread_leader[q] # c
  <2> SUFFICES ASSUME NEW q \in live PROVE parent[q] # c /\ thread_leader[q] # c
    OBVIOUS
  <2>1. CASE thread_leader[q] # NoProc
    BY <1>2, <2>1 DEF Family
  <2>2. CASE thread_leader[q] = NoProc /\ q # InitProc
    BY <1>2, <2>2 DEF Family
  <2>3. CASE q = InitProc
    BY <1>2, <2>3 DEF InitAwake
  <2> QED
    BY <2>1, <2>2, <2>3
<1>5. CurrentRuns' /\ InitAwake(live', parent', thread_leader', state', left')
  BY <1>1, <1>2, <1>3 DEF CurrentRuns, InitAwake, Runnable
<1>6. Family(live', parent', thread_leader', state')
  <2>1. ASSUME NEW q \in live', q # InitProc, thread_leader'[q] = NoProc
        PROVE  /\ parent'[q] \in live' /\ state'[parent'[q]] # "zombie"
               /\ thread_leader'[parent'[q]] = NoProc
    <3>1. CASE q = c
      BY <1>1, <1>2, <1>3, <2>1, <3>1
    <3>2. CASE q # c
      <4>1. q \in live /\ thread_leader[q] = NoProc /\ parent'[q] = parent[q]
        BY <1>1, <1>3, <2>1, <3>2
      <4>2. parent[q] \in live /\ state[parent[q]] # "zombie" /\ thread_leader[parent[q]] = NoProc
        BY <1>2, <2>1, <4>1 DEF Family
      <4> QED
        BY <1>1, <1>3, <4>1, <4>2
    <3> QED
      BY <3>1, <3>2
  <2>2. ASSUME NEW q \in live', thread_leader'[q] # NoProc
        PROVE  /\ parent'[q] = NoProc
               /\ thread_leader'[q] \in live' /\ state'[thread_leader'[q]] # "zombie"
               /\ thread_leader'[thread_leader'[q]] = NoProc
    <3>1. CASE q = c
      BY <1>1, <1>2, <1>3, <2>2, <3>1
    <3>2. CASE q # c
      <4>1. q \in live /\ thread_leader[q] # NoProc /\ thread_leader'[q] = thread_leader[q]
        BY <1>1, <1>3, <2>2, <3>2
      <4>2. /\ parent[q] = NoProc /\ thread_leader[q] \in live
            /\ state[thread_leader[q]] # "zombie" /\ thread_leader[thread_leader[q]] = NoProc
        BY <1>2, <4>1 DEF Family
      <4> QED
        BY <1>1, <1>3, <4>1, <4>2
    <3> QED
      BY <3>1, <3>2
  <2>3. ASSUME NEW q \in live', state'[q] = "zombie", thread_leader'[q] = NoProc
        PROVE  parent'[q] # InitProc
    <3>1. q # c
      BY <1>3, <2>3
    <3>2. q \in live /\ state[q] = "zombie" /\ thread_leader[q] = NoProc
      BY <1>1, <1>3, <2>3, <3>1
    <3> QED
      BY <1>2, <1>3, <3>2 DEF Family
  <2> QED
    BY <2>1, <2>2, <2>3 DEF Family
<1>7. (\A q \in Proc : at[q] = "join" => q \notin joined)'
  BY <1>1 DEF IInv
<1>8. \A q \in live : q \in Whole(state', joined') => q \in Whole(state, joined)
  BY <1>1, <1>3 DEF Whole
<1>9. links' \in LinksOf(Node) /\ kernel' = "up" => TypeOK'
  BY <1>1, <1>2 DEF TypeOK, LinksOf
<1>10. OnQueue(live', state', queued')
  BY <1>1, <1>3 DEF IInv, OnQueue
<1> QED
  BY <1>1, <1>3, <1>4, <1>5, <1>6, <1>7, <1>8, <1>9, <1>10 DEF Grown

\* The end of a list is a node of a descriptor that exists.
LEMMA EndOfList ==
  ASSUME NEW head, NEW S, Ring(links, head, S), \A n \in S \cup {head} : n[1] \in live
  PROVE  EndsLive(head)
<1>1. links.prev[head] \in S \cup {head}
  BY RingNeighbours
<1> QED
  BY <1>1 DEF EndsLive, elementForNode

\* Fork.
LEMMA ForkKeeps ==
  ASSUME IInv, NEW p \in Proc, forkProcess(p)
  PROVE  IInv'
<1>1. /\ current = p /\ thread_leader[p] = NoProc
      /\ kernel' = IF EndsLive(children(p)) THEN "up" ELSE "undefined"
  BY DEF forkProcess, Runs
<1>2. PICK c \in Malloc(Proc \ live) :
       /\ NewDescriptor(c, p, NoProc)
       /\ links' = addLastNode(addLastNode(Fresh(c), siblings(c), children(p)),
                               process_list(c), process_head)
  BY DEF forkProcess
<1>3. c \in Proc /\ c \notin live
  <2>1. Proc \ live \in SUBSET Proc
    OBVIOUS
  <2>2. Malloc(Proc \ live) \subseteq Proc \ live
    BY <2>1, ProcessAssumption
  <2> QED
    BY <2>2
<1>4. /\ live \in SUBSET Proc /\ p \in live /\ state[p] # "zombie"
      /\ Rings(links, live, parent, thread_leader, Whole(state, joined))
  BY <1>1 DEF IInv, TypeOK, CurrentRuns
<1>5. /\ CurrentRuns' /\ live' = live \cup {c} /\ joined' = joined
      /\ InitAwake(live', parent', thread_leader', state', left')
      /\ Family(live', parent', thread_leader', state')
      /\ OnQueue(live', state', queued')
      /\ (\A q \in Proc : at[q] = "join" => q \notin joined)'
      /\ \A q \in live : /\ parent'[q] = parent[q]
                         /\ thread_leader'[q] = thread_leader[q]
                         /\ parent[q] # c /\ thread_leader[q] # c
                         /\ q \in Whole(state', joined') => q \in Whole(state, joined)
      /\ parent'[c] = p /\ thread_leader'[c] = NoProc
      /\ links' \in LinksOf(Node) /\ kernel' = "up" => TypeOK'
  <2>1. Grown(c, p, NoProc)
    BY <1>1, <1>2, <1>3, <1>4, NewFamily
  <2> QED
    BY <2>1 DEF Grown
<1>6. kernel' = "up"
  <2>1. Ring(links, children(p), ChildNodes(live, parent, p))
    BY <1>4 DEF Rings
  <2>2. \A n \in ChildNodes(live, parent, p) \cup {children(p)} : n[1] \in live
    BY <1>4, NodeFacts, ChildMembers
  <2> QED
    BY <1>1, <2>1, <2>2, EndOfList
<1> DEFINE par2 == parent'
           lead2 == thread_leader'
           less == Whole(state', joined')
           m == links'
<1>7. /\ \A q \in live : parent[q] # c /\ thread_leader[q] # c
      /\ \A q \in live : par2[q] = parent[q] /\ lead2[q] = thread_leader[q]
      /\ par2[c] = p /\ lead2[c] = NoProc
      /\ \A q \in live : q \in less => q \in Whole(state, joined)
      /\ m = addLastNode(addLastNode(linkedListNodeInit(links, {c} \X Member),
                                     siblings(c), children(p)),
                         process_list(c), process_head)
  BY <1>2, <1>5 DEF Fresh
<1> HIDE DEF par2, lead2, less, m
<1>8. Rings(m, live \cup {c}, par2, lead2, less)
  BY ONLY <1>3, <1>4, <1>7, ForkLinks
<1>9. Rings(links', live', parent', thread_leader', Whole(state', joined'))
  BY <1>5, <1>8 DEF par2, lead2, less, m
<1>10. links' \in LinksOf(Node)
  BY <1>9 DEF Rings
<1> QED
  BY <1>5, <1>6, <1>9, <1>10 DEF IInv

\* Thread creation.
LEMMA ThreadKeeps ==
  ASSUME IInv, Situations = {}, NEW p \in Proc, createThread(p)
  PROVE  IInv'
<1>1. /\ current = p /\ thread_leader[p] = NoProc /\ p \notin joined
      /\ kernel' = IF EndsLive(thread_group(p)) THEN "up" ELSE "undefined"
  BY DEF createThread, Runs, MayUseThreads
<1>2. PICK c \in Malloc(Proc \ live) :
       /\ NewDescriptor(c, NoProc, p)
       /\ links' = insertNode(addLastNode(Fresh(c), thread_peers(c), thread_group(p)),
                              process_list(c), process_list(p))
  BY DEF createThread
<1>3. c \in Proc /\ c \notin live
  <2>1. Proc \ live \in SUBSET Proc
    OBVIOUS
  <2>2. Malloc(Proc \ live) \subseteq Proc \ live
    BY <2>1, ProcessAssumption
  <2> QED
    BY <2>2
<1>4. /\ live \in SUBSET Proc /\ p \in live /\ state[p] # "zombie"
      /\ Rings(links, live, parent, thread_leader, Whole(state, joined))
      /\ p \in Whole(state, joined)
  BY <1>1 DEF IInv, TypeOK, CurrentRuns, Whole
<1>5. /\ CurrentRuns' /\ live' = live \cup {c} /\ joined' = joined
      /\ InitAwake(live', parent', thread_leader', state', left')
      /\ Family(live', parent', thread_leader', state')
      /\ OnQueue(live', state', queued')
      /\ (\A q \in Proc : at[q] = "join" => q \notin joined)'
      /\ \A q \in live : /\ parent'[q] = parent[q]
                         /\ thread_leader'[q] = thread_leader[q]
                         /\ parent[q] # c /\ thread_leader[q] # c
                         /\ q \in Whole(state', joined') => q \in Whole(state, joined)
      /\ parent'[c] = NoProc /\ thread_leader'[c] = p
      /\ links' \in LinksOf(Node) /\ kernel' = "up" => TypeOK'
  <2>1. Grown(c, NoProc, p)
    BY <1>1, <1>2, <1>3, <1>4, NewFamily
  <2> QED
    BY <2>1 DEF Grown
<1>6. kernel' = "up"
  <2>1. Ring(links, thread_group(p), ThreadNodes(live, thread_leader, p))
    BY <1>4 DEF Rings
  <2>2. \A n \in ThreadNodes(live, thread_leader, p) \cup {thread_group(p)} : n[1] \in live
    BY <1>4, NodeFacts, ThreadMembers
  <2> QED
    BY <1>1, <2>1, <2>2, EndOfList
<1> DEFINE par2 == parent'
           lead2 == thread_leader'
           less == Whole(state', joined')
           m == links'
<1>7. /\ \A q \in live : parent[q] # c /\ thread_leader[q] # c
      /\ \A q \in live : par2[q] = parent[q] /\ lead2[q] = thread_leader[q]
      /\ par2[c] = NoProc /\ lead2[c] = p
      /\ \A q \in live : q \in less => q \in Whole(state, joined)
      /\ m = insertNode(addLastNode(linkedListNodeInit(links, {c} \X Member),
                                    thread_peers(c), thread_group(p)),
                        process_list(c), process_list(p))
  BY <1>2, <1>5 DEF Fresh
<1> HIDE DEF par2, lead2, less, m
<1>8. Rings(m, live \cup {c}, par2, lead2, less)
  BY ONLY <1>3, <1>4, <1>7, ThreadLinks
<1>9. Rings(links', live', parent', thread_leader', Whole(state', joined'))
  BY <1>5, <1>8 DEF par2, lead2, less, m
<1>10. links' \in LinksOf(Node)
  BY <1>9 DEF Rings
<1> QED
  BY <1>5, <1>6, <1>9, <1>10 DEF IInv

------------------------------------------------------------------------------
\* Wait and Join.

\* Rings looks at the fields of A only.
LEMMA RingsFields ==
  ASSUME NEW l, NEW A \in SUBSET Proc, NEW par, NEW lead, NEW whole, NEW par2, NEW lead2,
         NEW less, Rings(l, A, par, lead, whole),
         \A q \in A : par2[q] = par[q] /\ lead2[q] = lead[q],
         \A q \in A : q \in less => q \in whole
  PROVE  Rings(l, A, par2, lead2, less)
<1>1. ASSUME NEW p PROVE ChildNodes(A, par2, p) = ChildNodes(A, par, p)
  BY DEF ChildNodes
<1>2. ASSUME NEW p PROVE ThreadNodes(A, lead2, p) = ThreadNodes(A, lead, p)
  BY DEF ThreadNodes
<1> QED
  BY <1>1, <1>2 DEF Rings

\* Asking again later.
LEMMA PollKeeps ==
  ASSUME IInv, NEW p \in Proc, current = p, NEW place \in {"wait", "join"},
         NEW t \in Proc \cup {NoProc}, Poll(p, place, t), place = "join" => p \notin joined
  PROVE  IInv'
<1>1. /\ UNCHANGED <<tree, joined>> /\ left' = left /\ state' = state
      /\ at' = [at EXCEPT ![p] = place] /\ want' = [want EXCEPT ![p] = t]
      /\ queued' = queued
      /\ schedule(links, state, left, p)
  BY DEF Poll
<1>2. TypeOK /\ p \in live /\ Runnable(state, left, InitProc)
  BY DEF IInv, CurrentRuns, InitAwake
<1>3. /\ kernel' = "up" /\ current' \in live
      /\ state[current'] = "running" /\ left[current'] = 0
  BY <1>1, <1>2, ScheduleRuns
<1>4. TypeOK' /\ CurrentRuns'
  BY <1>1, <1>2, <1>3 DEF TypeOK, CurrentRuns, tree
<1>5. /\ InitAwake(live', parent', thread_leader', state', left')
      /\ Family(live', parent', thread_leader', state')
      /\ Rings(links', live', parent', thread_leader', Whole(state', joined'))
  <2>1. Runnable(state', left', InitProc)
    BY <1>1, <1>2
  <2> QED
    BY <1>1, <2>1, QuietKeeps
<1>6. (\A q \in Proc : at[q] = "join" => q \notin joined)'
  BY <1>1, <1>2 DEF IInv, TypeOK
<1>7. OnQueue(live', state', queued')
  BY <1>1 DEF IInv, tree
<1> QED
  BY <1>3, <1>4, <1>5, <1>6, <1>7 DEF IInv

\* Nobody is the child or the thread of a process that has exited.
LEMMA ZombiesAlone ==
  ASSUME IInv, NEW c \in live, state[c] = "zombie"
  PROVE  /\ c # InitProc
         /\ \A q \in live : parent[q] # c /\ thread_leader[q] # c
         /\ parent[c] = NoProc \/ parent[c] \in live
         /\ parent[c] # NoProc => thread_leader[c] = NoProc
<1>1. /\ InitAwake(live, parent, thread_leader, state, left)
      /\ Family(live, parent, thread_leader, state) /\ live \subseteq Proc
      /\ NoProc \notin Proc
  BY ProcessAssumption DEF IInv, TypeOK
<1>2. c # InitProc
  BY <1>1 DEF InitAwake, Runnable
<1>3. ASSUME NEW q \in live PROVE parent[q] # c /\ thread_leader[q] # c
  <2>1. CASE thread_leader[q] # NoProc
    BY <1>1, <2>1 DEF Family
  <2>2. CASE thread_leader[q] = NoProc /\ q # InitProc
    BY <1>1, <2>2 DEF Family
  <2>3. CASE q = InitProc
    BY <1>1, <2>3 DEF InitAwake
  <2> QED
    BY <2>1, <2>2, <2>3
<1> QED
  BY <1>1, <1>2, <1>3 DEF Family

\* Before anything is released.
LEMMA NowKept ==
  ASSUME IInv, NEW less, \A q \in live : q \in less => q \in Whole(state, joined)
  PROVE  Kept(Now, live, parent, thread_leader, less)
<1>1. /\ Rings(links, live, parent, thread_leader, Whole(state, joined))
      /\ live \in SUBSET Proc /\ links \in LinksOf(Node)
  BY DEF IInv, TypeOK, Rings
<1>2. Rings(links, live, parent, thread_leader, less)
  BY <1>1, RingsWeaker
<1> QED
  BY <1>1, <1>2 DEF Kept, Now, Parts

\* Taking an exited child or thread.
LEMMA CollectKeeps ==
  ASSUME IInv, NEW p \in Proc, current = p, NEW c \in live, state[c] = "zombie",
         Collect(p, c),
         \/ thread_leader[c] = NoProc /\ joined' = joined
         \/ thread_leader[c] = p /\ joined' = joined \cup {p}
  PROVE  IInv'
<1> DEFINE less == Whole(state, joined')
           t == releaseProcess(Now, c)
           B == live \ {c}
<1>1. /\ Forget(t) /\ parent' = [parent EXCEPT ![c] = NoProc]
      /\ state' = [state EXCEPT ![c] = "running"]
      /\ at' = [at EXCEPT ![p] = "user"] /\ want' = [want EXCEPT ![p] = NoProc]
      /\ kernel' = Verdict(t.ok) /\ current' = current /\ queued' = queued
  BY DEF Collect
<1>2. /\ TypeOK /\ CurrentRuns /\ live \in SUBSET Proc /\ c \in Proc /\ p \in live /\ p # c
      /\ InitAwake(live, parent, thread_leader, state, left)
      /\ Family(live, parent, thread_leader, state)
      /\ NoProc \notin Proc
  BY ProcessAssumption DEF IInv, TypeOK, CurrentRuns
<1>3. /\ c # InitProc
      /\ \A q \in live : parent[q] # c /\ thread_leader[q] # c
      /\ parent[c] = NoProc \/ parent[c] \in live
  BY ZombiesAlone
<1>4. Kept(t, B, parent, thread_leader, less)
  <2>1. \A q \in live : q \in less => q \in Whole(state, joined)
    BY DEF Whole
  <2>2. thread_leader[c] \notin less
    BY <1>2 DEF Whole
  <2> HIDE DEF less
  <2>3. Kept(Now, live, parent, thread_leader, less)
    BY <2>1, NowKept
  <2> QED
    BY <1>2, <1>3, <2>2, <2>3, ReleaseOne
<1>5. /\ t.live = B /\ t.ok /\ t.links \in LinksOf(Node)
      /\ Rings(t.links, B, parent, thread_leader, less)
  BY <1>4 DEF Kept, Parts
<1> HIDE DEF t, less
<1>6. /\ live' = B /\ links' = t.links /\ kernel' = "up"
      /\ thread_leader' = [q \in Proc |-> IF q \in B THEN thread_leader[q] ELSE NoProc]
      /\ left' = [q \in Proc |-> IF q \in B THEN left[q] ELSE 0]
  BY <1>1, <1>5 DEF Forget, Verdict
<1>7. \A q \in B : /\ q \in live /\ q # c /\ q \in Proc
                   /\ parent'[q] = parent[q] /\ thread_leader'[q] = thread_leader[q]
                   /\ state'[q] = state[q] /\ left'[q] = left[q]
  BY <1>1, <1>2, <1>6 DEF TypeOK
<1>8. joined' \subseteq Proc /\ \A q \in Proc : at'[q] = "join" => q \notin joined'
  BY <1>1, <1>2 DEF IInv, TypeOK
<1>9. InitProc \in B /\ p \in B
  BY <1>2, <1>3 DEF InitAwake
<1> HIDE DEF B
<1>10. TypeOK'
  <2>1. live' \subseteq Proc /\ current' \in Proc
    BY <1>1, <1>2, <1>6, <1>7
  <2>2. links' \in LinksOf(Node)
    BY <1>5, <1>6
  <2>3. /\ parent' \in [Proc -> Proc \cup {NoProc}]
        /\ want' \in [Proc -> Proc \cup {NoProc}]
        /\ state' \in [Proc -> {"running", "waiting", "zombie"}]
        /\ at' \in [Proc -> {"user", "wait", "join"}]
        /\ queued' \in [Proc -> Nat]
    BY <1>1, <1>2 DEF TypeOK
  <2>4. thread_leader' \in [Proc -> Proc \cup {NoProc}] /\ left' \in [Proc -> Nat]
    BY <1>2, <1>6 DEF TypeOK
  <2> QED
    BY <1>6, <1>8, <2>1, <2>2, <2>3, <2>4 DEF TypeOK, LinksOf
<1>11. CurrentRuns' /\ InitAwake(live', parent', thread_leader', state', left')
  BY <1>1, <1>2, <1>6, <1>7, <1>9 DEF CurrentRuns, InitAwake, Runnable
<1>12. Family(live', parent', thread_leader', state')
  <2>1. ASSUME NEW q \in B, q # InitProc, thread_leader'[q] = NoProc
        PROVE  /\ parent'[q] \in B /\ state'[parent'[q]] # "zombie"
               /\ thread_leader'[parent'[q]] = NoProc
    <3>1. /\ parent[q] \in live /\ state[parent[q]] # "zombie"
          /\ thread_leader[parent[q]] = NoProc
      BY <1>2, <1>7, <2>1 DEF Family
    <3>2. parent[q] \in B
      BY <3>1 DEF B
    <3> QED
      BY <1>7, <3>1, <3>2
  <2>2. ASSUME NEW q \in B, thread_leader'[q] # NoProc
        PROVE  /\ parent'[q] = NoProc
               /\ thread_leader'[q] \in B /\ state'[thread_leader'[q]] # "zombie"
               /\ thread_leader'[thread_leader'[q]] = NoProc
    <3>1. /\ parent[q] = NoProc /\ thread_leader[q] \in live
          /\ state[thread_leader[q]] # "zombie" /\ thread_leader[thread_leader[q]] = NoProc
      BY <1>2, <1>7, <2>2 DEF Family
    <3>2. thread_leader[q] \in B
      BY <3>1 DEF B
    <3> QED
      BY <1>7, <3>1, <3>2
  <2>3. ASSUME NEW q \in B, state'[q] = "zombie", thread_leader'[q] = NoProc
        PROVE  parent'[q] # InitProc
    BY <1>2, <1>7, <2>3 DEF Family
  <2> QED
    BY <1>6, <2>1, <2>2, <2>3 DEF Family
<1>13. Rings(links', live', parent', thread_leader', Whole(state', joined'))
  <2> DEFINE par2 == parent'
             lead2 == thread_leader'
             least == Whole(state', joined')
             l == t.links
  <2>1. \A q \in B : q \in least => q \in less
    BY <1>7 DEF Whole, less
  <2>2. \A q \in B : par2[q] = parent[q] /\ lead2[q] = thread_leader[q]
    BY <1>7
  <2>3. B \in SUBSET Proc /\ Rings(l, B, parent, thread_leader, less)
    BY <1>5, <1>7
  <2> HIDE DEF par2, lead2, least, l
  <2>4. Rings(l, B, par2, lead2, least)
    BY ONLY <2>1, <2>2, <2>3, RingsFields
  <2> QED
    BY <1>6, <2>4 DEF par2, lead2, least, l
<1>14. (\A q \in Proc : at[q] = "join" => q \notin joined)'
  BY <1>8
<1>15. OnQueue(live', state', queued')
  <2>1. ASSUME NEW q \in Proc, queued[q] # 0
        PROVE  queued[q] = 1 /\ q \in B /\ state[q] = "waiting"
    BY <2>1 DEF IInv, OnQueue, B
  <2> QED
    BY <1>1, <1>6, <1>7, <2>1 DEF OnQueue
<1> QED
  BY <1>6, <1>10, <1>11, <1>12, <1>13, <1>14, <1>15 DEF IInv

\* The walk over the children of a process.
LEMMA ChildrenWalk ==
  ASSUME IInv, NEW p \in live
  PROVE  /\ Sound(links, live, children(p), "siblings")
         /\ \E k \in Nat : \E walk :
              WalkOf(links, children(p), {c \in live : parent[c] = p}, "siblings", walk, k)
<1> DEFINE h == children(p)
           B == {c \in live : parent[c] = p}
<1>1. live \subseteq Proc /\ Ring(links, h, Nodes(B, "siblings")) /\ B \in SUBSET Proc
  <2>1. Ring(links, h, ChildNodes(live, parent, p)) /\ live \subseteq Proc
    BY DEF IInv, Rings, TypeOK
  <2>2. ChildNodes(live, parent, p) = Nodes(B, "siblings")
    BY DEF ChildNodes, Nodes, siblings
  <2> QED
    BY <2>1, <2>2
<1>2. B \subseteq live
  OBVIOUS
<1> HIDE DEF h, B
<1>3. PICK k \in Nat : \E walk : WalkOf(links, h, B, "siblings", walk, k)
  BY <1>1, RingWalk
<1>4. PICK walk : WalkOf(links, h, B, "siblings", walk, k)
  BY <1>3
<1>5. Sound(links, live, h, "siblings")
  BY <1>2, <1>4, WalkSound
<1> QED
  BY <1>4, <1>5 DEF h, B

\* The walk over the threads of a leader that has joined none.
LEMMA ThreadsWalk ==
  ASSUME IInv, NEW p \in live, p \in Whole(state, joined)
  PROVE  /\ Sound(links, live, thread_group(p), "thread_peers")
         /\ \E k \in Nat : \E walk :
              WalkOf(links, thread_group(p), {t \in live : thread_leader[t] = p},
                     "thread_peers", walk, k)
<1> DEFINE h == thread_group(p)
           B == {t \in live : thread_leader[t] = p}
<1>1. live \subseteq Proc /\ Ring(links, h, Nodes(B, "thread_peers")) /\ B \in SUBSET Proc
  <2>1. Ring(links, h, ThreadNodes(live, thread_leader, p)) /\ live \subseteq Proc
    BY DEF IInv, Rings, TypeOK
  <2>2. ThreadNodes(live, thread_leader, p) = Nodes(B, "thread_peers")
    BY DEF ThreadNodes, Nodes, thread_peers
  <2> QED
    BY <2>1, <2>2
<1>2. B \subseteq live
  OBVIOUS
<1> HIDE DEF h, B
<1>3. PICK k \in Nat : \E walk : WalkOf(links, h, B, "thread_peers", walk, k)
  BY <1>1, RingWalk
<1>4. PICK walk : WalkOf(links, h, B, "thread_peers", walk, k)
  BY <1>3
<1>5. Sound(links, live, h, "thread_peers")
  BY <1>2, <1>4, WalkSound
<1> QED
  BY <1>4, <1>5 DEF h, B

\* What the loop of waitForPID takes is a child that has exited.
LEMMA WaitTakes ==
  ASSUME IInv, NEW p \in live, WaitLoop(p)
  PROVE  \/ Poll(p, "wait", NoProc)
         \/ \E c \in live : /\ parent[c] = p /\ state[c] = "zombie"
                            /\ Collect(p, c) /\ joined' = joined
<1> DEFINE h == children(p)
           B == {c \in live : parent[c] = p}
           kids == forEachElement(links, h)
<1>1. Sound(links, live, h, "siblings")
  BY ChildrenWalk
<1>2. PICK k \in Nat : \E walk : WalkOf(links, h, B, "siblings", walk, k)
  BY ChildrenWalk
<1>3. PICK walk : WalkOf(links, h, B, "siblings", walk, k)
  BY <1>2
<1>4. kids = walk /\ DOMAIN walk = 1..k /\ \A i \in 1..k : walk[i] \in B
  BY <1>3 DEF WalkOf
<1> DEFINE z == Zombies(kids)
           c == kids[Least(z)]
<1>5. IF z = {} THEN Poll(p, "wait", NoProc) ELSE Collect(p, c) /\ joined' = joined
  BY <1>1 DEF WaitLoop
<1>6. ASSUME z # {} PROVE Least(z) \in z
  <2>1. z \in SUBSET Nat
    BY <1>4 DEF Zombies
  <2> HIDE DEF z
  <2>2. \E n \in z : \A m \in z : n <= m
    BY <1>6, <2>1, Walk!Least
  <2> QED
    BY <2>2 DEF Least
<1>7. ASSUME z # {} PROVE c \in B /\ state[c] = "zombie"
  BY <1>4, <1>6, <1>7 DEF Zombies
<1> HIDE DEF z, c
<1> QED
  BY <1>5, <1>7

\* What the loop of joinThread takes is the thread asked for, exited.
LEMMA JoinTakes ==
  ASSUME IInv, NEW p \in live, p \in Whole(state, joined), NEW t, JoinLoop(p, t)
  PROVE  \/ Poll(p, "join", t)
         \/ /\ t \in live /\ thread_leader[t] = p /\ state[t] = "zombie"
            /\ Collect(p, t) /\ joined' = joined \cup {p}
<1> DEFINE h == thread_group(p)
           B == {c \in live : thread_leader[c] = p}
           threads == forEachElement(links, h)
<1>1. Sound(links, live, h, "thread_peers")
  BY ThreadsWalk
<1>2. PICK k \in Nat : \E walk : WalkOf(links, h, B, "thread_peers", walk, k)
  BY ThreadsWalk
<1>3. PICK walk : WalkOf(links, h, B, "thread_peers", walk, k)
  BY <1>2
<1>4. threads = walk /\ DOMAIN walk = 1..k /\ \A i \in 1..k : walk[i] \in B
  BY <1>3 DEF WalkOf
<1>5. IF \E i \in Zombies(threads) : threads[i] = t
      THEN Collect(p, t) /\ joined' = joined \cup {p} ELSE Poll(p, "join", t)
  BY <1>1 DEF JoinLoop
<1>6. ASSUME NEW i \in Zombies(threads), threads[i] = t
      PROVE  t \in B /\ state[t] = "zombie"
  BY <1>4, <1>6 DEF Zombies
<1> HIDE DEF threads
<1> QED
  BY <1>5, <1>6

\* Wait, the first time and each time it looks again.
LEMMA WaitKeeps ==
  ASSUME IInv, NEW p \in Proc, current = p, WaitLoop(p)
  PROVE  IInv'
<1>1. p \in live /\ NoProc \in Proc \cup {NoProc} /\ NoProc \notin Proc /\ p # NoProc
  BY ProcessAssumption DEF IInv, CurrentRuns
<1>2. CASE Poll(p, "wait", NoProc)
  <2>1. "wait" \in {"wait", "join"} /\ "wait" # "join"
    OBVIOUS
  <2> QED
    BY <1>1, <1>2, <2>1, PollKeeps
<1>3. ASSUME NEW c \in live, parent[c] = p, state[c] = "zombie", Collect(p, c), joined' = joined
      PROVE  IInv'
  <2>1. thread_leader[c] = NoProc
    BY <1>1, <1>3, ZombiesAlone
  <2> QED
    BY <1>3, <2>1, CollectKeeps
<1> QED
  BY <1>1, <1>2, <1>3, WaitTakes

\* Join, the first time and each time it looks again.
LEMMA JoinKeeps ==
  ASSUME IInv, NEW p \in Proc, current = p, p \notin joined,
         NEW t \in Proc \cup {NoProc}, JoinLoop(p, t)
  PROVE  IInv'
<1>1. p \in live /\ p \in Whole(state, joined)
  BY DEF IInv, CurrentRuns, Whole
<1>2. CASE Poll(p, "join", t)
  <2>1. "join" \in {"wait", "join"}
    OBVIOUS
  <2> QED
    BY <1>2, <2>1, PollKeeps
<1>3. CASE /\ t \in live /\ thread_leader[t] = p /\ state[t] = "zombie"
           /\ Collect(p, t) /\ joined' = joined \cup {p}
  BY <1>3, CollectKeeps
<1> QED
  BY <1>1, <1>2, <1>3, JoinTakes

------------------------------------------------------------------------------
\* Exit.

\* Who p leaves behind when it exits.
LEMMA ExitAlone ==
  ASSUME IInv, Situations = {}, NEW p \in Proc, current = p, MayExit(p)
  PROVE  /\ p \in live /\ state[p] = "running" /\ p # InitProc
         /\ p \in Whole(state, joined)
         /\ \A c \in live : parent[c] = p => state[c] = "zombie"
         /\ \A t \in live : thread_leader[t] = p =>
              ~Runnable(state, left, t) /\ state[t] # "waiting"
  BY DEF IInv, CurrentRuns, MayExit, MayBlock, MayUseThreads, Threads, Whole

\* The children of p, which are all zombies, are released.
LEMMA KillChildren ==
  ASSUME IInv, NEW p \in live, \A c \in live : parent[c] = p => state[c] = "zombie",
         NEW less, \A q \in live : q \in less => q \in Whole(state, joined),
         NoProc \notin less,
         NEW kids, kids = forEachElement(links, children(p))
  PROVE  /\ DOMAIN kids \ Zombies(kids) = {}
         /\ Kept(releaseEach(Now, kids, Zombies(kids)),
                 live \ {c \in live : parent[c] = p}, parent, thread_leader, less)
<1> DEFINE B == {c \in live : parent[c] = p}
           which == Zombies(kids)
<1>1. PICK k \in Nat : \E walk : WalkOf(links, children(p), B, "siblings", walk, k)
  BY ChildrenWalk
<1>2. PICK walk : WalkOf(links, children(p), B, "siblings", walk, k)
  BY <1>1
<1>3. /\ kids \in [1..k -> B] /\ Len(kids) = k /\ DOMAIN kids = 1..k
      /\ B = {kids[i] : i \in 1..k}
      /\ \A i, j \in 1..k : kids[i] = kids[j] => i = j
  BY <1>2 DEF WalkOf
<1>4. which = 1..k
  <2>1. \A i \in 1..k : state[kids[i]] = "zombie"
    BY <1>3
  <2> QED
    BY <1>3, <2>1 DEF Zombies
<1>5. \A i \in which : /\ kids[i] \in live
                       /\ parent[kids[i]] = NoProc \/ parent[kids[i]] \in live
                       /\ \A c \in live : parent[c] # kids[i]
                       /\ thread_leader[kids[i]] \notin less
  <2> SUFFICES ASSUME NEW i \in 1..k, NEW q, q = kids[i]
               PROVE  /\ q \in live
                      /\ parent[q] = NoProc \/ parent[q] \in live
                      /\ \A c \in live : parent[c] # q
                      /\ thread_leader[q] \notin less
    BY <1>4
  <2>1. q \in live /\ state[q] = "zombie" /\ parent[q] = p
    BY <1>3
  <2>2. parent[q] # NoProc
    BY <2>1, ProcessAssumption DEF IInv, TypeOK
  <2> QED
    BY <2>1, <2>2, ZombiesAlone
<1>6. Kept(Now, live, parent, thread_leader, less) /\ live \in SUBSET Proc
  BY NowKept DEF IInv, TypeOK
<1>7. which \in SUBSET (1..k) /\ \A i, j \in which : kids[i] = kids[j] => i = j
  BY <1>3, <1>4
<1> DEFINE C == live \ {kids[i] : i \in which}
<1>8. C = live \ B /\ DOMAIN kids \ which = {}
  BY <1>3, <1>4
<1> HIDE DEF which
<1>9. Kept(releaseEach(Now, kids, which), C, parent, thread_leader, less)
  BY ONLY <1>3, <1>5, <1>6, <1>7, ReleaseSome
<1> QED
  BY <1>8, <1>9 DEF which

\* The threads of p are.
LEMMA KillThreads ==
  ASSUME IInv, NEW p \in live, p \in Whole(state, joined),
         NEW less, p \notin less,
         NEW t, NEW A, A = live \ {c \in live : parent[c] = p},
         Kept(t, A, parent, thread_leader, less),
         NEW threads, threads = forEachElement(links, thread_group(p))
  PROVE  Kept(releaseEach(t, threads, DOMAIN threads),
              A \ {q \in live : thread_leader[q] = p}, parent, thread_leader, less)
<1> DEFINE B == {q \in live : thread_leader[q] = p}
           which == DOMAIN threads
<1>1. PICK k \in Nat : \E walk : WalkOf(links, thread_group(p), B, "thread_peers", walk, k)
  BY ThreadsWalk
<1>2. PICK walk : WalkOf(links, thread_group(p), B, "thread_peers", walk, k)
  BY <1>1
<1>3. /\ threads \in [1..k -> B] /\ Len(threads) = k /\ which = 1..k
      /\ B = {threads[i] : i \in 1..k}
      /\ \A i, j \in 1..k : threads[i] = threads[j] => i = j
  BY <1>2 DEF WalkOf
<1>4. /\ Family(live, parent, thread_leader, state) /\ NoProc \notin Proc /\ live \subseteq Proc
      /\ InitAwake(live, parent, thread_leader, state, left)
  BY ProcessAssumption DEF IInv, TypeOK
<1>5. \A i \in which : /\ threads[i] \in A
                       /\ parent[threads[i]] = NoProc \/ parent[threads[i]] \in A
                       /\ \A c \in A : parent[c] # threads[i]
                       /\ thread_leader[threads[i]] \notin less
  <2> SUFFICES ASSUME NEW i \in 1..k, NEW q, q = threads[i]
               PROVE  /\ q \in A
                      /\ parent[q] = NoProc \/ parent[q] \in A
                      /\ \A c \in A : parent[c] # q
                      /\ thread_leader[q] \notin less
    BY <1>3
  <2>1. q \in live /\ thread_leader[q] = p /\ thread_leader[q] # NoProc /\ q # NoProc
    BY <1>3, <1>4
  <2>2. parent[q] = NoProc
    BY <1>4, <2>1 DEF Family
  <2>3. ASSUME NEW c \in live PROVE parent[c] # q
    <3>1. CASE thread_leader[c] # NoProc
      BY <1>4, <2>1, <3>1 DEF Family
    <3>2. CASE thread_leader[c] = NoProc /\ c # InitProc
      BY <1>4, <2>1, <3>2 DEF Family
    <3>3. CASE c = InitProc
      BY <1>4, <2>1, <3>3 DEF InitAwake
    <3> QED
      BY <3>1, <3>2, <3>3
  <2> QED
    BY <1>4, <2>1, <2>2, <2>3
<1>6. which \in SUBSET (1..k) /\ \A i, j \in which : threads[i] = threads[j] => i = j
  BY <1>3
<1> DEFINE C == A \ {threads[i] : i \in which}
<1>7. C = A \ B /\ A \in SUBSET Proc
  BY <1>3, <1>4
<1> HIDE DEF which
<1>8. Kept(releaseEach(t, threads, which), C, parent, thread_leader, less)
  BY ONLY <1>3, <1>5, <1>6, <1>7, Kept(t, A, parent, thread_leader, less), ReleaseSome
<1> QED
  BY <1>7, <1>8 DEF which

\* Who is released when p exits.
Released(p) ==
  {q \in live : \/ parent[q] = p \/ thread_leader[q] = p
                \/ q = p /\ thread_leader[p] = NoProc /\ parent[p] = InitProc}

\* And p itself, if its parent is the initial process.
LEMMA KillSelf ==
  ASSUME IInv, NEW p \in live, p # InitProc, NEW less, NoProc \notin less, NEW t, NEW A,
         A = (live \ {c \in live : parent[c] = p}) \ {q \in live : thread_leader[q] = p},
         Kept(t, A, parent, thread_leader, less)
  PROVE  Kept(killKernelContext(t, p), live \ Released(p), parent, thread_leader, less)
<1>1. /\ Family(live, parent, thread_leader, state) /\ NoProc \notin Proc /\ live \subseteq Proc
      /\ InitAwake(live, parent, thread_leader, state, left)
  BY ProcessAssumption DEF IInv, TypeOK
<1>2. CASE ~(thread_leader[p] = NoProc /\ parent[p] = InitProc)
  <2>1. live \ Released(p) = A
    BY <1>2 DEF Released
  <2> QED
    BY <1>2, <2>1 DEF killKernelContext
<1>3. CASE thread_leader[p] = NoProc /\ parent[p] = InitProc
  <2>1. live \ Released(p) = A \ {p}
    BY <1>3 DEF Released
  <2>2. p \in A /\ A \in SUBSET Proc
    BY <1>1, <1>3
  <2>3. InitProc \in A
    BY <1>1, <1>3 DEF InitAwake
  <2>4. \A c \in A : parent[c] # p
    OBVIOUS
  <2>5. Kept(releaseProcess(t, p), A \ {p}, parent, thread_leader, less)
    BY <1>3, <2>2, <2>3, <2>4, ReleaseOne
  <2> QED
    BY <1>3, <2>1, <2>5 DEF killKernelContext
<1> QED
  BY <1>2, <1>3

\* What is left of the descriptors and of their fields once p has exited.
Survivors(p, t) ==
  /\ Kept(t, live \ Released(p), parent, thread_leader, Whole(state, joined) \ {p})
  /\ Forget(t)
  /\ parent' = [q \in Proc |-> IF q \in t.live THEN parent[q] ELSE NoProc]
  /\ state' = [q \in Proc |-> CASE q \notin t.live -> "running"
                               [] q = p -> "zombie"
                               [] OTHER -> state[q]]
  /\ current' = NextProcess(links, state, left, p)
  /\ kernel' = Verdict(t.ok /\ current' # p /\ current' \in t.live)
  /\ joined' = joined \ {p} /\ at' = at /\ want' = want /\ queued' = queued

\* Exit reads sound lists and releases the children, the threads and maybe p.
LEMMA KillTakes ==
  ASSUME IInv, Situations = {}, NEW p \in Proc, killProcess(p)
  PROVE  \E t : Survivors(p, t)
<1> DEFINE less == Whole(state, joined) \ {p}
           new_process == NextProcess(links, state, left, p)
           kids    == forEachElement(links, children(p))
           threads == forEachElement(links, thread_group(p))
           running == {kids[i] : i \in DOMAIN kids \ Zombies(kids)}
           t1 == releaseEach(Now, kids, Zombies(kids))
           t2 == [t1 EXCEPT !.links =
                    IF running = {} THEN @
                    ELSE spliceLinkedLists(@, children(p), children(parent[p]))]
           t3 == releaseEach(t2, threads, DOMAIN threads)
           t4 == killKernelContext(t3, p)
           A == live \ {c \in live : parent[c] = p}
<1>1. /\ current = p /\ MayExit(p)
      /\ IF /\ Sound(links, live, children(p), "siblings")
            /\ Sound(links, live, thread_group(p), "thread_peers")
            /\ thread_leader[p] = NoProc => parent[p] \in live
         THEN /\ Forget(t4)
              /\ parent' = [q \in Proc |-> CASE q \notin t4.live -> NoProc
                                            [] q \in running -> parent[p]
                                            [] OTHER -> parent[q]]
              /\ state' = [q \in Proc |-> CASE q \notin t4.live -> "running"
                                           [] q = p -> "zombie"
                                           [] OTHER -> state[q]]
              /\ current' = new_process
              /\ kernel' = Verdict(t4.ok /\ new_process # p /\ new_process \in t4.live)
              /\ joined' = joined \ {p}
              /\ UNCHANGED calls
         ELSE Undefined
  BY DEF killProcess, Runs
<1>2. /\ p \in live /\ p # InitProc /\ p \in Whole(state, joined)
      /\ \A c \in live : parent[c] = p => state[c] = "zombie"
  BY <1>1, ExitAlone
<1>3. /\ Sound(links, live, children(p), "siblings")
      /\ Sound(links, live, thread_group(p), "thread_peers")
  BY <1>2, ChildrenWalk, ThreadsWalk
<1>4. thread_leader[p] = NoProc => parent[p] \in live
  BY <1>2 DEF IInv, Family
<1>5. NoProc \notin less /\ p \notin less /\ \A q \in live : q \in less => q \in Whole(state, joined)
  BY ProcessAssumption DEF Whole
<1> HIDE DEF less
<1>6. /\ DOMAIN kids \ Zombies(kids) = {}
      /\ Kept(t1, A, parent, thread_leader, less)
  <2> HIDE DEF kids
  <2>1. kids = forEachElement(links, children(p))
    BY DEF kids
  <2> QED
    BY ONLY IInv, <1>2, <1>5, <2>1, KillChildren
<1>7. running = {}
  BY <1>6
<1> HIDE DEF kids
<1>8. t2 = t1
  <2>1. t1 \in Parts
    BY <1>6 DEF Kept
  <2> HIDE DEF t1, running
  <2> QED
    BY <1>7, <2>1 DEF Parts
<1>9. Kept(t2, A, parent, thread_leader, less)
  BY <1>6, <1>8
<1> HIDE DEF t2
<1>10. Kept(t3, A \ {q \in live : thread_leader[q] = p}, parent, thread_leader, less)
  <2> HIDE DEF threads, A
  <2>1. threads = forEachElement(links, thread_group(p)) /\ A = live \ {c \in live : parent[c] = p}
    BY DEF threads, A
  <2> QED
    BY ONLY IInv, <1>2, <1>5, <1>9, <2>1, KillThreads
<1> HIDE DEF t3
<1>11. Kept(t4, live \ Released(p), parent, thread_leader, less)
  <2> DEFINE C == A \ {q \in live : thread_leader[q] = p}
  <2>1. C = (live \ {c \in live : parent[c] = p}) \ {q \in live : thread_leader[q] = p}
    OBVIOUS
  <2>2. Kept(t3, C, parent, thread_leader, less)
    BY <1>10
  <2> HIDE DEF C
  <2> QED
    BY ONLY IInv, <1>2, <1>5, <2>1, <2>2, KillSelf
<1> HIDE DEF t4, running, new_process
<1>12. Survivors(p, t4)
  <2>1. /\ Forget(t4)
        /\ parent' = [q \in Proc |-> CASE q \notin t4.live -> NoProc
                                      [] q \in running -> parent[p]
                                      [] OTHER -> parent[q]]
        /\ state' = [q \in Proc |-> CASE q \notin t4.live -> "running"
                                     [] q = p -> "zombie"
                                     [] OTHER -> state[q]]
        /\ current' = new_process
        /\ kernel' = Verdict(t4.ok /\ new_process # p /\ new_process \in t4.live)
        /\ joined' = joined \ {p} /\ at' = at /\ want' = want /\ queued' = queued
    BY <1>1, <1>3, <1>4 DEF calls
  <2>2. parent' = [q \in Proc |-> IF q \in t4.live THEN parent[q] ELSE NoProc]
    BY <1>7, <2>1
  <2>3. kernel' = Verdict(t4.ok /\ current' # p /\ current' \in t4.live)
    BY <2>1
  <2>4. current' = NextProcess(links, state, left, p)
    BY <2>1 DEF new_process
  <2>5. Kept(t4, live \ Released(p), parent, thread_leader, Whole(state, joined) \ {p})
    BY <1>11 DEF less
  <2> QED
    BY ONLY <2>1, <2>2, <2>3, <2>4, <2>5 DEF Survivors
<1> QED
  BY <1>12

\* Exit.
LEMMA KillKeeps ==
  ASSUME IInv, Situations = {}, NEW p \in Proc, killProcess(p)
  PROVE  IInv'
<1> DEFINE less == Whole(state, joined) \ {p}
           B == live \ Released(p)
<1>1. PICK t : Survivors(p, t)
  BY KillTakes
<1>2. /\ p \in live /\ state[p] = "running" /\ p # InitProc
      /\ \A c \in live : parent[c] = p => state[c] = "zombie"
      /\ \A q \in live : thread_leader[q] = p =>
           ~Runnable(state, left, q) /\ state[q] # "waiting"
  <2>1. current = p /\ MayExit(p)
    BY DEF killProcess, Runs
  <2> QED
    BY <2>1, ExitAlone
<1>3. /\ TypeOK /\ live \in SUBSET Proc /\ NoProc \notin Proc
      /\ InitAwake(live, parent, thread_leader, state, left)
      /\ Family(live, parent, thread_leader, state)
  BY ProcessAssumption DEF IInv, TypeOK
<1>4. /\ t.live = B /\ t.ok /\ t.links \in LinksOf(Node)
      /\ Rings(t.links, B, parent, thread_leader, less)
  BY <1>1 DEF Survivors, Kept, Parts
<1> HIDE DEF less
<1>5. /\ live' = B /\ links' = t.links
      /\ thread_leader' = [q \in Proc |-> IF q \in B THEN thread_leader[q] ELSE NoProc]
      /\ left' = [q \in Proc |-> IF q \in B THEN left[q] ELSE 0]
      /\ parent' = [q \in Proc |-> IF q \in B THEN parent[q] ELSE NoProc]
      /\ state' = [q \in Proc |-> CASE q \notin B -> "running"
                                   [] q = p -> "zombie"
                                   [] OTHER -> state[q]]
      /\ current' = NextProcess(links, state, left, p)
      /\ kernel' = Verdict(current' # p /\ current' \in B)
      /\ joined' = joined \ {p} /\ at' = at /\ want' = want /\ queued' = queued
  BY <1>1, <1>4 DEF Survivors, Forget
<1>6. /\ current' \in live /\ Runnable(state, left, current') /\ current' # p
  BY <1>2, <1>3, <1>5, NextRuns DEF IInv, Rings, InitAwake
<1>7. ASSUME NEW q \in live, Runnable(state, left, q), q # p
      PROVE  q \in B
  BY <1>2, <1>7 DEF Released, Runnable
<1>8. ASSUME NEW q \in Proc, queued[q] # 0
      PROVE  queued[q] = 1 /\ q \in B /\ q # p /\ state[q] = "waiting"
  <2>1. queued[q] = 1 /\ q \in live /\ state[q] = "waiting"
    BY <1>8 DEF IInv, OnQueue
  <2> QED
    BY <1>2, <2>1 DEF Released
<1>9. current' \in B /\ InitProc \in B /\ kernel' = "up"
  BY <1>2, <1>3, <1>5, <1>6, <1>7 DEF InitAwake, Verdict
<1>10. \A q \in B : /\ q \in live /\ q \in Proc
                    /\ parent[q] # p /\ thread_leader[q] # p
                    /\ q = p => ~(thread_leader[p] = NoProc /\ parent[p] = InitProc)
  BY <1>3 DEF Released
<1>11. \A q \in B : /\ parent'[q] = parent[q] /\ thread_leader'[q] = thread_leader[q]
                    /\ left'[q] = left[q] /\ state'[q] = IF q = p THEN "zombie" ELSE state[q]
  BY <1>5, <1>10
\* Nobody who is left has lost its parent or its leader.
<1>12. ASSUME NEW q \in live, NEW r \in B, parent[r] = q \/ thread_leader[r] = q
       PROVE  q \in B
  <2>1. q # p
    BY <1>10, <1>12
  <2>2. parent[q] # p
    BY <1>2, <1>10, <1>12, ZombiesAlone
  <2>3. thread_leader[q] # p
    <3>1. p # NoProc
      BY <1>3
    <3>2. thread_leader[q] = NoProc
      <4>1. r \in live /\ q # NoProc
        BY <1>3, <1>10
      <4>2. CASE thread_leader[r] = q
        BY <1>3, <4>1, <4>2 DEF Family
      <4>3. CASE thread_leader[r] # NoProc /\ parent[r] = q
        BY <1>3, <4>1, <4>3 DEF Family
      <4>4. CASE thread_leader[r] = NoProc /\ parent[r] = q /\ r # InitProc
        BY <1>3, <4>1, <4>4 DEF Family
      <4>5. CASE r = InitProc /\ parent[r] = q
        BY <1>3, <4>1, <4>5 DEF InitAwake
      <4> QED
        BY <1>12, <4>2, <4>3, <4>4, <4>5
    <3> QED
      BY <3>1, <3>2
  <2> QED
    BY <2>1, <2>2, <2>3 DEF Released
<1> HIDE DEF B
<1>13. TypeOK'
  <2>1. live' \subseteq Proc /\ current' \in Proc /\ joined' \subseteq Proc
    BY <1>3, <1>5, <1>9, <1>10 DEF TypeOK
  <2>2. links' \in LinksOf(Node)
    BY <1>4, <1>5
  <2>3. /\ parent' \in [Proc -> Proc \cup {NoProc}]
        /\ thread_leader' \in [Proc -> Proc \cup {NoProc}]
        /\ want' \in [Proc -> Proc \cup {NoProc}]
        /\ at' \in [Proc -> {"user", "wait", "join"}] /\ left' \in [Proc -> Nat]
        /\ queued' \in [Proc -> Nat]
    BY <1>3, <1>5 DEF TypeOK
  <2>4. state' \in [Proc -> {"running", "waiting", "zombie"}]
    BY <1>3, <1>5 DEF TypeOK
  <2> QED
    BY <1>9, <2>1, <2>2, <2>3, <2>4 DEF TypeOK, LinksOf
<1>14. CurrentRuns' /\ InitAwake(live', parent', thread_leader', state', left')
  BY <1>2, <1>3, <1>5, <1>6, <1>9, <1>11 DEF CurrentRuns, InitAwake, Runnable
<1>15. Family(live', parent', thread_leader', state')
  <2>1. ASSUME NEW q \in B, q # InitProc, thread_leader'[q] = NoProc
        PROVE  /\ parent'[q] \in B /\ state'[parent'[q]] # "zombie"
               /\ thread_leader'[parent'[q]] = NoProc
    <3>1. /\ parent[q] \in live /\ state[parent[q]] # "zombie" /\ parent[q] # p
          /\ thread_leader[parent[q]] = NoProc
      BY <1>3, <1>10, <1>11, <2>1 DEF Family
    <3>2. parent[q] \in B
      BY <1>12, <3>1
    <3> QED
      BY <1>11, <3>1, <3>2
  <2>2. ASSUME NEW q \in B, thread_leader'[q] # NoProc
        PROVE  /\ parent'[q] = NoProc
               /\ thread_leader'[q] \in B /\ state'[thread_leader'[q]] # "zombie"
               /\ thread_leader'[thread_leader'[q]] = NoProc
    <3>1. /\ parent[q] = NoProc /\ thread_leader[q] \in live /\ thread_leader[q] # p
          /\ state[thread_leader[q]] # "zombie" /\ thread_leader[thread_leader[q]] = NoProc
      BY <1>3, <1>10, <1>11, <2>2 DEF Family
    <3>2. thread_leader[q] \in B
      BY <1>12, <3>1
    <3> QED
      BY <1>11, <3>1, <3>2
  <2>3. ASSUME NEW q \in B, state'[q] = "zombie", thread_leader'[q] = NoProc
        PROVE  parent'[q] # InitProc
    BY <1>3, <1>10, <1>11, <2>3 DEF Family
  <2>4. live' = B
    BY <1>5
  <2> QED
    BY ONLY <2>1, <2>2, <2>3, <2>4 DEF Family
<1>16. Rings(links', live', parent', thread_leader', Whole(state', joined'))
  <2> DEFINE par2 == parent'
             lead2 == thread_leader'
             least == Whole(state', joined')
             l == t.links
  <2>1. \A q \in B : q \in least => q \in less
    BY <1>5, <1>11 DEF Whole, less
  <2>2. \A q \in B : par2[q] = parent[q] /\ lead2[q] = thread_leader[q]
    BY <1>11
  <2>3. B \in SUBSET Proc /\ Rings(l, B, parent, thread_leader, less)
    BY <1>4, <1>10
  <2> HIDE DEF par2, lead2, least, l
  <2>4. Rings(l, B, par2, lead2, least)
    BY ONLY <2>1, <2>2, <2>3, RingsFields
  <2> QED
    BY <1>5, <2>4 DEF par2, lead2, least, l
<1>17. (\A q \in Proc : at[q] = "join" => q \notin joined)'
  BY <1>5 DEF IInv
<1>18. OnQueue(live', state', queued')
  BY <1>5, <1>11, <1>8 DEF OnQueue
<1> QED
  BY <1>9, <1>13, <1>14, <1>15, <1>16, <1>17, <1>18 DEF IInv

------------------------------------------------------------------------------
\* Every step.

LEMMA NextKeeps ==
  ASSUME IInv, Situations = {}, [Next]_vars
  PROVE  IInv'
<1>1. CASE trapClock
  BY <1>1, ClockKeeps
<1>2. ASSUME NEW p \in Proc, NEW ticks \in Delays, delayProcess(p, ticks)
      PROVE  IInv'
  BY <1>2, DelayKeeps
<1>3. ASSUME NEW p \in Proc, putProcessToSleep(p)
      PROVE  IInv'
  BY <1>3, SleepKeeps
<1>4. ASSUME NEW p \in Proc, wakeUpProcess(p)
      PROVE  IInv'
  BY <1>4, WakeKeeps
<1>5. ASSUME NEW p \in Proc, forkProcess(p)
      PROVE  IInv'
  BY <1>5, ForkKeeps
<1>6. ASSUME NEW p \in Proc, createThread(p)
      PROVE  IInv'
  BY <1>6, ThreadKeeps
<1>7. ASSUME NEW p \in Proc, waitForPID(p) \/ waitForPIDPolls(p)
      PROVE  IInv'
  <2>1. current = p /\ WaitLoop(p)
    BY <1>7 DEF waitForPID, waitForPIDPolls, Runs
  <2> QED
    BY <2>1, WaitKeeps
<1>8. ASSUME NEW p \in Proc, NEW t \in Proc \cup {NoProc}, joinThread(p, t)
      PROVE  IInv'
  <2>1. current = p /\ p \notin joined /\ JoinLoop(p, t)
    BY <1>8 DEF joinThread, Runs, MayUseThreads
  <2> QED
    BY <2>1, JoinKeeps
<1>9. ASSUME NEW p \in Proc, joinThreadPolls(p)
      PROVE  IInv'
  <2>1. current = p /\ at[p] = "join" /\ JoinLoop(p, want[p])
    BY <1>9 DEF joinThreadPolls, Runs
  <2>2. p \notin joined /\ want[p] \in Proc \cup {NoProc}
    BY <2>1 DEF IInv, TypeOK
  <2> QED
    BY <2>1, <2>2, JoinKeeps
<1>10. ASSUME NEW p \in Proc, killProcess(p)
       PROVE  IInv'
  BY <1>10, KillKeeps
<1>11. CASE UNCHANGED vars
  <2>1. /\ live' = live /\ links' = links /\ parent' = parent
        /\ thread_leader' = thread_leader /\ state' = state /\ left' = left
        /\ at' = at /\ want' = want /\ current' = current /\ kernel' = kernel
        /\ joined' = joined /\ queued' = queued
    BY <1>11 DEF vars, tree, calls
  <2>2. TypeOK' /\ CurrentRuns' /\ kernel' = "up"
    BY <2>1 DEF IInv, TypeOK, CurrentRuns
  <2>3. (\A p \in Proc : at[p] = "join" => p \notin joined)'
    BY <2>1 DEF IInv
  <2>4. /\ InitAwake(live', parent', thread_leader', state', left')
        /\ Family(live', parent', thread_leader', state')
        /\ Rings(links', live', parent', thread_leader', Whole(state', joined'))
    BY <2>1 DEF IInv
  <2>5. OnQueue(live', state', queued')
    BY <2>1 DEF IInv
  <2> QED
    BY <2>2, <2>3, <2>4, <2>5 DEF IInv
<1> QED
  BY <1>1, <1>2, <1>3, <1>4, <1>5, <1>6, <1>7, <1>8, <1>9, <1>10, <1>11 DEF Next

\* The links describe the fields after every call, exit and interrupt: what the
\* other theorems follow from.
THEOREM Invariance ==
  ASSUME Situations = {}
  PROVE  Spec => []IInv
<1>1. Init => IInv
  BY InitInv
<1>2. IInv /\ [Next]_vars => IInv'
  BY NextKeeps
<1> QED
  BY <1>1, <1>2, PTL DEF Spec

------------------------------------------------------------------------------
\* What follows from it.

\* The type invariant: every field of every descriptor keeps the values of its
\* declaration in process.h.
THEOREM TypeCorrect ==
  ASSUME Situations = {}
  PROVE  Spec => []TypeOK
<1>1. IInv => TypeOK
  BY DEF IInv
<1> QED
  BY <1>1, Invariance, PTL

\* While programs stay out of the five situations (no leader exits before threads
\* of its that sleep, so a waitqueue never points to a freed descriptor), fork, exit,
\* Wait, Join, Delay, sleeping, waking and the clock, in any order, never lead the
\* kernel through a descriptor that was freed, nor bring a zombie back to life, and
\* schedule always finds somebody.
THEOREM KernelDefinedHolds ==
  ASSUME Situations = {}
  PROVE  Spec => []KernelDefined
<1>1. IInv => KernelDefined
  BY DEF IInv, KernelDefined
<1> QED
  BY <1>1, Invariance, PTL

\* schedule switches to processes that exist, are awake and not delayed.
THEOREM CurrentRunsHolds ==
  ASSUME Situations = {}
  PROVE  Spec => []CurrentRuns
<1>1. IInv => CurrentRuns
  BY DEF IInv
<1> QED
  BY <1>1, Invariance, PTL

\* A zombie child has a living parent other than init to collect it, a zombie thread
\* a living leader: killKernelContext keeps nobody's descriptor for ever.
THEOREM ZombiesCollectableHolds ==
  ASSUME Situations = {}
  PROVE  Spec => []ZombiesCollectable
<1>1. ASSUME IInv, NEW p \in live, state[p] = "zombie",
             NEW collector,
             collector = IF thread_leader[p] = NoProc THEN parent[p] ELSE thread_leader[p]
      PROVE  /\ collector \in live /\ state[collector] # "zombie"
             /\ thread_leader[p] = NoProc => collector # InitProc
  <2>1. Family(live, parent, thread_leader, state) /\ p # InitProc
    BY <1>1, ZombiesAlone DEF IInv
  <2>2. CASE thread_leader[p] = NoProc
    BY <1>1, <2>1, <2>2 DEF Family
  <2>3. CASE thread_leader[p] # NoProc
    BY <1>1, <2>1, <2>3 DEF Family
  <2> QED
    BY <2>2, <2>3
<1>2. IInv => ZombiesCollectable
  BY <1>1 DEF ZombiesCollectable
<1> QED
  BY <1>2, Invariance, PTL

\* A ring is a list with these members, in both directions.
LEMMA RingLists ==
  ASSUME NEW head, NEW B \in SUBSET Proc, NEW kind, Ring(links, head, Nodes(B, kind))
  PROVE  Lists(head, B)
<1> DEFINE most == Cardinality(Proc)
           forward == forEachNode(links.next, head, most)
           backward == forEachNode(links.prev, head, most)
<1>1. PICK k \in Nat : \E walk : WalkOf(links, head, B, kind, walk, k)
  BY RingWalk
<1>2. PICK walk : WalkOf(links, head, B, kind, walk, k)
  BY <1>1
<1>3. /\ walk \in [1..k -> B] /\ DOMAIN walk = 1..k
      /\ B = {walk[i] : i \in 1..k}
      /\ forEachElement(links, head) = walk
      /\ forward = [i \in 1..k |-> <<walk[i], kind>>]
      /\ backward = [i \in 1..k |-> <<walk[k + 1 - i], kind>>]
      /\ Ends(links.next, head, most) /\ Ends(links.prev, head, most)
  BY <1>2 DEF WalkOf
<1>4. Range(forEachElement(links, head)) = B
  BY <1>3 DEF Range
<1> HIDE DEF most, forward, backward
<1>5. Len(forward) = k /\ Len(backward) = k
  <2> DEFINE S == Proc \X {kind}
  <2>1. \A i \in 1..k : k + 1 - i \in 1..k
    OBVIOUS
  <2>2. \A i \in 1..k : <<walk[i], kind>> \in S /\ <<walk[k + 1 - i], kind>> \in S
    BY <1>3, <2>1
  <2> HIDE DEF S
  <2>3. forward \in [1..k -> S] /\ backward \in [1..k -> S]
    BY <1>3, <2>2
  <2>4. forward \in Seq(S) /\ backward \in Seq(S)
    BY <2>3
  <2> QED
    BY <2>3, <2>4
<1>6. ASSUME NEW i \in 1..k
      PROVE  backward[k + 1 - i] = forward[i]
  <2>1. k + 1 - i \in 1..k /\ k + 1 - (k + 1 - i) = i
    OBVIOUS
  <2> QED
    BY <1>3, <2>1
<1>7. /\ Len(backward) = Len(forward)
      /\ \A i \in 1..Len(forward) : backward[Len(forward) + 1 - i] = forward[i]
  BY <1>5, <1>6
<1> QED
  BY <1>3, <1>4, <1>7 DEF Lists, most, forward, backward

\* Every descriptor is on the list of all processes, on its parent's list and on
\* its leader's, once and in both directions, whatever insertNode, removeNode and
\* releaseProcess did to the nodes.
THEOREM ListsMatchHolds ==
  ASSUME Situations = {}
  PROVE  Spec => []ListsMatch
<1>1. ASSUME IInv
      PROVE  ListsMatch
  <2>1. Rings(links, live, parent, thread_leader, Whole(state, joined)) /\ live \in SUBSET Proc
    BY <1>1 DEF IInv, TypeOK
  <2>2. Lists(process_head, live)
    <3>1. Ring(links, process_head, Nodes(live, "process_list"))
      BY <2>1, NodesOf DEF Rings
    <3> QED
      BY <2>1, <3>1, RingLists
  <2>3. ASSUME NEW p \in live
        PROVE  Lists(children(p), {c \in live : parent[c] = p})
    <3> DEFINE B == {c \in live : parent[c] = p}
    <3>1. Ring(links, children(p), Nodes(B, "siblings"))
      BY <2>1, NodesOf DEF Rings
    <3>2. B \in SUBSET Proc
      BY <2>1
    <3> HIDE DEF B
    <3>3. Lists(children(p), B)
      BY <3>1, <3>2, RingLists
    <3> QED
      BY <3>3 DEF B
  <2>4. ASSUME NEW p \in live, p \notin joined, state[p] # "zombie"
        PROVE  Lists(thread_group(p), Threads(p))
    <3>1. p \in Whole(state, joined)
      BY <2>1, <2>4 DEF Whole
    <3>2. Ring(links, thread_group(p), Nodes(Threads(p), "thread_peers"))
      BY <2>1, <3>1, NodesOf DEF Rings, Threads
    <3>3. Threads(p) \in SUBSET Proc
      BY <2>1 DEF Threads
    <3> QED
      BY <3>2, <3>3, RingLists
  <2> QED
    BY <2>2, <2>3, <2>4 DEF ListsMatch
<1>2. IInv => ListsMatch
  BY <1>1
<1> QED
  BY <1>2, Invariance, PTL

\* Only Wait, Join and exit release descriptors, and who is let go unread had
\* init for a parent.
LEMMA StepKeepsStatus ==
  ASSUME IInv, Situations = {}, Next, NEW q \in live, thread_leader[q] = NoProc,
         parent[q] # InitProc, q \notin live'
  PROVE  state[q] = "zombie" /\ current = parent[q]
<1> USE DEF tree
<1>1. CASE trapClock
  BY <1>1 DEF trapClock
<1>2. ASSUME NEW p \in Proc, NEW ticks \in Delays, delayProcess(p, ticks) PROVE FALSE
  BY <1>2 DEF delayProcess
<1>3. ASSUME NEW p \in Proc, putProcessToSleep(p) \/ wakeUpProcess(p) PROVE FALSE
  BY <1>3 DEF putProcessToSleep, wakeUpProcess
<1>4. ASSUME NEW p \in Proc, forkProcess(p) \/ createThread(p) PROVE FALSE
  <2>1. \E c \in Malloc(Proc \ live) : live' = live \cup {c}
    BY <1>4 DEF forkProcess, createThread, NewDescriptor
  <2> QED
    BY <2>1
<1>5. ASSUME NEW p \in live, NEW c \in live, Collect(p, c)
      PROVE  q = c
  <2>1. live' = live \ {c}
    BY <1>5 DEF Collect, Forget, releaseProcess, Now
  <2> QED
    BY <2>1
<1>6. ASSUME NEW p \in live, waitForPID(p) \/ waitForPIDPolls(p)
      PROVE  state[q] = "zombie" /\ current = parent[q]
  <2>1. current = p /\ WaitLoop(p)
    BY <1>6 DEF waitForPID, waitForPIDPolls, Runs
  <2>2. CASE Poll(p, "wait", NoProc)
    BY <2>2 DEF Poll
  <2>3. ASSUME NEW c \in live, parent[c] = p, state[c] = "zombie", Collect(p, c)
        PROVE  state[q] = "zombie" /\ current = parent[q]
    BY <1>5, <2>1, <2>3
  <2> QED
    BY <2>1, <2>2, <2>3, WaitTakes
<1>7. ASSUME NEW p \in live, NEW t, current = p, p \notin joined, JoinLoop(p, t) PROVE FALSE
  <2>1. p \in Whole(state, joined)
    BY <1>7 DEF IInv, TypeOK, CurrentRuns, Whole
  <2>2. CASE Poll(p, "join", t)
    BY <2>2 DEF Poll
  <2>3. ASSUME t \in live, thread_leader[t] = p, Collect(p, t) PROVE FALSE
    <3>1. p # NoProc
      BY ProcessAssumption DEF IInv, TypeOK
    <3> QED
      BY <1>5, <2>3, <3>1
  <2> QED
    BY <1>7, <2>1, <2>2, <2>3, JoinTakes
<1>8. ASSUME NEW p \in live, NEW t \in Proc \cup {NoProc}, joinThread(p, t) PROVE FALSE
  <2>1. current = p /\ p \notin joined /\ JoinLoop(p, t)
    BY <1>8 DEF joinThread, Runs, MayUseThreads
  <2> QED
    BY <1>7, <2>1
<1>9. ASSUME NEW p \in live, joinThreadPolls(p) PROVE FALSE
  <2>1. current = p /\ at[p] = "join" /\ JoinLoop(p, want[p])
    BY <1>9 DEF joinThreadPolls, Runs
  <2>2. p \notin joined
    BY <2>1 DEF IInv, TypeOK
  <2> QED
    BY <1>7, <2>1, <2>2
<1>10. ASSUME NEW p \in live, killProcess(p)
       PROVE  state[q] = "zombie" /\ current = parent[q]
  <2>1. current = p /\ MayExit(p) /\ p \in Proc
    BY <1>10 DEF killProcess, Runs, IInv, TypeOK
  <2>2. PICK t : Survivors(p, t)
    BY <1>10, <2>1, KillTakes
  <2>3. q \in Released(p)
    BY <2>2 DEF Survivors, Kept, Forget
  <2>4. p # NoProc
    BY <2>1, ProcessAssumption
  <2>5. parent[q] = p
    BY <2>3, <2>4 DEF Released
  <2>6. \A c \in live : parent[c] = p => state[c] = "zombie"
    BY <2>1, ExitAlone
  <2> QED
    BY <2>1, <2>5, <2>6
<1>11. ASSUME NEW p \in Proc, Runs(p, "user") \/ Runs(p, "wait") \/ Runs(p, "join")
       PROVE  p \in live
  BY <1>11 DEF Runs, IInv, CurrentRuns
<1>12. \A p \in Proc : (\/ waitForPID(p) \/ waitForPIDPolls(p) \/ joinThreadPolls(p)
                        \/ killProcess(p) \/ \E t \in Proc \cup {NoProc} : joinThread(p, t))
                       => p \in live
  BY <1>11 DEF waitForPID, waitForPIDPolls, joinThreadPolls, killProcess, joinThread
<1> QED
  BY <1>1, <1>2, <1>3, <1>4, <1>6, <1>8, <1>9, <1>10, <1>12 DEF Next

\* The exit status of a process is there until its parent takes it by Wait or by
\* exiting; killKernelContext lets go of the children of init only.
THEOREM StatusKeptHolds ==
  ASSUME Situations = {}
  PROVE  Spec => StatusKept
<1>1. IInv /\ [Next]_vars =>
        [\A p \in live :
           thread_leader[p] = NoProc /\ parent[p] # InitProc /\ p \notin live'
             => state[p] = "zombie" /\ current = parent[p]]_vars
  BY StepKeepsStatus
<1> QED
  BY <1>1, Invariance, PTL DEF Spec, StatusKept
==============================================================================
