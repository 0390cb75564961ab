--------------------------- MODULE FrameListProofs ----------------------------
(***************************************************************************)
(* Proofs about FrameList for any size of memory and of the kernel, any    *)
(* number of users of a frame and any breaks: the list of free frames is   *)
(* whole, no frame is lost or used twice, and the allocator implements     *)
(* FramePool.                                                              *)
(***************************************************************************)
EXTENDS FrameList, ListProofs

------------------------------------------------------------------------------
\* Lists.

GrowRule == INSTANCE RoundsProofs WITH Round <- growPage
ShrinkRule == INSTANCE RoundsProofs WITH Round <- shrinkPage

\* nodes link the k frames of list, in order, in both directions.
IsList(nodes, list, k) ==
  /\ \A i, j \in 1..k : list[i] = list[j] => i = j
  /\ nodes.next[frame_head] = IF k = 0 THEN frame_head ELSE list[1]
  /\ \A i \in 1..k :
       /\ nodes.next[list[i]] = IF i = k THEN frame_head ELSE list[i + 1]
       /\ nodes.prev[list[i]] = IF i = 1 THEN frame_head ELSE list[i - 1]

\* A list has no more frames than there are.
LEMMA ListShort ==
  ASSUME NEW nodes, NEW k \in Nat, NEW list \in [1..k -> Frame], IsList(nodes, list, k)
  PROVE  k <= MaxPmem
<1>1. 1 \in Int /\ k \in Int /\ 0 \in Int /\ MaxPmem - 1 \in Int /\ MaxPmem \in Nat
  BY FrameListAssumption
<1>2. IsFiniteSet(Frame) /\ Cardinality(Frame) = MaxPmem
  <2>1. /\ IsFiniteSet(0..MaxPmem-1)
        /\ Cardinality(0..MaxPmem-1) = IF 0 > MaxPmem - 1 THEN 0 ELSE MaxPmem - 1 - 0 + 1
    BY <1>1, FS_Interval
  <2> QED
    BY <1>1, <2>1 DEF Frame
<1>3. Cardinality(1..k) = k
  <2>1. Cardinality(1..k) = IF 1 > k THEN 0 ELSE k - 1 + 1
    BY <1>1, FS_Interval
  <2> QED
    BY <2>1
<1>4. list \in Injection(1..k, Frame)
  BY DEF IsList, Injection, IsInjective
<1>5. Cardinality(1..k) <= Cardinality(Frame)
  BY <1>2, <1>4, FS_Injection
<1> QED
  BY <1>2, <1>3, <1>5

\* A walk from frame_head meets the frames of the list and comes back.
LEMMA WalkList ==
  ASSUME NEW nodes, NEW k \in Nat, NEW list \in [1..k -> Frame], IsList(nodes, list, k)
  PROVE  /\ Follow(nodes.next, frame_head)[0] = frame_head
         /\ \A n \in 1..k : Follow(nodes.next, frame_head)[n] = list[n]
         /\ Follow(nodes.next, frame_head)[k + 1] = frame_head
<1> DEFINE nth == Follow(nodes.next, frame_head)
           bad == {n \in 1..k : nth[n] # list[n]}
<1> DEFINE link == nodes.next
<1> HIDE DEF link
<1>1. nth[0] = frame_head /\ \A n \in Nat : nth[n + 1] = nodes.next[nth[n]]
  <2>1. Follow(link, frame_head)[0] = frame_head
    BY FollowSteps
  <2>2. \A n \in Nat : Follow(link, frame_head)[n + 1] = link[Follow(link, frame_head)[n]]
    BY FollowSteps
  <2> QED
    BY <2>1, <2>2 DEF link
<1> HIDE DEF nth
<1>2. bad = {}
  <2> SUFFICES ASSUME bad # {} PROVE FALSE
    OBVIOUS
  <2>1. PICK n \in bad : \A m \in bad : n <= m
    <3>1. bad \in SUBSET Nat
      OBVIOUS
    <3> QED
      BY <3>1, Walk!Least
  <2>2. CASE n = 1
    <3>1. nth[0 + 1] = nodes.next[frame_head]
      BY <1>1
    <3> QED
      BY <2>1, <2>2, <3>1 DEF IsList
  <2>3. CASE n # 1
    <3>1. /\ n - 1 \in 1..k /\ n - 1 \in Nat /\ n - 1 # k
          /\ n - 1 \notin bad /\ (n - 1) + 1 = n
      BY <2>1, <2>3
    <3>2. nth[n - 1] = list[n - 1]
      BY <3>1
    <3>3. nth[n] = nodes.next[list[n - 1]]
      BY <1>1, <3>1, <3>2
    <3>4. nodes.next[list[n - 1]] = list[n]
      BY <3>1 DEF IsList
    <3> QED
      BY <2>1, <3>3, <3>4
  <2> QED
    BY <2>2, <2>3
<1>3. nth[k + 1] = frame_head
  <2>1. nth[k + 1] = nodes.next[nth[k]]
    BY <1>1
  <2>2. CASE k = 0
    BY <1>1, <2>1, <2>2 DEF IsList
  <2>3. CASE k # 0
    <3>1. k \in 1..k
      BY <2>3
    <3> QED
      BY <1>2, <2>1, <3>1 DEF IsList
  <2> QED
    BY <2>2, <2>3
<1> QED
  BY <1>1, <1>2, <1>3 DEF nth

\* frame_head is not a frame.
LEMMA HeadNoFrame ==
  /\ frame_head \notin Frame /\ Data \notin Frame /\ Invalid \notin Frame
  /\ Data # frame_head /\ frame_head \in Node /\ Frame \subseteq Node
BY FrameListAssumption DEF frame_head, Data, Invalid, Frame, Node

\* forEachNode visits the frames of the list, in order.
LEMMA ForEachList ==
  ASSUME NEW nodes, NEW k \in Nat, NEW list \in [1..k -> Frame], IsList(nodes, list, k)
  PROVE  /\ Ends(nodes.next, frame_head, MaxPmem)
         /\ forEachNode(nodes.next, frame_head, MaxPmem) = list
<1> DEFINE nth == Follow(nodes.next, frame_head)
           isLast(n) == nth[n + 1] = frame_head /\ \A m \in 1..n : nth[m] # frame_head
<1>1. k <= MaxPmem /\ MaxPmem \in Nat
  BY ListShort, FrameListAssumption
<1>2. /\ \A n \in 1..k : nth[n] = list[n]
      /\ nth[k + 1] = frame_head
  BY WalkList
<1>3. \A n \in 1..k : nth[n] # frame_head
  BY <1>2, HeadNoFrame
<1>4. Ends(nodes.next, frame_head, MaxPmem)
  <2>1. k + 1 \in 1..MaxPmem+1
    BY <1>1
  <2> QED
    BY <1>2, <2>1 DEF Ends
<1> HIDE DEF nth
<1>5. \A n \in 0..MaxPmem : isLast(n) <=> n = k
  <2> SUFFICES ASSUME NEW n \in 0..MaxPmem, isLast(n) PROVE n = k
    BY <1>2, <1>3
  <2>1. CASE n < k
    <3>1. n + 1 \in 1..k
      BY <2>1
    <3> QED
      BY <1>3, <3>1
  <2>2. CASE n > k
    <3>1. k + 1 \in 1..n
      BY <2>2
    <3> QED
      BY <1>2, <3>1
  <2> QED
    BY <2>1, <2>2
<1>6. (CHOOSE n \in 0..MaxPmem : isLast(n)) = k
  <2>1. k \in 0..MaxPmem /\ isLast(k)
    BY <1>1, <1>5
  <2> HIDE DEF isLast
  <2> QED
    BY <1>5, <2>1
<1>7. forEachNode(nodes.next, frame_head, MaxPmem) = [i \in 1..k |-> nth[i]]
  BY <1>6 DEF forEachNode, nth
<1>8. [i \in 1..k |-> nth[i]] = list
  BY <1>2
<1> QED
  BY <1>4, <1>7, <1>8

------------------------------------------------------------------------------
\* The allocator.

Links == [next : [Node -> Node \cup {Data}], prev : [Node -> Node \cup {Data}]]

\* allocatePageFrame takes the first frame off the list.
LEMMA AllocateList ==
  ASSUME NEW t, t.links \in Links, NEW k \in Nat, NEW list \in [1..k -> Frame],
         IsList(t.links, list, k), Available(t)
  PROVE  LET s    == allocatePageFrame(t)
             rest == [i \in 1..k-1 |-> list[i + 1]]
         IN /\ k > 0 /\ k - 1 \in Nat
            /\ FirstFrame(t) = list[1] /\ list[1] \in Frame
            /\ rest \in [1..k-1 -> Frame]
            /\ s.links \in Links
            /\ IsList(s.links, rest, k - 1)
<1> DEFINE frame  == list[1]
           second == t.links.next[frame]
           nodes  == IF second = frame_head
                       THEN linkedListNodeInit(t.links, {frame_head})
                       ELSE [t.links EXCEPT !.next[frame_head] = second,
                                            !.prev[second] = frame_head]
           rest   == [i \in 1..k-1 |-> list[i + 1]]
<1>1. k > 0 /\ k - 1 \in Nat /\ 1 \in 1..k /\ frame \in Frame /\ FirstFrame(t) = frame
  BY DEF Available, FirstFrame, IsList
<1>2. rest \in [1..k-1 -> Frame]
  <2>1. \A i \in 1..k-1 : i + 1 \in 1..k
    BY <1>1
  <2> QED
    BY <2>1
<1>3. /\ second = IF k = 1 THEN frame_head ELSE list[2]
      /\ second \in Node
      /\ \A i \in 2..k : list[i] # frame /\ list[i] \in Frame
  <2>1. k # 1 => 2 \in 1..k
    BY <1>1
  <2>2. \A i \in 2..k : i \in 1..k /\ i # 1
    OBVIOUS
  <2> QED
    BY <1>1, <2>1, <2>2, HeadNoFrame DEF IsList
<1>4. /\ nodes \in Links
      /\ nodes.next[frame_head] = second
      /\ \A f \in Frame : nodes.next[f] = t.links.next[f]
      /\ k # 1 => nodes.prev[list[2]] = frame_head
      /\ \A f \in Frame : (k # 1 => f # list[2]) => nodes.prev[f] = t.links.prev[f]
  <2>1. CASE k = 1
    BY <1>3, <2>1, HeadNoFrame DEF linkedListNodeInit, Links
  <2>2. CASE k # 1
    <3>1. 2 \in 2..k
      BY <1>1, <2>2
    <3>2. second = list[2] /\ second \in Frame /\ second # frame_head
      BY <1>3, <2>2, <3>1, HeadNoFrame
    <3> QED
      BY <2>2, <3>2, HeadNoFrame DEF Links
  <2> QED
    BY <2>1, <2>2
<1>5. allocatePageFrame(t).links = Overwritten(nodes, frame)
  BY <1>1 DEF allocatePageFrame
<1> HIDE DEF nodes
<1>6. /\ Overwritten(nodes, frame) \in Links
      /\ Overwritten(nodes, frame).next[frame_head] = second
      /\ \A f \in Frame \ {frame} :
           /\ Overwritten(nodes, frame).next[f] = t.links.next[f]
           /\ Overwritten(nodes, frame).prev[f] = nodes.prev[f]
  BY <1>1, <1>4, HeadNoFrame DEF Overwritten, Links
<1> DEFINE new == Overwritten(nodes, frame)
<1> HIDE DEF new, frame, second
<1>7. IsList(new, rest, k - 1)
  <2>1. ASSUME NEW i \in 1..k-1
        PROVE  /\ i + 1 \in 1..k /\ i + 1 \in 2..k /\ rest[i] = list[i + 1]
               /\ rest[i] \in Frame \ {frame}
    BY <1>1, <1>3
  <2>2. \A i, j \in 1..k-1 : rest[i] = rest[j] => i = j
    <3> SUFFICES ASSUME NEW i \in 1..k-1, NEW j \in 1..k-1, rest[i] = rest[j]
                 PROVE  i = j
      OBVIOUS
    <3>1. i + 1 \in 1..k /\ j + 1 \in 1..k /\ list[i + 1] = list[j + 1]
      BY <2>1
    <3>2. i + 1 = j + 1
      BY <3>1 DEF IsList
    <3> QED
      BY <3>2
  <2>3. new.next[frame_head] = IF k - 1 = 0 THEN frame_head ELSE rest[1]
    <3>1. CASE k = 1
      BY <1>3, <1>6, <3>1 DEF new
    <3>2. CASE k # 1
      <4>1. 1 \in 1..k-1 /\ rest[1] = list[2]
        BY <1>1, <3>2
      <4> QED
        BY <1>1, <1>3, <1>6, <3>2, <4>1 DEF new
    <3> QED
      BY <3>1, <3>2
  <2>4. ASSUME NEW i \in 1..k-1
        PROVE  new.next[rest[i]] = IF i = k - 1 THEN frame_head ELSE rest[i + 1]
    <3>1. new.next[rest[i]] = t.links.next[list[i + 1]]
      BY <1>6, <2>1 DEF new
    <3>2. i + 1 \in 1..k
      BY <2>1
    <3>3. t.links.next[list[i + 1]] = IF i + 1 = k THEN frame_head ELSE list[i + 1 + 1]
      BY <3>2 DEF IsList
    <3>4. i + 1 # k => i + 1 \in 1..k-1
      BY <3>2
    <3>5. i + 1 # k => rest[i + 1] = list[i + 1 + 1]
      BY <3>4
    <3> HIDE DEF rest
    <3> QED
      BY <1>1, <3>1, <3>3, <3>5
  <2>5. ASSUME NEW i \in 1..k-1
        PROVE  new.prev[rest[i]] = IF i = 1 THEN frame_head ELSE rest[i - 1]
    <3>1. new.prev[rest[i]] = nodes.prev[list[i + 1]]
      BY <1>6, <2>1 DEF new
    <3>2. CASE i = 1
      <4>1. k # 1 /\ list[i + 1] = list[2]
        BY <3>2
      <4> QED
        BY <1>4, <3>1, <3>2, <4>1
    <3>3. CASE i # 1
      <4>1. i + 1 \in 1..k /\ i + 1 # 2 /\ i + 1 # 1 /\ 2 \in 1..k
        BY <3>3
      <4>2. list[i + 1] # list[2] /\ list[i + 1] \in Frame
        BY <4>1 DEF IsList
      <4>3. nodes.prev[list[i + 1]] = t.links.prev[list[i + 1]]
        BY <1>4, <4>2
      <4>4. t.links.prev[list[i + 1]] = list[i + 1 - 1]
        BY <4>1 DEF IsList
      <4>5. i - 1 \in 1..k-1 /\ i - 1 + 1 = i /\ i + 1 - 1 = i
        BY <3>3
      <4>6. rest[i - 1] = list[i]
        BY <4>5
      <4> QED
        BY <3>1, <3>3, <4>3, <4>4, <4>5, <4>6
    <3> QED
      BY <3>2, <3>3
  <2> HIDE DEF rest
  <2> QED
    BY <2>2, <2>3, <2>4, <2>5 DEF IsList
<1> QED
  BY <1>1, <1>2, <1>5, <1>6, <1>7 DEF new, frame

\* freePageFrame puts a frame before the first of the list.
LEMMA LinkList ==
  ASSUME NEW nodes \in Links, NEW k \in Nat, NEW list \in [1..k -> Frame],
         IsList(nodes, list, k), NEW frame \in Frame, \A i \in 1..k : list[i] # frame
  PROVE  LET longer == [i \in 1..k+1 |-> IF i = 1 THEN frame ELSE list[i - 1]]
         IN /\ longer \in [1..k+1 -> Frame]
            /\ Linked(nodes, frame) \in Links
            /\ IsList(Linked(nodes, frame), longer, k + 1)
<1> DEFINE longer == [i \in 1..k+1 |-> IF i = 1 THEN frame ELSE list[i - 1]]
           first  == nodes.next[frame_head]
           new    == Linked(nodes, frame)
<1>1. /\ first = IF k = 0 THEN frame_head ELSE list[1]
      /\ first \in Node /\ first # frame
      /\ k # 0 => 1 \in 1..k
  BY HeadNoFrame DEF IsList
<1>2. /\ new \in Links
      /\ new.next[frame_head] = frame /\ new.next[frame] = first
      /\ \A f \in Frame \ {frame} : new.next[f] = nodes.next[f]
      /\ new.prev[frame] = frame_head
      /\ k # 0 => new.prev[list[1]] = frame
      /\ \A f \in Frame \ {frame} :
           (k # 0 => f # list[1]) => new.prev[f] = nodes.prev[f]
  <2> HIDE DEF first
  <2>1. new = [nodes EXCEPT
                 !.next = [@ EXCEPT ![frame_head] = frame, ![frame] = first],
                 !.prev = [@ EXCEPT ![frame] = frame_head, ![first] = frame]]
    BY DEF Linked, first
  <2>2. /\ nodes.next \in [Node -> Node \cup {Data}]
        /\ nodes.prev \in [Node -> Node \cup {Data}]
        /\ frame_head \in Node /\ frame \in Node /\ frame # frame_head
    BY HeadNoFrame DEF Links
  <2>3. /\ new.next = [nodes.next EXCEPT ![frame_head] = frame, ![frame] = first]
        /\ new.prev = [nodes.prev EXCEPT ![frame] = frame_head, ![first] = frame]
        /\ new = [next |-> new.next, prev |-> new.prev]
    BY <2>1 DEF Links
  <2> HIDE DEF new
  <2>4. /\ new.next \in [Node -> Node \cup {Data}]
        /\ new.prev \in [Node -> Node \cup {Data}]
    BY <1>1, <2>2, <2>3
  <2>5. new \in Links
    BY <2>3, <2>4 DEF Links
  <2>6. /\ new.next[frame_head] = frame /\ new.next[frame] = first
        /\ \A f \in Frame \ {frame} : new.next[f] = nodes.next[f]
    BY <2>2, <2>3, HeadNoFrame
  <2>7. /\ new.prev[frame] = frame_head
        /\ k # 0 => new.prev[list[1]] = frame
        /\ \A f \in Frame \ {frame} :
             (k # 0 => f # list[1]) => new.prev[f] = nodes.prev[f]
    BY <1>1, <2>2, <2>3, HeadNoFrame
  <2> QED
    BY <2>5, <2>6, <2>7
<1> HIDE DEF new, first
<1>3. ASSUME NEW i \in 1..k+1
      PROVE  /\ longer[i] = IF i = 1 THEN frame ELSE list[i - 1]
             /\ i # 1 => /\ i - 1 \in 1..k
                         /\ list[i - 1] \in Frame \ {frame}
  <2>1. i # 1 => i - 1 \in 1..k
    OBVIOUS
  <2> QED
    BY <2>1
<1>4. longer \in [1..k+1 -> Frame]
  BY <1>3
<1> HIDE DEF longer
<1>5. \A i, j \in 1..k+1 : longer[i] = longer[j] => i = j
  <2> SUFFICES ASSUME NEW i \in 1..k+1, NEW j \in 1..k+1, longer[i] = longer[j]
               PROVE  i = j
    OBVIOUS
  <2>1. CASE i = 1 \/ j = 1
    BY <1>3, <2>1
  <2>2. CASE i # 1 /\ j # 1
    <3>1. i - 1 \in 1..k /\ j - 1 \in 1..k /\ list[i - 1] = list[j - 1]
      BY <1>3, <2>2
    <3>2. i - 1 = j - 1
      BY <3>1 DEF IsList
    <3> QED
      BY <3>2
  <2> QED
    BY <2>1, <2>2
<1>6. new.next[frame_head] = IF k + 1 = 0 THEN frame_head ELSE longer[1]
  <2>1. 1 \in 1..k+1 /\ k + 1 # 0
    OBVIOUS
  <2> QED
    BY <1>2, <1>3, <2>1
<1>7. ASSUME NEW i \in 1..k+1
      PROVE  new.next[longer[i]] = IF i = k + 1 THEN frame_head ELSE longer[i + 1]
  <2>1. i # k + 1 => /\ i + 1 \in 1..k+1 /\ i + 1 # 1 /\ (i + 1) - 1 = i
                     /\ longer[i + 1] = list[i]
    <3>1. i # k + 1 => i + 1 \in 1..k+1 /\ i + 1 # 1 /\ (i + 1) - 1 = i
      OBVIOUS
    <3> QED
      BY <1>3, <3>1
  <2>2. CASE i = 1
    BY <1>1, <1>2, <1>3, <2>1, <2>2
  <2>3. CASE i # 1
    <3>1. i - 1 \in 1..k /\ (i - 1) + 1 = i
      BY <2>3
    <3>2. nodes.next[list[i - 1]] = IF i - 1 = k THEN frame_head ELSE list[i - 1 + 1]
      BY <3>1 DEF IsList
    <3> QED
      BY <1>2, <1>3, <2>1, <2>3, <3>1, <3>2
  <2> QED
    BY <2>2, <2>3
<1>8. ASSUME NEW i \in 1..k+1
      PROVE  new.prev[longer[i]] = IF i = 1 THEN frame_head ELSE longer[i - 1]
  <2>1. CASE i = 1
    BY <1>2, <1>3, <2>1
  <2>2. CASE i = 2
    <3>1. i - 1 = 1 /\ 1 \in 1..k+1 /\ k # 0 /\ i # 1
      BY <2>2
    <3> QED
      BY <1>2, <1>3, <3>1
  <2>3. CASE i # 1 /\ i # 2
    <3>1. /\ i - 1 \in 1..k /\ i - 1 # 1 /\ i - 1 - 1 \in 1..k
          /\ i - 1 \in 1..k+1 /\ 1 \in 1..k
      BY <2>3
    <3>2. nodes.prev[list[i - 1]] = list[i - 1 - 1]
      BY <3>1 DEF IsList
    <3>3. list[i - 1] # list[1]
      BY <3>1 DEF IsList
    <3>4. longer[i] = list[i - 1] /\ list[i - 1] \in Frame \ {frame}
      BY <1>3, <2>3
    <3>5. longer[i - 1] = list[i - 1 - 1]
      BY <1>3, <3>1
    <3> QED
      BY <1>2, <2>3, <3>2, <3>3, <3>4, <3>5
  <2> QED
    BY <2>1, <2>2, <2>3
<1> QED
  BY <1>2, <1>4, <1>5, <1>6, <1>7, <1>8 DEF IsList, longer, new

\* The list of nodes runs through the frames of F, each once.
RunsThrough(nodes, F) ==
  \E k \in Nat : \E list \in [1..k -> Frame] :
    IsList(nodes, list, k) /\ F = {list[i] : i \in 1..k}

\* The walk of the properties visits the frames of F.
LEMMA RunsThroughWalk ==
  ASSUME NEW nodes, NEW F, RunsThrough(nodes, F),
         NEW visited, visited = forEachNode(nodes.next, frame_head, MaxPmem)
  PROVE  /\ Ends(nodes.next, frame_head, MaxPmem)
         /\ F \subseteq Frame
         /\ Range(visited) = F
         /\ \A i \in DOMAIN visited :
              /\ visited[i] \in F
              /\ nodes.prev[visited[i]] = IF i = 1 THEN frame_head ELSE visited[i - 1]
<1>a. PICK k \in Nat : \E list \in [1..k -> Frame] :
        IsList(nodes, list, k) /\ F = {list[i] : i \in 1..k}
  BY DEF RunsThrough
<1>1. PICK list \in [1..k -> Frame] :
        IsList(nodes, list, k) /\ F = {list[i] : i \in 1..k}
  BY <1>a
<1>2. /\ Ends(nodes.next, frame_head, MaxPmem)
      /\ visited = list
  BY <1>1, ForEachList
<1>3. Range(list) = F /\ F \subseteq Frame /\ DOMAIN list = 1..k
  BY <1>1 DEF Range
<1> QED
  BY <1>1, <1>2, <1>3 DEF IsList

\* allocatePageFrame returns a frame of the list and leaves the others on it.
LEMMA AllocateRunsThrough ==
  ASSUME NEW t, t.links \in Links, NEW F, RunsThrough(t.links, F), Available(t)
  PROVE  /\ FirstFrame(t) \in F /\ F \subseteq Frame
         /\ allocatePageFrame(t).links \in Links
         /\ RunsThrough(allocatePageFrame(t).links, F \ {FirstFrame(t)})
<1>a. PICK k \in Nat : \E list \in [1..k -> Frame] :
        IsList(t.links, list, k) /\ F = {list[i] : i \in 1..k}
  BY DEF RunsThrough
<1>1. PICK list \in [1..k -> Frame] :
        IsList(t.links, list, k) /\ F = {list[i] : i \in 1..k}
  BY <1>a
<1> DEFINE rest == [i \in 1..k-1 |-> list[i + 1]]
<1>2. /\ k > 0 /\ k - 1 \in Nat
      /\ FirstFrame(t) = list[1]
      /\ rest \in [1..k-1 -> Frame]
      /\ allocatePageFrame(t).links \in Links
      /\ IsList(allocatePageFrame(t).links, rest, k - 1)
  BY <1>1, AllocateList
<1>3. F \ {list[1]} = {rest[i] : i \in 1..k-1}
  <2>1. ASSUME NEW i \in 1..k-1 PROVE rest[i] \in F \ {list[1]}
    <3>1. i + 1 \in 1..k /\ 1 \in 1..k /\ i + 1 # 1
      BY <1>2
    <3> QED
      BY <1>1, <3>1 DEF IsList
  <2>2. ASSUME NEW f \in F \ {list[1]} PROVE \E i \in 1..k-1 : f = rest[i]
    <3>1. PICK j \in 1..k : f = list[j]
      BY <1>1
    <3>2. j - 1 \in 1..k-1 /\ j - 1 + 1 = j
      BY <3>1
    <3> QED
      BY <3>1, <3>2
  <2> QED
    BY <2>1, <2>2
<1> HIDE DEF rest
<1>4. RunsThrough(allocatePageFrame(t).links, F \ {list[1]})
  BY <1>2, <1>3 DEF RunsThrough
<1>5. list[1] \in F /\ F \subseteq Frame
  BY <1>1, <1>2
<1> QED
  BY <1>2, <1>4, <1>5

\* freePageFrame adds its frame to those of the list.
LEMMA LinkRunsThrough ==
  ASSUME NEW nodes \in Links, NEW F, RunsThrough(nodes, F), NEW frame \in Frame \ F
  PROVE  /\ Linked(nodes, frame) \in Links
         /\ RunsThrough(Linked(nodes, frame), F \cup {frame})
<1>a. PICK k \in Nat : \E list \in [1..k -> Frame] :
        IsList(nodes, list, k) /\ F = {list[i] : i \in 1..k}
  BY DEF RunsThrough
<1>1. PICK list \in [1..k -> Frame] :
        IsList(nodes, list, k) /\ F = {list[i] : i \in 1..k}
  BY <1>a
<1> DEFINE longer == [i \in 1..k+1 |-> IF i = 1 THEN frame ELSE list[i - 1]]
<1>2. /\ longer \in [1..k+1 -> Frame]
      /\ Linked(nodes, frame) \in Links
      /\ IsList(Linked(nodes, frame), longer, k + 1)
  <2>1. \A i \in 1..k : list[i] # frame
    BY <1>1
  <2> QED
    BY <1>1, <2>1, LinkList
<1>3. F \cup {frame} = {longer[i] : i \in 1..k+1}
  <2>1. ASSUME NEW i \in 1..k+1 PROVE longer[i] \in F \cup {frame}
    <3>1. i # 1 => i - 1 \in 1..k
      OBVIOUS
    <3> QED
      BY <1>1, <3>1
  <2>2. \E i \in 1..k+1 : frame = longer[i]
    <3>1. 1 \in 1..k+1
      OBVIOUS
    <3> QED
      BY <3>1
  <2>3. ASSUME NEW f \in F PROVE \E i \in 1..k+1 : f = longer[i]
    <3>1. PICK j \in 1..k : f = list[j]
      BY <1>1
    <3>2. j + 1 \in 1..k+1 /\ j + 1 # 1 /\ j + 1 - 1 = j
      BY <3>1
    <3> QED
      BY <3>1, <3>2
  <2> QED
    BY <2>1, <2>2, <2>3
<1> HIDE DEF longer
<1>4. k + 1 \in Nat
  OBVIOUS
<1> QED
  BY <1>2, <1>3, <1>4 DEF RunsThrough

------------------------------------------------------------------------------
\* The state of the allocator, as its callers hand it from one to the next.

Pools == [links : Links, frc : [Frame -> 0..MaxUsers],
          pt : [KernelPage -> Frame \cup {Invalid}], failed : BOOLEAN]

\* The frames that exist and that nobody uses.
Unused(frc, size) == {f \in Frame : f < size /\ frc[f] = 0}

Maps(pt, f) == \E i \in KernelPage : pt[i] = f

\* What the counts say of users and kernel pages.  A process or a kernel page
\* alone uses a frame; the pages in mapped have one; and unless frames were lost
\* no other page has, and every frame in use is somebody's.
Accounts(frc, pt, users, size, mapped, whole) ==
  /\ \A f \in Frame : f >= size => frc[f] = 0
  /\ \A f \in Frame : users[f] > 0 => frc[f] = users[f] /\ ~Maps(pt, f)
  /\ \A i, j \in KernelPage : pt[i] = pt[j] /\ pt[i] # Invalid => i = j
  /\ \A i \in KernelPage : pt[i] # Invalid => frc[pt[i]] = 1
  /\ \A i \in mapped : pt[i] # Invalid
  /\ whole => /\ \A i \in KernelPage \ mapped : pt[i] = Invalid
              /\ \A f \in Frame : frc[f] > 0 => users[f] > 0 \/ Maps(pt, f)

Sound(t, users, size, mapped, whole) ==
  /\ t \in Pools
  /\ RunsThrough(t.links, Unused(t.frc, size))
  /\ Accounts(t.frc, t.pt, users, size, mapped, whole)

\* What allocatePageFrame does to the list and to the counts.
LEMMA AllocateFields ==
  ASSUME NEW t \in Pools, NEW size \in Nat,
         RunsThrough(t.links, Unused(t.frc, size)), Available(t)
  PROVE  /\ FirstFrame(t) \in Frame /\ FirstFrame(t) < size
         /\ t.frc[FirstFrame(t)] = 0
         /\ allocatePageFrame(t) \in Pools
         /\ allocatePageFrame(t).frc = [t.frc EXCEPT ![FirstFrame(t)] = 1]
         /\ allocatePageFrame(t).pt = t.pt
         /\ allocatePageFrame(t).failed = t.failed
         /\ RunsThrough(allocatePageFrame(t).links,
                        Unused(allocatePageFrame(t).frc, size))
<1> DEFINE frame == FirstFrame(t)
           s     == allocatePageFrame(t)
           F     == Unused(t.frc, size)
<1>1. t.links \in Links
  BY DEF Pools
<1>2. /\ frame \in F /\ s.links \in Links
      /\ RunsThrough(s.links, F \ {frame})
  BY <1>1, AllocateRunsThrough
<1>3. frame \in Frame /\ frame < size /\ t.frc[frame] = 0
  BY <1>2 DEF Unused
<1>4. s = [t EXCEPT !.frc[frame] = 1, !.links = s.links]
  BY DEF allocatePageFrame, Pools, FirstFrame
<1> HIDE DEF s, frame
<1>5. /\ s.frc = [t.frc EXCEPT ![frame] = 1]
      /\ s.pt = t.pt /\ s.failed = t.failed
  BY <1>4 DEF Pools
<1>6. s \in Pools
  <2>1. 1 \in 0..MaxUsers
    BY FrameListAssumption
  <2>2. s.frc \in [Frame -> 0..MaxUsers]
    BY <1>3, <1>5, <2>1 DEF Pools
  <2>3. s = [links |-> s.links, frc |-> s.frc, pt |-> s.pt, failed |-> s.failed]
    BY <1>4 DEF Pools
  <2> QED
    BY <1>2, <1>5, <2>2, <2>3 DEF Pools
<1>7. Unused(s.frc, size) = F \ {frame}
  BY <1>3, <1>5 DEF Unused, Pools
<1> QED
  BY <1>2, <1>3, <1>5, <1>6, <1>7 DEF s, frame

\* What freePageFrame does to the list and to the counts.
LEMMA FreeFields ==
  ASSUME NEW t \in Pools, NEW size \in Nat,
         RunsThrough(t.links, Unused(t.frc, size)),
         NEW f \in Frame, f < size, t.frc[f] > 0
  PROVE  /\ freePageFrame(t, f) \in Pools
         /\ freePageFrame(t, f).frc = [t.frc EXCEPT ![f] = @ - 1]
         /\ freePageFrame(t, f).pt = t.pt
         /\ freePageFrame(t, f).failed = t.failed
         /\ RunsThrough(freePageFrame(t, f).links,
                        Unused(freePageFrame(t, f).frc, size))
<1> DEFINE s == freePageFrame(t, f)
           F == Unused(t.frc, size)
<1>1. t.frc[f] - 1 \in 0..MaxUsers /\ t.links \in Links
  BY FrameListAssumption DEF Pools
<1>2. CASE t.frc[f] > 1
  <2>1. s = [t EXCEPT !.frc[f] = @ - 1]
    BY <1>2 DEF freePageFrame
  <2> HIDE DEF s
  <2>2. /\ s.frc = [t.frc EXCEPT ![f] = @ - 1]
        /\ s.links = t.links /\ s.pt = t.pt /\ s.failed = t.failed /\ s \in Pools
    BY <1>1, <2>1 DEF Pools
  <2>3. Unused(s.frc, size) = F
    BY <1>1, <1>2, <2>2 DEF Unused, Pools
  <2> QED
    BY <2>2, <2>3 DEF s
<1>3. CASE ~(t.frc[f] > 1)
  <2>1. s = [t EXCEPT !.frc[f] = @ - 1, !.links = Linked(@, f)]
    BY <1>3 DEF freePageFrame
  <2>2. t.frc[f] = 1
    BY <1>3 DEF Pools
  <2>3. f \notin F
    BY <2>2 DEF Unused
  <2>4. /\ Linked(t.links, f) \in Links
        /\ RunsThrough(Linked(t.links, f), F \cup {f})
    BY <1>1, <2>3, LinkRunsThrough
  <2> DEFINE nodes == Linked(t.links, f)
  <2> HIDE DEF s, nodes
  <2>5. /\ s.frc = [t.frc EXCEPT ![f] = @ - 1]
        /\ s.links = nodes /\ s.pt = t.pt /\ s.failed = t.failed /\ s \in Pools
    BY <1>1, <2>1, <2>4 DEF Pools, nodes
  <2>6. Unused(s.frc, size) = F \cup {f}
    BY <2>2, <2>5 DEF Unused, Pools
  <2> QED
    BY <2>4, <2>5, <2>6 DEF s, nodes
<1> QED
  BY <1>2, <1>3

\* Some unused frames have become used.
Taken(new, old, size) ==
  \A f \in Frame : \/ new[f] = old[f]
                   \/ old[f] = 0 /\ new[f] = 1 /\ f < size

\* Some frames with one user have become unused.
Given(new, old) ==
  \A f \in Frame : new[f] = old[f] \/ (old[f] = 1 /\ new[f] = 0)

\* A frame that is allocated for a process.
LEMMA AllocateSound ==
  ASSUME NEW t, NEW users \in [Frame -> Nat], NEW size \in Nat, NEW mapped,
         mapped \subseteq KernelPage, NEW whole,
         Sound(t, users, size, mapped, whole), Available(t)
  PROVE  Sound(allocatePageFrame(t), [users EXCEPT ![FirstFrame(t)] = 1],
               size, mapped, whole)
<1> DEFINE f == FirstFrame(t)
           s == allocatePageFrame(t)
           more == [users EXCEPT ![f] = 1]
<1>1. /\ t \in Pools /\ Accounts(t.frc, t.pt, users, size, mapped, whole)
      /\ RunsThrough(t.links, Unused(t.frc, size))
  BY DEF Sound
<1>2. /\ f \in Frame /\ f < size /\ t.frc[f] = 0
      /\ s \in Pools
      /\ s.frc = [t.frc EXCEPT ![f] = 1]
      /\ s.pt = t.pt
      /\ RunsThrough(s.links, Unused(s.frc, size))
  BY <1>1, AllocateFields
<1> HIDE DEF f, s
<1> DEFINE frc == t.frc
           pt  == t.pt
<1>3. /\ frc \in [Frame -> 0..MaxUsers]
      /\ pt \in [KernelPage -> Frame \cup {Invalid}]
      /\ Accounts(frc, pt, users, size, mapped, whole)
      /\ s.frc = [frc EXCEPT ![f] = 1] /\ frc[f] = 0
  BY <1>1, <1>2 DEF Pools
<1>4. s.pt = pt
  BY <1>2
<1> HIDE DEF frc, pt
<1>5. \A i \in KernelPage : pt[i] # f
  <2>1. f # Invalid
    BY <1>2, HeadNoFrame
  <2> QED
    BY <1>3, <2>1 DEF Accounts
<1>6. Accounts(s.frc, pt, more, size, mapped, whole)
  <2>1. \A g \in Frame : g # f => s.frc[g] = frc[g] /\ more[g] = users[g]
    BY <1>2, <1>3
  <2>2. s.frc[f] = 1 /\ more[f] = 1
    BY <1>2, <1>3
  <2> HIDE DEF more
  <2>3. ~Maps(pt, f)
    BY <1>5 DEF Maps
  <2>4. \A g \in Frame : g >= size => s.frc[g] = 0
    BY <1>2, <1>3, <2>1, FrameListAssumption DEF Accounts, Frame
  <2>5. \A g \in Frame : more[g] > 0 => s.frc[g] = more[g] /\ ~Maps(pt, g)
    BY <1>3, <2>1, <2>2, <2>3 DEF Accounts
  <2>6. \A i \in KernelPage : pt[i] # Invalid => s.frc[pt[i]] = 1
    BY <1>3, <1>5, <2>1 DEF Accounts
  <2>7. whole => \A g \in Frame : s.frc[g] > 0 => more[g] > 0 \/ Maps(pt, g)
    BY <1>3, <2>1, <2>2 DEF Accounts
  <2> QED
    BY <1>3, <2>4, <2>5, <2>6, <2>7 DEF Accounts
<1> QED
  BY <1>2, <1>4, <1>6 DEF Sound, s, f

\* A frame one process gives up.
LEMMA FreeSound ==
  ASSUME NEW t, NEW users \in [Frame -> Nat], NEW size \in Nat, NEW mapped,
         mapped \subseteq KernelPage, NEW whole,
         Sound(t, users, size, mapped, whole), NEW f \in Frame, users[f] > 0
  PROVE  Sound(freePageFrame(t, f), [users EXCEPT ![f] = @ - 1], size, mapped, whole)
<1> DEFINE s == freePageFrame(t, f)
           less == [users EXCEPT ![f] = @ - 1]
           frc == t.frc
           pt  == t.pt
<1>1. /\ t \in Pools /\ Accounts(frc, pt, users, size, mapped, whole)
      /\ RunsThrough(t.links, Unused(t.frc, size))
  BY DEF Sound
<1>2. /\ frc \in [Frame -> 0..MaxUsers]
      /\ pt \in [KernelPage -> Frame \cup {Invalid}]
  BY <1>1 DEF Pools
<1>3. frc[f] = users[f] /\ ~Maps(pt, f) /\ frc[f] > 0 /\ f < size
  <2>1. frc[f] = users[f] /\ ~Maps(pt, f)
    BY <1>1 DEF Accounts
  <2>2. f >= size => frc[f] = 0
    BY <1>1 DEF Accounts
  <2>3. f \in Nat
    BY FrameListAssumption DEF Frame
  <2> QED
    BY <2>1, <2>2, <2>3
<1>4. /\ s \in Pools
      /\ s.frc = [frc EXCEPT ![f] = @ - 1]
      /\ s.pt = pt
      /\ RunsThrough(s.links, Unused(s.frc, size))
  BY <1>1, <1>3, FreeFields
<1> HIDE DEF frc, pt, s
<1>5. Accounts(s.frc, pt, less, size, mapped, whole)
  <2>1. \A g \in Frame : g # f => s.frc[g] = frc[g] /\ less[g] = users[g]
    BY <1>2, <1>4
  <2>2. s.frc[f] = less[f]
    BY <1>2, <1>3, <1>4
  <2> HIDE DEF less
  <2>3. \A i \in KernelPage : pt[i] # f
    BY <1>3 DEF Maps
  <2>4. \A g \in Frame : g >= size => s.frc[g] = 0
    BY <1>1, <1>3, <2>1, FrameListAssumption DEF Accounts, Frame
  <2>5. \A g \in Frame : less[g] > 0 => s.frc[g] = less[g] /\ ~Maps(pt, g)
    BY <1>1, <1>3, <2>1, <2>2 DEF Accounts
  <2>6. \A i \in KernelPage : pt[i] # Invalid => s.frc[pt[i]] = 1
    BY <1>1, <1>2, <2>1, <2>3 DEF Accounts
  <2>7. whole => \A g \in Frame : s.frc[g] > 0 => less[g] > 0 \/ Maps(pt, g)
    BY <1>1, <2>1, <2>2 DEF Accounts
  <2> QED
    BY <1>1, <2>4, <2>5, <2>6, <2>7 DEF Accounts
<1> QED
  BY <1>4, <1>5 DEF Sound, s

\* A frame that another process shares.
LEMMA ShareSound ==
  ASSUME NEW t, NEW users \in [Frame -> Nat], NEW size \in Nat, NEW mapped,
         mapped \subseteq KernelPage, NEW whole,
         Sound(t, users, size, mapped, whole),
         NEW f \in Frame, users[f] \in 1..MaxUsers-1
  PROVE  /\ t.frc[f] > 0
         /\ Sound([t EXCEPT !.frc[f] = @ + 1], [users EXCEPT ![f] = @ + 1],
                  size, mapped, whole)
<1> DEFINE s == [t EXCEPT !.frc[f] = @ + 1]
           more == [users EXCEPT ![f] = @ + 1]
           frc == t.frc
           pt  == t.pt
<1>1. /\ t \in Pools /\ Accounts(frc, pt, users, size, mapped, whole)
      /\ RunsThrough(t.links, Unused(frc, size))
  BY DEF Sound
<1>2. /\ frc \in [Frame -> 0..MaxUsers]
      /\ pt \in [KernelPage -> Frame \cup {Invalid}]
      /\ users[f] > 0 /\ MaxUsers \in Nat
  BY <1>1, FrameListAssumption DEF Pools
<1>3. frc[f] = users[f] /\ ~Maps(pt, f) /\ frc[f] > 0 /\ f < size
  <2>1. frc[f] = users[f] /\ ~Maps(pt, f)
    BY <1>1, <1>2 DEF Accounts
  <2>2. f >= size => frc[f] = 0
    BY <1>1 DEF Accounts
  <2>3. f \in Nat
    BY FrameListAssumption DEF Frame
  <2> QED
    BY <1>2, <2>1, <2>2, <2>3
<1>4. /\ s \in Pools /\ s.links = t.links /\ s.pt = pt
      /\ s.frc = [frc EXCEPT ![f] = @ + 1]
  <2>1. frc[f] + 1 \in 0..MaxUsers
    BY <1>2, <1>3
  <2> QED
    BY <1>1, <2>1 DEF Pools
<1> HIDE DEF frc, pt, s
<1>5. \A g \in Frame : g # f => s.frc[g] = frc[g] /\ more[g] = users[g]
  BY <1>2, <1>4
<1>6. s.frc[f] = more[f] /\ s.frc[f] = frc[f] + 1
  BY <1>2, <1>3, <1>4
<1> HIDE DEF more
<1>7. Unused(s.frc, size) = Unused(frc, size)
  BY <1>2, <1>3, <1>5, <1>6 DEF Unused
<1>8. Accounts(s.frc, pt, more, size, mapped, whole)
  <2>1. \A i \in KernelPage : pt[i] # f
    BY <1>3 DEF Maps
  <2>2. \A g \in Frame : g >= size => s.frc[g] = 0
    BY <1>1, <1>3, <1>5, FrameListAssumption DEF Accounts, Frame
  <2>3. \A g \in Frame : more[g] > 0 => s.frc[g] = more[g] /\ ~Maps(pt, g)
    BY <1>1, <1>3, <1>5, <1>6 DEF Accounts
  <2>4. \A i \in KernelPage : pt[i] # Invalid => s.frc[pt[i]] = 1
    BY <1>1, <1>2, <1>5, <2>1 DEF Accounts
  <2>5. whole => \A g \in Frame : s.frc[g] > 0 => more[g] > 0 \/ Maps(pt, g)
    BY <1>1, <1>2, <1>3, <1>5, <1>6 DEF Accounts
  <2> QED
    BY <1>1, <2>2, <2>3, <2>4, <2>5 DEF Accounts
<1>9. RunsThrough(s.links, Unused(s.frc, size))
  BY <1>1, <1>4, <1>7
<1>10. Sound(s, more, size, mapped, whole)
  BY <1>4, <1>8, <1>9 DEF Sound
<1> QED
  BY <1>3, <1>10 DEF s, frc, more

\* A round of increaseKernelBrk that finds a frame.
LEMMA GrowSound ==
  ASSUME NEW t, NEW users \in [Frame -> Nat], NEW size \in Nat, NEW mapped,
         mapped \subseteq KernelPage, NEW whole,
         Sound(t, users, size, mapped, whole), Available(t), ~t.failed,
         NEW page \in KernelPage, page \notin mapped
  PROVE  /\ FirstFrame(t) \in Frame /\ FirstFrame(t) < size
         /\ t.frc[FirstFrame(t)] = 0
         /\ growPage(t, page).frc = [t.frc EXCEPT ![FirstFrame(t)] = 1]
         /\ ~growPage(t, page).failed
         /\ Sound(growPage(t, page), users, size, mapped \cup {page}, whole)
<1> DEFINE f == FirstFrame(t)
           a == allocatePageFrame(t)
           s == growPage(t, page)
           frc == t.frc
           pt  == t.pt
<1>1. /\ t \in Pools /\ Accounts(frc, pt, users, size, mapped, whole)
      /\ RunsThrough(t.links, Unused(t.frc, size))
  BY DEF Sound
<1>2. /\ f \in Frame /\ f < size /\ t.frc[f] = 0
      /\ a \in Pools
      /\ a.frc = [t.frc EXCEPT ![f] = 1]
      /\ a.pt = t.pt /\ a.failed = t.failed
      /\ RunsThrough(a.links, Unused(a.frc, size))
  BY <1>1, AllocateFields
<1>3. s = [a EXCEPT !.pt[page] = f]
  BY DEF growPage
<1> HIDE DEF s, a, f
<1>4. /\ s \in Pools /\ s.links = a.links /\ s.frc = a.frc
      /\ ~s.failed /\ s.pt = [pt EXCEPT ![page] = f]
  BY <1>2, <1>3 DEF Pools
<1>5. /\ frc \in [Frame -> 0..MaxUsers]
      /\ pt \in [KernelPage -> Frame \cup {Invalid}]
      /\ s.frc = [frc EXCEPT ![f] = 1] /\ frc[f] = 0
  BY <1>1, <1>2, <1>4 DEF Pools
<1> HIDE DEF frc, pt
<1> DEFINE new == s.pt
<1>6. /\ \A i \in KernelPage : i # page => new[i] = pt[i]
      /\ new[page] = f
      /\ f # Invalid
      /\ \A g \in Frame : g # f => s.frc[g] = frc[g]
      /\ s.frc[f] = 1
  BY <1>2, <1>4, <1>5, HeadNoFrame
<1> HIDE DEF new
<1>7. \A i \in KernelPage : pt[i] # f
  BY <1>1, <1>5, <1>6 DEF Accounts
<1>8. Accounts(s.frc, new, users, size, mapped \cup {page}, whole)
  <2>1. \A g \in Frame : g >= size => s.frc[g] = 0
    <3>1. \A g \in Frame : g >= size => g # f
      BY <1>2, FrameListAssumption DEF Frame
    <3> QED
      BY <1>1, <1>6, <3>1 DEF Accounts
  <2>2. ASSUME NEW g \in Frame, users[g] > 0
        PROVE  s.frc[g] = users[g] /\ ~Maps(new, g)
    <3>1. frc[g] = users[g] /\ ~Maps(pt, g)
      BY <1>1, <2>2 DEF Accounts
    <3>2. g # f
      BY <1>5, <2>2, <3>1
    <3> QED
      BY <1>6, <3>1, <3>2 DEF Maps
  <2>3. \A i, j \in KernelPage : new[i] = new[j] /\ new[i] # Invalid => i = j
    BY <1>1, <1>6, <1>7 DEF Accounts
  <2>4. \A i \in KernelPage : new[i] # Invalid => s.frc[new[i]] = 1
    BY <1>1, <1>5, <1>6, <1>7 DEF Accounts
  <2>5. \A i \in mapped \cup {page} : new[i] # Invalid
    BY <1>1, <1>6 DEF Accounts
  <2>6. whole => \A i \in KernelPage \ (mapped \cup {page}) : new[i] = Invalid
    BY <1>1, <1>6 DEF Accounts
  <2>7. ASSUME whole, NEW g \in Frame, s.frc[g] > 0
        PROVE  users[g] > 0 \/ Maps(new, g)
    <3>1. CASE g = f
      BY <1>6, <3>1 DEF Maps
    <3>2. CASE g # f
      <4>1. users[g] > 0 \/ Maps(pt, g)
        BY <1>1, <1>6, <2>7, <3>2 DEF Accounts
      <4>2. pt[page] = Invalid
        BY <1>1, <2>7 DEF Accounts
      <4>3. g # Invalid
        BY HeadNoFrame
      <4> QED
        BY <1>6, <4>1, <4>2, <4>3 DEF Maps
    <3> QED
      BY <3>1, <3>2
  <2> QED
    BY <2>1, <2>2, <2>3, <2>4, <2>5, <2>6, <2>7 DEF Accounts
<1> QED
  BY <1>2, <1>4, <1>5, <1>8 DEF Sound, s, f, new, frc

\* A round of decreaseKernelBrk.
LEMMA ShrinkSound ==
  ASSUME NEW t, NEW users \in [Frame -> Nat], NEW size \in Nat, NEW mapped,
         mapped \subseteq KernelPage, NEW whole,
         Sound(t, users, size, mapped, whole), NEW page \in mapped
  PROVE  /\ Sound(shrinkPage(t, page), users, size, mapped \ {page}, whole)
         /\ shrinkPage(t, page).failed = t.failed
         /\ Given(shrinkPage(t, page).frc, t.frc)
<1> DEFINE f == t.pt[page]
           a == freePageFrame(t, f)
           s == shrinkPage(t, page)
           frc == t.frc
           pt  == t.pt
<1>1. /\ t \in Pools /\ Accounts(frc, pt, users, size, mapped, whole)
      /\ RunsThrough(t.links, Unused(t.frc, size))
  BY DEF Sound
<1>2. /\ frc \in [Frame -> 0..MaxUsers]
      /\ pt \in [KernelPage -> Frame \cup {Invalid}]
  BY <1>1 DEF Pools
<1>3. f \in Frame /\ frc[f] = 1 /\ f < size /\ f = pt[page]
  <2>1. f \in Frame /\ frc[f] = 1
    BY <1>1, <1>2 DEF Accounts
  <2>2. f >= size => frc[f] = 0
    BY <1>1, <2>1 DEF Accounts
  <2>3. f \in Nat
    BY <2>1, FrameListAssumption DEF Frame
  <2> QED
    BY <2>1, <2>2, <2>3
<1>4. /\ a \in Pools
      /\ a.frc = [frc EXCEPT ![f] = @ - 1]
      /\ a.pt = pt /\ a.failed = t.failed
      /\ RunsThrough(a.links, Unused(a.frc, size))
  <2>1. /\ t \in Pools /\ RunsThrough(t.links, Unused(t.frc, size))
        /\ f \in Frame /\ f < size /\ t.frc[f] > 0
    BY <1>1, <1>3
  <2> HIDE DEF f
  <2>2. /\ a \in Pools
        /\ a.frc = [t.frc EXCEPT ![f] = @ - 1]
        /\ a.pt = t.pt /\ a.failed = t.failed
    BY <2>1, FreeFields
  <2>3. RunsThrough(a.links, Unused(a.frc, size))
    BY <2>1, FreeFields
  <2> QED
    BY <2>2, <2>3
<1>5. s = [a EXCEPT !.pt[page] = Invalid]
  BY DEF shrinkPage
<1> HIDE DEF s, a, f
<1>6. /\ s \in Pools /\ s.links = a.links /\ s.frc = a.frc
      /\ s.failed = t.failed /\ s.pt = [pt EXCEPT ![page] = Invalid]
  BY <1>4, <1>5 DEF Pools
<1> HIDE DEF frc, pt
<1>7. s.frc = [frc EXCEPT ![f] = 0]
  <2>1. s.frc = [frc EXCEPT ![f] = frc[f] - 1]
    BY <1>4, <1>6
  <2>2. frc[f] - 1 = 0
    BY <1>3
  <2> QED
    BY <2>1, <2>2
<1> DEFINE new == s.pt
<1>8. /\ \A i \in KernelPage : i # page => new[i] = pt[i]
      /\ new[page] = Invalid
      /\ \A g \in Frame : g # f => s.frc[g] = frc[g]
      /\ s.frc[f] = 0
      /\ f # Invalid
  BY <1>2, <1>3, <1>6, <1>7, HeadNoFrame
<1> HIDE DEF new
<1>9. \A i \in KernelPage : i # page => pt[i] # f
  BY <1>1, <1>3, <1>8 DEF Accounts
<1>10. Accounts(s.frc, new, users, size, mapped \ {page}, whole)
  <2>1. \A g \in Frame : g >= size => s.frc[g] = 0
    BY <1>1, <1>8 DEF Accounts
  <2>2. ASSUME NEW g \in Frame, users[g] > 0
        PROVE  s.frc[g] = users[g] /\ ~Maps(new, g)
    <3>1. frc[g] = users[g] /\ ~Maps(pt, g)
      BY <1>1, <2>2 DEF Accounts
    <3>2. g # f /\ g # Invalid
      BY <1>3, <3>1, HeadNoFrame DEF Maps
    <3> QED
      BY <1>8, <3>1, <3>2 DEF Maps
  <2>3. \A i, j \in KernelPage : new[i] = new[j] /\ new[i] # Invalid => i = j
    BY <1>1, <1>8 DEF Accounts
  <2>4. \A i \in KernelPage : new[i] # Invalid => s.frc[new[i]] = 1
    BY <1>1, <1>2, <1>8, <1>9 DEF Accounts
  <2>5. \A i \in mapped \ {page} : new[i] # Invalid
    BY <1>1, <1>8 DEF Accounts
  <2>6. whole => \A i \in KernelPage \ (mapped \ {page}) : new[i] = Invalid
    BY <1>1, <1>8 DEF Accounts
  <2>7. ASSUME whole, NEW g \in Frame, s.frc[g] > 0
        PROVE  users[g] > 0 \/ Maps(new, g)
    <3>1. g # f
      BY <1>8, <2>7
    <3>2. users[g] > 0 \/ Maps(pt, g)
      BY <1>1, <1>8, <2>7, <3>1 DEF Accounts
    <3> QED
      BY <1>3, <1>8, <3>1, <3>2 DEF Maps
  <2> QED
    BY <2>1, <2>2, <2>3, <2>4, <2>5, <2>6, <2>7 DEF Accounts
<1>11. Given(s.frc, frc)
  BY <1>3, <1>8 DEF Given
<1> QED
  BY <1>4, <1>6, <1>10, <1>11 DEF Sound, s, new, frc

------------------------------------------------------------------------------
\* The loops of the kernel heap.

\* With fewer pages known to be mapped, and frames lost, less is claimed.
LEMMA SoundWeaker ==
  ASSUME NEW t, NEW users, NEW size, NEW mapped, NEW whole,
         Sound(t, users, size, mapped, whole), NEW fewer \in SUBSET mapped
  PROVE  Sound(t, users, size, fewer, FALSE)
BY DEF Sound, Accounts

\* What increaseKernelBrk leaves: all pages up to address have a frame, or it has
\* run out of frames and the pages up to the old break still have theirs.
LEMMA GrowLoop ==
  ASSUME NEW t, NEW users \in [Frame -> Nat], NEW size \in Nat, NEW whole,
         NEW brk \in Nat, NEW address \in KernelPage, brk <= address,
         Sound(t, users, size, 0..brk-1, whole), ~t.failed
  PROVE  /\ Grow!Loop(t, brk, address) \in Pools
         /\ Grow!Loop(t, brk, address).failed =>
              Sound(Grow!Loop(t, brk, address), users, size, 0..brk-1, FALSE)
         /\ ~Grow!Loop(t, brk, address).failed =>
              Sound(Grow!Loop(t, brk, address), users, size, 0..address-1, whole)
         /\ Taken(Grow!Loop(t, brk, address).frc, t.frc, size)
<1> DEFINE Good == [n \in brk..address |->
                      {s \in Pools :
                         /\ s.failed => Sound(s, users, size, 0..brk-1, FALSE)
                         /\ ~s.failed => Sound(s, users, size, 0..n-1, whole)
                         /\ Taken(s.frc, t.frc, size)}]
<1>1. /\ brk \in Int /\ address \in Int /\ address \in Nat
      /\ address < KERNEL_STACK_BASE /\ KERNEL_STACK_BASE \in Nat
      /\ brk \in brk..address /\ address \in brk..address
  BY FrameListAssumption DEF KernelPage
<1>2. t \in Good[brk]
  BY <1>1 DEF Sound, Taken
<1>3. ASSUME NEW n \in brk..address-1, NEW x \in Good[n]
      PROVE  growPage(x, n) \in Good[n + 1]
  <2>1. /\ n \in brk..address /\ n + 1 \in brk..address /\ n \in Nat
        /\ n \in KernelPage /\ n \notin 0..n-1 /\ 0..n-1 \subseteq KernelPage
        /\ 0..brk-1 \subseteq 0..n-1
        /\ 0..(n+1)-1 = (0..n-1) \cup {n}
    BY <1>1 DEF KernelPage
  <2>2. /\ x \in Pools
        /\ x.failed => Sound(x, users, size, 0..brk-1, FALSE)
        /\ ~x.failed => Sound(x, users, size, 0..n-1, whole)
        /\ Taken(x.frc, t.frc, size)
    BY <2>1
  <2> DEFINE s == growPage(x, n)
  <2> SUFFICES /\ s \in Pools
               /\ s.failed => Sound(s, users, size, 0..brk-1, FALSE)
               /\ ~s.failed => Sound(s, users, size, 0..(n+1)-1, whole)
               /\ Taken(s.frc, t.frc, size)
    BY <2>1
  <2>3. CASE x.failed \/ ~Available(x)
    <3>1. s = [x EXCEPT !.failed = TRUE]
      BY <2>3 DEF growPage
    <3>2. Sound(x, users, size, 0..brk-1, FALSE)
      BY <2>1, <2>2, SoundWeaker
    <3> HIDE DEF s
    <3>3. /\ s \in Pools /\ s.failed = TRUE
          /\ s.links = x.links /\ s.frc = x.frc /\ s.pt = x.pt
      BY <2>2, <3>1 DEF Pools
    <3>4. Sound(s, users, size, 0..brk-1, FALSE)
      BY <3>2, <3>3 DEF Sound
    <3> QED
      BY <2>2, <3>3, <3>4
  <2>4. CASE ~x.failed /\ Available(x)
    <3> DEFINE f == FirstFrame(x)
               below == 0..n-1
    <3>1. /\ Sound(x, users, size, below, whole) /\ Available(x) /\ ~x.failed
          /\ below \subseteq KernelPage /\ n \in KernelPage /\ n \notin below
      BY <2>1, <2>2, <2>4
    <3> HIDE DEF below
    <3>2. /\ f \in Frame /\ f < size /\ x.frc[f] = 0
          /\ s.frc = [x.frc EXCEPT ![f] = 1]
          /\ ~s.failed
      <4> HIDE DEF Good
      <4> QED
        BY <3>1, GrowSound
    <3>3. Sound(s, users, size, below \cup {n}, whole)
      <4> HIDE DEF Good
      <4> QED
        BY <3>1, GrowSound
    <3> HIDE DEF s, f
    <3>4. s \in Pools
      BY <3>3 DEF Sound
    <3>5. x.frc \in [Frame -> 0..MaxUsers]
      BY <2>2 DEF Pools
    <3>6. Taken(s.frc, t.frc, size)
      BY <2>2, <3>2, <3>5 DEF Taken
    <3>7. Sound(s, users, size, 0..(n+1)-1, whole)
      BY <2>1, <3>3 DEF below
    <3> QED
      BY <3>2, <3>4, <3>6, <3>7
  <2> QED
    BY <2>3, <2>4
<1> HIDE DEF Good
<1>4. GrowRule!Loop(t, brk, address) \in Good[address]
  BY <1>1, <1>2, <1>3, GrowRule!LoopRule
<1>5. Grow!Loop(t, brk, address) = GrowRule!Loop(t, brk, address)
  BY DEF Grow!Loop, Grow!After, GrowRule!Loop, GrowRule!After
<1> DEFINE s == Grow!Loop(t, brk, address)
<1>6. s \in Good[address]
  BY <1>4, <1>5
<1> HIDE DEF s
<1> QED
  BY <1>1, <1>6 DEF Good, s

\* What decreaseKernelBrk leaves: the pages from address up have no frame, and
\* those they had are unused.
LEMMA ShrinkLoop ==
  ASSUME NEW t, NEW users \in [Frame -> Nat], NEW size \in Nat, NEW whole,
         NEW address \in Nat, NEW brk \in KernelPage, address <= brk,
         Sound(t, users, size, 0..brk-1, whole)
  PROVE  /\ Sound(Shrink!Loop(t, address, brk), users, size, 0..address-1, whole)
         /\ Shrink!Loop(t, address, brk).failed = t.failed
         /\ Given(Shrink!Loop(t, address, brk).frc, t.frc)
<1> DEFINE mapped(n) == (0..address-1) \cup (n..brk-1)
           Good == [n \in address..brk |->
                      {s \in Pools : /\ Sound(s, users, size, mapped(n), whole)
                                     /\ s.failed = t.failed
                                     /\ Given(s.frc, t.frc)}]
<1>1. /\ brk \in Int /\ address \in Int /\ brk \in Nat
      /\ brk < KERNEL_STACK_BASE /\ KERNEL_STACK_BASE \in Nat
      /\ brk \in address..brk /\ address \in address..brk
      /\ mapped(address) = 0..brk-1 /\ mapped(brk) = 0..address-1
  BY FrameListAssumption DEF KernelPage
<1>2. t \in Good[address]
  <2>1. Good[address] = {s \in Pools : /\ Sound(s, users, size, mapped(address), whole)
                                       /\ s.failed = t.failed
                                       /\ Given(s.frc, t.frc)}
    BY <1>1
  <2> HIDE DEF Good, mapped
  <2> QED
    BY <1>1, <2>1 DEF Sound, Given
<1>3. ASSUME NEW n \in address..brk-1, NEW x \in Good[n]
      PROVE  shrinkPage(x, n) \in Good[n + 1]
  <2>1. /\ n \in address..brk /\ n + 1 \in address..brk
        /\ n \in mapped(n) /\ mapped(n) \subseteq KernelPage
        /\ mapped(n + 1) = mapped(n) \ {n}
    BY <1>1 DEF KernelPage
  <2> DEFINE s == shrinkPage(x, n)
             now == mapped(n)
             then == mapped(n + 1)
  <2>2. n \in now /\ now \subseteq KernelPage /\ then = now \ {n}
    BY <2>1
  <2>3. Good[n] = {y \in Pools : /\ Sound(y, users, size, now, whole)
                                 /\ y.failed = t.failed /\ Given(y.frc, t.frc)}
    BY <2>1
  <2>4. Good[n + 1] = {y \in Pools : /\ Sound(y, users, size, then, whole)
                                     /\ y.failed = t.failed /\ Given(y.frc, t.frc)}
    BY <2>1
  <2> HIDE DEF now, then, mapped, Good
  <2>5. /\ x \in Pools /\ Sound(x, users, size, now, whole)
        /\ x.failed = t.failed /\ Given(x.frc, t.frc)
    BY <2>3
  <2>6. Sound(x, users, size, now, whole) /\ now \subseteq KernelPage /\ n \in now
    BY <2>2, <2>5
  <2>7. Sound(s, users, size, now \ {n}, whole)
    BY <2>6, ShrinkSound
  <2>8. s.failed = x.failed /\ Given(s.frc, x.frc)
    BY <2>6, <2>7, ShrinkSound
  <2> HIDE DEF s
  <2>9. s \in Pools
    BY <2>7 DEF Sound
  <2>10. Given(s.frc, t.frc)
    BY <2>5, <2>8 DEF Given
  <2>11. s \in Good[n + 1]
    BY <2>2, <2>4, <2>5, <2>7, <2>8, <2>9, <2>10
  <2> QED
    BY <2>11 DEF s
<1>4. brk \in address..brk /\ mapped(brk) = 0..address-1
  BY <1>1
<1>5. Good[brk] = {s \in Pools : /\ Sound(s, users, size, 0..address-1, whole)
                                 /\ s.failed = t.failed
                                 /\ Given(s.frc, t.frc)}
  BY <1>4
<1> HIDE DEF Good
<1>6. ShrinkRule!Loop(t, address, brk) \in Good[brk]
  BY <1>1, <1>2, <1>3, ShrinkRule!LoopRule
<1>7. Shrink!Loop(t, address, brk) = ShrinkRule!Loop(t, address, brk)
  BY DEF Shrink!Loop, Shrink!After, ShrinkRule!Loop, ShrinkRule!After
<1> DEFINE s == Shrink!Loop(t, address, brk)
<1>8. s \in Good[brk]
  BY <1>6, <1>7
<1> HIDE DEF s
<1> QED
  BY <1>5, <1>8 DEF s

------------------------------------------------------------------------------
\* The invariant.

\* Before KernelStart nothing is counted.  After it the list runs through the
\* frames nobody uses, and counts, page table and users agree.
Intact ==
  /\ VIRTUAL_MEMORY_ENABLED \in BOOLEAN
  /\ PMEM_SIZE \in 0..MaxPmem
  /\ KERNEL_BRK \in DataEnd..KERNEL_STACK_BASE-NUMBER_OF_FRAME_WINDOWS-1
  /\ held \in [Frame -> 0..MaxUsers]
  /\ Now \in Pools
  /\ VIRTUAL_MEMORY_ENABLED =>
       Sound(Now, held, PMEM_SIZE, 0..KERNEL_BRK-1, ~failed)
  /\ ~VIRTUAL_MEMORY_ENABLED =>
       \A f \in Frame : frc_table[f] = 0 /\ held[f] = 0

\* The fields of Now are the variables.
LEMMA NowFields ==
  /\ Now.links = links /\ Now.frc = frc_table /\ Now.pt = kernel_page_table
  /\ Now.failed = failed
BY DEF Now

\* Become makes a state of the allocator the current one.
LEMMA BecomeNow ==
  ASSUME NEW t \in Pools, Become(t)
  PROVE  Now' = t
BY DEF Become, Now, Pools

\* Whether frames ran out is not part of what Sound says.
LEMMA SoundSame ==
  ASSUME NEW t, NEW s \in Pools, NEW users, NEW size, NEW mapped, NEW whole,
         Sound(t, users, size, mapped, whole),
         s.links = t.links, s.frc = t.frc, s.pt = t.pt
  PROVE  Sound(s, users, size, mapped, whole)
BY DEF Sound

\* The types and the bounds the steps need.
LEMMA IntactFacts ==
  ASSUME Intact
  PROVE  /\ PMEM_SIZE \in Nat /\ KERNEL_BRK \in Nat /\ KERNEL_BRK \in KernelPage
         /\ 0..KERNEL_BRK-1 \subseteq KernelPage
         /\ held \in [Frame -> Nat]
         /\ frc_table \in [Frame -> 0..MaxUsers]
         /\ failed \in BOOLEAN
<1>1. Now \in Pools
  BY DEF Intact
<1>2. frc_table \in [Frame -> 0..MaxUsers] /\ failed \in BOOLEAN
  BY <1>1, NowFields DEF Pools
<1>3. held \in [Frame -> Nat]
  BY FrameListAssumption DEF Intact
<1> QED
  BY <1>2, <1>3, FrameListAssumption DEF Intact, KernelPage

\* SetKernelData leaves an allocator that counts nothing.
LEMMA InitIntact == Init => Intact
<1> SUFFICES ASSUME Init PROVE Intact
  OBVIOUS
<1>1. Now \in Pools
  <2>1. links \in Links
    BY HeadNoFrame DEF Init, Links
  <2>2. 0 \in 0..MaxUsers
    BY FrameListAssumption
  <2>3. /\ frc_table \in [Frame -> 0..MaxUsers]
        /\ kernel_page_table \in [KernelPage -> Frame \cup {Invalid}]
        /\ failed \in BOOLEAN
    BY <2>2 DEF Init
  <2> QED
    BY <2>1, <2>3 DEF Now, Pools
<1>2. /\ PMEM_SIZE \in 0..MaxPmem
      /\ KERNEL_BRK \in DataEnd..KERNEL_STACK_BASE-NUMBER_OF_FRAME_WINDOWS-1
  BY FrameListAssumption DEF Init
<1>3. /\ held \in [Frame -> 0..MaxUsers]
      /\ \A f \in Frame : frc_table[f] = 0 /\ held[f] = 0
  <2>1. 0 \in 0..MaxUsers
    BY FrameListAssumption
  <2> QED
    BY <2>1 DEF Init
<1>4. VIRTUAL_MEMORY_ENABLED = FALSE
  BY DEF Init
<1> QED
  BY <1>1, <1>2, <1>3, <1>4 DEF Intact

\* A process is given a frame: one more is used.
LEMMA UserAllocatesIntact ==
  ASSUME Intact, UserAllocates
  PROVE  Intact' /\ Taken(frc_table', frc_table, PMEM_SIZE)
<1> DEFINE t == Now
           s == allocatePageFrame(t)
           f == FirstFrame(t)
           mapped == 0..KERNEL_BRK-1
           more == [held EXCEPT ![f] = 1]
<1>1. /\ Sound(t, held, PMEM_SIZE, mapped, ~failed) /\ Available(t) /\ t \in Pools
      /\ mapped \subseteq KernelPage
      /\ PMEM_SIZE \in Nat /\ held \in [Frame -> Nat]
  BY IntactFacts DEF Intact, UserAllocates
<1>2. /\ Become(s) /\ held' = more
      /\ VIRTUAL_MEMORY_ENABLED' /\ PMEM_SIZE' = PMEM_SIZE /\ KERNEL_BRK' = KERNEL_BRK
  BY DEF UserAllocates, UserUnchanged
<1> HIDE DEF t, mapped
<1>3. Sound(s, more, PMEM_SIZE, mapped, ~failed)
  BY <1>1, AllocateSound
<1>4. /\ f \in Frame /\ f < PMEM_SIZE /\ t.frc[f] = 0
      /\ s \in Pools /\ s.frc = [t.frc EXCEPT ![f] = 1] /\ s.failed = t.failed
  <2>1. RunsThrough(t.links, Unused(t.frc, PMEM_SIZE))
    BY <1>1 DEF Sound
  <2> QED
    BY <1>1, <2>1, AllocateFields
<1> HIDE DEF s, f
<1>5. Now' = s
  BY <1>2, <1>4, BecomeNow
<1>6. failed' = failed /\ frc_table' = s.frc /\ t.frc = frc_table
  BY <1>2, <1>4, NowFields DEF Become, t
<1>7. more \in [Frame -> 0..MaxUsers]
  <2>1. held \in [Frame -> 0..MaxUsers] /\ 1 \in 0..MaxUsers
    BY FrameListAssumption DEF Intact
  <2> QED
    BY <1>4, <2>1
<1> HIDE DEF more
<1>8. Sound(Now, held, PMEM_SIZE, 0..KERNEL_BRK-1, ~failed)'
  BY <1>2, <1>3, <1>5, <1>6 DEF mapped
<1>9. Intact'
  BY <1>2, <1>4, <1>5, <1>7, <1>8 DEF Intact
<1>10. Taken(frc_table', frc_table, PMEM_SIZE)
  BY <1>4, <1>6, IntactFacts DEF Taken
<1> QED
  BY <1>9, <1>10

\* Processes share a frame: one of those in use has one user more.
LEMMA UserSharesIntact ==
  ASSUME Intact, NEW f \in Frame, UserShares(f)
  PROVE  /\ Intact'
         /\ frc_table[f] > 0 /\ frc_table' = [frc_table EXCEPT ![f] = @ + 1]
         /\ VIRTUAL_MEMORY_ENABLED
<1> DEFINE t == Now
           s == [t EXCEPT !.frc[f] = @ + 1]
           mapped == 0..KERNEL_BRK-1
           more == [held EXCEPT ![f] = @ + 1]
<1>1. held[f] \in 1..MaxUsers-1 /\ MaxUsers \in Nat
  BY FrameListAssumption DEF UserShares
<1>2. VIRTUAL_MEMORY_ENABLED
  BY <1>1 DEF Intact
<1>3. /\ Sound(t, held, PMEM_SIZE, mapped, ~failed) /\ t \in Pools
      /\ mapped \subseteq KernelPage
      /\ PMEM_SIZE \in Nat /\ held \in [Frame -> Nat]
  BY <1>2, IntactFacts DEF Intact
<1>4. /\ Become(s) /\ held' = more
      /\ VIRTUAL_MEMORY_ENABLED' /\ PMEM_SIZE' = PMEM_SIZE /\ KERNEL_BRK' = KERNEL_BRK
  BY <1>2 DEF UserShares, UserUnchanged
<1> HIDE DEF t, mapped
<1>5. t.frc[f] > 0 /\ Sound(s, more, PMEM_SIZE, mapped, ~failed)
  BY <1>1, <1>3, ShareSound
<1>6. /\ s \in Pools /\ s.failed = t.failed
      /\ s.frc = [t.frc EXCEPT ![f] = @ + 1]
  BY <1>3, <1>5 DEF Sound, Pools
<1> HIDE DEF s
<1>7. Now' = s
  BY <1>4, <1>6, BecomeNow
<1>8. failed' = failed /\ frc_table' = s.frc /\ t.frc = frc_table
  BY <1>4, <1>6, NowFields DEF Become, t
<1>9. more \in [Frame -> 0..MaxUsers]
  <2>1. held \in [Frame -> 0..MaxUsers] /\ held[f] + 1 \in 0..MaxUsers
    BY <1>1 DEF Intact
  <2> QED
    BY <2>1
<1> HIDE DEF more
<1>10. Sound(Now, held, PMEM_SIZE, 0..KERNEL_BRK-1, ~failed)'
  BY <1>4, <1>5, <1>7, <1>8 DEF mapped
<1>11. Intact'
  BY <1>4, <1>6, <1>7, <1>9, <1>10 DEF Intact
<1> QED
  BY <1>2, <1>5, <1>6, <1>8, <1>11

\* A process gives a frame up: it has one user less, or is unused.
LEMMA UserFreesIntact ==
  ASSUME Intact, NEW f \in Frame, UserFrees(f)
  PROVE  /\ Intact'
         /\ frc_table[f] > 0 /\ frc_table' = [frc_table EXCEPT ![f] = @ - 1]
         /\ VIRTUAL_MEMORY_ENABLED
<1> DEFINE t == Now
           s == freePageFrame(t, f)
           mapped == 0..KERNEL_BRK-1
           less == [held EXCEPT ![f] = @ - 1]
<1>1. held[f] > 0
  BY DEF UserFrees
<1>2. VIRTUAL_MEMORY_ENABLED
  BY <1>1 DEF Intact
<1>3. /\ Sound(t, held, PMEM_SIZE, mapped, ~failed) /\ t \in Pools
      /\ mapped \subseteq KernelPage
      /\ PMEM_SIZE \in Nat /\ held \in [Frame -> Nat]
  BY <1>2, IntactFacts DEF Intact
<1>4. /\ Become(s) /\ held' = less
      /\ VIRTUAL_MEMORY_ENABLED' /\ PMEM_SIZE' = PMEM_SIZE /\ KERNEL_BRK' = KERNEL_BRK
  BY <1>2 DEF UserFrees, UserUnchanged
<1> HIDE DEF t, mapped
<1>5. Sound(s, less, PMEM_SIZE, mapped, ~failed)
  BY <1>1, <1>3, FreeSound
<1>6. t.frc[f] > 0 /\ f < PMEM_SIZE
  <2>1. Accounts(t.frc, t.pt, held, PMEM_SIZE, mapped, ~failed)
    BY <1>3 DEF Sound
  <2>2. t.frc[f] = held[f]
    BY <1>1, <2>1 DEF Accounts
  <2>3. f >= PMEM_SIZE => t.frc[f] = 0
    BY <2>1 DEF Accounts
  <2>4. f \in Nat
    BY FrameListAssumption DEF Frame
  <2> QED
    BY <1>1, <1>3, <2>2, <2>3, <2>4
<1>7. /\ s \in Pools /\ s.failed = t.failed
      /\ s.frc = [t.frc EXCEPT ![f] = @ - 1]
  <2>1. RunsThrough(t.links, Unused(t.frc, PMEM_SIZE))
    BY <1>3 DEF Sound
  <2> QED
    BY <1>3, <1>6, <2>1, FreeFields
<1> HIDE DEF s
<1>8. Now' = s
  BY <1>4, <1>7, BecomeNow
<1>9. failed' = failed /\ frc_table' = s.frc /\ t.frc = frc_table
  BY <1>4, <1>7, NowFields DEF Become, t
<1>10. less \in [Frame -> 0..MaxUsers]
  <2>1. held \in [Frame -> 0..MaxUsers] /\ held[f] - 1 \in 0..MaxUsers
    BY <1>1, FrameListAssumption DEF Intact
  <2> QED
    BY <2>1
<1> HIDE DEF less
<1>11. Sound(Now, held, PMEM_SIZE, 0..KERNEL_BRK-1, ~failed)'
  BY <1>4, <1>5, <1>8, <1>9 DEF mapped
<1>12. Intact'
  BY <1>4, <1>7, <1>8, <1>10, <1>11 DEF Intact
<1> QED
  BY <1>2, <1>6, <1>7, <1>9, <1>12

\* SetKernelBrk moves the break over pages that now have a frame each, or stays
\* where it was when frames run out; or it moves back and the frames are unused.
LEMMA SetKernelBrkIntact ==
  ASSUME Intact, NEW address \in KernelPage, SetKernelBrk(address)
  PROVE  /\ Intact' /\ VIRTUAL_MEMORY_ENABLED
         /\ Taken(frc_table', frc_table, PMEM_SIZE) \/ Given(frc_table', frc_table)
<1> DEFINE below(n) == 0..n-1
<1>1. /\ VIRTUAL_MEMORY_ENABLED
      /\ address >= DataEnd /\ address < KERNEL_STACK_BASE - NUMBER_OF_FRAME_WINDOWS
      /\ VIRTUAL_MEMORY_ENABLED' = VIRTUAL_MEMORY_ENABLED
      /\ PMEM_SIZE' = PMEM_SIZE /\ held' = held
  BY DEF SetKernelBrk
<1>2. /\ Sound(Now, held, PMEM_SIZE, below(KERNEL_BRK), ~failed) /\ Now \in Pools
      /\ PMEM_SIZE \in Nat /\ held \in [Frame -> Nat]
      /\ KERNEL_BRK \in Nat /\ KERNEL_BRK \in KernelPage
      /\ failed \in BOOLEAN
  BY <1>1, IntactFacts DEF Intact
<1>3. /\ address \in Nat
      /\ address \in DataEnd..KERNEL_STACK_BASE-NUMBER_OF_FRAME_WINDOWS-1
  BY <1>1, FrameListAssumption DEF KernelPage
<1>4. ASSUME NEW t \in Pools, Become(t), NEW brk, KERNEL_BRK' = brk,
             brk \in DataEnd..KERNEL_STACK_BASE-NUMBER_OF_FRAME_WINDOWS-1,
             Sound(t, held, PMEM_SIZE, below(brk), ~t.failed)
      PROVE  Intact'
  <2>1. Now' = t /\ failed' = t.failed
    BY <1>4, BecomeNow DEF Become
  <2>2. Sound(Now, held, PMEM_SIZE, below(KERNEL_BRK), ~failed)'
    BY <1>1, <1>4, <2>1
  <2> QED
    BY <1>1, <1>4, <2>1, <2>2 DEF Intact
<1>5. CASE address > KERNEL_BRK /\ increaseKernelBrk(address)
  <2> DEFINE start == [Now EXCEPT !.failed = FALSE]
             t == Grow!Loop(start, KERNEL_BRK, address)
             s == [t EXCEPT !.failed = @ \/ failed]
             old == below(KERNEL_BRK)
             new == below(address)
  <2>1. /\ Become(s)
        /\ KERNEL_BRK' = IF t.failed THEN KERNEL_BRK ELSE address
    BY <1>5 DEF increaseKernelBrk
  <2>2. /\ start \in Pools /\ start.failed = FALSE /\ start.frc = frc_table
        /\ start.links = Now.links /\ start.frc = Now.frc /\ start.pt = Now.pt
    BY <1>2, NowFields DEF Pools
  <2> HIDE DEF start
  <2>3. Sound(start, held, PMEM_SIZE, old, ~failed)
    BY <1>2, <2>2, SoundSame
  <2>4. KERNEL_BRK <= address /\ ~start.failed
    BY <1>2, <1>3, <1>5, <2>2
  <2>5. /\ t \in Pools
        /\ t.failed => Sound(t, held, PMEM_SIZE, old, FALSE)
        /\ ~t.failed => Sound(t, held, PMEM_SIZE, new, ~failed)
        /\ Taken(t.frc, start.frc, PMEM_SIZE)
    BY <1>2, <2>3, <2>4, GrowLoop
  <2> HIDE DEF t, old, new
  <2>6. /\ s \in Pools /\ s.failed = (t.failed \/ failed)
        /\ s.links = t.links /\ s.frc = t.frc /\ s.pt = t.pt
    BY <1>2, <2>5 DEF Pools
  <2> HIDE DEF s
  <2>7. Taken(frc_table', frc_table, PMEM_SIZE)
    BY <2>1, <2>2, <2>5, <2>6 DEF Become
  <2>8. CASE t.failed
    <3>1. Sound(s, held, PMEM_SIZE, old, FALSE)
      BY <2>5, <2>6, <2>8, SoundSame
    <3>2. s.failed = TRUE /\ KERNEL_BRK' = KERNEL_BRK
      BY <2>1, <2>6, <2>8
    <3>3. Sound(s, held, PMEM_SIZE, below(KERNEL_BRK), ~s.failed)
      BY <3>1, <3>2 DEF old
    <3>4. KERNEL_BRK \in DataEnd..KERNEL_STACK_BASE-NUMBER_OF_FRAME_WINDOWS-1
      BY DEF Intact
    <3>5. Intact'
      BY <1>4, <2>1, <2>6, <3>2, <3>3, <3>4
    <3> QED
      BY <1>1, <2>7, <3>5
  <2>9. CASE ~t.failed
    <3>1. Sound(s, held, PMEM_SIZE, new, ~failed)
      BY <2>5, <2>6, <2>9, SoundSame
    <3>2. s.failed = failed /\ KERNEL_BRK' = address
      BY <1>2, <2>1, <2>6, <2>9
    <3>3. Sound(s, held, PMEM_SIZE, below(address), ~s.failed)
      BY <3>1, <3>2 DEF new
    <3>4. Intact'
      BY <1>3, <1>4, <2>1, <2>6, <3>2, <3>3
    <3> QED
      BY <1>1, <2>7, <3>4
  <2> QED
    BY <2>8, <2>9
<1>6. CASE address < KERNEL_BRK /\ decreaseKernelBrk(address)
  <2> DEFINE s == Shrink!Loop(Now, address, KERNEL_BRK)
  <2>1. Become(s) /\ KERNEL_BRK' = address
    BY <1>6 DEF decreaseKernelBrk
  <2>2. address <= KERNEL_BRK
    BY <1>2, <1>3, <1>6
  <2>3. /\ Sound(s, held, PMEM_SIZE, below(address), ~failed)
        /\ s.failed = Now.failed
        /\ Given(s.frc, Now.frc)
    <3> DEFINE whole == ~failed
    <3>1. Sound(Now, held, PMEM_SIZE, 0..KERNEL_BRK-1, whole)
      BY <1>2
    <3> HIDE DEF whole
    <3>2. /\ held \in [Frame -> Nat] /\ PMEM_SIZE \in Nat /\ KERNEL_BRK \in KernelPage
          /\ address \in Nat /\ address <= KERNEL_BRK
      BY <1>2, <1>3, <2>2
    <3>3. /\ Sound(s, held, PMEM_SIZE, 0..address-1, whole)
          /\ s.failed = Now.failed
          /\ Given(s.frc, Now.frc)
      BY ONLY <3>1, <3>2, ShrinkLoop, Zenon
    <3> QED
      BY <3>3 DEF whole
  <2> HIDE DEF s
  <2>4. s \in Pools
    BY <2>3 DEF Sound
  <2>5. s.failed = failed
    BY <2>3, NowFields
  <2>6. Sound(s, held, PMEM_SIZE, below(address), ~s.failed)
    BY <2>3, <2>5
  <2>7. Intact'
    BY <1>3, <1>4, <2>1, <2>4, <2>6
  <2>8. Given(frc_table', frc_table)
    BY <2>1, <2>3, NowFields DEF Become
  <2> QED
    BY <1>1, <2>7, <2>8
<1> QED
  BY <1>5, <1>6 DEF SetKernelBrk

\* Before virtual memory is enabled only the break moves.
LEMMA SetKernelBrkAtBootIntact ==
  ASSUME Intact, NEW address \in KernelPage, SetKernelBrkAtBoot(address)
  PROVE  Intact' /\ UNCHANGED <<VIRTUAL_MEMORY_ENABLED, frc_table, links>>
<1>1. /\ ~VIRTUAL_MEMORY_ENABLED /\ address <= MaxBootBrk
      /\ KERNEL_BRK' = Larger(address, KERNEL_BRK)
      /\ UNCHANGED <<VIRTUAL_MEMORY_ENABLED, PMEM_SIZE, links, frc_table,
                     kernel_page_table, held, failed>>
  BY DEF SetKernelBrkAtBoot
<1>2. Now' = Now
  BY <1>1 DEF Now
<1>3. KERNEL_BRK' \in DataEnd..KERNEL_STACK_BASE-NUMBER_OF_FRAME_WINDOWS-1
  BY <1>1, FrameListAssumption DEF Larger, Intact, KernelPage
<1> QED
  BY <1>1, <1>2, <1>3 DEF Intact

------------------------------------------------------------------------------
\* The boot.

\* The frames from the break up, with the gap of the kernel stack jumped over.
BootList(brk, size) ==
  [i \in 1..(KERNEL_STACK_BASE-brk)+(size-KERNEL_STACK_LIMIT) |->
     IF i <= KERNEL_STACK_BASE - brk THEN brk + i - 1
     ELSE KERNEL_STACK_LIMIT + (i - 1 - (KERNEL_STACK_BASE - brk))]

\* initFrameList links them in this order, both ways.
LEMMA BootListLinked ==
  ASSUME NEW brk \in DataEnd..MaxBootBrk, NEW size \in KERNEL_STACK_LIMIT..MaxPmem
  PROVE  /\ initFrameList(brk, size) \in Links
         /\ RunsThrough(initFrameList(brk, size), Listed(brk, size))
<1> DEFINE m == KERNEL_STACK_BASE - brk
           k == (KERNEL_STACK_BASE-brk)+(size-KERNEL_STACK_LIMIT)
           list == BootList(brk, size)
           nodes == initFrameList(brk, size)
           base == KERNEL_STACK_BASE
           limit == KERNEL_STACK_LIMIT
           F == Listed(brk, size)
<1>1. /\ brk \in Nat /\ size \in Nat /\ base \in Nat /\ limit \in Nat /\ MaxPmem \in Nat
      /\ 0 < brk /\ brk + 1 < base /\ base < limit /\ limit <= size /\ size <= MaxPmem
      /\ m \in Nat /\ k \in Nat /\ 1 < m /\ m <= k /\ base = brk + m /\ size = limit + (k - m)
  <2>1. /\ DataEnd \in Nat /\ base \in Nat /\ limit \in Nat /\ MaxBootBrk \in Nat
        /\ MaxPmem \in Nat /\ NUMBER_OF_FRAME_WINDOWS \in Nat
        /\ NUMBER_OF_FRAME_WINDOWS >= 1 /\ 0 < DataEnd
        /\ MaxBootBrk < base - NUMBER_OF_FRAME_WINDOWS
        /\ base < limit /\ limit <= MaxPmem
    BY FrameListAssumption
  <2>2. brk \in Nat /\ DataEnd <= brk /\ brk <= MaxBootBrk
    BY <2>1
  <2>3. size \in Nat /\ limit <= size /\ size <= MaxPmem
    BY <2>1
  <2> HIDE DEF base, limit
  <2>4. 0 < brk /\ brk + 1 < base
    BY <2>1, <2>2
  <2>5. m = base - brk /\ k = (base - brk) + (size - limit)
    BY DEF base, limit
  <2> HIDE DEF m, k
  <2> QED
    BY <2>1, <2>2, <2>3, <2>4, <2>5
<1>2. list = [i \in 1..k |-> IF i <= m THEN brk + i - 1 ELSE limit + (i - 1 - m)]
  BY DEF BootList
<1>3. F = {f \in Frame : f \in brk..size-1 /\ f \notin base..limit-1}
  BY <1>1 DEF Listed, KernelStack, Frame
<1>4. /\ nodes.next = [n \in Node |-> CASE n = frame_head -> brk
                                        [] n \in F -> nextFrame(n, size)
                                        [] OTHER -> Data]
      /\ nodes.prev = [n \in Node |-> CASE n = frame_head -> size - 1
                                        [] n \in F -> previousFrame(n, brk)
                                        [] OTHER -> Data]
      /\ nodes = [next |-> nodes.next, prev |-> nodes.prev]
  BY DEF initFrameList
<1> HIDE DEF nodes, list, F, m, k
<1>5. ASSUME NEW i \in 1..k
      PROVE  /\ list[i] \in F /\ list[i] \in Frame /\ list[i] # frame_head
             /\ i <= m => list[i] = brk + i - 1
             /\ i > m => list[i] = limit + (i - 1 - m)
  <2>1. CASE i <= m
    <3>1. list[i] = brk + i - 1
      BY <1>2, <2>1
    <3>2. list[i] \in brk..base-1 /\ list[i] \in Frame
      BY <1>1, <2>1, <3>1 DEF Frame
    <3>3. list[i] \in brk..size-1 /\ list[i] \notin base..limit-1
      BY <1>1, <3>2
    <3> QED
      BY <1>1, <1>3, <2>1, <3>1, <3>2, <3>3, HeadNoFrame
  <2>2. CASE i > m
    <3>1. list[i] = limit + (i - 1 - m)
      BY <1>1, <1>2, <2>2
    <3>2. list[i] \in limit..size-1 /\ list[i] \in Frame
      BY <1>1, <2>2, <3>1 DEF Frame
    <3>3. list[i] \in brk..size-1 /\ list[i] \notin base..limit-1
      BY <1>1, <3>2
    <3> QED
      BY <1>1, <1>3, <2>2, <3>1, <3>2, <3>3, HeadNoFrame
  <2> QED
    BY <1>1, <2>1, <2>2
<1>6. list \in [1..k -> Frame]
  BY <1>2, <1>5
<1>7. F = {list[i] : i \in 1..k}
  <2> SUFFICES ASSUME NEW f \in F PROVE \E i \in 1..k : f = list[i]
    BY <1>5
  <2>1. f \in brk..size-1 /\ f \notin base..limit-1
    BY <1>3
  <2>2. CASE f < base
    <3>1. f - brk + 1 \in 1..k /\ f - brk + 1 <= m /\ brk + (f - brk + 1) - 1 = f
      BY <1>1, <2>1, <2>2
    <3>2. list[f - brk + 1] = brk + (f - brk + 1) - 1
      BY <1>5, <3>1
    <3> QED
      BY <3>1, <3>2
  <2>3. CASE f >= base
    <3>1. /\ f - limit + 1 + m \in 1..k /\ f - limit + 1 + m > m
          /\ limit + ((f - limit + 1 + m) - 1 - m) = f
      BY <1>1, <2>1, <2>3
    <3>2. list[f - limit + 1 + m] = limit + ((f - limit + 1 + m) - 1 - m)
      BY <1>5, <3>1
    <3> QED
      BY <3>1, <3>2
  <2> QED
    BY <1>1, <2>1, <2>2, <2>3
<1>8. \A i, j \in 1..k : list[i] = list[j] => i = j
  <2> SUFFICES ASSUME NEW i \in 1..k, NEW j \in 1..k, list[i] = list[j] PROVE i = j
    OBVIOUS
  <2>1. CASE i <= m /\ j <= m
    BY <1>1, <1>5, <2>1
  <2>2. CASE i > m /\ j > m
    BY <1>1, <1>5, <2>2
  <2>3. CASE i <= m /\ j > m
    <3>1. list[i] = brk + i - 1 /\ list[j] = limit + (j - 1 - m)
      BY <1>5, <2>3
    <3>2. list[i] < base
      BY <1>1, <2>3, <3>1
    <3>3. limit <= list[j]
      <4>1. j - 1 - m \in Nat
        BY <1>1, <2>3
      <4>2. \A x \in Nat : limit <= limit + x
        BY <1>1
      <4> QED
        BY ONLY <3>1, <4>1, <4>2
    <3> QED
      BY <1>1, <3>1, <3>2, <3>3
  <2>4. CASE i > m /\ j <= m
    <3>1. list[j] = brk + j - 1 /\ list[i] = limit + (i - 1 - m)
      BY <1>5, <2>4
    <3>2. list[j] < base
      BY <1>1, <2>4, <3>1
    <3>3. limit <= list[i]
      <4>1. i - 1 - m \in Nat
        BY <1>1, <2>4
      <4>2. \A x \in Nat : limit <= limit + x
        BY <1>1
      <4> QED
        BY ONLY <3>1, <4>1, <4>2
    <3> QED
      BY <1>1, <3>1, <3>2, <3>3
  <2> QED
    BY <1>1, <2>1, <2>2, <2>3, <2>4
<1>9. nodes.next[frame_head] = IF k = 0 THEN frame_head ELSE list[1]
  <2>1. 1 \in 1..k /\ 1 <= m
    BY <1>1
  <2>2. list[1] = brk + 1 - 1
    BY <1>5, <2>1
  <2>5. brk + 1 - 1 = brk
    BY <1>1
  <2>6. frame_head \in Node /\ frame_head \notin F
    BY <1>3, HeadNoFrame
  <2>3. nodes.next[frame_head] = brk
    BY <1>4, <2>6
  <2>4. k # 0
    BY <1>1
  <2> QED
    BY <2>2, <2>3, <2>4, <2>5
<1>10. ASSUME NEW i \in 1..k
       PROVE  nodes.next[list[i]] = IF i = k THEN frame_head ELSE list[i + 1]
  <2>1. nodes.next[list[i]] = nextFrame(list[i], size)
    BY <1>4, <1>5, HeadNoFrame
  <2>2. i # k => i + 1 \in 1..k
    BY <1>1
  <2>3. CASE i < m
    <3>1. list[i] = brk + i - 1 /\ list[i] # base - 1 /\ list[i] # size - 1 /\ i # k
      BY <1>1, <1>5, <2>3
    <3>2. list[i + 1] = brk + (i + 1) - 1
      BY <1>1, <1>5, <2>2, <2>3, <3>1
    <3>3. nextFrame(list[i], size) = list[i] + 1
      BY <3>1 DEF nextFrame
    <3> QED
      BY <1>1, <2>1, <3>1, <3>2, <3>3
  <2>4. CASE i = m
    <3>1. list[i] = base - 1
      BY <1>1, <1>5, <2>4
    <3>2. nextFrame(list[i], size) = IF limit < size THEN limit ELSE frame_head
      BY <3>1 DEF nextFrame
    <3>3. i # k => list[i + 1] = limit
      BY <1>1, <1>5, <2>2, <2>4
    <3>4. limit < size <=> i # k
      BY <1>1, <2>4
    <3> QED
      BY <2>1, <3>2, <3>3, <3>4
  <2>5. CASE i > m
    <3>1. list[i] = limit + (i - 1 - m)
      BY <1>5, <2>5
    <3>2. list[i] # base - 1 /\ (list[i] = size - 1 <=> i = k)
      BY <1>1, <2>5, <3>1
    <3>3. nextFrame(list[i], size) = IF i = k THEN frame_head ELSE list[i] + 1
      BY <3>2 DEF nextFrame
    <3>4. i # k => list[i + 1] = limit + (i + 1 - 1 - m)
      BY <1>1, <1>5, <2>2, <2>5
    <3>5. i # k => list[i] + 1 = list[i + 1]
      BY <1>1, <3>1, <3>4
    <3> QED
      BY <2>1, <3>3, <3>5
  <2> QED
    BY <1>1, <2>3, <2>4, <2>5
<1>11. ASSUME NEW i \in 1..k
       PROVE  nodes.prev[list[i]] = IF i = 1 THEN frame_head ELSE list[i - 1]
  <2>1. nodes.prev[list[i]] = previousFrame(list[i], brk)
    BY <1>4, <1>5, HeadNoFrame
  <2>2. i # 1 => i - 1 \in 1..k
    BY <1>1
  <2>3. CASE i = 1
    <3>1. list[i] = brk /\ brk # base - 1 /\ brk # limit
      BY <1>1, <1>5, <2>3
    <3>2. previousFrame(list[i], brk) = frame_head
      BY <3>1 DEF previousFrame
    <3> QED
      BY <2>1, <2>3, <3>2
  <2>4. CASE 1 < i /\ i <= m
    <3>1. list[i] = brk + i - 1 /\ list[i] # limit /\ list[i] # brk
      BY <1>1, <1>5, <2>4
    <3>2. list[i - 1] = brk + (i - 1) - 1
      BY <1>1, <1>5, <2>2, <2>4
    <3>3. previousFrame(list[i], brk) = list[i] - 1
      BY <3>1 DEF previousFrame
    <3> QED
      BY <1>1, <2>1, <2>4, <3>1, <3>2, <3>3
  <2>5. CASE i = m + 1
    <3>1. list[i] = limit /\ limit # base - 1 /\ i # 1
      BY <1>1, <1>5, <2>5
    <3>2. list[i - 1] = base - 1
      BY <1>1, <1>5, <2>2, <2>5
    <3>3. previousFrame(list[i], brk) = base - 1
      BY <3>1 DEF previousFrame
    <3> QED
      BY <2>1, <3>1, <3>2, <3>3
  <2>6. CASE i > m + 1
    <3>1. list[i] = limit + (i - 1 - m) /\ i # 1
      BY <1>1, <1>5, <2>6
    <3>2. list[i] # base - 1 /\ list[i] # limit /\ list[i] # brk
      BY <1>1, <2>6, <3>1
    <3>3. list[i - 1] = limit + (i - 1 - 1 - m)
      BY <1>1, <1>5, <2>2, <2>6
    <3>4. previousFrame(list[i], brk) = list[i] - 1
      BY <3>2 DEF previousFrame
    <3>5. list[i] - 1 = list[i - 1]
      BY <1>1, <3>1, <3>3
    <3> QED
      BY <2>1, <3>1, <3>4, <3>5
  <2> QED
    BY <1>1, <2>3, <2>4, <2>5, <2>6
<1>12. RunsThrough(nodes, F)
  <2>1. IsList(nodes, list, k)
    BY <1>8, <1>9, <1>10, <1>11 DEF IsList
  <2> QED
    BY <1>1, <1>6, <1>7, <2>1 DEF RunsThrough
<1>13. nodes \in Links
  <2>1. ASSUME NEW f \in F
        PROVE  nodes.next[f] \in Node /\ nodes.prev[f] \in Node
    <3>1. PICK i \in 1..k : f = list[i]
      BY <1>7
    <3>2. /\ i # k => i + 1 \in 1..k
          /\ i # 1 => i - 1 \in 1..k
      BY <1>1
    <3>3. /\ i # k => list[i + 1] \in Frame
          /\ i # 1 => list[i - 1] \in Frame
      BY <1>5, <3>2
    <3> QED
      BY <1>10, <1>11, <3>1, <3>3, HeadNoFrame
  <2>2. brk \in Frame /\ size - 1 \in Frame
    <3>1. brk < MaxPmem /\ size - 1 \in Nat /\ size - 1 < MaxPmem
      BY <1>1
    <3>2. size - 1 \in 0..MaxPmem-1
      BY <1>1, <3>1
    <3>3. brk \in 0..MaxPmem-1
      BY <1>1, <3>1
    <3> QED
      BY <3>2, <3>3 DEF Frame
  <2>7. frame_head \in Node /\ frame_head \notin F
    BY <1>3, HeadNoFrame
  <2>3. nodes.next[frame_head] = brk /\ nodes.prev[frame_head] = size - 1
    BY <1>4, <2>7
  <2>4. \A n \in Node : n \notin F /\ n # frame_head
                          => nodes.next[n] = Data /\ nodes.prev[n] = Data
    BY <1>4
  <2>5. \A n \in Node : /\ nodes.next[n] \in Node \cup {Data}
                        /\ nodes.prev[n] \in Node \cup {Data}
    BY <2>1, <2>2, <2>3, <2>4, HeadNoFrame
  <2>6. /\ nodes.next = [n \in Node |-> nodes.next[n]]
        /\ nodes.prev = [n \in Node |-> nodes.prev[n]]
    BY <1>4
  <2> QED
    BY <1>4, <2>5, <2>6 DEF Links
<1> QED
  BY <1>12, <1>13 DEF nodes, F

\* KernelStart leaves a sound allocator: text, data, heap and the kernel stack
\* have a user each, and all the other frames of the machine are on the list.
LEMMA KernelStartIntact ==
  ASSUME Intact, NEW pmem_size \in KERNEL_STACK_LIMIT..MaxPmem, KernelStart(pmem_size)
  PROVE  /\ Intact' /\ ~VIRTUAL_MEMORY_ENABLED /\ VIRTUAL_MEMORY_ENABLED'
         /\ \A f \in Frame : frc_table[f] = 0
         /\ \A f \in Frame : frc_table'[f] \in {0, 1}
         /\ frc_table' = [f \in Frame |-> frc_table'[f]]
<1>1. /\ ~VIRTUAL_MEMORY_ENABLED /\ VIRTUAL_MEMORY_ENABLED' = TRUE
      /\ held' = [f \in Frame |-> IF f \in KernelStack THEN 1 ELSE 0]
      /\ PMEM_SIZE' = pmem_size /\ failed' = failed
  BY DEF KernelStart
<1>2. PICK brk \in KERNEL_BRK..MaxBootBrk :
        /\ KERNEL_BRK' = brk
        /\ links' = initFrameList(brk, pmem_size)
        /\ kernel_page_table' = initKernelPageTable(brk)
        /\ frc_table' = [f \in Frame |-> IF f < brk \/ f \in KernelStack THEN 1
                                         ELSE initFRCTable[f]]
  BY DEF KernelStart
<1>3. /\ DataEnd \in Nat /\ KERNEL_STACK_BASE \in Nat /\ KERNEL_STACK_LIMIT \in Nat
      /\ MaxPmem \in Nat /\ MaxBootBrk \in Nat /\ MaxUsers \in Nat /\ MaxUsers >= 1
      /\ NUMBER_OF_FRAME_WINDOWS \in Nat
      /\ MaxBootBrk < KERNEL_STACK_BASE - NUMBER_OF_FRAME_WINDOWS
      /\ KERNEL_STACK_BASE < KERNEL_STACK_LIMIT /\ KERNEL_STACK_LIMIT <= MaxPmem
  BY FrameListAssumption
<1>4. KERNEL_BRK \in Nat /\ DataEnd <= KERNEL_BRK
  BY <1>3 DEF Intact
<1>5. /\ brk \in DataEnd..MaxBootBrk
      /\ brk \in DataEnd..KERNEL_STACK_BASE-NUMBER_OF_FRAME_WINDOWS-1
      /\ brk \in Nat /\ brk < KERNEL_STACK_BASE
  BY <1>2, <1>3, <1>4
<1>6. /\ pmem_size \in 0..MaxPmem /\ pmem_size \in Nat
      /\ KERNEL_STACK_LIMIT <= pmem_size /\ pmem_size <= MaxPmem
  BY <1>3
<1> DEFINE frc == frc_table'
           pt == kernel_page_table'
           users == held'
           mapped == 0..brk-1
           whole == ~failed
<1>7. ASSUME NEW f \in Frame
      PROVE  /\ frc[f] = IF f < brk \/ f \in KernelStack THEN 1 ELSE 0
             /\ users[f] = IF f \in KernelStack THEN 1 ELSE 0
             /\ f \in Nat
             /\ f \in KernelStack => ~(f < brk) /\ f < pmem_size
             /\ f < brk => f \in KernelPage /\ f < pmem_size
  <2>1. f \in Nat
    BY <1>3 DEF Frame
  <2>2. /\ f \in KernelStack => ~(f < brk) /\ f < pmem_size
        /\ f < brk => f \in KernelPage /\ f < pmem_size
    BY <1>3, <1>5, <1>6, <2>1 DEF KernelStack, KernelPage
  <2> QED
    BY <1>1, <1>2, <2>1, <2>2 DEF initFRCTable
<1>8. /\ pt \in [KernelPage -> Frame \cup {Invalid}]
      /\ \A i \in KernelPage : /\ pt[i] = IF i < brk THEN i ELSE Invalid
                               /\ i \in Frame /\ i # Invalid /\ i \in Nat
  <2>1. \A i \in KernelPage : i \in Frame /\ i # Invalid /\ i \in Nat
    BY <1>3 DEF KernelPage, Frame, Invalid
  <2>2. pt = [i \in KernelPage |-> IF i < brk THEN i ELSE Invalid]
    BY <1>2 DEF initKernelPageTable
  <2> QED
    BY <2>1, <2>2
<1>9. frc \in [Frame -> 0..MaxUsers] /\ users \in [Frame -> 0..MaxUsers]
  <2>1. 0 \in 0..MaxUsers /\ 1 \in 0..MaxUsers
    BY <1>3
  <2> QED
    BY <1>1, <1>2, <2>1 DEF initFRCTable
<1>10. links' \in Links /\ RunsThrough(links', Listed(brk, pmem_size))
  BY <1>2, <1>5, BootListLinked
<1>11. Unused(frc, pmem_size) = Listed(brk, pmem_size)
  <2>1. ASSUME NEW f \in Frame
        PROVE  f < pmem_size /\ frc[f] = 0 <=> f \in Listed(brk, pmem_size)
    <3>1. frc[f] = 0 <=> ~(f < brk) /\ f \notin KernelStack
      BY <1>7
    <3>2. f \in brk..pmem_size-1 <=> ~(f < brk) /\ f < pmem_size
      BY <1>5, <1>6, <1>7
    <3> QED
      BY <3>1, <3>2 DEF Listed
  <2>2. Listed(brk, pmem_size) \subseteq Frame
    BY <1>3, <1>5, <1>6 DEF Listed, Frame
  <2> QED
    BY <2>1, <2>2 DEF Unused
<1> HIDE DEF frc, pt, users, mapped, whole
<1>12. Accounts(frc, pt, users, pmem_size, mapped, whole)
  <2>1. \A f \in Frame : f >= pmem_size => frc[f] = 0
    BY <1>6, <1>7
  <2>2. ASSUME NEW f \in Frame, users[f] > 0
        PROVE  frc[f] = users[f] /\ ~Maps(pt, f)
    <3>1. f \in KernelStack
      BY <1>7, <2>2
    <3>2. \A i \in KernelPage : pt[i] # f
      <4>1. f # Invalid
        BY <1>7 DEF Invalid
      <4> QED
        BY <1>7, <1>8, <3>1, <4>1
    <3> QED
      BY <1>7, <3>1, <3>2 DEF Maps
  <2>3. \A i, j \in KernelPage : pt[i] = pt[j] /\ pt[i] # Invalid => i = j
    BY <1>8
  <2>4. \A i \in KernelPage : pt[i] # Invalid => frc[pt[i]] = 1
    BY <1>7, <1>8
  <2>5. \A i \in KernelPage : i \in mapped <=> i < brk
    BY <1>5, <1>8 DEF mapped
  <2>6. \A i \in mapped : pt[i] # Invalid
    <3>1. mapped \subseteq KernelPage
      BY <1>3, <1>5 DEF mapped, KernelPage
    <3> QED
      BY <1>8, <2>5, <3>1
  <2>7. \A i \in KernelPage \ mapped : pt[i] = Invalid
    BY <1>8, <2>5
  <2>8. ASSUME NEW f \in Frame, frc[f] > 0 PROVE users[f] > 0 \/ Maps(pt, f)
    <3>1. CASE f \in KernelStack
      BY <1>7, <3>1
    <3>2. CASE f \notin KernelStack
      <4>1. f < brk /\ f \in KernelPage
        BY <1>7, <2>8, <3>2
      <4>2. pt[f] = f
        BY <1>8, <4>1
      <4> QED
        BY <4>1, <4>2 DEF Maps
    <3> QED
      BY <3>1, <3>2
  <2> QED
    BY <2>1, <2>2, <2>3, <2>4, <2>6, <2>7, <2>8 DEF Accounts
<1>13. Now' = [links |-> links', frc |-> frc, pt |-> pt, failed |-> failed']
  BY DEF Now, frc, pt
<1>14. failed \in BOOLEAN
  BY IntactFacts
<1>15. Now' \in Pools
  BY <1>1, <1>8, <1>9, <1>10, <1>13, <1>14 DEF Pools
<1>16. Sound(Now', users, pmem_size, mapped, whole)
  BY <1>10, <1>11, <1>12, <1>13, <1>15 DEF Sound
<1>17. Sound(Now, held, PMEM_SIZE, 0..KERNEL_BRK-1, ~failed)'
  BY <1>1, <1>2, <1>16 DEF users, mapped, whole
<1>18. Intact'
  BY <1>1, <1>2, <1>5, <1>6, <1>9, <1>15, <1>17 DEF Intact, users
<1>19. \A f \in Frame : frc_table[f] = 0
  BY <1>1 DEF Intact
<1>20. \A f \in Frame : frc[f] \in {0, 1}
  BY <1>7
<1>21. frc = [f \in Frame |-> frc[f]]
  BY <1>9
<1> QED
  BY <1>1, <1>18, <1>19, <1>20, <1>21 DEF frc

------------------------------------------------------------------------------
\* Every step of the allocator and of those who use it keeps it intact.
LEMMA NextIntact == Intact /\ [Next]_vars => Intact'
<1> SUFFICES ASSUME Intact, [Next]_vars PROVE Intact'
  OBVIOUS
<1>1. ASSUME NEW address \in KernelPage, SetKernelBrkAtBoot(address) PROVE Intact'
  BY <1>1, SetKernelBrkAtBootIntact
<1>2. ASSUME NEW address \in KernelPage, SetKernelBrk(address) PROVE Intact'
  BY <1>2, SetKernelBrkIntact
<1>3. ASSUME NEW pmem_size \in KERNEL_STACK_LIMIT..MaxPmem, KernelStart(pmem_size)
      PROVE  Intact'
  BY <1>3, KernelStartIntact
<1>4. CASE UserAllocates
  BY <1>4, UserAllocatesIntact
<1>5. ASSUME NEW f \in Frame, UserShares(f) PROVE Intact'
  BY <1>5, UserSharesIntact
<1>6. ASSUME NEW f \in Frame, UserFrees(f) PROVE Intact'
  BY <1>6, UserFreesIntact
<1>7. CASE UNCHANGED vars
  <2>1. Now' = Now
    BY <1>7 DEF vars, Now
  <2> QED
    BY <1>7, <2>1 DEF vars, Intact
<1> QED
  BY <1>1, <1>2, <1>3, <1>4, <1>5, <1>6, <1>7 DEF Next

\* The allocator is intact in every state the kernel reaches.
LEMMA AlwaysIntact == Spec => []Intact
BY InitIntact, NextIntact, PTL DEF Spec

\* Every variable of memory.c and of the boot keeps its type, whatever sizes the
\* machine has: no count goes below zero or above the number of users.
THEOREM TypeCorrect == Spec => []TypeOK
<1>1. Intact => TypeOK
  <2> SUFFICES ASSUME Intact PROVE TypeOK
    OBVIOUS
  <2>1. links \in Links /\ kernel_page_table \in [KernelPage -> Frame \cup {Invalid}]
    BY NowFields DEF Intact, Pools
  <2> QED
    BY <2>1, IntactFacts DEF Intact, TypeOK, Links
<1> QED
  BY <1>1, AlwaysIntact, PTL

\* What the list and the counts have to do with each other, of an intact allocator.
LEMMA IntactList ==
  ASSUME Intact, VIRTUAL_MEMORY_ENABLED
  PROVE  /\ RunsThrough(links, Unused(frc_table, PMEM_SIZE))
         /\ Accounts(frc_table, kernel_page_table, held, PMEM_SIZE, 0..KERNEL_BRK-1, ~failed)
         /\ Range(FreeList) = Unused(frc_table, PMEM_SIZE)
<1>1. /\ RunsThrough(links, Unused(frc_table, PMEM_SIZE))
      /\ Accounts(frc_table, kernel_page_table, held, PMEM_SIZE, 0..KERNEL_BRK-1, ~failed)
  BY NowFields DEF Intact, Sound
<1>2. Range(FreeList) = Unused(frc_table, PMEM_SIZE)
  BY <1>1, RunsThroughWalk DEF FreeList
<1> QED
  BY <1>1, <1>2

\* allocatePageFrame and freePageFrame keep the list whole in every order of calls
\* and for every place of the kernel stack: the walk comes back to frame_head, meets
\* only frames without a user, and each points back to the one before.
THEOREM ListIntactHolds == Spec => []ListIntact
<1>1. Intact => ListIntact
  <2> SUFFICES ASSUME Intact, VIRTUAL_MEMORY_ENABLED
      PROVE  /\ Ends(links.next, frame_head, MaxPmem)
             /\ \A i \in DOMAIN FreeList :
                  /\ frc_table[FreeList[i]] = 0 /\ FreeList[i] < PMEM_SIZE
                  /\ links.prev[FreeList[i]] = IF i = 1 THEN frame_head ELSE FreeList[i - 1]
    BY DEF ListIntact
  <2> DEFINE F == Unused(frc_table, PMEM_SIZE)
  <2>1. RunsThrough(links, F)
    BY IntactList
  <2>2. FreeList = forEachNode(links.next, frame_head, MaxPmem)
    BY DEF FreeList
  <2> HIDE DEF F
  <2>3. Ends(links.next, frame_head, MaxPmem)
    BY <2>1, <2>2, RunsThroughWalk
  <2>4. \A i \in DOMAIN FreeList :
          /\ FreeList[i] \in F
          /\ links.prev[FreeList[i]] = IF i = 1 THEN frame_head ELSE FreeList[i - 1]
    BY <2>1, <2>2, RunsThroughWalk
  <2> QED
    BY <2>3, <2>4 DEF Unused, F
<1> QED
  BY <1>1, AlwaysIntact, PTL

\* At most one page of the kernel maps a frame.
LEMMA MappedOnce ==
  ASSUME Intact, VIRTUAL_MEMORY_ENABLED, NEW f \in Frame
  PROVE  /\ ~Maps(kernel_page_table, f) => MappedBy(f) = {}
         /\ \A i \in KernelPage : kernel_page_table[i] = f => MappedBy(f) = {i}
<1>1. \A i, j \in KernelPage :
        kernel_page_table[i] = kernel_page_table[j] /\ kernel_page_table[i] # Invalid => i = j
  BY IntactList DEF Accounts
<1>2. f # Invalid
  BY FrameListAssumption DEF Frame, Invalid
<1> QED
  BY <1>1, <1>2 DEF MappedBy, Maps

\* frc_table counts the users a frame has, processes and pages of the kernel, and
\* every frame without one can be allocated, unless increaseKernelBrk ran out half way.
THEOREM FramesAccountedHolds == Spec => []FramesAccounted
<1>1. Intact => FramesAccounted
  <2> SUFFICES ASSUME Intact, VIRTUAL_MEMORY_ENABLED, ~failed, NEW f \in 0..PMEM_SIZE-1
      PROVE  /\ frc_table[f] = held[f] + Cardinality(MappedBy(f))
             /\ frc_table[f] = 0 => f \in Range(FreeList)
    BY DEF FramesAccounted
  <2> DEFINE pt == kernel_page_table
             whole == ~failed
  <2>1. f \in Frame /\ f < PMEM_SIZE
    BY FrameListAssumption DEF Intact, Frame
  <2>2. Accounts(frc_table, pt, held, PMEM_SIZE, 0..KERNEL_BRK-1, whole)
    BY IntactList
  <2>3. whole
    OBVIOUS
  <2> HIDE DEF pt, whole
  <2>4. /\ \A g \in Frame : held[g] > 0 => frc_table[g] = held[g] /\ ~Maps(pt, g)
        /\ \A i \in KernelPage : pt[i] # Invalid => frc_table[pt[i]] = 1
        /\ \A g \in Frame : frc_table[g] > 0 => held[g] > 0 \/ Maps(pt, g)
    BY <2>2, <2>3 DEF Accounts
  <2>5. held[f] \in Nat /\ frc_table[f] \in Nat
    BY <2>1, FrameListAssumption, IntactFacts
  <2>6. frc_table[f] = held[f] + Cardinality(MappedBy(f))
    <3>1. CASE Maps(pt, f)
      <4>1. PICK i \in KernelPage : pt[i] = f
        BY <3>1 DEF Maps
      <4>2. f # Invalid
        BY <2>1, FrameListAssumption DEF Frame, Invalid
      <4>3. frc_table[f] = 1 /\ held[f] = 0
        BY <2>1, <2>4, <2>5, <3>1, <4>1, <4>2
      <4>4. MappedBy(f) = {i}
        BY <2>1, <4>1, MappedOnce DEF pt
      <4>5. Cardinality(MappedBy(f)) = 1
        BY <4>4, FS_Singleton
      <4> QED
        BY <4>3, <4>5
    <3>2. CASE ~Maps(pt, f)
      <4>1. MappedBy(f) = {}
        BY <2>1, <3>2, MappedOnce DEF pt
      <4>2. Cardinality(MappedBy(f)) = 0
        BY <4>1, FS_EmptySet
      <4>3. frc_table[f] = held[f]
        BY <2>1, <2>4, <2>5, <3>2
      <4> QED
        BY <2>5, <4>2, <4>3
    <3> QED
      BY <3>1, <3>2
  <2>7. frc_table[f] = 0 => f \in Range(FreeList)
    BY <2>1, IntactList DEF Unused
  <2> QED
    BY <2>6, <2>7
<1> QED
  BY <1>1, AlwaysIntact, PTL

\* A page of the kernel below the break keeps a frame of its own, whatever processes
\* do with theirs and also after SetKernelBrk ran out of frames.
THEOREM KernelPagesPrivateHolds == Spec => []KernelPagesPrivate
<1>1. Intact => KernelPagesPrivate
  <2> SUFFICES ASSUME Intact, VIRTUAL_MEMORY_ENABLED, NEW i \in 0..KERNEL_BRK-1,
                      NEW f, f = kernel_page_table[i]
      PROVE  f \in Frame /\ MappedBy(f) = {i} /\ held[f] = 0 /\ f \notin Range(FreeList)
    BY DEF KernelPagesPrivate
  <2> DEFINE pt == kernel_page_table
             whole == ~failed
  <2>1. Accounts(frc_table, pt, held, PMEM_SIZE, 0..KERNEL_BRK-1, whole)
    BY IntactList
  <2>2. i \in KernelPage /\ pt \in [KernelPage -> Frame \cup {Invalid}]
    BY IntactFacts, NowFields DEF Intact, Pools
  <2>3. f = pt[i]
    OBVIOUS
  <2> HIDE DEF pt, whole
  <2>4. /\ \A g \in Frame : held[g] > 0 => ~Maps(pt, g)
        /\ \A j \in KernelPage : pt[j] # Invalid => frc_table[pt[j]] = 1
        /\ \A j \in 0..KERNEL_BRK-1 : pt[j] # Invalid
    BY <2>1 DEF Accounts
  <2>5. f \in Frame /\ frc_table[f] = 1 /\ Maps(pt, f)
    BY <2>2, <2>3, <2>4 DEF Maps
  <2>6. held[f] = 0
    BY <2>4, <2>5, IntactFacts
  <2>7. MappedBy(f) = {i}
    BY <2>2, <2>3, <2>5, MappedOnce DEF pt
  <2>8. f \notin Range(FreeList)
    BY <2>5, IntactList DEF Unused
  <2> QED
    BY <2>5, <2>6, <2>7, <2>8
<1> QED
  BY <1>1, AlwaysIntact, PTL

------------------------------------------------------------------------------
\* FramePool.

\* The pool behind the list.
FreeFrames == IF VIRTUAL_MEMORY_ENABLED THEN Range(FreeList) ELSE {}

\* The pool is the unused frames.
LEMMA PoolUnused ==
  Intact => FreeFrames = IF VIRTUAL_MEMORY_ENABLED THEN Unused(frc_table, PMEM_SIZE) ELSE {}
BY IntactList DEF FreeFrames

\* The pool after a step.
LEMMA PoolUnusedNext ==
  Intact' => FreeFrames' = IF VIRTUAL_MEMORY_ENABLED' THEN Unused(frc_table', PMEM_SIZE') ELSE {}
<1>1. (Intact => FreeFrames = IF VIRTUAL_MEMORY_ENABLED THEN Unused(frc_table, PMEM_SIZE) ELSE {})'
  BY PoolUnused, PTL
<1> QED
  BY <1>1 DEF Unused

\* A frame that is taken leaves the pool with one user.
LEMMA TakenAllocates ==
  ASSUME NEW old \in [Frame -> Nat], NEW new \in [Frame -> Nat], NEW size,
         Taken(new, old, size)
  PROVE  /\ Unused(new, size) \subseteq Unused(old, size)
         /\ new = [f \in Frame |-> IF f \in Unused(old, size) \ Unused(new, size)
                                     THEN 1 ELSE old[f]]
BY DEF Taken, Unused

\* The allocator with its list of frames, the heap that grows and shrinks and the
\* boot that builds it implements the pool of frames with a number of users each.
THEOREM ImplementsFramePoolHolds == Spec => ImplementsFramePool
<1>1. Init => Pool!Init
  BY DEF Init, Pool!Init
<1>2. Intact /\ Intact' /\ [Next]_vars
        => [Pool!Next]_<<FreeFrames, frc_table>>
  <2> SUFFICES ASSUME Intact, Intact', [Next]_vars
      PROVE  [Pool!Next]_<<FreeFrames, frc_table>>
    OBVIOUS
  <2>1. /\ FreeFrames = IF VIRTUAL_MEMORY_ENABLED THEN Unused(frc_table, PMEM_SIZE) ELSE {}
        /\ FreeFrames' = IF VIRTUAL_MEMORY_ENABLED' THEN Unused(frc_table', PMEM_SIZE') ELSE {}
    BY PoolUnused, PoolUnusedNext
  <2>2. frc_table \in [Frame -> Nat] /\ frc_table' \in [Frame -> Nat]
    <3>1. frc_table \in [Frame -> 0..MaxUsers] /\ frc_table' \in [Frame -> 0..MaxUsers]
      BY NowFields DEF Intact, Pools, Now
    <3> QED
      BY <3>1, FrameListAssumption
  <2>3. PMEM_SIZE \in Nat
    BY IntactFacts
  <2>4. VIRTUAL_MEMORY_ENABLED => \A f \in Frame : f >= PMEM_SIZE => frc_table[f] = 0
    BY IntactList DEF Accounts
  <2> DEFINE old == Unused(frc_table, PMEM_SIZE)
             new == Unused(frc_table', PMEM_SIZE)
             given == {f \in Frame : frc_table'[f] # frc_table[f]}
  <2>5. ASSUME VIRTUAL_MEMORY_ENABLED, VIRTUAL_MEMORY_ENABLED', PMEM_SIZE' = PMEM_SIZE
        PROVE  FreeFrames = old /\ FreeFrames' = new
    BY <2>1, <2>5
  <2>6. ASSUME VIRTUAL_MEMORY_ENABLED, VIRTUAL_MEMORY_ENABLED', PMEM_SIZE' = PMEM_SIZE,
               Taken(frc_table', frc_table, PMEM_SIZE)
        PROVE  Pool!Allocate
    <3>1. /\ new \subseteq old
          /\ frc_table' = [f \in Frame |-> IF f \in old \ new THEN 1 ELSE frc_table[f]]
      BY <2>2, <2>6, TakenAllocates
    <3>2. FreeFrames = old /\ FreeFrames' = new
      BY <2>5, <2>6
    <3> HIDE DEF old, new
    <3> QED
      BY <3>1, <3>2 DEF Pool!Allocate, FreeFrames
  <2>7. ASSUME VIRTUAL_MEMORY_ENABLED, VIRTUAL_MEMORY_ENABLED', PMEM_SIZE' = PMEM_SIZE,
               \A f \in Frame : \/ frc_table'[f] = frc_table[f]
                                \/ frc_table[f] > 0 /\ frc_table'[f] = frc_table[f] - 1
        PROVE  Pool!Release
    <3>1. /\ \A f \in given : frc_table[f] > 0
          /\ frc_table' = [f \in Frame |-> IF f \in given THEN frc_table[f] - 1 ELSE frc_table[f]]
          /\ new = old \cup {f \in given : frc_table[f] = 1}
      <4>1. /\ \A f \in Frame : f >= PMEM_SIZE => frc_table[f] = 0
            /\ \A f \in Frame : frc_table'[f] = frc_table[f]
                               \/ (frc_table[f] > 0 /\ frc_table'[f] = frc_table[f] - 1)
        BY <2>4, <2>7
      <4>2. ASSUME NEW f \in Frame
            PROVE  /\ f \in given => frc_table[f] > 0 /\ frc_table'[f] = frc_table[f] - 1
                   /\ f \notin given => frc_table'[f] = frc_table[f]
                   /\ f \in new <=> f \in old \/ (f \in given /\ frc_table[f] = 1)
        <5>1. frc_table[f] \in Nat /\ frc_table'[f] \in Nat /\ f \in Nat
          BY ONLY <2>2, FrameListAssumption DEF Frame
        <5>2. /\ f \in given <=> frc_table'[f] # frc_table[f]
              /\ f \in new <=> f < PMEM_SIZE /\ frc_table'[f] = 0
              /\ f \in old <=> f < PMEM_SIZE /\ frc_table[f] = 0
          BY ONLY DEF given, new, old, Unused
        <5>3. /\ f >= PMEM_SIZE => frc_table[f] = 0
              /\ frc_table'[f] = frc_table[f]
                   \/ (frc_table[f] > 0 /\ frc_table'[f] = frc_table[f] - 1)
          BY ONLY <4>1
        <5> QED
          BY ONLY <2>3, <5>1, <5>2, <5>3
      <4>3. /\ given \subseteq Frame /\ old \subseteq Frame /\ new \subseteq Frame
            /\ \A f \in Frame : frc_table'[f] = IF f \in given THEN frc_table[f] - 1 ELSE frc_table[f]
        <5>1. given \subseteq Frame /\ old \subseteq Frame /\ new \subseteq Frame
          BY ONLY DEF given, new, old, Unused
        <5> QED
          BY ONLY <4>2, <5>1
      <4>4. frc_table' = [f \in Frame |-> IF f \in given THEN frc_table[f] - 1 ELSE frc_table[f]]
        <5> HIDE DEF given
        <5> QED
          BY ONLY <2>2, <4>3
      <4> HIDE DEF given, old, new
      <4>5. new = old \cup {f \in given : frc_table[f] = 1}
        BY ONLY <4>2, <4>3
      <4>6. \A f \in given : frc_table[f] > 0
        BY ONLY <4>2, <4>3
      <4> QED
        BY ONLY <4>4, <4>5, <4>6
    <3>2. FreeFrames = old /\ FreeFrames' = new
      BY <2>5, <2>7
    <3> HIDE DEF old, new
    <3> QED
      BY <3>1, <3>2 DEF Pool!Release, FreeFrames
  <2>8. ASSUME NEW address \in KernelPage, SetKernelBrkAtBoot(address)
        PROVE  UNCHANGED <<FreeFrames, frc_table>>
    <3>1. ~VIRTUAL_MEMORY_ENABLED /\ UNCHANGED <<VIRTUAL_MEMORY_ENABLED, frc_table>>
      BY <2>8 DEF SetKernelBrkAtBoot
    <3> QED
      BY <2>1, <3>1
  <2>9. ASSUME NEW address \in KernelPage, SetKernelBrk(address)
        PROVE  Pool!Allocate \/ Pool!Release
    <3>1. /\ VIRTUAL_MEMORY_ENABLED
          /\ Taken(frc_table', frc_table, PMEM_SIZE) \/ Given(frc_table', frc_table)
      BY <2>9, SetKernelBrkIntact
    <3>2. VIRTUAL_MEMORY_ENABLED' = VIRTUAL_MEMORY_ENABLED /\ PMEM_SIZE' = PMEM_SIZE
      BY <2>9 DEF SetKernelBrk
    <3>3. ASSUME Given(frc_table', frc_table), NEW f \in Frame
          PROVE  \/ frc_table'[f] = frc_table[f]
                 \/ frc_table[f] > 0 /\ frc_table'[f] = frc_table[f] - 1
      BY <3>3 DEF Given
    <3> QED
      BY <2>6, <2>7, <3>1, <3>2, <3>3
  <2>10. ASSUME NEW pmem_size \in KERNEL_STACK_LIMIT..MaxPmem, KernelStart(pmem_size)
         PROVE  Pool!Start
    <3>1. /\ ~VIRTUAL_MEMORY_ENABLED /\ VIRTUAL_MEMORY_ENABLED'
          /\ \A f \in Frame : frc_table[f] = 0
          /\ \A f \in Frame : frc_table'[f] \in {0, 1}
          /\ frc_table' = [f \in Frame |-> frc_table'[f]]
      BY <2>10, KernelStartIntact
    <3>2. FreeFrames = {} /\ FreeFrames' = Unused(frc_table', PMEM_SIZE')
      BY <2>1, <3>1
    <3>3. frc_table' \in [Frame -> {0, 1}]
      BY <3>1
    <3>4. Unused(frc_table', PMEM_SIZE') \subseteq {f \in Frame : frc_table'[f] = 0}
      BY DEF Unused
    <3> QED
      BY <3>1, <3>2, <3>3, <3>4 DEF Pool!Start, FreeFrames
  <2>11. CASE UserAllocates
    <3>1. /\ VIRTUAL_MEMORY_ENABLED /\ VIRTUAL_MEMORY_ENABLED'
          /\ PMEM_SIZE' = PMEM_SIZE
      BY <2>11 DEF UserAllocates, UserUnchanged
    <3>2. Taken(frc_table', frc_table, PMEM_SIZE)
      BY <2>11, UserAllocatesIntact
    <3> QED
      BY <2>6, <3>1, <3>2 DEF Pool!Next
  <2>12. ASSUME NEW f \in Frame, UserShares(f) PROVE Pool!Share
    <3>1. /\ frc_table[f] > 0 /\ frc_table' = [frc_table EXCEPT ![f] = @ + 1]
          /\ VIRTUAL_MEMORY_ENABLED
      BY <2>12, UserSharesIntact
    <3>2. VIRTUAL_MEMORY_ENABLED' = VIRTUAL_MEMORY_ENABLED /\ PMEM_SIZE' = PMEM_SIZE
      BY <2>12 DEF UserShares, UserUnchanged
    <3>3. new = old
      BY <2>2, <3>1 DEF Unused
    <3>4. FreeFrames' = FreeFrames
      BY <2>5, <3>1, <3>2, <3>3
    <3> QED
      BY <3>1, <3>4 DEF Pool!Share, FreeFrames
  <2>13. ASSUME NEW f \in Frame, UserFrees(f) PROVE Pool!Release
    <3>1. /\ frc_table[f] > 0 /\ frc_table' = [frc_table EXCEPT ![f] = @ - 1]
          /\ VIRTUAL_MEMORY_ENABLED
      BY <2>13, UserFreesIntact
    <3>2. VIRTUAL_MEMORY_ENABLED' = VIRTUAL_MEMORY_ENABLED /\ PMEM_SIZE' = PMEM_SIZE
      BY <2>13 DEF UserFrees, UserUnchanged
    <3>3. ASSUME NEW g \in Frame
          PROVE  \/ frc_table'[g] = frc_table[g]
                 \/ frc_table[g] > 0 /\ frc_table'[g] = frc_table[g] - 1
      BY <2>2, <3>1
    <3> QED
      BY <2>7, <3>1, <3>2, <3>3
  <2>14. CASE UNCHANGED vars
    BY <2>1, <2>14 DEF vars
  <2> QED
    BY <2>8, <2>9, <2>10, <2>11, <2>12, <2>13, <2>14, <2>6 DEF Next, Pool!Next
<1> QED
  BY <1>1, <1>2, AlwaysIntact, PTL DEF Spec, ImplementsFramePool, Pool!Spec, FreeFrames
==============================================================================
