------------------------------ MODULE ListProofs -------------------------------
(***************************************************************************)
(* Lemmas about List: what insertion and removal do to a circular list,    *)
(* and what the walks over one visit.                                      *)
(***************************************************************************)
EXTENDS List, Functions, FiniteSetTheorems, TLAPS

\* One step of a walk that carries the links along.
Step(x, i) == <<x[1], x[1][x[2]]>>

Walk == INSTANCE RoundsProofs WITH Round <- Step

\* Follow goes from each node to the one it links.
LEMMA FollowSteps ==
  ASSUME NEW link, NEW head
  PROVE  /\ Follow(link, head)[0] = head
         /\ \A n \in Nat : Follow(link, head)[n + 1] = link[Follow(link, head)[n]]
<1> DEFINE x == Walk!After(<<link, head>>, 0)
           bad == {n \in Nat : x[n] # <<link, x[n][2]>>}
<1>1. /\ x[0] = <<link, head>>
      /\ \A n \in Nat : x[n + 1] = Step(x[n], 0 + n)
  <2>1. 0 \in Int
    OBVIOUS
  <2> QED
    BY <2>1, Walk!AfterRounds
<1> HIDE DEF x
<1>2. bad = {}
  <2> SUFFICES ASSUME bad # {} PROVE FALSE
    OBVIOUS
  <2>1. PICK n \in bad : \A m \in bad : n <= m
    BY Walk!Least
  <2>2. n # 0
    BY <1>1, <2>1
  <2>3. n - 1 \in Nat /\ n - 1 \notin bad /\ (n - 1) + 1 = n
    BY <2>1, <2>2
  <2>4. x[n - 1] = <<link, x[n - 1][2]>>
    BY <2>3
  <2>5. x[n - 1][1] = link
    BY <2>4
  <2>6. x[n] = <<link, link[x[n - 1][2]]>>
    BY <1>1, <2>3, <2>5 DEF Step
  <2> QED
    BY <2>1, <2>6
<1>3. \A n \in Nat : x[n] = <<link, x[n][2]>>
  BY <1>2
<1>4. \A n \in Nat : x[n + 1][2] = link[x[n][2]]
  <2> SUFFICES ASSUME NEW n \in Nat PROVE x[n + 1][2] = link[x[n][2]]
    OBVIOUS
  <2>1. x[n][1] = link
    BY <1>3
  <2> QED
    BY <1>1, <2>1 DEF Step
<1> DEFINE g == [n \in Nat |-> x[n][2]]
           nth == Follow(link, head)
<1>5. g = [n \in Nat |-> IF n = 0 THEN head ELSE link[g[n - 1]]]
  <2> SUFFICES ASSUME NEW n \in Nat
               PROVE  x[n][2] = IF n = 0 THEN head ELSE link[g[n - 1]]
    OBVIOUS
  <2>1. CASE n = 0
    BY <1>1, <2>1
  <2>2. CASE n # 0
    <3>1. n - 1 \in Nat /\ (n - 1) + 1 = n
      BY <2>2
    <3> QED
      BY <1>4, <2>2, <3>1
  <2> QED
    BY <2>1, <2>2
<1> HIDE DEF g
<1>6. nth = [n \in Nat |-> IF n = 0 THEN head ELSE link[nth[n - 1]]]
  BY <1>5 DEF Follow
<1> HIDE DEF nth
<1>7. nth[0] = head
  BY <1>6
<1>8. ASSUME NEW n \in Nat PROVE nth[n + 1] = link[nth[n]]
  <2>1. n + 1 \in Nat /\ n + 1 # 0 /\ n + 1 - 1 = n
    OBVIOUS
  <2> QED
    BY <1>6, <2>1
<1> QED
  BY <1>7, <1>8 DEF nth

------------------------------------------------------------------------------
\* Circular lists.

\* The links of a set of nodes.
LinksOf(N) == [next : [N -> N], prev : [N -> N]]

\* w[0], ..., w[k] are linked in this order and back to w[0], in both directions.
Circle(l, w, k) ==
  /\ \A i, j \in 0..k : w[i] = w[j] => i = j
  /\ \A i \in 0..k :
       /\ l.next[w[i]] = IF i = k THEN w[0] ELSE w[i + 1]
       /\ l.prev[w[i]] = IF i = 0 THEN w[k] ELSE w[i - 1]

\* The list at head has the members S.
Ring(l, head, S) ==
  \E k \in Nat : \E w \in [0..k -> S \cup {head}] :
    w[0] = head /\ Circle(l, w, k) /\ S = {w[i] : i \in 1..k}

\* A function that describes a list, taken from Ring.
LEMMA RingWitness ==
  ASSUME NEW l, NEW head, NEW S, Ring(l, head, S)
  PROVE  \E k \in Nat : \E w \in [0..k -> S \cup {head}] :
           /\ w[0] = head /\ Circle(l, w, k) /\ S = {w[i] : i \in 1..k}
           /\ head \notin S
           /\ S \cup {head} = {w[i] : i \in 0..k}
<1>1. PICK k \in Nat : \E w \in [0..k -> S \cup {head}] :
        w[0] = head /\ Circle(l, w, k) /\ S = {w[i] : i \in 1..k}
  BY DEF Ring
<1>2. PICK w \in [0..k -> S \cup {head}] :
        w[0] = head /\ Circle(l, w, k) /\ S = {w[i] : i \in 1..k}
  BY <1>1
<1>3. head \notin S
  <2> SUFFICES ASSUME NEW i \in 1..k, w[i] = head PROVE FALSE
    BY <1>2
  <2>1. i \in 0..k /\ 0 \in 0..k /\ i # 0
    OBVIOUS
  <2> QED
    BY <1>2, <2>1 DEF Circle
<1>4. S \cup {head} = {w[i] : i \in 0..k}
  <2>1. \A i \in 0..k : i = 0 \/ i \in 1..k
    OBVIOUS
  <2>2. 0 \in 0..k /\ \A i \in 1..k : i \in 0..k
    OBVIOUS
  <2> QED
    BY <1>2, <2>1, <2>2
<1> QED
  BY <1>2, <1>3, <1>4

\* Links that agree on a list link the same list.
LEMMA RingSame ==
  ASSUME NEW l, NEW m, NEW head, NEW S, Ring(l, head, S),
         \A n \in S \cup {head} : m.next[n] = l.next[n] /\ m.prev[n] = l.prev[n]
  PROVE  Ring(m, head, S)
<1>1. PICK k \in Nat : \E w \in [0..k -> S \cup {head}] :
        w[0] = head /\ Circle(l, w, k) /\ S = {w[i] : i \in 1..k}
  BY DEF Ring
<1>2. PICK w \in [0..k -> S \cup {head}] :
        w[0] = head /\ Circle(l, w, k) /\ S = {w[i] : i \in 1..k}
  BY <1>1
<1>3. \A i \in 0..k : m.next[w[i]] = l.next[w[i]] /\ m.prev[w[i]] = l.prev[w[i]]
  OBVIOUS
<1>4. Circle(m, w, k)
  BY <1>2, <1>3 DEF Circle
<1> QED
  BY <1>2, <1>4 DEF Ring

\* The neighbours of a node are on its list, and link it.
LEMMA RingNeighbours ==
  ASSUME NEW l, NEW head, NEW S, Ring(l, head, S), NEW n \in S \cup {head}
  PROVE  /\ l.next[n] \in S \cup {head} /\ l.prev[n] \in S \cup {head}
         /\ l.prev[l.next[n]] = n /\ l.next[l.prev[n]] = n
<1>1. PICK k \in Nat : \E w \in [0..k -> S \cup {head}] :
           /\ w[0] = head /\ Circle(l, w, k) /\ S = {w[i] : i \in 1..k}
           /\ head \notin S
           /\ S \cup {head} = {w[i] : i \in 0..k}
  BY RingWitness
<1>2. PICK w \in [0..k -> S \cup {head}] :
           /\ w[0] = head /\ Circle(l, w, k) /\ S = {w[i] : i \in 1..k}
           /\ S \cup {head} = {w[i] : i \in 0..k}
  BY <1>1
<1>3. PICK i \in 0..k : n = w[i]
  BY <1>2
<1>4. /\ i # k => i + 1 \in 0..k /\ i + 1 # 0 /\ i + 1 - 1 = i
      /\ i # 0 => i - 1 \in 0..k /\ i - 1 # k /\ i - 1 + 1 = i
      /\ 0 \in 0..k /\ k \in 0..k
  OBVIOUS
<1>5. CASE i = k
  <2>1. l.next[n] = w[0]
    BY <1>2, <1>3, <1>5 DEF Circle
  <2>2. l.prev[w[0]] = w[k]
    BY <1>2, <1>4 DEF Circle
  <2>3. CASE i = 0
    BY <1>2, <1>3, <1>4, <1>5, <2>1, <2>2, <2>3
  <2>4. CASE i # 0
    <3>1. l.prev[n] = w[i - 1] /\ l.next[w[i - 1]] = w[i]
      BY <1>2, <1>3, <1>4, <2>4 DEF Circle
    <3> QED
      BY <1>3, <1>4, <1>5, <2>1, <2>2, <2>4, <3>1
  <2> QED
    BY <2>3, <2>4
<1>6. CASE i # k
  <2>1. l.next[n] = w[i + 1] /\ l.prev[w[i + 1]] = w[i]
    BY <1>2, <1>3, <1>4, <1>6 DEF Circle
  <2>2. CASE i = 0
    <3>1. l.prev[n] = w[k] /\ l.next[w[k]] = w[0]
      BY <1>2, <1>3, <1>4, <2>2 DEF Circle
    <3> QED
      BY <1>3, <1>4, <1>6, <2>1, <2>2, <3>1
  <2>3. CASE i # 0
    <3>1. l.prev[n] = w[i - 1] /\ l.next[w[i - 1]] = w[i]
      BY <1>2, <1>3, <1>4, <2>3 DEF Circle
    <3> QED
      BY <1>3, <1>4, <1>6, <2>1, <2>3, <3>1
  <2> QED
    BY <2>2, <2>3
<1> QED
  BY <1>5, <1>6

\* A list is empty when its head links itself, in either direction.
LEMMA RingEmpty ==
  ASSUME NEW l, NEW head
  PROVE  /\ Ring(l, head, {}) <=> l.next[head] = head /\ l.prev[head] = head
         /\ \A S : Ring(l, head, S) => (listIsEmpty(l, head) <=> S = {})
<1>1. ASSUME l.next[head] = head, l.prev[head] = head
      PROVE  Ring(l, head, {})
  <2> DEFINE w == [i \in 0..0 |-> head]
  <2>1. 0..0 = {0} /\ 1..0 = {}
    OBVIOUS
  <2>2. w \in [0..0 -> {} \cup {head}] /\ w[0] = head /\ {} = {w[i] : i \in 1..0}
    BY <2>1
  <2>3. Circle(l, w, 0)
    BY <1>1, <2>1, <2>2 DEF Circle
  <2> HIDE DEF w
  <2>4. \E u \in [0..0 -> {} \cup {head}] :
          u[0] = head /\ Circle(l, u, 0) /\ {} = {u[i] : i \in 1..0}
    BY <2>2, <2>3
  <2> QED
    BY <2>4 DEF Ring
<1>2. ASSUME NEW S, Ring(l, head, S)
      PROVE  /\ l.next[head] = head <=> S = {}
             /\ l.next[head] = head => l.prev[head] = head
  <2>1. PICK k \in Nat : \E w \in [0..k -> S \cup {head}] :
        /\ w[0] = head /\ Circle(l, w, k) /\ S = {w[i] : i \in 1..k}
        /\ head \notin S
    BY <1>2, RingWitness
  <2>2. PICK w \in [0..k -> S \cup {head}] :
        /\ w[0] = head /\ Circle(l, w, k) /\ S = {w[i] : i \in 1..k}
        /\ head \notin S
    BY <2>1
  <2>3. CASE k = 0
    <3>1. 1..k = {} /\ 0 \in 0..k
      BY <2>3
    <3>2. S = {}
      BY <2>2, <3>1
    <3>3. l.next[head] = head /\ l.prev[head] = head
      BY <2>2, <2>3, <3>1 DEF Circle
    <3> QED
      BY <3>2, <3>3
  <2>4. CASE k # 0
    <3>1. 0 \in 0..k /\ 0 + 1 \in 1..k /\ 0 + 1 = 1
      BY <2>4
    <3>2. l.next[head] = w[1] /\ w[1] \in S
      BY <2>2, <2>4, <3>1 DEF Circle
    <3> QED
      BY <2>2, <3>2
  <2> QED
    BY <2>3, <2>4
<1> QED
  BY <1>1, <1>2 DEF listIsEmpty

\* A list is one from any of its nodes on.
LEMMA RingRotate ==
  ASSUME NEW l, NEW head, NEW S, Ring(l, head, S), NEW n \in S
  PROVE  Ring(l, n, (S \cup {head}) \ {n})
<1>1. PICK k \in Nat : \E w \in [0..k -> S \cup {head}] :
           /\ w[0] = head /\ Circle(l, w, k) /\ S = {w[i] : i \in 1..k}
           /\ S \cup {head} = {w[i] : i \in 0..k}
  BY RingWitness
<1>2. PICK w \in [0..k -> S \cup {head}] :
           /\ w[0] = head /\ Circle(l, w, k) /\ S = {w[i] : i \in 1..k}
           /\ S \cup {head} = {w[i] : i \in 0..k}
  BY <1>1
<1>3. PICK j \in 1..k : n = w[j]
  BY <1>2
<1> DEFINE p(i) == IF i + j <= k THEN i + j ELSE i + j - k - 1
           u == [i \in 0..k |-> w[p(i)]]
<1>4. /\ \A i \in 0..k : p(i) \in 0..k
      /\ \A i, m \in 0..k : p(i) = p(m) => i = m
      /\ p(0) = j /\ p(k) = j - 1 /\ 0 \in 0..k /\ k \in 0..k /\ j # 0 /\ j \in 0..k
  OBVIOUS
<1>5. ASSUME NEW m \in 0..k PROVE \E i \in 0..k : p(i) = m
  <2>1. CASE j <= m
    <3>1. m - j \in 0..k /\ p(m - j) = m
      BY <2>1
    <3> QED
      BY <3>1
  <2>2. CASE ~(j <= m)
    <3>1. m - j + k + 1 \in 0..k /\ p(m - j + k + 1) = m
      BY <2>2
    <3> QED
      BY <3>1
  <2> QED
    BY <2>1, <2>2
<1>6. ASSUME NEW i \in 0..k, i # k
      PROVE  i + 1 \in 0..k /\ p(i + 1) = IF p(i) = k THEN 0 ELSE p(i) + 1
  BY <1>6
<1>7. ASSUME NEW i \in 0..k, i # 0
      PROVE  i - 1 \in 0..k /\ p(i - 1) = IF p(i) = 0 THEN k ELSE p(i) - 1
  BY <1>7
<1>8. j - 1 # k /\ j - 1 + 1 = j
  OBVIOUS
<1> HIDE DEF p
<1>9. u \in [0..k -> S \cup {head}] /\ \A i \in 0..k : u[i] = w[p(i)]
  BY <1>4
<1> HIDE DEF u
<1>10. \A i, m \in 0..k : u[i] = u[m] => i = m
  BY <1>2, <1>4, <1>9 DEF Circle
<1>11. ASSUME NEW i \in 0..k
       PROVE  l.next[u[i]] = IF i = k THEN u[0] ELSE u[i + 1]
  <2>1. l.next[u[i]] = IF p(i) = k THEN w[0] ELSE w[p(i) + 1]
    BY <1>2, <1>4, <1>9 DEF Circle
  <2>2. CASE i = k
    BY <1>4, <1>8, <1>9, <2>1, <2>2
  <2>3. CASE i # k
    BY <1>4, <1>6, <1>9, <2>1, <2>3
  <2> QED
    BY <2>2, <2>3
<1>12. ASSUME NEW i \in 0..k
       PROVE  l.prev[u[i]] = IF i = 0 THEN u[k] ELSE u[i - 1]
  <2>1. l.prev[u[i]] = IF p(i) = 0 THEN w[k] ELSE w[p(i) - 1]
    BY <1>2, <1>4, <1>9 DEF Circle
  <2>2. CASE i = 0
    BY <1>4, <1>9, <2>1, <2>2
  <2>3. CASE i # 0
    BY <1>4, <1>7, <1>9, <2>1, <2>3
  <2> QED
    BY <2>2, <2>3
<1>13. Circle(l, u, k) /\ u[0] = n
  <2>1. u[0] = n
    BY <1>3, <1>4, <1>9
  <2>2. Circle(l, u, k)
    BY <1>10, <1>11, <1>12 DEF Circle
  <2> QED
    BY <2>1, <2>2
<1>14. {u[i] : i \in 0..k} = S \cup {head}
  <2>1. \A i \in 0..k : u[i] \in S \cup {head}
    BY <1>9
  <2>2. \A m \in 0..k : w[m] \in {u[i] : i \in 0..k}
    BY <1>5, <1>9
  <2>3. \A q \in S \cup {head} : \E m \in 0..k : q = w[m]
    BY <1>2
  <2>4. S \cup {head} \subseteq {u[i] : i \in 0..k}
    BY <2>2, <2>3
  <2> QED
    BY <2>1, <2>4
<1>15. {u[i] : i \in 1..k} = (S \cup {head}) \ {n}
  <2>1. \A i \in 0..k : i = 0 \/ i \in 1..k
    OBVIOUS
  <2>2. \A i \in 1..k : i \in 0..k /\ i # 0
    OBVIOUS
  <2>3. \A i \in 1..k : u[i] # n
    BY <1>4, <1>10, <1>13, <2>2
  <2> QED
    BY <1>13, <1>14, <2>1, <2>2, <2>3
<1> DEFINE T == (S \cup {head}) \ {n}
<1>16. T \cup {n} = S \cup {head}
  OBVIOUS
<1>17. T = {u[i] : i \in 1..k}
  BY <1>15
<1> HIDE DEF T
<1>18. u \in [0..k -> T \cup {n}]
  BY <1>9, <1>16
<1>19. Ring(l, n, T)
  BY <1>13, <1>17, <1>18 DEF Ring
<1> QED
  BY <1>19 DEF T

\* A node inserted after the head.
LEMMA RingInsertFirst ==
  ASSUME NEW N, NEW l \in LinksOf(N), NEW head \in N, NEW S \in SUBSET N,
         Ring(l, head, S), NEW n \in N, n \notin S \cup {head}
  PROVE  Ring(insertNode(l, n, head), head, S \cup {n})
<1>1. PICK k \in Nat : \E w \in [0..k -> S \cup {head}] :
           w[0] = head /\ Circle(l, w, k) /\ S = {w[i] : i \in 1..k}
  BY DEF Ring
<1>2. PICK w \in [0..k -> S \cup {head}] :
           w[0] = head /\ Circle(l, w, k) /\ S = {w[i] : i \in 1..k}
  BY <1>1
<1> DEFINE m == insertNode(l, n, head)
           second == l.next[head]
           u == [i \in 0..k+1 |-> IF i = 0 THEN head ELSE IF i = 1 THEN n ELSE w[i - 1]]
<1>3. second = IF k = 0 THEN head ELSE w[1]
  <2>1. 0 \in 0..k /\ 0 + 1 = 1
    OBVIOUS
  <2> QED
    BY <1>2, <2>1 DEF Circle
<1>4. second \in S \cup {head} /\ second \in N
  <2>1. k # 0 => 1 \in 0..k
    OBVIOUS
  <2> QED
    BY <1>2, <1>3, <2>1
<1> HIDE DEF second
<1>5. /\ \A q \in N : m.next[q] = IF q = head THEN n ELSE IF q = n THEN second ELSE l.next[q]
      /\ \A q \in N : m.prev[q] = IF q = n THEN head ELSE IF q = second THEN n ELSE l.prev[q]
  BY <1>4 DEF insertNode, LinksOf, second
<1> HIDE DEF m
<1>6. /\ u[0] = head /\ u[1] = n
      /\ \A i \in 0..k+1 : i # 0 /\ i # 1 => i - 1 \in 1..k /\ i - 1 \in 0..k /\ u[i] = w[i - 1]
  OBVIOUS
<1>7. \A i \in 0..k+1 : u[i] \in S \cup {head, n}
  BY <1>2, <1>6
<1>8. u \in [0..k+1 -> S \cup {head, n}]
  BY <1>7
<1>9. /\ \A i \in 1..k : i \in 0..k /\ w[i] # head /\ w[i] # n
      /\ 0 \in 0..k+1 /\ 1 \in 0..k+1 /\ k + 1 \in Nat
      /\ \A i \in 1..k : i + 1 \in 0..k+1 /\ i + 1 \in 1..k+1 /\ i + 1 # 0 /\ i + 1 # 1 /\ i + 1 - 1 = i
  <2>1. \A i \in 1..k : i \in 0..k /\ 0 \in 0..k /\ i # 0
    OBVIOUS
  <2>2. \A i \in 1..k : w[i] # head /\ w[i] # n
    BY <1>2, <2>1 DEF Circle
  <2>3. /\ 0 \in 0..k+1 /\ 1 \in 0..k+1 /\ k + 1 \in Nat
        /\ \A i \in 1..k : i + 1 \in 0..k+1 /\ i + 1 \in 1..k+1 /\ i + 1 # 0 /\ i + 1 # 1 /\ i + 1 - 1 = i
    OBVIOUS
  <2> QED
    BY <2>1, <2>2, <2>3
<1> HIDE DEF u
<1>10. ASSUME NEW i \in 0..k+1, NEW j \in 0..k+1, u[i] = u[j] PROVE i = j
  <2>1. CASE i = 0 \/ i = 1
    BY <1>6, <1>9, <1>10, <2>1
  <2>2. CASE j = 0 \/ j = 1
    BY <1>6, <1>9, <1>10, <2>2
  <2>3. CASE i # 0 /\ i # 1 /\ j # 0 /\ j # 1
    <3>1. i - 1 = j - 1
      BY <1>2, <1>6, <1>10, <2>3 DEF Circle
    <3> QED
      BY <3>1
  <2> QED
    BY <2>1, <2>2, <2>3
<1>11. ASSUME NEW i \in 0..k+1
       PROVE  /\ m.next[u[i]] = IF i = k + 1 THEN u[0] ELSE u[i + 1]
              /\ m.prev[u[i]] = IF i = 0 THEN u[k + 1] ELSE u[i - 1]
  <2>1. CASE i = 0
    <3>1. k + 1 # 0 /\ 0 + 1 = 1 /\ k + 1 \in 0..k+1 /\ 0 \in 0..k
      OBVIOUS
    <3>2. m.next[head] = n
      BY <1>5
    <3>3. l.prev[head] = w[k]
      BY <1>2, <3>1 DEF Circle
    <3>4. CASE k = 0
      <4>1. m.prev[head] = n
        BY <1>3, <1>5, <3>4
      <4>2. k + 1 = 1
        BY <3>4
      <4> QED
        BY <1>6, <2>1, <3>1, <3>2, <4>1, <4>2
    <3>5. CASE k # 0
      <4>1. k + 1 # 1 /\ k + 1 - 1 = k /\ 1 \in 1..k
        BY <3>5
      <4>2. second # head
        BY <1>3, <1>9, <3>5, <4>1
      <4>3. m.prev[head] = w[k]
        BY <1>5, <3>3, <4>2
      <4>4. u[k + 1] = w[k]
        BY <1>6, <3>1, <4>1
      <4> QED
        BY <1>6, <2>1, <3>1, <3>2, <4>3, <4>4
    <3> QED
      BY <3>4, <3>5
  <2>2. CASE i = 1
    <3>1. m.next[n] = second /\ m.prev[n] = head
      BY <1>5
    <3>2. 1 - 1 = 0 /\ 1 # 0
      OBVIOUS
    <3>3. CASE k = 0
      <4>1. i = k + 1
        BY <2>2, <3>3
      <4> QED
        BY <1>3, <1>6, <2>2, <3>1, <3>2, <3>3, <4>1
    <3>4. CASE k # 0
      <4>1. i # k + 1 /\ i + 1 = 2 /\ 1 \in 1..k /\ 1 + 1 = 2
        BY <2>2, <3>4
      <4>2. u[2] = w[1]
        BY <1>6, <1>9, <4>1
      <4> QED
        BY <1>3, <1>6, <2>2, <3>1, <3>2, <3>4, <4>1, <4>2
    <3> QED
      BY <3>3, <3>4
  <2>3. CASE i # 0 /\ i # 1
    <3>1. /\ i - 1 \in 1..k /\ i - 1 \in 0..k /\ u[i] = w[i - 1]
          /\ w[i - 1] # head /\ w[i - 1] # n /\ w[i - 1] \in N
      BY <1>2, <1>6, <1>9, <2>3
    <3>2. m.next[u[i]] = l.next[w[i - 1]]
      BY <1>5, <3>1
    <3>3. l.next[w[i - 1]] = IF i - 1 = k THEN w[0] ELSE w[i - 1 + 1]
      BY <1>2, <3>1 DEF Circle
    <3>4. m.next[u[i]] = IF i = k + 1 THEN u[0] ELSE u[i + 1]
      <4>1. i - 1 = k <=> i = k + 1
        OBVIOUS
      <4>2. CASE i = k + 1
        BY <1>2, <1>6, <3>2, <3>3, <4>1, <4>2
      <4>3. CASE i # k + 1
        <5>1. i + 1 \in 0..k+1 /\ i + 1 # 0 /\ i + 1 # 1 /\ i + 1 - 1 = i - 1 + 1
          BY <2>3, <4>3
        <5>2. u[i + 1] = w[i - 1 + 1]
          BY <1>6, <5>1
        <5> QED
          BY <3>2, <3>3, <4>1, <4>3, <5>2
      <4> QED
        BY <4>2, <4>3
    <3>5. m.prev[u[i]] = u[i - 1]
      <4>1. CASE i = 2
        <5>1. i - 1 = 1 /\ k # 0
          BY <3>1, <4>1
        <5>2. u[i] = second
          BY <1>3, <3>1, <5>1
        <5> QED
          BY <1>5, <1>6, <3>1, <5>1, <5>2
      <4>2. CASE i # 2
        <5>1. i - 1 # 0 /\ i - 1 # 1 /\ i - 1 \in 0..k+1 /\ i - 1 - 1 \in 0..k
          BY <2>3, <4>2
        <5>2. u[i - 1] = w[i - 1 - 1]
          BY <1>6, <5>1
        <5>3. w[i - 1] # second
          <6>1. k # 0 /\ 1 \in 0..k
            BY <3>1
          <6> QED
            BY <1>2, <1>3, <3>1, <5>1, <6>1 DEF Circle
        <5>4. m.prev[u[i]] = l.prev[w[i - 1]]
          BY <1>5, <3>1, <5>3
        <5>5. l.prev[w[i - 1]] = w[i - 1 - 1]
          BY <1>2, <3>1, <5>1 DEF Circle
        <5> QED
          BY <5>2, <5>4, <5>5
      <4> QED
        BY <4>1, <4>2
    <3> QED
      BY <2>3, <3>4, <3>5
  <2> QED
    BY <2>1, <2>2, <2>3
<1>12. Circle(m, u, k + 1)
  BY <1>10, <1>11 DEF Circle
<1>13. {u[i] : i \in 1..k+1} = S \cup {n}
  <2>1. \A i \in 1..k+1 : i \in 0..k+1 /\ i # 0 /\ (i # 1 => i - 1 \in 1..k)
    OBVIOUS
  <2>2. \A i \in 1..k+1 : u[i] \in S \cup {n}
    BY <1>2, <1>6, <2>1
  <2>3. 1 \in 1..k+1
    OBVIOUS
  <2>4. \A i \in 1..k : w[i] = u[i + 1] /\ i + 1 \in 1..k+1
    BY <1>6, <1>9
  <2>5. n \in {u[i] : i \in 1..k+1}
    BY <1>6, <2>3
  <2>6. \A i \in 1..k : w[i] \in {u[j] : j \in 1..k+1}
    BY <2>4
  <2>7. S \subseteq {u[i] : i \in 1..k+1}
    BY <1>2, <2>6
  <2> QED
    BY <2>2, <2>5, <2>7
<1>14. k + 1 \in Nat /\ (S \cup {n}) \cup {head} = S \cup {head, n}
  OBVIOUS
<1> DEFINE T == S \cup {n}
<1>15. T = {u[i] : i \in 1..k+1} /\ u \in [0..k+1 -> T \cup {head}]
  BY <1>8, <1>13, <1>14
<1> HIDE DEF T
<1>16. Ring(m, head, T)
  BY <1>6, <1>12, <1>14, <1>15 DEF Ring
<1> QED
  BY <1>16 DEF T, m

\* A node inserted after any node of the list; the links elsewhere stay.
LEMMA RingInsert ==
  ASSUME NEW N, NEW l \in LinksOf(N), NEW head \in N, NEW S \in SUBSET N,
         Ring(l, head, S), NEW n \in N, n \notin S \cup {head},
         NEW a \in S \cup {head}
  PROVE  /\ Ring(insertNode(l, n, a), head, S \cup {n})
         /\ insertNode(l, n, a) \in LinksOf(N)
         /\ \A q \in N : q \notin S \cup {head, n} =>
              /\ insertNode(l, n, a).next[q] = l.next[q]
              /\ insertNode(l, n, a).prev[q] = l.prev[q]
<1> DEFINE m == insertNode(l, n, a)
           T == (S \cup {head}) \ {a}
<1>1. a \in N /\ l.next[a] \in S \cup {head} /\ l.next[a] \in N
  BY RingNeighbours
<1>2. m \in LinksOf(N) /\ \A q \in N : q \notin S \cup {head, n} =>
              m.next[q] = l.next[q] /\ m.prev[q] = l.prev[q]
  BY <1>1 DEF insertNode, LinksOf
<1>3. Ring(m, head, S \cup {n})
  <2>1. CASE a = head
    BY <2>1, RingInsertFirst
  <2>2. CASE a # head
    <3>1. a \in S /\ T \in SUBSET N /\ n \notin T \cup {a}
      BY <2>2
    <3>2. Ring(l, a, T)
      BY <3>1, RingRotate
    <3>3. Ring(m, a, T \cup {n})
      BY <1>1, <3>1, <3>2, RingInsertFirst
    <3>4. head \in T \cup {n}
      BY <2>2
    <3>5. Ring(m, head, ((T \cup {n}) \cup {a}) \ {head})
      BY <3>3, <3>4, RingRotate
    <3>6. head \notin S
      BY RingWitness
    <3>7. ((T \cup {n}) \cup {a}) \ {head} = S \cup {n}
      BY <3>1, <3>6
    <3> QED
      BY <3>5, <3>7
  <2> QED
    BY <2>1, <2>2
<1> QED
  BY <1>2, <1>3

\* A node added at the end of a list.
LEMMA RingAddLast ==
  ASSUME NEW N, NEW l \in LinksOf(N), NEW head \in N, NEW S \in SUBSET N,
         Ring(l, head, S), NEW n \in N, n \notin S \cup {head}
  PROVE  /\ Ring(addLastNode(l, n, head), head, S \cup {n})
         /\ addLastNode(l, n, head) \in LinksOf(N)
         /\ \A q \in N : q \notin S \cup {head, n} =>
              /\ addLastNode(l, n, head).next[q] = l.next[q]
              /\ addLastNode(l, n, head).prev[q] = l.prev[q]
<1> DEFINE a == l.prev[head]
<1>1. a \in S \cup {head}
  BY RingNeighbours
<1>2. addLastNode(l, n, head) = insertNode(l, n, a)
  BY DEF addLastNode
<1> HIDE DEF a
<1>3. /\ Ring(insertNode(l, n, a), head, S \cup {n})
      /\ insertNode(l, n, a) \in LinksOf(N)
      /\ \A q \in N : q \notin S \cup {head, n} =>
              /\ insertNode(l, n, a).next[q] = l.next[q]
              /\ insertNode(l, n, a).prev[q] = l.prev[q]
  BY <1>1, RingInsert
<1> QED
  BY <1>2, <1>3

\* The list without its head is one from the next node on.
LEMMA RingRemoveHead ==
  ASSUME NEW N, NEW l \in LinksOf(N), NEW n \in N, NEW S \in SUBSET N,
         Ring(l, n, S), S # {}
  PROVE  \E h \in S : Ring(removeNode(l, n), h, S \ {h})
<1>1. PICK k \in Nat : \E w \in [0..k -> S \cup {n}] :
        /\ w[0] = n /\ Circle(l, w, k) /\ S = {w[i] : i \in 1..k}
        /\ n \notin S
  BY RingWitness
<1>2. PICK w \in [0..k -> S \cup {n}] :
        /\ w[0] = n /\ Circle(l, w, k) /\ S = {w[i] : i \in 1..k}
        /\ n \notin S
  BY <1>1
<1>3. k # 0 /\ 1 \in 1..k /\ k \in 1..k /\ 1 \in 0..k /\ k \in 0..k /\ 0 \in 0..k
  <2>1. k # 0
    BY <1>2
  <2> QED
    BY <2>1
<1> DEFINE m == removeNode(l, n)
           K == k - 1
           u == [i \in 0..K |-> w[i + 1]]
           first == w[1]
           last == w[k]
<1>4. K \in Nat /\ \A i \in 0..K : i + 1 \in 1..k /\ i + 1 \in 0..k
  BY <1>3
<1>5. first \in S /\ last \in S /\ first \in N /\ last \in N
  BY <1>2, <1>3
<1>6. l.next[n] = first /\ l.prev[n] = last
  <2>1. 0 # k /\ 0 + 1 = 1
    BY <1>3
  <2> QED
    BY <1>2, <1>3, <2>1 DEF Circle
<1> HIDE DEF first, last
<1>7. /\ \A q \in N : m.next[q] = IF q = last THEN first ELSE l.next[q]
      /\ \A q \in N : m.prev[q] = IF q = first THEN last ELSE l.prev[q]
  BY <1>2, <1>5, <1>6 DEF removeNode, LinksOf
<1> HIDE DEF m
<1>8. u \in [0..K -> S] /\ \A i \in 0..K : u[i] = w[i + 1] /\ u[i] \in N
  BY <1>2, <1>4
<1> HIDE DEF u
<1>9. u[0] = first
  <2>1. 0 \in 0..K /\ 0 + 1 = 1
    BY <1>4
  <2> QED
    BY <1>8, <2>1 DEF first
<1>10. u[K] = last
  <2>1. K \in 0..K /\ K + 1 = k
    BY <1>4
  <2> QED
    BY <1>8, <2>1 DEF last
<1>11. \A i, j \in 0..K : u[i] = u[j] => i = j
  <2> SUFFICES ASSUME NEW i \in 0..K, NEW j \in 0..K, u[i] = u[j] PROVE i = j
    OBVIOUS
  <2>1. w[i + 1] = w[j + 1]
    BY <1>8
  <2>2. i + 1 = j + 1
    BY <1>2, <1>4, <2>1 DEF Circle
  <2> QED
    BY <2>2
<1>12. ASSUME NEW i \in 0..K
       PROVE  /\ m.next[u[i]] = IF i = K THEN u[0] ELSE u[i + 1]
              /\ m.prev[u[i]] = IF i = 0 THEN u[K] ELSE u[i - 1]
  <2>1. 0 \in 0..K /\ K \in 0..K /\ K + 1 = k /\ 0 + 1 = 1
    BY <1>4
  <2>2. ASSUME i = K PROVE m.next[u[i]] = u[0]
    BY <1>7, <1>8, <1>9, <1>10, <2>1, <2>2
  <2>3. ASSUME i # K PROVE m.next[u[i]] = u[i + 1]
    <3>1. i + 1 \in 0..K /\ i + 1 # k
      BY <2>3
    <3>2. u[i] # last
      BY <1>10, <1>11, <2>1, <2>3
    <3>3. m.next[u[i]] = l.next[w[i + 1]]
      BY <1>7, <1>8, <3>2
    <3>4. l.next[w[i + 1]] = w[i + 1 + 1]
      BY <1>2, <1>4, <3>1 DEF Circle
    <3> QED
      BY <1>8, <2>3, <3>1, <3>3, <3>4
  <2>4. ASSUME i = 0 PROVE m.prev[u[i]] = u[K]
    BY <1>7, <1>8, <1>9, <1>10, <2>1, <2>4
  <2>5. ASSUME i # 0 PROVE m.prev[u[i]] = u[i - 1]
    <3>1. i - 1 \in 0..K /\ i + 1 # 0 /\ i + 1 - 1 = i /\ i - 1 + 1 = i
      BY <2>5
    <3>2. u[i] # first
      BY <1>9, <1>11, <2>1, <2>5
    <3>3. m.prev[u[i]] = l.prev[w[i + 1]]
      BY <1>7, <1>8, <3>2
    <3>4. l.prev[w[i + 1]] = w[i]
      BY <1>2, <1>4, <3>1 DEF Circle
    <3>5. u[i - 1] = w[i]
      BY <1>8, <3>1
    <3> QED
      BY <2>5, <3>3, <3>4, <3>5
  <2>6. m.next[u[i]] = IF i = K THEN u[0] ELSE u[i + 1]
    BY <2>2, <2>3
  <2>7. m.prev[u[i]] = IF i = 0 THEN u[K] ELSE u[i - 1]
    BY <2>4, <2>5
  <2> QED
    BY <2>6, <2>7
<1>13. Circle(m, u, K)
  BY <1>11, <1>12 DEF Circle
<1>14. S = {u[i] : i \in 0..K}
  <2>1. \A i \in 1..k : i - 1 \in 0..K /\ w[i] = u[i - 1]
    <3> SUFFICES ASSUME NEW i \in 1..k PROVE i - 1 \in 0..K /\ w[i] = u[i - 1]
      OBVIOUS
    <3>1. i - 1 \in 0..K /\ i - 1 + 1 = i
      OBVIOUS
    <3> QED
      BY <1>8, <3>1
  <2>2. S \subseteq {u[i] : i \in 0..K}
    <3>1. \A q \in S : \E i \in 1..k : q = w[i]
      BY <1>2
    <3> QED
      BY <2>1, <3>1
  <2>3. {u[i] : i \in 0..K} \subseteq S
    BY <1>8
  <2> QED
    BY <2>2, <2>3
<1> HIDE DEF K
<1>15. S \ {first} = {u[i] : i \in 1..K}
  <2>1. \A i \in 0..K : i = 0 \/ i \in 1..K
    BY <1>4
  <2>2. \A i \in 1..K : i \in 0..K /\ i # 0 /\ 0 \in 0..K
    BY <1>4
  <2>3. \A i \in 1..K : u[i] # first
    BY <1>9, <1>11, <2>2
  <2> QED
    BY <1>9, <1>14, <2>1, <2>2, <2>3
<1> DEFINE T == S \ {first}
<1>16. T \cup {first} = S
  BY <1>5
<1>17. T = {u[i] : i \in 1..K}
  BY <1>15
<1> HIDE DEF T
<1>18. u \in [0..K -> T \cup {first}]
  BY <1>8, <1>16
<1>19. Ring(m, first, T)
  BY <1>4, <1>9, <1>13, <1>17, <1>18 DEF Ring
<1> QED
  BY <1>5, <1>19 DEF T, m

\* A node removed from a list; the links elsewhere stay, and its own.
LEMMA RingRemove ==
  ASSUME NEW N, NEW l \in LinksOf(N), NEW head \in N, NEW S \in SUBSET N,
         Ring(l, head, S), NEW n \in S
  PROVE  /\ Ring(removeNode(l, n), head, S \ {n})
         /\ removeNode(l, n) \in LinksOf(N)
         /\ \A q \in N : q \notin S \cup {head} =>
              /\ removeNode(l, n).next[q] = l.next[q]
              /\ removeNode(l, n).prev[q] = l.prev[q]
<1> DEFINE m == removeNode(l, n)
           T == (S \cup {head}) \ {n}
<1>1. /\ l.next[n] \in S \cup {head} /\ l.prev[n] \in S \cup {head}
      /\ l.next[n] \in N /\ l.prev[n] \in N /\ n \in N
  BY RingNeighbours
<1>2. head \notin S /\ head # n
  BY RingWitness
<1>3. l.next[n] # n
  <2>1. l.next[n] = n => l.prev[n] = n
    BY <1>1, RingNeighbours
  <2>2. Ring(l, n, T) /\ head \in T
    BY <1>2, RingRotate
  <2> HIDE DEF T
  <2>3. l.next[n] # n
    BY <2>2, RingEmpty DEF listIsEmpty
  <2> QED
    BY <2>3
<1>4. m \in LinksOf(N) /\ \A q \in N : q \notin S \cup {head} =>
              m.next[q] = l.next[q] /\ m.prev[q] = l.prev[q]
  BY <1>1, <1>3 DEF removeNode, LinksOf
<1>5. Ring(m, head, S \ {n})
  <2>1. Ring(l, n, T) /\ T # {} /\ T \in SUBSET N
    BY <1>2, RingRotate
  <2>2. PICK h \in T : Ring(m, h, T \ {h})
    BY <1>1, <2>1, RingRemoveHead
  <2>3. CASE h = head
    <3>1. T \ {h} = S \ {n}
      BY <1>2, <2>3
    <3> QED
      BY <2>2, <2>3, <3>1
  <2>4. CASE h # head
    <3>1. head \in T \ {h}
      BY <1>2, <2>4
    <3>2. Ring(m, head, ((T \ {h}) \cup {h}) \ {head})
      BY <2>2, <3>1, RingRotate
    <3>3. ((T \ {h}) \cup {h}) \ {head} = S \ {n}
      BY <1>2, <2>2
    <3> QED
      BY <3>2, <3>3
  <2> QED
    BY <2>3, <2>4
<1> QED
  BY <1>4, <1>5

\* Nodes that are initialised link themselves; lists without them stay.
LEMMA NodesReset ==
  ASSUME NEW N, NEW l \in LinksOf(N), NEW X
  PROVE  /\ linkedListNodeInit(l, X) \in LinksOf(N)
         /\ \A q \in N : /\ linkedListNodeInit(l, X).next[q] = IF q \in X THEN q ELSE l.next[q]
                         /\ linkedListNodeInit(l, X).prev[q] = IF q \in X THEN q ELSE l.prev[q]
BY DEF linkedListNodeInit, LinksOf

\* To remove a node that is on no list changes nothing.
LEMMA RemoveAlone ==
  ASSUME NEW N, NEW l \in LinksOf(N), NEW n \in N, Ring(l, n, {})
  PROVE  removeNode(l, n) \in LinksOf(N)
         /\ \A q \in N : /\ removeNode(l, n).next[q] = l.next[q]
                         /\ removeNode(l, n).prev[q] = l.prev[q]
<1>1. l.next[n] = n /\ l.prev[n] = n
  BY RingEmpty
<1> QED
  BY <1>1 DEF removeNode, LinksOf

------------------------------------------------------------------------------
\* Walks.

\* In the direction of link, w[0], ..., w[k] follow one another from head to head.
Chain(link, head, w, k) ==
  /\ w[0] = head
  /\ \A i, j \in 0..k : w[i] = w[j] => i = j
  /\ \A i \in 0..k : link[w[i]] = IF i = k THEN head ELSE w[i + 1]

\* The walk from head meets w[1], ..., w[k], in this order, and ends.
Visits(link, head, w, k, most) ==
  /\ \A i \in 0..k : Follow(link, head)[i] = w[i]
  /\ Follow(link, head)[k + 1] = head
  /\ Ends(link, head, most)
  /\ forEachNode(link, head, most) = [i \in 1..k |-> w[i]]

\* A walk round a circle of nodes meets them in order and ends.
LEMMA CircleVisits ==
  ASSUME NEW link, NEW head, NEW k \in Nat, NEW w, NEW most \in Nat, k <= most,
         Chain(link, head, w, k)
  PROVE  Visits(link, head, w, k, most)
<1> DEFINE nth == Follow(link, head)
           bad == {n \in 0..k : nth[n] # w[n]}
           isLast(n) == nth[n + 1] = head /\ \A m \in 1..n : nth[m] # head
<1> USE DEF Chain
<1>1. nth[0] = head /\ \A n \in Nat : nth[n + 1] = link[nth[n]]
  BY FollowSteps
<1> HIDE DEF nth
<1>2. bad = {}
  <2> SUFFICES ASSUME bad # {} PROVE FALSE
    OBVIOUS
  <2>1. PICK n \in bad : \A m \in bad : n <= m
    <3>1. bad \in SUBSET Nat
      OBVIOUS
    <3> QED
      BY <3>1, Walk!Least
  <2>2. n # 0
    BY <1>1, <2>1
  <2>3. n - 1 \in 0..k /\ n - 1 \in Nat /\ n - 1 # k /\ n - 1 \notin bad /\ (n - 1) + 1 = n
    BY <2>1, <2>2
  <2>4. nth[n] = link[nth[n - 1]] /\ nth[n - 1] = w[n - 1]
    BY <1>1, <2>3
  <2>5. link[w[n - 1]] = w[n]
    BY <2>3
  <2> QED
    BY <2>1, <2>4, <2>5
<1>3. \A i \in 0..k : nth[i] = w[i]
  BY <1>2
<1>4. nth[k + 1] = head
  <2>1. k \in 0..k
    OBVIOUS
  <2> QED
    BY <1>1, <1>3, <2>1
<1>5. \A i \in 1..k : nth[i] # head
  <2>1. \A i \in 1..k : i \in 0..k /\ i # 0 /\ 0 \in 0..k
    OBVIOUS
  <2> QED
    BY <1>3, <2>1
<1>6. k + 1 \in 1..most+1 /\ k \in 0..most
  OBVIOUS
<1>7. isLast(k)
  BY <1>4, <1>5
<1>8. ASSUME NEW n \in 0..most, isLast(n) PROVE n = k
  <2>1. ~(n < k)
    <3>1. n < k => n + 1 \in 1..k
      OBVIOUS
    <3> QED
      BY <1>5, <1>8, <3>1
  <2>2. ~(k < n)
    <3>1. k < n => k + 1 \in 1..n
      OBVIOUS
    <3> QED
      BY <1>4, <1>8, <3>1
  <2> QED
    BY <2>1, <2>2
<1> DEFINE size == CHOOSE n \in 0..most : isLast(n)
<1>9. size = k
  <2> HIDE DEF isLast
  <2>1. size \in 0..most /\ isLast(size)
    BY <1>6, <1>7
  <2> HIDE DEF size
  <2> QED
    BY <1>8, <2>1
<1>10. forEachNode(link, head, most) = [i \in 1..size |-> nth[i]]
  BY DEF forEachNode, nth
<1> HIDE DEF size
<1>11. \A i \in 1..k : i \in 0..k
  OBVIOUS
<1>12. [i \in 1..k |-> nth[i]] = [i \in 1..k |-> w[i]]
  BY <1>3, <1>11
<1>13. Ends(link, head, most)
  BY <1>4, <1>6 DEF Ends, nth
<1>14. forEachNode(link, head, most) = [i \in 1..k |-> w[i]]
  BY <1>9, <1>10, <1>12
<1> QED
  BY <1>3, <1>4, <1>13, <1>14 DEF nth, Visits

\* w describes the list at head, and both walks over it.
BothWays(l, head, S, most, k, w) ==
  /\ w[0] = head /\ Circle(l, w, k) /\ S = {w[i] : i \in 1..k}
  /\ \A i \in 0..k : Follow(l.next, head)[i] = w[i]
  /\ Follow(l.next, head)[k + 1] = head
  /\ Ends(l.next, head, most) /\ Ends(l.prev, head, most)
  /\ forEachNode(l.next, head, most) = [i \in 1..k |-> w[i]]
  /\ forEachNode(l.prev, head, most) = [i \in 1..k |-> w[k + 1 - i]]

\* Both walks over a list visit its members once, and come back; one visits
\* them in the order of the other reversed.
LEMMA RingVisits ==
  ASSUME NEW l, NEW head, NEW S, Ring(l, head, S), IsFiniteSet(S),
         NEW most \in Nat, Cardinality(S) <= most
  PROVE  \E k \in 0..most : \E w \in [0..k -> S \cup {head}] :
           BothWays(l, head, S, most, k, w)
<1>1. PICK k \in Nat : \E w \in [0..k -> S \cup {head}] :
           w[0] = head /\ Circle(l, w, k) /\ S = {w[i] : i \in 1..k}
  BY DEF Ring
<1>2. PICK w \in [0..k -> S \cup {head}] :
           w[0] = head /\ Circle(l, w, k) /\ S = {w[i] : i \in 1..k}
  BY <1>1
<1> DEFINE f == [i \in 1..k |-> w[i]]
           u == [i \in 0..k |-> IF i = 0 THEN w[0] ELSE w[k + 1 - i]]
<1>3. k <= most /\ k \in 0..most
  <2>1. \A i \in 1..k : i \in 0..k /\ w[i] \in S
    BY <1>2
  <2>2. f \in Injection(1..k, S)
    <3>1. \A i, j \in 1..k : w[i] = w[j] => i = j
      BY <1>2, <2>1 DEF Circle
    <3> QED
      BY <2>1, <3>1 DEF Injection, IsInjective
  <2> HIDE DEF f
  <2>3. Cardinality(1..k) <= Cardinality(S)
    BY <2>2, FS_Injection
  <2>4. Cardinality(1..k) = k
    <3>1. 1 \in Int /\ k \in Int
      OBVIOUS
    <3>2. Cardinality(1..k) = IF 1 > k THEN 0 ELSE k - 1 + 1
      BY <3>1, FS_Interval
    <3> QED
      BY <3>2
  <2>5. Cardinality(S) \in Nat
    BY FS_CardinalityType
  <2> QED
    BY <2>3, <2>4, <2>5
<1>4. /\ \A i \in 0..k : Follow(l.next, head)[i] = w[i]
      /\ Follow(l.next, head)[k + 1] = head
      /\ Ends(l.next, head, most)
      /\ forEachNode(l.next, head, most) = f
  <2>1. \A i, j \in 0..k : w[i] = w[j] => i = j
    BY <1>2 DEF Circle
  <2>2. \A i \in 0..k : l.next[w[i]] = IF i = k THEN head ELSE w[i + 1]
    BY <1>2 DEF Circle
  <2> DEFINE link == l.next
  <2>3. \A i \in 0..k : link[w[i]] = IF i = k THEN head ELSE w[i + 1]
    BY <2>2
  <2> HIDE DEF link
  <2>4. /\ \A i \in 0..k : Follow(link, head)[i] = w[i]
        /\ Follow(link, head)[k + 1] = head
        /\ Ends(link, head, most)
        /\ forEachNode(link, head, most) = [i \in 1..k |-> w[i]]
    <3>1. Chain(link, head, w, k)
      BY <1>2, <2>1, <2>3 DEF Chain
    <3>2. Visits(link, head, w, k, most)
      BY <1>3, <3>1, CircleVisits
    <3> QED
      BY <3>2 DEF Visits
  <2> QED
    BY <2>4 DEF link
<1>5. /\ Ends(l.prev, head, most)
      /\ forEachNode(l.prev, head, most) = [i \in 1..k |-> w[k + 1 - i]]
  <2>1. u[0] = head /\ \A i \in 1..k : u[i] = w[k + 1 - i]
    BY <1>2
  <2>2. /\ \A i \in 1..k : k + 1 - i \in 0..k /\ k + 1 - i # 0
        /\ \A i, j \in 1..k : k + 1 - i = k + 1 - j => i = j
        /\ \A i \in 0..k : i = 0 \/ i \in 1..k
        /\ 0 \in 0..k /\ k \in 0..k
    OBVIOUS
  <2> HIDE DEF u
  <2>3. ASSUME NEW i \in 0..k, NEW j \in 0..k, u[i] = u[j] PROVE i = j
    <3>1. \A a, b \in 0..k : w[a] = w[b] => a = b
      BY <1>2 DEF Circle
    <3>2. CASE i = 0 /\ j = 0
      BY <3>2
    <3>3. CASE i = 0 /\ j # 0
      <4>1. w[0] = w[k + 1 - j] /\ k + 1 - j # 0 /\ k + 1 - j \in 0..k
        BY <1>2, <2>1, <2>2, <2>3, <3>3
      <4> QED
        BY <2>2, <3>1, <4>1
    <3>4. CASE i # 0 /\ j = 0
      <4>1. w[0] = w[k + 1 - i] /\ k + 1 - i # 0 /\ k + 1 - i \in 0..k
        BY <1>2, <2>1, <2>2, <2>3, <3>4
      <4> QED
        BY <2>2, <3>1, <4>1
    <3>5. CASE i # 0 /\ j # 0
      <4>1. w[k + 1 - i] = w[k + 1 - j] /\ i \in 1..k /\ j \in 1..k
        BY <2>1, <2>2, <2>3, <3>5
      <4>2. k + 1 - i = k + 1 - j
        BY <2>2, <3>1, <4>1
      <4> QED
        BY <2>2, <4>1, <4>2
    <3> QED
      BY <3>2, <3>3, <3>4, <3>5
  <2>4. ASSUME NEW i \in 0..k
        PROVE  l.prev[u[i]] = IF i = k THEN head ELSE u[i + 1]
    <3>1. \A a \in 0..k : l.prev[w[a]] = IF a = 0 THEN w[k] ELSE w[a - 1]
      BY <1>2 DEF Circle
    <3>2. CASE i = 0
      <4>1. l.prev[u[i]] = w[k]
        BY <1>2, <2>1, <2>2, <3>1, <3>2
      <4>2. CASE k = 0
        BY <1>2, <3>2, <4>1, <4>2
      <4>3. CASE k # 0
        <5>1. 1 \in 1..k /\ k + 1 - 1 = k /\ 0 + 1 = 1
          BY <4>3
        <5>2. u[1] = w[k]
          BY <2>1, <5>1
        <5> QED
          BY <3>2, <4>1, <4>3, <5>1, <5>2
      <4> QED
        BY <4>2, <4>3
    <3>3. CASE i # 0
      <4>1. i \in 1..k /\ u[i] = w[k + 1 - i] /\ k + 1 - i \in 0..k /\ k + 1 - i # 0
        BY <2>1, <2>2, <3>3
      <4>2. l.prev[u[i]] = w[k + 1 - i - 1]
        BY <3>1, <4>1
      <4>3. CASE i = k
        <5>1. k + 1 - i - 1 = 0
          BY <4>3
        <5> QED
          BY <1>2, <4>2, <4>3, <5>1
      <4>4. CASE i # k
        <5>1. i + 1 \in 1..k /\ k + 1 - (i + 1) = k + 1 - i - 1
          BY <4>1, <4>4
        <5>2. u[i + 1] = w[k + 1 - i - 1]
          BY <2>1, <5>1
        <5> QED
          BY <4>2, <4>4, <5>2
      <4> QED
        BY <4>3, <4>4
    <3> QED
      BY <3>2, <3>3
  <2> DEFINE link == l.prev
  <2>5. \A i \in 0..k : link[u[i]] = IF i = k THEN head ELSE u[i + 1]
    BY <2>4
  <2>6. \A i, j \in 0..k : u[i] = u[j] => i = j
    BY <2>3
  <2> HIDE DEF link
  <2>7. /\ Ends(link, head, most)
        /\ forEachNode(link, head, most) = [i \in 1..k |-> u[i]]
    <3>1. Chain(link, head, u, k)
      BY <2>1, <2>5, <2>6 DEF Chain
    <3>2. Visits(link, head, u, k, most)
      BY <1>3, <3>1, CircleVisits
    <3> QED
      BY <3>2 DEF Visits
  <2>8. [i \in 1..k |-> u[i]] = [i \in 1..k |-> w[k + 1 - i]]
    BY <2>1
  <2> QED
    BY <2>7, <2>8 DEF link
<1> HIDE DEF f
<1>6. \E x \in [0..k -> S \cup {head}] :
           /\ x[0] = head /\ Circle(l, x, k) /\ S = {x[i] : i \in 1..k}
           /\ \A i \in 0..k : Follow(l.next, head)[i] = x[i]
           /\ Follow(l.next, head)[k + 1] = head
           /\ Ends(l.next, head, most) /\ Ends(l.prev, head, most)
           /\ forEachNode(l.next, head, most) = [i \in 1..k |-> x[i]]
           /\ forEachNode(l.prev, head, most) = [i \in 1..k |-> x[k + 1 - i]]
  BY <1>2, <1>4, <1>5, Zenon DEF f
<1> QED
  BY <1>3, <1>6 DEF BothWays
==============================================================================
