----------------------------- MODULE RoundsProofs ------------------------------
(***************************************************************************)
(* The rule of loops for Rounds: what each round keeps true is true at the *)
(* end.  The recursive function of the loop is shown to exist first.       *)
(***************************************************************************)
EXTENDS Rounds, WellFoundedInduction, TLAPS

\* The order of the natural numbers, as a relation.
Before == {ss \in Nat \X Nat : ss[1] < ss[2]}

\* Every non-empty set of natural numbers has a least element.
LEMMA Least ==
  ASSUME NEW T \in SUBSET Nat, T # {}
  PROVE  \E n \in T : \A m \in T : n <= m
<1>1. IsWellFoundedOn(Before, Nat)
  BY NatLessThanWellFounded DEF OpToRel, Before
<1>2. PICK n \in T : \A m \in T : <<m, n>> \notin Before
  BY <1>1, WFMin
<1>3. ASSUME NEW m \in T PROVE n <= m
  <2>1. m \in Nat /\ n \in Nat
    OBVIOUS
  <2>2. ~(m < n)
    BY <1>2, <2>1 DEF Before
  <2> QED
    BY <2>1, <2>2
<1> QED
  BY <1>3

\* The first n rounds.
Upto(g, start, first, n) ==
  g = [k \in 0..n |-> IF k = 0 THEN start ELSE Round(g[k - 1], first + k - 1)]

\* They come out the same, however many follow.
LEMMA UptoUnique ==
  ASSUME NEW start, NEW first \in Int, NEW n \in Nat, NEW m \in Nat, NEW g, NEW h,
         Upto(g, start, first, n), Upto(h, start, first, m),
         NEW k \in Nat, k <= n, k <= m
  PROVE  g[k] = h[k]
<1> DEFINE T == {i \in Nat : i <= n /\ i <= m /\ g[i] # h[i]}
<1> SUFFICES ASSUME T # {} PROVE FALSE
  OBVIOUS
<1>1. PICK i \in T : \A j \in T : i <= j
  BY Least
<1>2. CASE i = 0
  <2>1. 0 \in 0..n /\ 0 \in 0..m
    OBVIOUS
  <2>2. g[0] = start /\ h[0] = start
    BY <2>1 DEF Upto
  <2> QED
    BY <1>1, <1>2, <2>2
<1>3. CASE i # 0
  <2>1. i - 1 \in Nat /\ i - 1 \notin T /\ i \in 0..n /\ i \in 0..m
    BY <1>1, <1>3
  <2>2. g[i - 1] = h[i - 1]
    BY <2>1
  <2>3. g[i] = Round(g[i - 1], first + i - 1) /\ h[i] = Round(h[i - 1], first + i - 1)
    BY <1>3, <2>1 DEF Upto
  <2> QED
    BY <1>1, <2>2, <2>3
<1> QED
  BY <1>2, <1>3

\* There is a function for any number of rounds.
LEMMA UptoExists ==
  ASSUME NEW start, NEW first \in Int, NEW n \in Nat
  PROVE  \E g : Upto(g, start, first, n)
<1> DEFINE T == {i \in Nat : ~\E g : Upto(g, start, first, i)}
<1> SUFFICES ASSUME T # {} PROVE FALSE
  OBVIOUS
<1>1. PICK i \in T : \A j \in T : i <= j
  BY Least
<1>2. CASE i = 0
  <2> DEFINE g == [k \in 0..0 |-> start]
  <2>1. g = [k \in 0..0 |-> IF k = 0 THEN start ELSE Round(g[k - 1], first + k - 1)]
    OBVIOUS
  <2> HIDE DEF g
  <2>2. Upto(g, start, first, 0)
    BY <2>1 DEF Upto
  <2> QED
    BY <1>1, <1>2, <2>2
<1>3. CASE i # 0
  <2>1. i - 1 \in Nat /\ i - 1 \notin T /\ i \in Nat
    BY <1>1, <1>3
  <2>2. PICK g : Upto(g, start, first, i - 1)
    BY <2>1
  <2> DEFINE h == [k \in 0..i |-> IF k = i THEN Round(g[i - 1], first + i - 1) ELSE g[k]]
  <2>3. g = [k \in 0..i-1 |-> IF k = 0 THEN start ELSE Round(g[k - 1], first + k - 1)]
    BY <2>2 DEF Upto
  <2>4. \A j \in 0..i-1 : g[j] = IF j = 0 THEN start ELSE Round(g[j - 1], first + j - 1)
    BY <2>3
  <2>5. /\ \A j \in 0..i-1 : h[j] = g[j]
        /\ h[i] = Round(g[i - 1], first + i - 1)
        /\ h = [k \in 0..i |-> h[k]]
    <3>1. \A j \in 0..i-1 : j \in 0..i /\ j # i
      BY <2>1
    <3>2. i \in 0..i
      BY <2>1
    <3> QED
      BY <3>1, <3>2
  <2> HIDE DEF h
  <2>6. ASSUME NEW k \in 0..i
        PROVE  h[k] = IF k = 0 THEN start ELSE Round(h[k - 1], first + k - 1)
    <3>1. CASE k = i
      <4>1. i - 1 \in 0..i-1
        BY <2>1
      <4>2. h[i - 1] = g[i - 1]
        BY <2>5, <4>1
      <4> QED
        BY <1>3, <2>5, <3>1, <4>2
    <3>2. CASE k = 0
      <4>1. 0 \in 0..i-1
        BY <2>1
      <4>2. h[0] = g[0] /\ g[0] = start
        BY <2>4, <2>5, <4>1
      <4> QED
        BY <3>2, <4>2
    <3>3. CASE k # i /\ k # 0
      <4>1. k \in 0..i-1 /\ k - 1 \in 0..i-1
        BY <2>1, <3>3
      <4>2. h[k] = g[k] /\ h[k - 1] = g[k - 1]
        BY <2>5, <4>1
      <4>3. g[k] = Round(g[k - 1], first + k - 1)
        BY <2>4, <3>3, <4>1
      <4> QED
        BY <3>3, <4>2, <4>3
    <3> QED
      BY <3>1, <3>2, <3>3
  <2>7. h = [k \in 0..i |-> IF k = 0 THEN start ELSE Round(h[k - 1], first + k - 1)]
    BY <2>5, <2>6
  <2>8. Upto(h, start, first, i)
    BY <2>7 DEF Upto
  <2> QED
    BY <1>1, <2>8
<1> QED
  BY <1>2, <1>3

\* The function of the loop computes its rounds one by one.
LEMMA AfterRounds ==
  ASSUME NEW start, NEW first \in Int
  PROVE  /\ After(start, first)[0] = start
         /\ \A n \in Nat : After(start, first)[n + 1]
                             = Round(After(start, first)[n], first + n)
<1> DEFINE f == [n \in Nat |-> (CHOOSE g : Upto(g, start, first, n))[n]]
<1>1. ASSUME NEW n \in Nat
      PROVE  f[n] = IF n = 0 THEN start ELSE Round(f[n - 1], first + n - 1)
  <2> DEFINE g == CHOOSE g : Upto(g, start, first, n)
  <2>1. Upto(g, start, first, n)
    BY UptoExists
  <2>2. f[n] = g[n]
    OBVIOUS
  <2> HIDE DEF g
  <2>3. CASE n = 0
    BY <2>1, <2>2, <2>3 DEF Upto
  <2>4. CASE n # 0
    <3> DEFINE h == CHOOSE h : Upto(h, start, first, n - 1)
    <3>1. n - 1 \in Nat /\ n \in 0..n /\ n - 1 <= n
      BY <2>4
    <3>2. Upto(h, start, first, n - 1)
      BY <3>1, UptoExists
    <3>3. f[n - 1] = h[n - 1]
      BY <3>1
    <3> HIDE DEF h, f
    <3>4. g[n - 1] = h[n - 1]
      BY <2>1, <3>1, <3>2, UptoUnique
    <3>5. g[n] = Round(g[n - 1], first + n - 1)
      BY <2>1, <2>4, <3>1 DEF Upto
    <3> QED
      BY <2>2, <2>4, <3>3, <3>4, <3>5
  <2> QED
    BY <2>3, <2>4
<1>2. f = [n \in Nat |-> f[n]]
  OBVIOUS
<1> HIDE DEF f
<1>3. f = [n \in Nat |-> IF n = 0 THEN start ELSE Round(f[n - 1], first + n - 1)]
  BY <1>1, <1>2
<1> DEFINE F == After(start, first)
<1>4. F = [n \in Nat |-> IF n = 0 THEN start ELSE Round(F[n - 1], first + n - 1)]
  BY <1>3 DEF After
<1> HIDE DEF F
<1>5. F[0] = start
  BY <1>4
<1>6. ASSUME NEW n \in Nat PROVE F[n + 1] = Round(F[n], first + n)
  <2>1. n + 1 \in Nat /\ n + 1 # 0 /\ n + 1 - 1 = n
    OBVIOUS
  <2>2. F[n + 1] = Round(F[n + 1 - 1], first + (n + 1) - 1)
    BY <1>4, <2>1
  <2>3. first + (n + 1) - 1 = first + n
    OBVIOUS
  <2> QED
    BY <2>1, <2>2, <2>3
<1> QED
  BY <1>5, <1>6 DEF F

\* The rule of the loop: when every round leads from the good states before it to
\* those after it, the loop ends in a good state.
LEMMA LoopRule ==
  ASSUME NEW start, NEW first \in Int, NEW last \in Int, first <= last,
         NEW Good, start \in Good[first],
         \A i \in first..last-1 : \A x \in Good[i] : Round(x, i) \in Good[i + 1]
  PROVE  Loop(start, first, last) \in Good[last]
<1> DEFINE F == After(start, first)
           T == {n \in 0..last-first : F[n] \notin Good[first + n]}
<1> SUFFICES ASSUME T # {} PROVE FALSE
  <2>1. last - first \in 0..last-first /\ first + (last - first) = last
    OBVIOUS
  <2> QED
    BY <2>1 DEF Loop
<1>1. PICK n \in T : \A m \in T : n <= m
  <2>1. T \in SUBSET Nat
    OBVIOUS
  <2> QED
    BY <2>1, Least
<1>2. n \in 0..last-first /\ F[n] \notin Good[first + n]
  OBVIOUS
<1>3. F[0] = start /\ \A m \in Nat : F[m + 1] = Round(F[m], first + m)
  BY AfterRounds
<1>4. n # 0
  <2>1. first + 0 = first
    OBVIOUS
  <2> QED
    BY <1>2, <1>3, <2>1
<1>5. n - 1 \in 0..last-first /\ n - 1 \in Nat /\ first + (n - 1) \in first..last-1
  BY <1>2, <1>4
<1>6. F[n - 1] \in Good[first + (n - 1)]
  BY <1>1, <1>5
<1>7. F[n - 1 + 1] = Round(F[n - 1], first + (n - 1))
  BY <1>3, <1>5
<1>8. n - 1 + 1 = n /\ first + (n - 1) + 1 = first + n
  BY <1>2
<1>9. Round(F[n - 1], first + (n - 1)) \in Good[first + (n - 1) + 1]
  BY <1>5, <1>6
<1> QED
  BY <1>2, <1>7, <1>8, <1>9
==============================================================================
