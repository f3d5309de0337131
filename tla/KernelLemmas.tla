---------------------------- MODULE KernelLemmas ----------------------------
(***************************************************************************)
(* Facts that the proofs about the kernel share: induction over the        *)
(* natural numbers, for what loops and recursive functions compute; sums;  *)
(* remainders; the list operations of the model (link at the tail, unlink  *)
(* the head, insert, unlink in the middle) and the set of entries of a     *)
(* list without duplicates; and what wakeup_proc, schedule() and the tick  *)
(* do to the run queue, on which the proofs about the blocking services    *)
(* rest.                                                                   *)
(***************************************************************************)
EXTENDS Sched, SequenceTheorems, WellFoundedInduction, FiniteSetTheorems, TLAPS

\* Every set of natural numbers that is not empty has a least member.
LEMMA LeastNatural ==
    ASSUME NEW T, T \subseteq Nat, T # {}
    PROVE  \E n \in T : \A m \in T : n <= m
<1>1. PICK n \in T : \A m \in T : <<m, n>> \notin OpToRel(<, Nat)
  BY WFMin, NatLessThanWellFounded
<1>2. \A m \in T : ~(m < n)
  BY <1>1 DEF OpToRel
<1>3. QED
  BY <1>2

\* Induction, as a fact about sets: {n \in Nat : P(n)} is Nat if it has 0 and,
\* with every number, the next one.
LEMMA InductionOverSets ==
    ASSUME NEW T, 0 \in T, \A n \in Nat : n \in T => n + 1 \in T
    PROVE  Nat \subseteq T
<1>1. SUFFICES ASSUME Nat \ T # {} PROVE FALSE
  OBVIOUS
<1>2. PICK n \in Nat \ T : \A m \in Nat \ T : n <= m
  BY <1>1, LeastNatural
<1>3. n # 0 /\ n - 1 \in Nat /\ n - 1 \in T
  BY <1>2
<1>4. QED
  BY <1>2, <1>3

\* f is defined by recursion: it has the value v[s] at the numbers of Stop, and is g of
\* its value at d[s] elsewhere.
Recursive(f, Stop, v, d, g) ==
    \A s \in Nat : f[s] = IF s \in Stop THEN v[s] ELSE g[f[d[s]]]

\* Recursion to a smaller number defines a function: it has the value v[s] where it
\* stops, and otherwise g of its value at d[s].
LEMMA RecursionExists ==
    ASSUME NEW Stop \in SUBSET Nat, NEW v \in [Nat -> Nat], NEW d \in [Nat -> Nat],
           NEW g \in [Nat -> Nat], \A s \in Nat \ Stop : d[s] < s
    PROVE  \E f \in [Nat -> Nat] : Recursive(f, Stop, v, d, g)
<1> DEFINE Part(n) == {f \in [0 .. n -> Nat] :
                         \A s \in 0 .. n : f[s] = IF s \in Stop THEN v[s] ELSE g[f[d[s]]]}
           T == {n \in Nat : Part(n) # {}}
<1>1. \A s \in Nat \ Stop : d[s] \in 0 .. s - 1 /\ d[s] \in Nat
  OBVIOUS
<1>2. 0 \in Stop
  BY <1>1
<1>3. 0 \in T
  <2>1. [s \in 0 .. 0 |-> v[0]] \in Part(0)
    BY <1>2
  <2>2. QED
    BY <2>1
<1>4. ASSUME NEW n \in Nat, n \in T PROVE n + 1 \in T
  <2>1. PICK f : f \in Part(n)
    BY <1>4
  <2>2. /\ f \in [0 .. n -> Nat]
        /\ \A s \in 0 .. n : f[s] = IF s \in Stop THEN v[s] ELSE g[f[d[s]]]
    BY <2>1
  <2> DEFINE top == IF n + 1 \in Stop THEN v[n + 1] ELSE g[f[d[n + 1]]]
             h == [s \in 0 .. n + 1 |-> IF s = n + 1 THEN top ELSE f[s]]
  <2>3. n + 1 \in Nat /\ (n + 1 \notin Stop => d[n + 1] \in 0 .. n)
    BY <1>1
  <2>4. top \in Nat
    BY <2>2, <2>3
  <2> HIDE DEF top
  <2>5. /\ h \in [0 .. n + 1 -> Nat] /\ h[n + 1] = top
        /\ \A s \in 0 .. n : h[s] = f[s]
    <3>1. \A s \in 0 .. n + 1 : s # n + 1 => s \in 0 .. n
      OBVIOUS
    <3>2. \A s \in 0 .. n + 1 : h[s] \in Nat
      BY <2>2, <2>4, <3>1
    <3>3. h[n + 1] = top /\ \A s \in 0 .. n : h[s] = f[s]
      <4>1. n + 1 \in 0 .. n + 1 /\ \A s \in 0 .. n : s \in 0 .. n + 1 /\ s # n + 1
        OBVIOUS
      <4>2. QED
        BY <4>1
    <3>4. h = [s \in 0 .. n + 1 |-> h[s]]
      OBVIOUS
    <3> HIDE DEF h
    <3>5. QED
      BY <3>2, <3>3, <3>4
  <2>6. n + 1 \notin Stop => h[d[n + 1]] = f[d[n + 1]]
    BY <2>3, <2>5
  <2> HIDE DEF h
  <2> USE DEF top
  <2>7. ASSUME NEW s \in 0 .. n + 1 PROVE h[s] = IF s \in Stop THEN v[s] ELSE g[h[d[s]]]
    <3>1. CASE s = n + 1
      BY <2>5, <2>6, <3>1
    <3>2. CASE s # n + 1
      <4>1. s \in 0 .. n /\ s \in Nat
        BY <3>2
      <4>2. s \notin Stop => d[s] \in 0 .. n
        BY <1>1, <4>1
      <4>3. h[s] = f[s] /\ (s \notin Stop => h[d[s]] = f[d[s]])
        BY <2>5, <4>1, <4>2
      <4>4. QED
        BY <2>2, <4>1, <4>3
    <3>3. QED
      BY <3>1, <3>2
  <2>8. h \in Part(n + 1)
    BY <2>5, <2>7
  <2>9. QED
    BY <2>3, <2>8
<1>5. Nat \subseteq T
  <2> HIDE DEF T
  <2>1. QED
    BY <1>3, <1>4, InductionOverSets
<1> DEFINE F == [n \in Nat |-> CHOOSE f : f \in Part(n)]
           f == [s \in Nat |-> F[s][s]]
           S == {k \in Nat : \A s \in 0 .. k : \A n \in Nat : s <= n => F[n][s] = F[s][s]}
<1>6. \A n \in Nat : F[n] \in Part(n)
  <2> HIDE DEF Part
  <2>1. QED
    BY <1>5
<1>7. \A n \in Nat : \A s \in 0 .. n :
        F[n][s] \in Nat /\ F[n][s] = IF s \in Stop THEN v[s] ELSE g[F[n][d[s]]]
  <2>1. TAKE n \in Nat
  <2>2. PICK h : h = F[n]
    OBVIOUS
  <2>3. h \in Part(n)
    BY <1>6, <2>2
  <2> HIDE DEF F
  <2>4. \A s \in 0 .. n : h[s] \in Nat /\ h[s] = IF s \in Stop THEN v[s] ELSE g[h[d[s]]]
    BY <2>3
  <2>5. QED
    BY <2>2, <2>4
<1> HIDE DEF F, Part
<1>8. 0 \in S
  <2>1. ASSUME NEW s \in 0 .. 0, NEW n \in Nat PROVE F[n][s] = F[s][s]
    <3>1. s = 0 /\ 0 \in 0 .. n /\ 0 \in 0 .. 0
      OBVIOUS
    <3>2. F[n][0] = v[0] /\ F[0][0] = v[0]
      BY <1>2, <1>7, <3>1
    <3>3. QED
      BY <3>1, <3>2
  <2>2. QED
    BY <2>1
<1>9. ASSUME NEW k \in Nat, k \in S PROVE k + 1 \in S
  <2>1. ASSUME NEW s \in 0 .. k + 1, NEW n \in Nat, s <= n PROVE F[n][s] = F[s][s]
    <3>1. CASE s \in 0 .. k
      BY <1>9, <2>1, <3>1
    <3>2. CASE s = k + 1
      <4>1. s \in Nat /\ s \in 0 .. n /\ s \in 0 .. s
        BY <2>1
      <4>2. /\ F[n][s] = IF s \in Stop THEN v[s] ELSE g[F[n][d[s]]]
            /\ F[s][s] = IF s \in Stop THEN v[s] ELSE g[F[s][d[s]]]
        BY <1>7, <4>1
      <4>3. ASSUME s \notin Stop PROVE F[n][d[s]] = F[s][d[s]]
        <5>1. d[s] \in 0 .. k /\ d[s] <= n /\ d[s] <= s
          BY <1>1, <2>1, <3>2, <4>1, <4>3
        <5>2. F[n][d[s]] = F[d[s]][d[s]] /\ F[s][d[s]] = F[d[s]][d[s]]
          BY <1>9, <4>1, <5>1
        <5>3. QED
          BY <5>2
      <4>4. QED
        BY <4>2, <4>3
    <3>3. QED
      BY <2>1, <3>1, <3>2
  <2>2. QED
    BY <2>1
<1>10. Nat \subseteq S
  <2> HIDE DEF S
  <2>1. QED
    BY <1>8, <1>9, InductionOverSets
<1>11. ASSUME NEW s \in Nat
       PROVE  f[s] \in Nat /\ f[s] = IF s \in Stop THEN v[s] ELSE g[f[d[s]]]
  <2>1. s \in 0 .. s
    OBVIOUS
  <2>2. F[s][s] \in Nat /\ F[s][s] = IF s \in Stop THEN v[s] ELSE g[F[s][d[s]]]
    BY <1>7, <2>1
  <2>3. ASSUME s \notin Stop PROVE d[s] \in Nat /\ F[s][d[s]] = F[d[s]][d[s]]
    <3>1. d[s] \in Nat /\ d[s] <= s /\ d[s] \in 0 .. d[s]
      BY <1>1, <2>3
    <3>2. QED
      BY <1>10, <3>1
  <2>4. f[s] = F[s][s] /\ (s \notin Stop => f[d[s]] = F[d[s]][d[s]])
    BY <2>3
  <2>5. QED
    BY <2>2, <2>3, <2>4
<1>12. f \in [Nat -> Nat]
  <2>1. \A s \in Nat : F[s][s] \in Nat
    BY <1>11
  <2>2. QED
    BY <2>1
<1>13. QED
  BY <1>11, <1>12 DEF Recursive

\* Running sums: for every list of numbers there is the function of the sums of
\* its first entries.
LEMMA SumsExist ==
    ASSUME NEW L \in Nat, NEW d \in [1 .. L -> Int]
    PROVE  \E g \in [0 .. L -> Int] : g[0] = 0 /\ \A i \in 1 .. L : g[i] = g[i - 1] + d[i]
<1> DEFINE SumsOf(n) == {g \in [0 .. n -> Int] :
                         g[0] = 0 /\ \A i \in 1 .. n : g[i] = g[i - 1] + d[i]}
           T == {n \in Nat : n <= L => SumsOf(n) # {}}
<1>1. 0 \in T
  <2> DEFINE g == [i \in 0 .. 0 |-> 0]
  <2>1. g \in [0 .. 0 -> Int] /\ g[0] = 0 /\ \A i \in 1 .. 0 : g[i] = g[i - 1] + d[i]
    OBVIOUS
  <2> HIDE DEF g
  <2>2. g \in SumsOf(0)
    BY <2>1
  <2> HIDE DEF SumsOf
  <2>3. QED
    BY <2>2
<1> HIDE DEF SumsOf
<1>2. ASSUME NEW n \in Nat, n \in T PROVE n + 1 \in T
  <2>1. SUFFICES ASSUME n + 1 <= L PROVE SumsOf(n + 1) # {}
    OBVIOUS
  <2>2. PICK g : g \in SumsOf(n)
    BY <1>2, <2>1
  <2> DEFINE h == [i \in 0 .. n + 1 |-> IF i <= n THEN g[i] ELSE g[n] + d[n + 1]]
  <2>3. /\ g \in [0 .. n -> Int] /\ g[0] = 0 /\ \A i \in 1 .. n : g[i] = g[i - 1] + d[i]
        /\ d[n + 1] \in Int
    BY <2>1, <2>2 DEF SumsOf
  <2>4. h \in [0 .. n + 1 -> Int] /\ h[0] = 0
    BY <2>3
  <2>5. ASSUME NEW i \in 1 .. n + 1 PROVE h[i] = h[i - 1] + d[i]
    BY <2>3
  <2> HIDE DEF h
  <2>6. h \in SumsOf(n + 1)
    BY <2>4, <2>5 DEF SumsOf
  <2>7. QED
    BY <2>6
<1> HIDE DEF T
<1>3. L \in T
  BY <1>1, <1>2, InductionOverSets
<1>4. SumsOf(L) # {}
  BY <1>3 DEF T
<1>5. QED
  BY <1>4 DEF SumsOf

\* From a on, h and, from b on, g add the same n numbers, those of d from b + 1 on.
SameSteps(h, a, g, b, d, n) ==
    \A i \in 0 .. n - 1 : /\ h[a + (i + 1)] = h[a + i] + d[b + (i + 1)]
                          /\ g[b + (i + 1)] = g[b + i] + d[b + (i + 1)]

\* Two running sums that add the same numbers, from equal beginnings, agree.
LEMMA SumsAgree ==
    ASSUME NEW n \in Nat, NEW g, NEW h, NEW d, NEW a \in Int, NEW b \in Int, h[a] = g[b],
           SameSteps(h, a, g, b, d, n)
    PROVE  \A i \in 0 .. n : h[a + i] = g[b + i]
<1> DEFINE T == {i \in Nat : i <= n => h[a + i] = g[b + i]}
<1>1. 0 \in T
  <2>1. a + 0 = a /\ b + 0 = b
    OBVIOUS
  <2>2. QED
    BY <2>1
<1>2. ASSUME NEW i \in Nat, i \in T PROVE i + 1 \in T
  <2>1. SUFFICES ASSUME i + 1 <= n PROVE h[a + (i + 1)] = g[b + (i + 1)]
    OBVIOUS
  <2>2. i \in 0 .. n - 1 /\ h[a + i] = g[b + i]
    BY <1>2, <2>1
  <2>3. QED
    BY <2>2 DEF SameSteps
<1> HIDE DEF T
<1>3. Nat \subseteq T
  BY <1>1, <1>2, InductionOverSets
<1>4. QED
  BY <1>3 DEF T

\* g holds the sums of the first entries of d.
Sums(g, d, L) ==
    /\ \A k \in 0 .. L : g[k] \in Int
    /\ \A k \in 1 .. L : g[k] = g[k - 1] + d[k]

\* h holds the sums after a new entry has been put behind the m-th, and the entry
\* that followed has given up what the new one takes.
SumsInserted(h, g, d, L, m, c) ==
    /\ h[0] = g[0]
    /\ \A k \in 1 .. m : h[k] = h[k - 1] + d[k]
    /\ h[m + 1] = h[m] + (c - g[m])
    /\ m < L => h[m + 2] = h[m + 1] + (g[m + 1] - c)
    /\ \A k \in m + 2 .. L : h[k + 1] = h[k] + d[k]

\* h holds the sums after the i-th entry has gone and the entry that followed has
\* taken its share.
SumsRemoved(h, g, d, L, i) ==
    /\ h[0] = g[0]
    /\ \A k \in 1 .. i - 1 : h[k] = h[k - 1] + d[k]
    /\ i < L => h[i] = h[i - 1] + (g[i + 1] - g[i - 1])
    /\ \A k \in i + 1 .. L - 1 : h[k] = h[k - 1] + d[k + 1]

\* The sums at the old entries are what they were before the insertion, and the
\* sum at the new entry is c.
LEMMA SumsAfterInsert ==
    ASSUME NEW L \in Nat, NEW m \in 0 .. L, NEW c \in Int, NEW d, NEW g, NEW h,
           Sums(g, d, L), SumsInserted(h, g, d, L, m, c)
    PROVE  /\ \A k \in 0 .. m : h[k] = g[k]
           /\ h[m + 1] = c
           /\ \A k \in m + 1 .. L : h[k + 1] = g[k]
<1> USE DEF Sums, SumsInserted
<1>1. \A k \in 0 .. m : h[k] = g[k]
  <2> DEFINE z == 0
  <2>1. m \in Nat /\ z \in Int /\ h[z] = g[z]
    OBVIOUS
  <2>2. ASSUME NEW i \in 0 .. m - 1
        PROVE  /\ h[z + (i + 1)] = h[z + i] + d[z + (i + 1)]
               /\ g[z + (i + 1)] = g[z + i] + d[z + (i + 1)]
    <3>1. i + 1 \in 1 .. m /\ i + 1 \in 1 .. L /\ (i + 1) - 1 = i
      OBVIOUS
    <3>2. z + (i + 1) = i + 1 /\ z + i = i
      OBVIOUS
    <3> HIDE DEF z
    <3>3. QED
      BY <3>1, <3>2
  <2> HIDE DEF z
  <2>a. SameSteps(h, z, g, z, d, m)
    BY <2>2 DEF SameSteps
  <2>3. \A i \in 0 .. m : h[z + i] = g[z + i]
    BY <2>1, <2>a, SumsAgree
  <2>4. \A i \in 0 .. m : z + i = i
    BY DEF z
  <2>5. QED
    BY <2>3, <2>4
<1>2. h[m + 1] = c
  BY <1>1
<1>3. ASSUME m < L PROVE \A k \in m + 1 .. L : h[k + 1] = g[k]
  <2> DEFINE a == m + 2
             b == m + 1
             n == L - (m + 1)
  <2>1. n \in Nat /\ a \in Int /\ b \in Int
    BY <1>3
  <2>2. h[a] = g[b]
    <3>1. h[m + 2] = c + (g[m + 1] - c) /\ g[m + 1] \in Int
      BY <1>2, <1>3
    <3>2. QED
      BY <3>1
  <2>3. ASSUME NEW i \in 0 .. n - 1
        PROVE  /\ h[a + (i + 1)] = h[a + i] + d[b + (i + 1)]
               /\ g[b + (i + 1)] = g[b + i] + d[b + (i + 1)]
    <3>1. /\ b + (i + 1) \in m + 2 .. L /\ b + (i + 1) \in 1 .. L
          /\ (b + (i + 1)) + 1 = a + (i + 1)
          /\ (b + (i + 1)) - 1 = b + i /\ b + (i + 1) = a + i
      BY <1>3
    <3> HIDE DEF a, b
    <3>2. QED
      BY <3>1
  <2> HIDE DEF a, b, n
  <2>a. SameSteps(h, a, g, b, d, n)
    BY <2>3 DEF SameSteps
  <2>4. \A i \in 0 .. n : h[a + i] = g[b + i]
    BY <2>1, <2>2, <2>a, SumsAgree
  <2>5. ASSUME NEW k \in m + 1 .. L PROVE h[k + 1] = g[k]
    <3> DEFINE i == k - (m + 1)
    <3>1. i \in 0 .. n /\ a + i = k + 1 /\ b + i = k
      BY <1>3 DEF a, b, n
    <3> HIDE DEF i
    <3>2. QED
      BY <2>4, <3>1
  <2>6. QED
    BY <2>5
<1>4. QED
  BY <1>1, <1>2, <1>3

\* The sums at the entries that are left are what they were before the removal.
LEMMA SumsAfterRemove ==
    ASSUME NEW L \in Nat \ {0}, NEW i \in 1 .. L, NEW d, NEW g, NEW h,
           Sums(g, d, L), SumsRemoved(h, g, d, L, i)
    PROVE  /\ \A k \in 0 .. i - 1 : h[k] = g[k]
           /\ \A k \in i .. L - 1 : h[k] = g[k + 1]
<1> USE DEF Sums, SumsRemoved
<1>1. \A k \in 0 .. i - 1 : h[k] = g[k]
  <2> DEFINE z == 0
             n == i - 1
  <2>1. n \in Nat /\ z \in Int /\ h[z] = g[z]
    OBVIOUS
  <2>2. ASSUME NEW k \in 0 .. n - 1
        PROVE  /\ h[z + (k + 1)] = h[z + k] + d[z + (k + 1)]
               /\ g[z + (k + 1)] = g[z + k] + d[z + (k + 1)]
    <3>1. k + 1 \in 1 .. i - 1 /\ k + 1 \in 1 .. L /\ (k + 1) - 1 = k
      OBVIOUS
    <3>2. z + (k + 1) = k + 1 /\ z + k = k
      OBVIOUS
    <3> HIDE DEF z, n
    <3>3. QED
      BY <3>1, <3>2
  <2> HIDE DEF z, n
  <2>a. SameSteps(h, z, g, z, d, n)
    BY <2>2 DEF SameSteps
  <2>3. \A k \in 0 .. n : h[z + k] = g[z + k]
    BY <2>1, <2>a, SumsAgree
  <2>4. \A k \in 0 .. n : z + k = k
    BY <2>1 DEF z
  <2>5. QED
    BY <2>3, <2>4 DEF n
<1>2. ASSUME i < L PROVE \A k \in i .. L - 1 : h[k] = g[k + 1]
  <2> DEFINE b == i + 1
             n == L - 1 - i
  <2>1. n \in Nat /\ b \in Int
    BY <1>2
  <2>2. h[i] = g[b]
    <3>1. /\ h[i - 1] = g[i - 1] /\ g[i - 1] \in Int /\ g[i + 1] \in Int
          /\ h[i] = h[i - 1] + (g[i + 1] - g[i - 1])
      BY <1>1, <1>2
    <3>2. QED
      BY <3>1
  <2>3. ASSUME NEW k \in 0 .. n - 1
        PROVE  /\ h[i + (k + 1)] = h[i + k] + d[b + (k + 1)]
               /\ g[b + (k + 1)] = g[b + k] + d[b + (k + 1)]
    <3>1. /\ i + (k + 1) \in i + 1 .. L - 1 /\ (i + (k + 1)) + 1 = b + (k + 1)
          /\ (i + (k + 1)) - 1 = i + k /\ b + (k + 1) \in 1 .. L
          /\ (b + (k + 1)) - 1 = b + k
      BY <1>2
    <3> HIDE DEF b
    <3>2. QED
      BY <3>1
  <2> HIDE DEF b, n
  <2>a. SameSteps(h, i, g, b, d, n)
    BY <2>3 DEF SameSteps
  <2>4. \A k \in 0 .. n : h[i + k] = g[b + k]
    BY <2>1, <2>2, <2>a, SumsAgree
  <2>5. ASSUME NEW k \in i .. L - 1 PROVE h[k] = g[k + 1]
    <3> DEFINE j == k - i
    <3>1. j \in 0 .. n /\ i + j = k /\ b + j = k + 1
      BY <1>2 DEF b, n
    <3> HIDE DEF j
    <3>2. QED
      BY <2>4, <3>1
  <2>6. QED
    BY <2>5
<1>3. QED
  BY <1>1, <1>2

\* A running sum of naturals does not decrease.
LEMMA SumsIncrease ==
    ASSUME NEW L \in Nat, NEW g \in [0 .. L -> Int], \A i \in 1 .. L : g[i - 1] <= g[i]
    PROVE  \A i, j \in 0 .. L : i <= j => g[i] <= g[j]
<1> DEFINE T == {k \in Nat : \A i \in 0 .. L : i + k <= L => g[i] <= g[i + k]}
<1>1. 0 \in T
  OBVIOUS
<1>2. ASSUME NEW k \in Nat, k \in T PROVE k + 1 \in T
  <2>1. SUFFICES ASSUME NEW i \in 0 .. L, i + (k + 1) <= L PROVE g[i] <= g[i + (k + 1)]
    OBVIOUS
  <2>2. /\ i + k <= L /\ i + k \in 0 .. L /\ i + (k + 1) \in 1 .. L
        /\ i + (k + 1) - 1 = i + k
    BY <2>1
  <2>3. g[i] <= g[i + k]
    BY <1>2, <2>2
  <2>4. g[i + k] <= g[i + (k + 1)]
    BY <2>2
  <2>5. g[i] \in Int /\ g[i + k] \in Int /\ g[i + (k + 1)] \in Int
    BY <2>2
  <2>6. QED
    BY <2>3, <2>4, <2>5
<1> HIDE DEF T
<1>3. Nat \subseteq T
  BY <1>1, <1>2, InductionOverSets
<1>4. ASSUME NEW i \in 0 .. L, NEW j \in 0 .. L, i <= j PROVE g[i] <= g[j]
  <2>1. j - i \in T /\ i + (j - i) = j
    BY <1>3, <1>4
  <2>2. QED
    BY <2>1 DEF T
<1>5. QED
  BY <1>4

\* Remainders of numbers that are at most a few moduli away.
LEMMA ModFacts ==
    ASSUME NEW m \in Nat \ {0}, NEW a \in Int
    PROVE  /\ a % m \in 0 .. m - 1
           /\ -m <= a /\ a < 0 => a % m = a + m
           /\ 0 <= a /\ a < m => a % m = a
           /\ m <= a /\ a < 2 * m => a % m = a - m
           /\ 2 * m <= a /\ a < 3 * m => a % m = a - 2 * m
<1>1. a % m \in 0 .. m - 1
  OBVIOUS
<1>2. ASSUME -m <= a, a < 0 PROVE a % m = a + m
  BY <1>2
<1>3. ASSUME 0 <= a, a < m PROVE a % m = a
  BY <1>3
<1>4. ASSUME m <= a, a < 2 * m PROVE a % m = a - m
  BY <1>4
<1>5. ASSUME 2 * m <= a, a < 3 * m PROVE a % m = a - 2 * m
  BY <1>5
<1>6. QED
  BY <1>1, <1>2, <1>3, <1>4, <1>5

\* A function on 1 .. n is a sequence of n entries.
LEMMA FunctionIsSeq ==
    ASSUME NEW S, NEW n \in Nat, NEW f \in [1 .. n -> S]
    PROVE  f \in Seq(S) /\ Len(f) = n
<1>1. f \in Seq(S)
  BY SeqDef
<1>2. Len(f) \in Nat /\ DOMAIN f = 1 .. Len(f)
  BY <1>1, LenProperties
<1>3. QED
  BY <1>1, <1>2

\* What a list holds is of its type.
LEMMA RangeFacts ==
    ASSUME NEW S, NEW s \in Seq(S)
    PROVE  /\ Range(s) \subseteq S
           /\ \A x : x \in Range(s) <=> \E i \in 1 .. Len(s) : s[i] = x
           /\ s = <<>> <=> Range(s) = {}
<1>1. Len(s) \in Nat /\ DOMAIN s = 1 .. Len(s) /\ \A i \in 1 .. Len(s) : s[i] \in S
  BY LenProperties, ElementOfSeq
<1>2. s # <<>> => Len(s) \in Nat \ {0}
  BY EmptySeq
<1>3. ASSUME s # <<>> PROVE Range(s) # {}
  <2>1. 1 \in DOMAIN s
    BY <1>1, <1>2, <1>3
  <2>2. QED
    BY <2>1 DEF Range
<1>4. s = <<>> => Range(s) = {}
  BY DEF Range
<1>5. QED
  BY <1>1, <1>3, <1>4 DEF Range

\* A sequence that lists a finite set holds each of its members, once.
LEMMA ListingFacts ==
    ASSUME NEW S, IsFiniteSet(S), NEW s \in SetToSeqs(S)
    PROVE  s \in Seq(S) /\ IsInjective(s) /\ Range(s) = S
<1> DEFINE n == Cardinality(S)
           D == 1 .. n
<1>1. n \in Nat
  BY FS_CardinalityType
<1>2. s \in [D -> S] /\ \A i, j \in D : i # j => s[i] # s[j]
  BY DEF SetToSeqs
<1>3. IsFiniteSet(D) /\ Cardinality(D) = n
  <2> HIDE DEF n
  <2>1. QED
    BY <1>1, FS_Interval
<1>4. s \in Injection(D, S)
  BY <1>2 DEF Injection, IsInjective
<1>5. s \in Surjection(D, S)
  <2> HIDE DEF D
  <2>1. QED
    BY <1>3, <1>4, FS_Injection
<1>6. s \in Seq(S)
  <2> HIDE DEF n
  <2>1. QED
    BY <1>1, <1>2, FunctionIsSeq
<1>7. IsInjective(s)
  BY <1>2 DEF IsInjective
<1>8. Range(s) = S
  BY <1>2, <1>5 DEF Surjection, Range
<1>9. QED
  BY <1>6, <1>7, <1>8

\* Linking x at the tail (list_add_before the list head).
LEMMA AppendFacts ==
    ASSUME NEW S, NEW s \in Seq(S), NEW x \in S
    PROVE  /\ Append(s, x) \in Seq(S)
           /\ Append(s, x) # <<>>
           /\ Len(Append(s, x)) = Len(s) + 1
           /\ \A k \in 1 .. Len(s) : Append(s, x)[k] = s[k]
           /\ Append(s, x)[Len(s) + 1] = x
           /\ Range(Append(s, x)) = Range(s) \cup {x}
           /\ IsInjective(s) /\ x \notin Range(s) => IsInjective(Append(s, x))
<1> DEFINE t == Append(s, x)
<1>1. /\ t \in Seq(S)
      /\ Len(t) = Len(s) + 1
      /\ DOMAIN t = 1 .. Len(s) + 1
      /\ \A i \in 1 .. Len(s) : t[i] = s[i]
      /\ t[Len(s) + 1] = x
      /\ DOMAIN s = 1 .. Len(s)
      /\ Len(s) \in Nat
  BY AppendProperties, LenProperties
<1> HIDE DEF t
<1>2. t # <<>>
  BY <1>1
<1>3. Range(t) = Range(s) \cup {x}
  BY <1>1 DEF Range
<1>4. ASSUME IsInjective(s), x \notin Range(s)
      PROVE  IsInjective(t)
  BY <1>1, <1>4 DEF IsInjective, Range
<1>5. QED
  BY <1>1, <1>2, <1>3, <1>4 DEF t

\* Unlinking the head.
LEMMA TailFacts ==
    ASSUME NEW S, NEW s \in Seq(S), s # <<>>
    PROVE  /\ Head(s) \in Range(s)
           /\ Head(s) \in S
           /\ Tail(s) \in Seq(S)
           /\ Len(s) \in Nat \ {0} /\ Head(s) = s[1]
           /\ Len(Tail(s)) = Len(s) - 1
           /\ \A k \in 1 .. Len(s) - 1 : Tail(s)[k] = s[k + 1]
           /\ Range(s) = Range(Tail(s)) \cup {Head(s)}
           /\ IsInjective(s) => /\ IsInjective(Tail(s))
                                /\ Head(s) \notin Range(Tail(s))
<1> DEFINE t == Tail(s)
<1>1. /\ Head(s) = s[1] /\ Head(s) \in S
      /\ t \in Seq(S)
      /\ Len(t) = Len(s) - 1
      /\ DOMAIN t = 1 .. Len(s) - 1
      /\ \A i \in 1 .. Len(s) - 1 : t[i] = s[i + 1]
      /\ DOMAIN s = 1 .. Len(s)
      /\ Len(s) \in Nat \ {0}
  BY HeadTailProperties, LenProperties
<1> HIDE DEF t
<1>2. Head(s) \in Range(s)
  BY <1>1 DEF Range
<1>3. Range(s) = Range(t) \cup {Head(s)}
  <2>1. ASSUME NEW y \in Range(s) PROVE y \in Range(t) \cup {Head(s)}
    <3>1. PICK i \in 1 .. Len(s) : y = s[i]
      BY <1>1, <2>1 DEF Range
    <3>2. CASE i = 1
      BY <1>1, <3>1, <3>2
    <3>3. CASE i # 1
      <4>1. i - 1 \in DOMAIN t /\ t[i - 1] = y
        BY <1>1, <3>1, <3>3
      <4>2. QED
        BY <4>1 DEF Range
    <3>4. QED
      BY <3>2, <3>3
  <2>2. ASSUME NEW y \in Range(t) PROVE y \in Range(s)
    BY <1>1, <2>2 DEF Range
  <2>3. QED
    BY <1>2, <2>1, <2>2
<1>4. ASSUME IsInjective(s)
      PROVE  IsInjective(t) /\ Head(s) \notin Range(t)
  <2>1. ASSUME NEW j \in 1 .. Len(s) - 1, NEW k \in 1 .. Len(s) - 1, t[j] = t[k]
        PROVE  j = k
    <3>1. s[j + 1] = s[k + 1] /\ j + 1 \in DOMAIN s /\ k + 1 \in DOMAIN s
      BY <1>1, <2>1
    <3>2. QED
      BY <1>4, <3>1 DEF IsInjective
  <2>2. ASSUME NEW j \in 1 .. Len(s) - 1, t[j] = Head(s)
        PROVE  FALSE
    <3>1. s[j + 1] = s[1] /\ j + 1 \in DOMAIN s /\ 1 \in DOMAIN s /\ j + 1 # 1
      BY <1>1, <2>2
    <3>2. QED
      BY <1>4, <3>1 DEF IsInjective
  <2>3. QED
    BY <1>1, <2>1, <2>2 DEF IsInjective, Range
<1>5. QED
  BY <1>1, <1>2, <1>3, <1>4 DEF t

\* Inserting x before the i-th entry (list_add_before an entry).
LEMMA InsertAtFacts ==
    ASSUME NEW S, NEW s \in Seq(S), NEW x \in S, NEW i \in 1 .. Len(s) + 1
    PROVE  /\ InsertAt(s, i, x) \in Seq(S)
           /\ Len(InsertAt(s, i, x)) = Len(s) + 1
           /\ \A k \in 1 .. i - 1 : InsertAt(s, i, x)[k] = s[k]
           /\ InsertAt(s, i, x)[i] = x
           /\ \A k \in i + 1 .. Len(s) + 1 : InsertAt(s, i, x)[k] = s[k - 1]
           /\ Range(InsertAt(s, i, x)) = Range(s) \cup {x}
           /\ IsInjective(s) /\ x \notin Range(s) => IsInjective(InsertAt(s, i, x))
<1> DEFINE a == SubSeq(s, 1, i - 1)
           b == SubSeq(s, i, Len(s))
           t == InsertAt(s, i, x)
<1>0. Len(s) \in Nat /\ DOMAIN s = 1 .. Len(s) /\ \A k \in 1 .. Len(s) : s[k] \in S
  BY LenProperties, ElementOfSeq
<1>1. /\ a \in Seq(S) /\ Len(a) = i - 1
      /\ \A k \in 1 .. i - 1 : a[k] = s[k]
  BY <1>0, SubSeqProperties
<1>2. /\ b \in Seq(S) /\ Len(b) = Len(s) - i + 1
      /\ \A k \in 1 .. Len(s) - i + 1 : b[k] = s[i + k - 1]
  BY <1>0, SubSeqProperties
<1>3. /\ <<x>> \in Seq(S) /\ Len(<<x>>) = 1 /\ <<x>>[1] = x
  OBVIOUS
<1> HIDE DEF a, b
<1>4. /\ a \o <<x>> \in Seq(S) /\ Len(a \o <<x>>) = i
      /\ \A k \in 1 .. i - 1 : (a \o <<x>>)[k] = s[k]
      /\ (a \o <<x>>)[i] = x
  BY <1>0, <1>1, <1>3, ConcatProperties
<1>5. /\ t \in Seq(S) /\ Len(t) = Len(s) + 1
      /\ \A k \in 1 .. i - 1 : t[k] = s[k]
      /\ t[i] = x
      /\ \A k \in i + 1 .. Len(s) + 1 : t[k] = s[k - 1]
      /\ DOMAIN t = 1 .. Len(s) + 1
  <2>1. t = (a \o <<x>>) \o b
    BY DEF InsertAt, a, b
  <2>2. /\ t \in Seq(S) /\ Len(t) = Len(s) + 1
        /\ \A k \in 1 .. i : t[k] = (a \o <<x>>)[k]
        /\ \A k \in i + 1 .. Len(s) + 1 : t[k] = b[k - i]
    <3> DEFINE c == a \o <<x>>
    <3>1. /\ c \o b \in Seq(S) /\ Len(c \o b) = Len(c) + Len(b)
          /\ \A k \in 1 .. Len(c) + Len(b) :
               (c \o b)[k] = IF k <= Len(c) THEN c[k] ELSE b[k - Len(c)]
      <4>1. c \in Seq(S) /\ b \in Seq(S)
        BY <1>2, <1>4
      <4> HIDE DEF c
      <4>2. QED
        BY <4>1, ConcatProperties
    <3> HIDE DEF t, c
    <3>2. Len(c) = i /\ t = c \o b /\ Len(b) = Len(s) - i + 1
      BY <1>2, <1>4, <2>1 DEF c
    <3>3. QED
      BY <1>0, <3>1, <3>2 DEF c
  <2>3. \A k \in i + 1 .. Len(s) + 1 : b[k - i] = s[k - 1]
    BY <1>0, <1>2
  <2> HIDE DEF t
  <2>4. QED
    BY <1>0, <1>4, <2>2, <2>3, LenProperties
<1> HIDE DEF t
<1>6. Range(t) = Range(s) \cup {x}
  <2>1. ASSUME NEW y \in Range(s) PROVE y \in Range(t)
    <3>1. PICK k \in 1 .. Len(s) : y = s[k]
      BY <1>0 DEF Range
    <3>2. CASE k < i
      BY <1>0, <1>5, <3>1, <3>2 DEF Range
    <3>3. CASE ~(k < i)
      <4>1. k + 1 \in DOMAIN t /\ t[k + 1] = y
        BY <1>0, <1>5, <3>1, <3>3
      <4>2. QED
        BY <4>1 DEF Range
    <3>4. QED
      BY <3>2, <3>3
  <2>2. x \in Range(t)
    BY <1>0, <1>5 DEF Range
  <2>3. ASSUME NEW y \in Range(t) PROVE y \in Range(s) \cup {x}
    <3>1. PICK k \in 1 .. Len(s) + 1 : y = t[k]
      BY <1>5 DEF Range
    <3>2. CASE k < i
      BY <1>0, <1>5, <3>1, <3>2 DEF Range
    <3>3. CASE k = i
      BY <1>5, <3>1, <3>3
    <3>4. CASE k > i
      <4>1. k - 1 \in DOMAIN s /\ s[k - 1] = y
        BY <1>0, <1>5, <3>1, <3>4
      <4>2. QED
        BY <4>1 DEF Range
    <3>5. QED
      BY <3>2, <3>3, <3>4
  <2>4. QED
    BY <2>1, <2>2, <2>3
<1>7. ASSUME IsInjective(s), x \notin Range(s)
      PROVE  IsInjective(t)
  <2> DEFINE f(k) == IF k < i THEN k ELSE k - 1
  <2>1. ASSUME NEW k \in 1 .. Len(s) + 1, k # i
        PROVE  f(k) \in DOMAIN s /\ t[k] = s[f(k)] /\ t[k] # x
    <3>1. f(k) \in DOMAIN s /\ t[k] = s[f(k)]
      BY <1>0, <1>5, <2>1
    <3>2. QED
      BY <1>7, <3>1 DEF Range
  <2>2. ASSUME NEW j \in 1 .. Len(s) + 1, NEW k \in 1 .. Len(s) + 1, t[j] = t[k]
        PROVE  j = k
    <3>1. CASE j = i \/ k = i
      BY <1>5, <2>1, <2>2, <3>1
    <3>2. CASE j # i /\ k # i
      <4>1. f(j) = f(k)
        BY <1>7, <2>1, <2>2, <3>2 DEF IsInjective
      <4>2. QED
        BY <1>0, <3>2, <4>1
    <3>3. QED
      BY <3>1, <3>2
  <2>3. QED
    BY <1>5, <2>2 DEF IsInjective
<1>8. QED
  BY <1>5, <1>6, <1>7 DEF t

\* Unlinking the i-th entry (list_del of an entry).
LEMMA RemoveAtFacts ==
    ASSUME NEW S, NEW s \in Seq(S), NEW i \in 1 .. Len(s), IsInjective(s)
    PROVE  /\ RemoveAt(s, i) \in Seq(S)
           /\ Len(RemoveAt(s, i)) = Len(s) - 1
           /\ \A k \in 1 .. i - 1 : RemoveAt(s, i)[k] = s[k]
           /\ \A k \in i .. Len(s) - 1 : RemoveAt(s, i)[k] = s[k + 1]
           /\ Range(RemoveAt(s, i)) = Range(s) \ {s[i]}
           /\ IsInjective(RemoveAt(s, i))
<1> DEFINE a == SubSeq(s, 1, i - 1)
           b == SubSeq(s, i + 1, Len(s))
           t == RemoveAt(s, i)
<1>0. Len(s) \in Nat /\ DOMAIN s = 1 .. Len(s) /\ \A k \in 1 .. Len(s) : s[k] \in S
  BY LenProperties, ElementOfSeq
<1>1. /\ a \in Seq(S) /\ Len(a) = i - 1
      /\ \A k \in 1 .. i - 1 : a[k] = s[k]
  BY <1>0, SubSeqProperties
<1>2. /\ b \in Seq(S) /\ Len(b) = Len(s) - i
      /\ \A k \in 1 .. Len(s) - i : b[k] = s[i + k]
  <2>1. /\ b \in Seq(S)
        /\ Len(b) = IF i + 1 <= Len(s) THEN Len(s) - (i + 1) + 1 ELSE 0
        /\ \A k \in 1 .. Len(s) - (i + 1) + 1 : b[k] = s[(i + 1) + k - 1]
    <3>1. /\ i + 1 \in Int /\ Len(s) \in Int
          /\ \A k \in i + 1 .. Len(s) : s[k] \in S
      BY <1>0
    <3>2. QED
      BY <3>1, SubSeqProperties
  <2> HIDE DEF b
  <2>2. Len(b) = Len(s) - i
    <3>1. Len(s) \in Nat
      BY <1>0
    <3>2. Len(b) = IF i + 1 <= Len(s) THEN Len(s) - (i + 1) + 1 ELSE 0
      BY <2>1
    <3>3. QED
      BY <3>1, <3>2
  <2>3. ASSUME NEW k \in 1 .. Len(s) - i PROVE b[k] = s[i + k]
    <3>1. (i + 1) + k - 1 = i + k /\ k \in 1 .. Len(s) - (i + 1) + 1
      BY <1>0
    <3>2. QED
      BY <2>1, <3>1
  <2>4. QED
    BY <2>1, <2>2, <2>3
<1>3. /\ t \in Seq(S) /\ Len(t) = Len(s) - 1
      /\ \A k \in 1 .. i - 1 : t[k] = s[k]
      /\ \A k \in i .. Len(s) - 1 : t[k] = s[k + 1]
      /\ DOMAIN t = 1 .. Len(s) - 1
  <2> HIDE DEF a, b
  <2>1. t = a \o b
    BY DEF RemoveAt, a, b
  <2>2. /\ t \in Seq(S) /\ Len(t) = Len(s) - 1
        /\ \A k \in 1 .. i - 1 : t[k] = a[k]
        /\ \A k \in i .. Len(s) - 1 : t[k] = b[k - i + 1]
    <3>1. /\ a \o b \in Seq(S) /\ Len(a \o b) = Len(a) + Len(b)
          /\ \A k \in 1 .. Len(a) + Len(b) :
               (a \o b)[k] = IF k <= Len(a) THEN a[k] ELSE b[k - Len(a)]
      BY <1>1, <1>2, ConcatProperties
    <3> HIDE DEF t
    <3>2. /\ Len(s) \in Nat /\ Len(a) = i - 1 /\ Len(b) = Len(s) - i
          /\ Len(a) + Len(b) = Len(s) - 1
      BY <1>0, <1>1, <1>2
    <3>3. t \in Seq(S) /\ Len(t) = Len(s) - 1
      BY <2>1, <3>1, <3>2
    <3>4. ASSUME NEW k \in 1 .. i - 1 PROVE t[k] = a[k]
      <4>1. k \in 1 .. Len(a) + Len(b) /\ k <= Len(a)
        BY <3>2
      <4>2. QED
        BY <2>1, <3>1, <4>1
    <3>5. ASSUME NEW k \in i .. Len(s) - 1 PROVE t[k] = b[k - i + 1]
      <4>1. k \in 1 .. Len(a) + Len(b) /\ ~(k <= Len(a)) /\ k - Len(a) = k - i + 1
        BY <3>2
      <4>2. QED
        BY <2>1, <3>1, <4>1
    <3>6. QED
      BY <3>3, <3>4, <3>5
  <2>3. ASSUME NEW k \in i .. Len(s) - 1 PROVE b[k - i + 1] = s[k + 1]
    <3>1. k - i + 1 \in 1 .. Len(s) - i /\ i + (k - i + 1) = k + 1
      BY <1>0
    <3>2. QED
      BY <1>2, <3>1
  <2> HIDE DEF t
  <2>4. QED
    BY <1>0, <1>1, <2>2, <2>3, LenProperties
<1> HIDE DEF t
<1>4. Range(t) = Range(s) \ {s[i]}
  <2>1. ASSUME NEW y \in Range(s), y # s[i] PROVE y \in Range(t)
    <3>1. PICK k \in 1 .. Len(s) : y = s[k]
      BY <1>0 DEF Range
    <3>2. CASE k < i
      BY <1>0, <1>3, <3>1, <3>2 DEF Range
    <3>3. CASE ~(k < i)
      <4>1. k - 1 \in DOMAIN t /\ t[k - 1] = y
        BY <1>0, <1>3, <2>1, <3>1, <3>3
      <4>2. QED
        BY <4>1 DEF Range
    <3>4. QED
      BY <3>2, <3>3
  <2>2. ASSUME NEW y \in Range(t) PROVE y \in Range(s) /\ y # s[i]
    <3>1. PICK k \in 1 .. Len(s) - 1 : y = t[k]
      BY <1>3 DEF Range
    <3>2. PICK j \in 1 .. Len(s) : y = s[j] /\ j # i
      BY <1>0, <1>3, <3>1
    <3>3. QED
      BY <1>0, <3>2 DEF Range, IsInjective
  <2>3. QED
    BY <2>1, <2>2
<1>5. IsInjective(t)
  <2> DEFINE f(k) == IF k < i THEN k ELSE k + 1
  <2>1. ASSUME NEW k \in 1 .. Len(s) - 1
        PROVE  f(k) \in DOMAIN s /\ t[k] = s[f(k)]
    BY <1>0, <1>3
  <2>2. ASSUME NEW j \in 1 .. Len(s) - 1, NEW k \in 1 .. Len(s) - 1, t[j] = t[k]
        PROVE  j = k
    <3>1. f(j) = f(k)
      BY <2>1, <2>2 DEF IsInjective
    <3>2. QED
      BY <1>0, <3>1
  <2>3. QED
    BY <1>3, <2>2 DEF IsInjective
<1>6. QED
  BY <1>3, <1>4, <1>5 DEF t

\* A list without duplicates is no longer than the set its entries are from.
LEMMA ListIsShort ==
    ASSUME NEW S, IsFiniteSet(S), NEW s \in Seq(S), IsInjective(s)
    PROVE  Cardinality(S) \in Nat /\ Len(s) <= Cardinality(S)
<1> DEFINE D == 1 .. Len(s)
<1>1. Len(s) \in Nat /\ s \in [D -> S] /\ DOMAIN s = D
  BY LenProperties, SeqDef, ElementOfSeq
<1>2. IsFiniteSet(D) /\ Cardinality(D) = Len(s)
  BY <1>1, FS_Interval
<1>3. s \in Injection(D, S)
  BY <1>1 DEF Injection, IsInjective
<1> HIDE DEF D
<1>4. Cardinality(D) <= Cardinality(S)
  BY <1>2, <1>3, FS_Injection
<1>5. QED
  BY <1>2, <1>4, FS_CardinalityType

-----------------------------------------------------------------------------
\* wakeup_proc keeps the run queue exact: a sleeping process is linked once, the
\* current thread not at all, and a runnable one is left where it is.
LEMMA WakeupFacts ==
    ASSUME SchedTypeOK, RunQueueOK, NEW p \in Proc, wakeup_proc(p),
           UNCHANGED <<current, need_resched>>
    PROVE  /\ SchedTypeOK' /\ RunQueueOK'
           /\ state' = [state EXCEPT ![p] = "RUNNABLE"]
<1> USE SchedAssumption DEF Thread
<1>1. CASE state[p] = "RUNNABLE"
  <2>1. UNCHANGED <<state, wait_state, run_list, time_slice>>
    BY <1>1 DEF wakeup_proc
  <2>2. [state EXCEPT ![p] = "RUNNABLE"] = state
    BY <1>1 DEF SchedTypeOK
  <2>3. QED
    BY <2>1, <2>2 DEF SchedTypeOK, RunQueueOK
<1>2. CASE state[p] # "RUNNABLE"
  <2>1. /\ state' = [state EXCEPT ![p] = "RUNNABLE"]
        /\ wait_state' = [wait_state EXCEPT ![p] = "none"]
    BY <1>2 DEF wakeup_proc
  <2>2. p \notin Range(run_list)
    BY <1>2 DEF RunQueueOK
  <2>3. /\ state' \in [Thread -> ProcState]
        /\ wait_state' \in [Thread -> WaitState]
    BY <2>1 DEF SchedTypeOK, ProcState, WaitState
  <2>4. CASE p = current
    <3>1. UNCHANGED <<run_list, time_slice>>
      BY <1>2, <2>4 DEF wakeup_proc
    <3>2. SchedTypeOK'
      BY <2>3, <3>1 DEF SchedTypeOK
    <3>3. RunQueueOK'
      BY <2>1, <2>2, <2>4, <3>1 DEF RunQueueOK, SchedTypeOK
    <3>4. QED
      BY <2>1, <3>2, <3>3
  <2>5. CASE p # current
    <3>1. /\ run_list' = Append(run_list, p)
          /\ time_slice' = [time_slice EXCEPT ![p] = Refilled(p)]
      BY <1>2, <2>5 DEF wakeup_proc, RR_enqueue
    <3>2. Refilled(p) \in 0 .. MAX_TIME_SLICE
      BY DEF Refilled, SchedTypeOK
    <3>3. time_slice' \in [Thread -> 0 .. MAX_TIME_SLICE]
      BY <3>1, <3>2 DEF SchedTypeOK
    <3>4. /\ run_list' \in Seq(Proc)
          /\ Range(run_list') = Range(run_list) \cup {p}
          /\ IsInjective(run_list')
      BY <2>2, <3>1, AppendFacts DEF SchedTypeOK, RunQueueOK
    <3>5. SchedTypeOK'
      BY <2>3, <3>3, <3>4 DEF SchedTypeOK
    <3>6. RunQueueOK'
      BY <2>1, <2>5, <3>4 DEF RunQueueOK, SchedTypeOK
    <3>7. QED
      BY <2>1, <3>5, <3>6
  <2>6. QED
    BY <2>4, <2>5
<1>3. QED
  BY <1>1, <1>2

\* wakeup_proc changes the wait_state of the thread it wakes only.
LEMMA WakeupWaitState ==
    ASSUME SchedTypeOK, NEW p \in Proc, wakeup_proc(p)
    PROVE  /\ \A q \in Thread : q # p => wait_state'[q] = wait_state[q]
           /\ state[p] = "RUNNABLE" => wait_state' = wait_state
           /\ state[p] # "RUNNABLE" => wait_state'[p] = "none"
BY DEF wakeup_proc, SchedTypeOK, Thread

\* schedule() keeps the run queue exact and hands the CPU to a runnable process,
\* or to idleproc when no process is runnable.
LEMMA ScheduleFacts ==
    ASSUME SchedTypeOK, RunQueueOK, schedule, UNCHANGED <<state, wait_state>>
    PROVE  /\ SchedTypeOK' /\ RunQueueOK'
           /\ current' \in Proc => state[current'] = "RUNNABLE"
           /\ current' = idleproc => \A p \in Proc : state[p] # "RUNNABLE"
<1> USE SchedAssumption DEF Thread
<1> DEFINE requeue == state[current] = "RUNNABLE" /\ current # idleproc
           queue   == IF requeue THEN Append(run_list, current) ELSE run_list
<1>1. /\ need_resched' = [need_resched EXCEPT ![current] = FALSE]
      /\ time_slice' = IF requeue
                         THEN [time_slice EXCEPT ![current] = Refilled(current)]
                         ELSE time_slice
      /\ queue = <<>> => current' = idleproc /\ run_list' = queue
      /\ queue # <<>> => current' = Head(queue) /\ run_list' = Tail(queue)
  BY DEF schedule
<1>2. Refilled(current) \in 0 .. MAX_TIME_SLICE
  BY DEF Refilled, SchedTypeOK
<1>3. /\ need_resched' \in [Thread -> BOOLEAN]
      /\ time_slice' \in [Thread -> 0 .. MAX_TIME_SLICE]
  BY <1>1, <1>2 DEF SchedTypeOK
<1>4. /\ queue \in Seq(Proc) /\ IsInjective(queue)
      /\ \A p \in Proc : p \in Range(queue) <=> state[p] = "RUNNABLE"
  <2>1. CASE requeue
    <3>1. current \in Proc /\ current \notin Range(run_list)
      BY <2>1 DEF SchedTypeOK, RunQueueOK
    <3>2. /\ queue \in Seq(Proc) /\ IsInjective(queue)
          /\ Range(queue) = Range(run_list) \cup {current}
      BY <2>1, <3>1, AppendFacts DEF SchedTypeOK, RunQueueOK
    <3> HIDE DEF queue
    <3>3. QED
      BY <2>1, <3>1, <3>2 DEF RunQueueOK
  <2>2. CASE ~requeue
    BY <2>2 DEF SchedTypeOK, RunQueueOK
  <2>3. QED
    BY <2>1, <2>2
<1> HIDE DEF queue, requeue
<1>5. CASE queue = <<>>
  <2>1. Range(queue) = {}
    BY <1>5 DEF Range
  <2>2. QED
    BY <1>1, <1>3, <1>4, <1>5, <2>1 DEF SchedTypeOK, RunQueueOK
<1>6. CASE queue # <<>>
  <2>1. /\ Head(queue) \in Proc /\ Head(queue) \in Range(queue)
        /\ Tail(queue) \in Seq(Proc) /\ IsInjective(Tail(queue))
        /\ Range(queue) = Range(Tail(queue)) \cup {Head(queue)}
        /\ Head(queue) \notin Range(Tail(queue))
    BY <1>4, <1>6, TailFacts
  <2>2. current' = Head(queue) /\ run_list' = Tail(queue)
    BY <1>1, <1>6
  <2>3. SchedTypeOK'
    BY <1>3, <2>1, <2>2 DEF SchedTypeOK
  <2>4. RunQueueOK'
    BY <1>4, <2>1, <2>2 DEF RunQueueOK
  <2>5. QED
    BY <1>4, <2>1, <2>2, <2>3, <2>4
<1>7. QED
  BY <1>5, <1>6

\* A tick keeps slices and flags in their types and touches nothing else of the
\* run queue.
LEMMA TickFacts ==
    ASSUME SchedTypeOK, RunQueueOK, sched_class_proc_tick,
           UNCHANGED <<state, wait_state, run_list, current>>
    PROVE  SchedTypeOK' /\ RunQueueOK'
<1> USE SchedAssumption DEF Thread
<1>1. /\ time_slice' \in [Thread -> 0 .. MAX_TIME_SLICE]
      /\ need_resched' \in [Thread -> BOOLEAN]
  <2>1. CASE current = idleproc
    BY <2>1 DEF sched_class_proc_tick, SchedTypeOK
  <2>2. CASE current # idleproc
    <3> DEFINE left == IF time_slice[current] > 0 THEN time_slice[current] - 1 ELSE 0
    <3>1. /\ time_slice' = [time_slice EXCEPT ![current] = left]
          /\ need_resched' = [need_resched EXCEPT
                               ![current] = (left = 0) \/ need_resched[current]]
      BY <2>2 DEF sched_class_proc_tick, RR_proc_tick
    <3>2. left \in 0 .. MAX_TIME_SLICE
      BY DEF SchedTypeOK
    <3> HIDE DEF left
    <3>3. ((left = 0) \/ need_resched[current]) \in BOOLEAN
      BY DEF SchedTypeOK
    <3>4. QED
      BY <3>1, <3>2, <3>3 DEF SchedTypeOK
  <2>3. QED
    BY <2>1, <2>2
<1>2. QED
  BY <1>1 DEF SchedTypeOK, RunQueueOK
=============================================================================
