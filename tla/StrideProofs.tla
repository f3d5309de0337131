---------------------------- MODULE StrideProofs ----------------------------
(***************************************************************************)
(* The run queue of lab6 under each of its classes, for any number of      *)
(* processes: the ready processes are exactly those in the queue.          *)
(*                                                                         *)
(* Tree says that the pointers make trees of a set of nodes, with a        *)
(* function D that gives the nodes below each; merging takes the trees of  *)
(* two disjoint sets to one tree of their union.                           *)
(***************************************************************************)
EXTENDS Stride, WellFoundedInduction, FiniteSetTheorems, SequenceTheorems, TLAPS

\* Every set of natural numbers that is not empty has a least member.
LEMMA LeastNatural ==
    ASSUME NEW T, T \subseteq Nat, T # {}
    PROVE  \E n \in T : \A m \in T : n <= m
<1>1. PICK n \in T : \A m \in T : <<m, n>> \notin OpToRel(<, Nat)
  BY WFMin, NatLessThanWellFounded
<1>2. \A m \in T : ~(m < n)
  BY <1>1 DEF OpToRel
<1>3. QED
  BY <1>2

\* Induction, as a fact about sets: {n \in Nat : P(n)} is Nat if it has 0 and,
\* with every number, the next one.
LEMMA InductionOverSets ==
    ASSUME NEW T, 0 \in T, \A n \in Nat : n \in T => n + 1 \in T
    PROVE  Nat \subseteq T
<1>1. SUFFICES ASSUME Nat \ T # {} PROVE FALSE
  OBVIOUS
<1>2. PICK n \in Nat \ T : \A m \in Nat \ T : n <= m
  BY <1>1, LeastNatural
<1>3. n # 0 /\ n - 1 \in Nat /\ n - 1 \in T
  BY <1>2
<1>4. QED
  BY <1>2, <1>3

-----------------------------------------------------------------------------
(***************************************************************************)
(* Trees.                                                                   *)
(***************************************************************************)
\* The fields of a run queue.
RqFields == {"run_list", "proc_num", "lab6_run_pool", "left", "right", "up", "time_slice",
             "lab6_stride", "lab6_priority"}

\* The pointers of q.
HeapType(q) ==
    /\ DOMAIN q = RqFields
    /\ q.left \in [Proc -> Ptr] /\ q.right \in [Proc -> Ptr] /\ q.up \in [Proc -> Ptr]

\* Node p of the set S is right: its children are in S and have p for a parent, D[p] is p
\* and what is below either child, nothing twice; R holds of p and each child.
NodeOK(q, S, D, R, p) ==
    LET l == q.left[p]
        r == q.right[p]
    IN  /\ l \in S \cup {NULL} /\ r \in S \cup {NULL}
        /\ l # NULL => q.up[l] = p /\ <<p, l>> \in R
        /\ r # NULL => q.up[r] = p /\ <<p, r>> \in R
        /\ D[p] = {p} \cup (D[l] \cup D[r]) /\ D[p] \subseteq S
        /\ p \notin D[l] /\ p \notin D[r] /\ D[l] \cap D[r] = {}
        /\ \A s \in D[p] : D[s] \subseteq D[p]

\* The nodes S are in trees, with D[p] the nodes of the tree below p.
Tree(q, S, D, R) ==
    /\ S \subseteq Proc /\ D \in [Ptr -> SUBSET Proc] /\ D[NULL] = {}
    /\ \A p \in S : NodeOK(q, S, D, R, p)

\* A node is below itself.
LEMMA SelfBelow ==
    ASSUME NEW q, NEW S, NEW D, NEW R, Tree(q, S, D, R), NEW x \in S
    PROVE  x \in D[x]
<1>1. NodeOK(q, S, D, R, x)
  BY DEF Tree
<1>2. D[x] = {x} \cup (D[q.left[x]] \cup D[q.right[x]])
  BY <1>1 DEF NodeOK
<1>3. QED
  BY <1>2

\* The nodes below one node are a tree of their own.
LEMMA TreePart ==
    ASSUME NEW q, NEW S, NEW D, NEW R, Tree(q, S, D, R), NEW x \in S \cup {NULL}
    PROVE  /\ Tree(q, D[x], D, R) /\ D[x] \subseteq S /\ (x # NULL => x \in D[x])
<1> USE StrideAssumption DEF Ptr
<1>1. CASE x = NULL
  BY <1>1 DEF Tree
<1>2. CASE x \in S
  <2>1. NodeOK(q, S, D, R, x)
    BY <1>2 DEF Tree
  <2>2. D[x] \subseteq S /\ x \in D[x] /\ \A s \in D[x] : D[s] \subseteq D[x]
    BY <2>1 DEF NodeOK
  <2>3. ASSUME NEW p \in D[x] PROVE NodeOK(q, D[x], D, R, p)
    <3>1. PICK l, r : l = q.left[p] /\ r = q.right[p]
      OBVIOUS
    <3>2. /\ l \in S \cup {NULL} /\ r \in S \cup {NULL}
          /\ l # NULL => q.up[l] = p /\ <<p, l>> \in R
          /\ r # NULL => q.up[r] = p /\ <<p, r>> \in R
          /\ D[p] = {p} \cup (D[l] \cup D[r])
          /\ p \notin D[l] /\ p \notin D[r] /\ D[l] \cap D[r] = {}
          /\ \A s \in D[p] : D[s] \subseteq D[p]
      BY <2>2, <3>1 DEF Tree, NodeOK
    <3>3. D[p] \subseteq D[x]
      BY <2>2
    <3>4. l \in D[x] \cup {NULL}
      <4>1. l # NULL => l \in D[l]
        BY <3>2, SelfBelow
      <4>2. QED
        BY <3>2, <3>3, <4>1
    <3>5. r \in D[x] \cup {NULL}
      <4>1. r # NULL => r \in D[r]
        BY <3>2, SelfBelow
      <4>2. QED
        BY <3>2, <3>3, <4>1
    <3>6. QED
      BY <3>1, <3>2, <3>3, <3>4, <3>5 DEF NodeOK
  <2>4. QED
    BY <2>2, <2>3 DEF Tree
<1>3. QED
  BY <1>1, <1>2

\* The nodes S have the pointers in k that they have in q, but for the parents of O, which
\* are children of none of them.
SameNodes(q, k, S, O) ==
    /\ \A p \in S : k.left[p] = q.left[p] /\ k.right[p] = q.right[p]
    /\ \A p \in S \ O : k.up[p] = q.up[p]
    /\ \A p \in S : q.left[p] \notin O /\ q.right[p] \notin O

\* E has for the nodes S what D has.
SameBelow(D, E, S) ==
    E \in [Ptr -> SUBSET Proc] /\ E[NULL] = {} /\ \A p \in S : E[p] = D[p]

\* The nodes S are in the same trees if their pointers are the same, those to a root
\* excepted.
LEMMA TreeKept ==
    ASSUME NEW q, NEW S, NEW D, NEW R, Tree(q, S, D, R),
           NEW k, NEW O, SameNodes(q, k, S, O), NEW E, SameBelow(D, E, S)
    PROVE  Tree(k, S, E, R)
<1> USE StrideAssumption DEF Ptr
<1>1. ASSUME NEW p \in S PROVE NodeOK(k, S, E, R, p)
  <2>1. PICK l, r : l = q.left[p] /\ r = q.right[p]
    OBVIOUS
  <2>2. NodeOK(q, S, D, R, p)
    BY DEF Tree
  <2>3. /\ l \in S \cup {NULL} /\ r \in S \cup {NULL}
        /\ l # NULL => q.up[l] = p /\ <<p, l>> \in R
        /\ r # NULL => q.up[r] = p /\ <<p, r>> \in R
        /\ D[p] = {p} \cup (D[l] \cup D[r]) /\ D[p] \subseteq S
        /\ p \notin D[l] /\ p \notin D[r] /\ D[l] \cap D[r] = {}
        /\ \A s \in D[p] : D[s] \subseteq D[p]
    BY <2>1, <2>2 DEF NodeOK
  <2>4. E[l] = D[l] /\ E[r] = D[r] /\ E[p] = D[p] /\ \A s \in D[p] : E[s] = D[s]
    BY <2>3 DEF Tree, SameBelow
  <2>5. k.left[p] = l /\ k.right[p] = r /\ (l # NULL => k.up[l] = p) /\ (r # NULL => k.up[r] = p)
    BY <2>1, <2>3 DEF SameNodes
  <2>6. QED
    BY <2>3, <2>4, <2>5 DEF NodeOK
<1>2. QED
  BY <1>1 DEF Tree, SameBelow

\* The trees of two sets are the trees of their union.
LEMMA TreeUnion ==
    ASSUME NEW q, NEW D, NEW R, NEW A, NEW B, Tree(q, A, D, R), Tree(q, B, D, R)
    PROVE  Tree(q, A \cup B, D, R)
<1>1. ASSUME NEW p \in A PROVE NodeOK(q, A \cup B, D, R, p)
  <2>1. NodeOK(q, A, D, R, p)
    BY DEF Tree
  <2>2. QED
    BY <2>1 DEF NodeOK
<1>2. ASSUME NEW p \in B PROVE NodeOK(q, A \cup B, D, R, p)
  <2>1. NodeOK(q, B, D, R, p)
    BY DEF Tree
  <2>2. QED
    BY <2>1 DEF NodeOK
<1>3. QED
  BY <1>1, <1>2 DEF Tree

-----------------------------------------------------------------------------
(***************************************************************************)
(* skew_heap_merge.                                                         *)
(***************************************************************************)
\* k has the fields of q other than the pointers.
SameFields(q, k) ==
    /\ k.run_list = q.run_list /\ k.proc_num = q.proc_num /\ k.lab6_run_pool = q.lab6_run_pool
    /\ k.time_slice = q.time_slice /\ k.lab6_stride = q.lab6_stride
    /\ k.lab6_priority = q.lab6_priority

\* k has the pointers of q at the nodes outside of S.
SameOutside(q, k, S) ==
    \A p \in Proc \ S : k.left[p] = q.left[p] /\ k.right[p] = q.right[p] /\ k.up[p] = q.up[p]

\* In the heap k, the trees below a and b in q have become one below top, which is one of
\* the two and has the parent it had.
Merged(q, D, R, a, b, top, k) ==
    /\ HeapType(k) /\ SameFields(q, k) /\ SameOutside(q, k, D[a] \cup D[b])
    /\ top \in {a, b} /\ (top = NULL => a = NULL /\ b = NULL)
    /\ top # NULL => k.up[top] = q.up[top]
    /\ \E E : Tree(k, D[a] \cup D[b], E, R) /\ E[top] = D[a] \cup D[b]

\* It does not matter which of the two is the first.
LEMMA MergedSwap ==
    ASSUME NEW q, NEW D, NEW R, NEW a, NEW b, NEW top, NEW k, Merged(q, D, R, a, b, top, k)
    PROVE  Merged(q, D, R, b, a, top, k)
<1>1. D[a] \cup D[b] = D[b] \cup D[a] /\ {a, b} = {b, a}
  OBVIOUS
<1>2. QED
  BY <1>1 DEF Merged

\* The fields of what Adopt makes.
LEMMA AdoptFields ==
    ASSUME NEW q, NEW n \in Proc, NEW m, HeapType(m.q), HeapType(q), m.top \in Ptr,
           NEW r, r = Adopt(q, n, m)
    PROVE  /\ r = [top |-> r.top, q |-> r.q] /\ r.top = n /\ HeapType(r.q) /\ SameFields(m.q, r.q)
           /\ r.q.left[n] = m.top /\ r.q.right[n] = q.left[n]
           /\ \A p \in Proc \ {n} : r.q.left[p] = m.q.left[p] /\ r.q.right[p] = m.q.right[p]
           /\ m.top # NULL => r.q.up[m.top] = n
           /\ \A p \in Proc \ {m.top} : r.q.up[p] = m.q.up[p]
<1>1. PICK g, t : g = m.q /\ t = m.top
  OBVIOUS
<1>2. PICK u : u = IF t = NULL THEN g.up ELSE [g.up EXCEPT ![t] = n]
  OBVIOUS
<1>3. PICK k : k = [g EXCEPT !.left[n] = t, !.right[n] = q.left[n], !.up = u]
  OBVIOUS
<1>4. r = [top |-> n, q |-> k]
  BY <1>1, <1>2, <1>3 DEF Adopt
<1>5. /\ DOMAIN g = RqFields /\ g.left \in [Proc -> Ptr] /\ g.right \in [Proc -> Ptr]
      /\ g.up \in [Proc -> Ptr] /\ q.left[n] \in Ptr /\ t \in Ptr
  BY <1>1 DEF HeapType
<1>6. /\ u \in [Proc -> Ptr] /\ (t # NULL => u[t] = n) /\ \A p \in Proc \ {t} : u[p] = g.up[p]
  BY <1>2, <1>5 DEF Ptr
<1>7. /\ DOMAIN k = RqFields /\ k.left = [g.left EXCEPT ![n] = t] /\ k.up = u
      /\ k.right = [g.right EXCEPT ![n] = q.left[n]] /\ SameFields(g, k)
  BY <1>3, <1>5 DEF RqFields, SameFields
<1>8. /\ k.left \in [Proc -> Ptr] /\ k.right \in [Proc -> Ptr] /\ k.left[n] = t /\ k.right[n] = q.left[n]
      /\ \A p \in Proc \ {n} : k.left[p] = g.left[p] /\ k.right[p] = g.right[p]
  BY <1>5, <1>7
<1>9. HeapType(k)
  BY <1>6, <1>7, <1>8 DEF HeapType
<1>10. QED
  BY <1>1, <1>4, <1>6, <1>7, <1>8, <1>9

\* n adopts its right tree merged with that below c.
LEMMA AdoptGood ==
    ASSUME NEW q, NEW D, NEW R, HeapType(q), Tree(q, Proc, D, R), NEW n \in Proc, NEW c \in Ptr,
           D[n] \cap D[c] = {}, c # NULL => <<n, c>> \in R,
           NEW m, Merged(q, D, R, q.right[n], c, m.top, m.q), NEW r, r = Adopt(q, n, m)
    PROVE  Merged(q, D, R, n, c, r.top, r.q)
<1> USE StrideAssumption
<1>1. PICK l, w, t, g, k : l = q.left[n] /\ w = q.right[n] /\ t = m.top /\ g = m.q /\ k = r.q
  OBVIOUS
<1>2. PICK L, Q, S : L = D[l] /\ Q = D[w] \cup D[c] /\ S = D[n] \cup D[c]
  OBVIOUS
<1>3. /\ l \in Ptr /\ w \in Ptr /\ (l # NULL => q.up[l] = n /\ <<n, l>> \in R)
      /\ (w # NULL => <<n, w>> \in R)
      /\ D[n] = {n} \cup (L \cup D[w]) /\ n \notin L /\ n \notin D[w] /\ L \cap D[w] = {}
  <2>1. NodeOK(q, Proc, D, R, n)
    BY DEF Tree
  <2>2. QED
    BY <1>1, <1>2, <2>1 DEF NodeOK, Ptr
<1>4. D \in [Ptr -> SUBSET Proc] /\ D[NULL] = {}
  BY DEF Tree
<1>5. L \subseteq Proc /\ Q \subseteq Proc /\ S = {n} \cup (L \cup Q) /\ L \cap Q = {} /\ n \notin L \cup Q
  BY <1>2, <1>3, <1>4
<1>6. Tree(q, L, D, R) /\ (l # NULL => l \in L)
  BY <1>2, <1>3, TreePart DEF Ptr
<1>7. /\ HeapType(g) /\ SameFields(q, g) /\ SameOutside(q, g, Q)
      /\ t \in {w, c} /\ (t = NULL => w = NULL /\ c = NULL) /\ (t # NULL => g.up[t] = q.up[t])
      /\ \E E : Tree(g, Q, E, R) /\ E[t] = Q
  BY <1>1, <1>2 DEF Merged
<1>8. PICK E : Tree(g, Q, E, R) /\ E[t] = Q
  BY <1>7
<1>9. E \in [Ptr -> SUBSET Proc] /\ E[NULL] = {}
  BY <1>8 DEF Tree
<1>10. t \in Ptr /\ (t # NULL => t \in Q /\ <<n, t>> \in R) /\ (t = NULL => Q = {})
  <2>1. w # NULL => w \in D[w]
    BY <1>3, SelfBelow DEF Ptr
  <2>2. c # NULL => c \in D[c]
    BY SelfBelow DEF Ptr
  <2>3. QED
    BY <1>2, <1>3, <1>4, <1>7, <2>1, <2>2
<1>11. /\ r.top = n /\ HeapType(k) /\ SameFields(g, k) /\ k.left[n] = t /\ k.right[n] = l
       /\ \A p \in Proc \ {n} : k.left[p] = g.left[p] /\ k.right[p] = g.right[p]
       /\ t # NULL => k.up[t] = n
       /\ \A p \in Proc \ {t} : k.up[p] = g.up[p]
  <2>1. HeapType(m.q) /\ m.top \in Ptr
    BY <1>1, <1>7, <1>10
  <2>2. QED
    BY <1>1, <2>1, AdoptFields
<1>12. PICK F : F = [x \in Ptr |-> IF x = n THEN S ELSE IF x \in Q THEN E[x] ELSE D[x]]
  OBVIOUS
<1>13. /\ F \in [Ptr -> SUBSET Proc] /\ F[NULL] = {} /\ F[n] = S
       /\ \A p \in Q : F[p] = E[p]
       /\ \A p \in L : F[p] = D[p]
  <2>1. n \in Ptr /\ n # NULL /\ NULL \in Ptr /\ NULL \notin Q /\ Q \subseteq Ptr /\ L \subseteq Ptr /\ S \subseteq Proc
    BY <1>5 DEF Ptr
  <2>2. QED
    BY <1>4, <1>5, <1>9, <1>12, <2>1
<1>14. Tree(k, Q, F, R)
  <2>1. \A p \in Q : k.left[p] = g.left[p] /\ k.right[p] = g.right[p]
    BY <1>5, <1>11
  <2>2. \A p \in Q \ {t} : k.up[p] = g.up[p]
    BY <1>5, <1>11
  <2>3. ASSUME NEW p \in Q PROVE g.left[p] \notin {t} /\ g.right[p] \notin {t}
    <3>1. NodeOK(g, Q, E, R, p)
      BY <1>8 DEF Tree
    <3>2. p \notin E[g.left[p]] /\ p \notin E[g.right[p]]
      BY <3>1 DEF NodeOK
    <3>3. QED
      BY <1>8, <3>2
  <2>4. QED
    <3>1. SameNodes(g, k, Q, {t}) /\ SameBelow(E, F, Q)
      BY <1>13, <2>1, <2>2, <2>3 DEF SameNodes, SameBelow
    <3>2. QED
      BY <1>8, <3>1, TreeKept
<1>15. Tree(k, L, F, R)
  <2>1. \A p \in L : p \in Proc \ Q /\ p # n /\ p # t
    BY <1>5, <1>10
  <2>2. \A p \in L : k.left[p] = q.left[p] /\ k.right[p] = q.right[p]
    BY <1>7, <1>11, <2>1 DEF SameOutside
  <2>3. \A p \in L \ {} : k.up[p] = q.up[p]
    BY <1>7, <1>11, <2>1 DEF SameOutside
  <2>4. QED
    <3>1. SameNodes(q, k, L, {}) /\ SameBelow(D, F, L)
      BY <1>13, <2>2, <2>3 DEF SameNodes, SameBelow
    <3>2. QED
      BY <1>6, <3>1, TreeKept
<1>16. Tree(k, L \cup Q, F, R)
  BY <1>14, <1>15, TreeUnion
<1>17. NodeOK(k, S, F, R, n)
  <2>1. t \in S \cup {NULL} /\ l \in S \cup {NULL}
    BY <1>5, <1>6, <1>10
  <2>2. l # NULL => k.up[l] = n /\ <<n, l>> \in R
    <3>1. ASSUME l # NULL PROVE k.up[l] = q.up[l]
      <4>1. l \in Proc \ Q /\ l # t
        BY <1>5, <1>6, <1>10, <3>1
      <4>2. QED
        BY <1>7, <1>11, <4>1 DEF SameOutside
    <3>2. QED
      BY <1>3, <3>1
  <2>3. F[t] = Q /\ F[l] = L
    <3>1. F[t] = Q
      BY <1>8, <1>10, <1>13
    <3>2. F[l] = L
      BY <1>2, <1>4, <1>6, <1>13
    <3>3. QED
      BY <3>1, <3>2
  <2>4. \A s \in S : F[s] \subseteq S
    <3>1. ASSUME NEW s \in L \cup Q PROVE F[s] \subseteq S
      <4>1. NodeOK(k, L \cup Q, F, R, s)
        BY <1>16 DEF Tree
      <4>2. QED
        BY <1>5, <4>1 DEF NodeOK
    <3>2. QED
      BY <1>5, <1>13, <3>1
  <2>5. QED
    BY <1>5, <1>10, <1>11, <1>13, <2>1, <2>2, <2>3, <2>4 DEF NodeOK
<1>18. Tree(k, S, F, R)
  <2>1. ASSUME NEW p \in L \cup Q PROVE NodeOK(k, S, F, R, p)
    <3>1. NodeOK(k, L \cup Q, F, R, p)
      BY <1>16 DEF Tree
    <3>2. QED
      BY <1>5, <3>1 DEF NodeOK
  <2>2. QED
    BY <1>5, <1>13, <1>17, <2>1 DEF Tree
<1>19. SameFields(q, k)
  BY <1>7, <1>11 DEF SameFields
<1>20. SameOutside(q, k, S)
  <2>1. ASSUME NEW p \in Proc \ S
        PROVE  k.left[p] = q.left[p] /\ k.right[p] = q.right[p] /\ k.up[p] = q.up[p]
    <3>1. p # n /\ p \in Proc \ Q /\ p # t
      BY <1>5, <1>10
    <3>2. QED
      BY <1>7, <1>11, <3>1 DEF SameOutside
  <2>2. QED
    BY <2>1 DEF SameOutside
<1>21. k.up[n] = q.up[n]
  <2>1. n \in Proc \ Q /\ n # t
    BY <1>5, <1>10
  <2>2. QED
    BY <1>7, <1>11, <2>1 DEF SameOutside
<1>22. n # NULL
  OBVIOUS
<1>23. HeapType(k) /\ SameFields(q, k) /\ SameOutside(q, k, D[n] \cup D[c])
  BY <1>2, <1>11, <1>19, <1>20
<1>24. \E e : Tree(k, D[n] \cup D[c], e, R) /\ e[n] = D[n] \cup D[c]
  BY <1>2, <1>13, <1>18
<1>25. QED
  BY <1>1, <1>11, <1>21, <1>22, <1>23, <1>24 DEF Merged

\* What skew_heap_merge makes of a and b, given the table f for what is below them.
MergeEntry(q, f, a, b) ==
    IF a = NULL THEN [top |-> b, q |-> q]
    ELSE IF b = NULL THEN [top |-> a, q |-> q]
    ELSE IF proc_stride_comp_f(q, a, b) = -1
           THEN Adopt(q, a, f[<<q.right[a], b>>])
           ELSE Adopt(q, b, f[<<a, q.right[b]>>])

MergeTable(q, f) == [ab \in Ptr \X Ptr |-> MergeEntry(q, f, ab[1], ab[2])]

\* rk decreases on the way to the right.
Ranks(q, rk) ==
    rk \in [Ptr -> 0 .. Cardinality(Proc)] /\ \A p \in Proc : rk[q.right[p]] < rk[p]

\* The number of nodes below is such a rank.
LEMMA RanksExist ==
    ASSUME NEW q, NEW D, NEW R, HeapType(q), Tree(q, Proc, D, R)
    PROVE  \E rk : Ranks(q, rk)
<1> USE StrideAssumption
<1>1. PICK rk : rk = [x \in Ptr |-> Cardinality(D[x])]
  OBVIOUS
<1>2. ASSUME NEW x \in Ptr
      PROVE  IsFiniteSet(D[x]) /\ Cardinality(D[x]) \in 0 .. Cardinality(Proc)
  <2>1. D[x] \subseteq Proc
    BY DEF Tree
  <2>2. QED
    BY <2>1, FS_Subset, FS_CardinalityType
<1>3. ASSUME NEW p \in Proc PROVE rk[q.right[p]] < rk[p]
  <2>1. PICK w : w = q.right[p]
    OBVIOUS
  <2>2. w \in Ptr /\ p \in Ptr
    BY <2>1 DEF HeapType, Ptr
  <2>3. D[w] \subseteq D[p] /\ p \in D[p] /\ p \notin D[w]
    <3>1. NodeOK(q, Proc, D, R, p)
      BY DEF Tree
    <3>2. D[p] = {p} \cup (D[q.left[p]] \cup D[w]) /\ p \notin D[w]
      BY <2>1, <3>1 DEF NodeOK
    <3>3. QED
      BY <3>2
  <2>4. D[w] # D[p]
    BY <2>3
  <2>5. Cardinality(D[w]) < Cardinality(D[p])
    <3>1. Cardinality(D[w]) <= Cardinality(D[p])
          /\ (Cardinality(D[w]) = Cardinality(D[p]) => D[w] = D[p])
      BY <1>2, <2>2, <2>3, FS_Subset
    <3>2. Cardinality(D[w]) \in Nat /\ Cardinality(D[p]) \in Nat
      BY <1>2, <2>2
    <3>3. QED
      BY <2>4, <3>1, <3>2
  <2>6. QED
    BY <1>1, <2>1, <2>2, <2>5
<1>4. rk \in [Ptr -> 0 .. Cardinality(Proc)]
  BY <1>1, <1>2
<1>5. QED
  BY <1>3, <1>4 DEF Ranks

\* The table has what it says at the pairs of rank up to n.
UpTo(q, rk, f, n) ==
    \A a, b \in Ptr : rk[a] + rk[b] <= n => f[<<a, b>>] = MergeEntry(q, f, a, b)

\* A table that is right up to some rank gives one that is right for the next.
LEMMA MergeTableStep ==
    ASSUME NEW q, HeapType(q), NEW rk, Ranks(q, rk), NEW f, NEW n \in Int, UpTo(q, rk, f, n),
           NEW g, g = MergeTable(q, f)
    PROVE  UpTo(q, rk, g, n + 1)
<1>1. ASSUME NEW a \in Ptr, NEW b \in Ptr PROVE g[<<a, b>>] = MergeEntry(q, f, a, b)
  BY DEF MergeTable, Ptr
<1>2. ASSUME NEW a \in Ptr, NEW b \in Ptr, rk[a] + rk[b] <= n PROVE g[<<a, b>>] = f[<<a, b>>]
  BY <1>1, <1>2 DEF UpTo
<1>3. ASSUME NEW a \in Ptr, NEW b \in Ptr, rk[a] + rk[b] <= n + 1
      PROVE  MergeEntry(q, g, a, b) = MergeEntry(q, f, a, b)
  <2>1. CASE a = NULL \/ b = NULL
    BY <2>1 DEF MergeEntry
  <2>2. CASE a # NULL /\ b # NULL
    <3>1. a \in Proc /\ b \in Proc
      BY <2>2 DEF Ptr
    <3>2. PICK v, w : v = q.right[a] /\ w = q.right[b]
      OBVIOUS
    <3>3. v \in Ptr /\ w \in Ptr /\ rk[v] < rk[a] /\ rk[w] < rk[b]
          /\ rk[a] \in Nat /\ rk[b] \in Nat /\ rk[v] \in Nat /\ rk[w] \in Nat
      BY <3>1, <3>2 DEF Ranks, HeapType, Ptr
    <3>4. rk[v] + rk[b] <= n /\ rk[a] + rk[w] <= n
      BY <1>3, <3>3
    <3>5. g[<<v, b>>] = f[<<v, b>>] /\ g[<<a, w>>] = f[<<a, w>>]
      BY <1>2, <3>3, <3>4
    <3>6. QED
      BY <3>2, <3>5 DEF MergeEntry
  <2>3. QED
    BY <2>1, <2>2
<1>4. QED
  BY <1>1, <1>3 DEF UpTo

\* skew_heap_merge is the entry of a table that agrees with itself.
LEMMA MergeIsTable ==
    ASSUME NEW q, NEW D, NEW R, HeapType(q), Tree(q, Proc, D, R)
    PROVE  \E f : /\ \A a, b \in Ptr : f[<<a, b>>] = MergeEntry(q, f, a, b)
                  /\ \A x, y : skew_heap_merge(q, x, y) = f[<<x, y>>]
<1> USE StrideAssumption
<1> DEFINE merge == CHOOSE f : f = [ab \in Ptr \X Ptr |->
                                LET a == ab[1]
                                    b == ab[2]
                                IN  IF a = NULL THEN [top |-> b, q |-> q]
                                    ELSE IF b = NULL THEN [top |-> a, q |-> q]
                                    ELSE IF proc_stride_comp_f(q, a, b) = -1
                                           THEN Adopt(q, a, f[<<q.right[a], b>>])
                                           ELSE Adopt(q, b, f[<<a, q.right[b]>>])]
<1>1. \A x, y : skew_heap_merge(q, x, y) = merge[<<x, y>>]
  BY DEF skew_heap_merge
<1>2. merge = CHOOSE f : f = MergeTable(q, f)
  BY DEF MergeTable, MergeEntry
<1>3. PICK rk : Ranks(q, rk)
  BY RanksExist
<1>4. PICK T : T = {n \in Nat : \E f : UpTo(q, rk, f, n)}
  OBVIOUS
<1>5. 0 \in T
  <2>1. UpTo(q, rk, {}, -1)
    BY <1>3 DEF UpTo, Ranks
  <2>2. UpTo(q, rk, MergeTable(q, {}), -1 + 1)
    BY <1>3, <2>1, MergeTableStep
  <2>3. QED
    BY <1>4, <2>2
<1>6. \A n \in Nat : n \in T => n + 1 \in T
  <2>1. ASSUME NEW n \in Nat, NEW f, UpTo(q, rk, f, n) PROVE UpTo(q, rk, MergeTable(q, f), n + 1)
    BY <1>3, <2>1, MergeTableStep
  <2>2. QED
    BY <1>4, <2>1
<1>7. Nat \subseteq T
  BY <1>5, <1>6, InductionOverSets
<1>8. PICK N : N = Cardinality(Proc)
  OBVIOUS
<1>9. N \in Nat /\ N + N \in Nat
  BY <1>8, FS_CardinalityType
<1>10. N + N \in T
  BY <1>7, <1>9
<1>11. PICK h : UpTo(q, rk, h, N + N)
  BY <1>4, <1>10
<1>12. ASSUME NEW a \in Ptr, NEW b \in Ptr PROVE rk[a] + rk[b] <= N + N /\ rk[a] + rk[b] <= N + N + 1
  <2>1. rk[a] \in 0 .. N /\ rk[b] \in 0 .. N
    BY <1>3, <1>8 DEF Ranks
  <2>2. QED
    BY <1>9, <2>1
<1>13. PICK g : g = MergeTable(q, h)
  OBVIOUS
<1>14. UpTo(q, rk, g, N + N + 1)
  BY <1>3, <1>9, <1>11, <1>13, MergeTableStep
<1>15. ASSUME NEW a \in Ptr, NEW b \in Ptr PROVE g[<<a, b>>] = MergeEntry(q, g, a, b)
  BY <1>12, <1>14 DEF UpTo
<1>16. g = MergeTable(q, g)
  <2>1. \A a, b \in Ptr : MergeEntry(q, h, a, b) = MergeEntry(q, g, a, b)
    <3>1. ASSUME NEW a \in Ptr, NEW b \in Ptr PROVE g[<<a, b>>] = MergeEntry(q, h, a, b)
      BY <1>13 DEF MergeTable, Ptr
    <3>2. QED
      BY <1>15, <3>1 DEF Ptr
  <2>2. QED
    BY <1>13, <2>1 DEF MergeTable
<1>17. merge = MergeTable(q, merge)
  <2>1. \E f : f = MergeTable(q, f)
    BY <1>16
  <2> HIDE DEF merge
  <2>2. QED
    BY <1>2, <2>1
<1>18. PICK f : f = merge
  OBVIOUS
<1>19. f = MergeTable(q, f) /\ \A x, y : skew_heap_merge(q, x, y) = f[<<x, y>>]
  <2> HIDE DEF merge
  <2>1. QED
    BY <1>1, <1>17, <1>18
<1>20. ASSUME NEW a \in Ptr, NEW b \in Ptr PROVE f[<<a, b>>] = MergeEntry(q, f, a, b)
  <2>1. MergeTable(q, f)[<<a, b>>] = MergeEntry(q, f, a, b)
    BY DEF MergeTable, Ptr
  <2>2. QED
    BY <1>19, <2>1
<1>21. QED
  BY <1>19, <1>20

\* Whatever is compared of A and B, R holds of the two that way round.
Decides(q, A, B, R) ==
    \A x \in A, y \in B : IF proc_stride_comp_f(q, x, y) = -1 THEN <<x, y>> \in R ELSE <<y, x>> \in R

\* The entry of the table f for a and b merges them.
MergesAt(q, D, R, f, a, b) == Merged(q, D, R, a, b, f[<<a, b>>].top, f[<<a, b>>].q)

\* With nothing there is nothing to merge.
LEMMA MergeNothing ==
    ASSUME NEW q, NEW D, NEW R, HeapType(q), Tree(q, Proc, D, R), NEW a \in Ptr
    PROVE  Merged(q, D, R, a, NULL, a, q)
<1>1. Tree(q, D[a], D, R) /\ D[NULL] = {}
  BY TreePart DEF Ptr, Tree
<1>2. D[a] \cup D[NULL] = D[a]
  BY <1>1
<1>3. SameFields(q, q) /\ SameOutside(q, q, D[a] \cup D[NULL])
  BY DEF SameFields, SameOutside
<1>4. QED
  BY <1>1, <1>2, <1>3 DEF Merged

\* One call of skew_heap_merge, when the calls it makes are right.
LEMMA MergeEntryGood ==
    ASSUME NEW q, NEW D, NEW R, HeapType(q), Tree(q, Proc, D, R), NEW a \in Ptr, NEW b \in Ptr,
           D[a] \cap D[b] = {}, Decides(q, D[a], D[b], R), NEW f,
           a # NULL /\ b # NULL => /\ MergesAt(q, D, R, f, q.right[a], b)
                                   /\ MergesAt(q, D, R, f, a, q.right[b]),
           NEW e, e = MergeEntry(q, f, a, b)
    PROVE  Merged(q, D, R, a, b, e.top, e.q)
<1>1. CASE a = NULL
  <2>1. e.top = b /\ e.q = q
    BY <1>1 DEF MergeEntry
  <2>2. Merged(q, D, R, b, a, b, q)
    BY <1>1, MergeNothing
  <2>3. QED
    BY <2>1, <2>2, MergedSwap
<1>2. CASE a # NULL /\ b = NULL
  <2>1. e.top = a /\ e.q = q
    BY <1>2 DEF MergeEntry
  <2>2. QED
    BY <1>2, <2>1, MergeNothing
<1>3. CASE a # NULL /\ b # NULL
  <2>1. a \in Proc /\ b \in Proc
    BY <1>3 DEF Ptr
  <2>2. a \in D[a] /\ b \in D[b]
    BY <2>1, SelfBelow
  <2>3. CASE proc_stride_comp_f(q, a, b) = -1
    <3>1. PICK m : m = f[<<q.right[a], b>>]
      OBVIOUS
    <3>2. e = Adopt(q, a, m)
      BY <1>3, <2>3, <3>1 DEF MergeEntry
    <3>3. Merged(q, D, R, q.right[a], b, m.top, m.q)
      BY <1>3, <3>1 DEF MergesAt
    <3>4. <<a, b>> \in R
      BY <2>2, <2>3 DEF Decides
    <3>5. QED
      BY <2>1, <3>2, <3>3, <3>4, AdoptGood
  <2>4. CASE proc_stride_comp_f(q, a, b) # -1
    <3>1. PICK m : m = f[<<a, q.right[b]>>]
      OBVIOUS
    <3>2. e = Adopt(q, b, m)
      BY <1>3, <2>4, <3>1 DEF MergeEntry
    <3>3. Merged(q, D, R, q.right[b], a, m.top, m.q)
      <4>1. Merged(q, D, R, a, q.right[b], m.top, m.q)
        BY <1>3, <3>1 DEF MergesAt
      <4>2. QED
        BY <4>1, MergedSwap
    <3>4. <<b, a>> \in R
      BY <2>2, <2>4 DEF Decides
    <3>5. D[b] \cap D[a] = {}
      OBVIOUS
    <3>6. Merged(q, D, R, b, a, e.top, e.q)
      BY <2>1, <3>2, <3>3, <3>4, <3>5, AdoptGood
    <3>7. QED
      BY <3>6, MergedSwap
  <2>5. QED
    BY <2>3, <2>4
<1>4. QED
  BY <1>1, <1>2, <1>3

\* skew_heap_merge makes one tree of two: nobody is lost, nobody is in it twice, and where
\* it compares, the node that is to be above the other is.
LEMMA MergeGood ==
    ASSUME NEW q, NEW D, NEW R, HeapType(q), Tree(q, Proc, D, R), NEW x \in Ptr, NEW y \in Ptr,
           D[x] \cap D[y] = {}, Decides(q, D[x], D[y], R),
           NEW r, r = skew_heap_merge(q, x, y)
    PROVE  Merged(q, D, R, x, y, r.top, r.q)
<1> USE StrideAssumption
<1>1. PICK f : /\ \A a, b \in Ptr : f[<<a, b>>] = MergeEntry(q, f, a, b)
               /\ \A u, v : skew_heap_merge(q, u, v) = f[<<u, v>>]
  BY MergeIsTable
<1>2. PICK rk : Ranks(q, rk)
  BY RanksExist
<1>3. \A a \in Ptr : rk[a] \in Nat
  BY <1>2, FS_CardinalityType DEF Ranks
<1> DEFINE Mergeable(a, b) == D[a] \cap D[b] = {} /\ Decides(q, D[a], D[b], R)
<1>4. PICK T : T = {n \in Nat : \A a, b \in Ptr :
                      rk[a] + rk[b] <= n /\ Mergeable(a, b) => MergesAt(q, D, R, f, a, b)}
  OBVIOUS
<1>5. ASSUME NEW a \in Ptr, NEW b \in Ptr, Mergeable(a, b),
             \A v, w \in Ptr : rk[v] + rk[w] < rk[a] + rk[b] /\ Mergeable(v, w)
                                 => MergesAt(q, D, R, f, v, w)
      PROVE  MergesAt(q, D, R, f, a, b)
  <2>1. ASSUME a # NULL, b # NULL
        PROVE  MergesAt(q, D, R, f, q.right[a], b) /\ MergesAt(q, D, R, f, a, q.right[b])
    <3>1. a \in Proc /\ b \in Proc
      BY <2>1 DEF Ptr
    <3>2. PICK v, w : v = q.right[a] /\ w = q.right[b]
      OBVIOUS
    <3>3. v \in Ptr /\ w \in Ptr /\ rk[v] < rk[a] /\ rk[w] < rk[b]
      BY <1>2, <3>1, <3>2 DEF Ranks, HeapType
    <3>4. rk[v] + rk[b] < rk[a] + rk[b] /\ rk[a] + rk[w] < rk[a] + rk[b]
      BY <1>3, <3>3
    <3>5. D[v] \subseteq D[a] /\ D[w] \subseteq D[b]
      <4>1. NodeOK(q, Proc, D, R, a) /\ NodeOK(q, Proc, D, R, b)
        BY <3>1 DEF Tree
      <4>2. D[a] = {a} \cup (D[q.left[a]] \cup D[v]) /\ D[b] = {b} \cup (D[q.left[b]] \cup D[w])
        BY <3>2, <4>1 DEF NodeOK
      <4>3. QED
        BY <4>2
    <3>6. Mergeable(v, b) /\ Mergeable(a, w)
      BY <1>5, <3>5 DEF Decides
    <3>7. MergesAt(q, D, R, f, v, b) /\ MergesAt(q, D, R, f, a, w)
      BY <1>5, <3>3, <3>4, <3>6
    <3>8. QED
      BY <3>2, <3>7
  <2>2. PICK e : e = f[<<a, b>>]
    OBVIOUS
  <2>3. e = MergeEntry(q, f, a, b)
    BY <1>1, <2>2
  <2>4. Merged(q, D, R, a, b, e.top, e.q)
    BY <1>5, <2>1, <2>3, MergeEntryGood
  <2>5. QED
    BY <2>2, <2>4 DEF MergesAt
<1> HIDE DEF Mergeable
<1>6. 0 \in T
  <2>1. ASSUME NEW a \in Ptr, NEW b \in Ptr, rk[a] + rk[b] <= 0, Mergeable(a, b)
        PROVE  MergesAt(q, D, R, f, a, b)
    <3>1. \A v, w \in Ptr : ~(rk[v] + rk[w] < rk[a] + rk[b])
      BY <1>3, <2>1
    <3>2. QED
      BY <1>5, <2>1, <3>1
  <2>2. QED
    BY <1>4, <2>1
<1>7. ASSUME NEW n \in Nat, n \in T PROVE n + 1 \in T
  <2>1. ASSUME NEW a \in Ptr, NEW b \in Ptr, rk[a] + rk[b] <= n + 1, Mergeable(a, b)
        PROVE  MergesAt(q, D, R, f, a, b)
    <3>1. ASSUME NEW v \in Ptr, NEW w \in Ptr, rk[v] + rk[w] < rk[a] + rk[b], Mergeable(v, w)
          PROVE  MergesAt(q, D, R, f, v, w)
      <4>1. rk[v] + rk[w] <= n
        BY <1>3, <2>1, <3>1
      <4>2. QED
        BY <1>4, <1>7, <3>1, <4>1
    <3>2. QED
      BY <1>5, <2>1, <3>1
  <2>2. QED
    BY <1>4, <2>1
<1>8. Nat \subseteq T
  BY <1>6, <1>7, InductionOverSets
<1>9. rk[x] + rk[y] \in T /\ rk[x] + rk[y] <= rk[x] + rk[y]
  BY <1>3, <1>8
<1>10. Mergeable(x, y)
  BY DEF Mergeable
<1>11. MergesAt(q, D, R, f, x, y)
  BY <1>4, <1>9, <1>10
<1>12. r = f[<<x, y>>]
  BY <1>1
<1>13. QED
  BY <1>11, <1>12 DEF MergesAt

-----------------------------------------------------------------------------
(***************************************************************************)
(* The heap as a queue: insertion, and removal of the root.                 *)
(***************************************************************************)
\* The heap of q has the nodes S, the rest of Proc is in no tree.
PoolOK(q, S, D, R) ==
    /\ HeapType(q) /\ q.lab6_run_pool \in Ptr
    /\ Tree(q, Proc, D, R) /\ S \subseteq Proc /\ D[q.lab6_run_pool] = S
    /\ q.lab6_run_pool # NULL => q.up[q.lab6_run_pool] = NULL
    /\ \A p \in Proc \ S : q.left[p] = NULL /\ q.right[p] = NULL

PoolGood(q, S, R) == \E D : PoolOK(q, S, D, R)

\* k has the pointers of q.
SamePointers(q, k) == k.left = q.left /\ k.right = q.right /\ k.up = q.up

\* Trees are made of pointers.
LEMMA TreeSame ==
    ASSUME NEW q, NEW S, NEW D, NEW R, Tree(q, S, D, R), NEW k, SamePointers(q, k)
    PROVE  Tree(k, S, D, R)
<1>1. ASSUME NEW p \in S PROVE NodeOK(k, S, D, R, p)
  <2>1. NodeOK(q, S, D, R, p)
    BY DEF Tree
  <2>2. QED
    BY <2>1 DEF NodeOK, SamePointers
<1>2. QED
  BY <1>1 DEF Tree

\* In k, S is one tree below top, and the others point to nobody.
Rooted(k, S, E, R, top) ==
    /\ HeapType(k) /\ Tree(k, S, E, R) /\ k.lab6_run_pool = top /\ E[top] = S
    /\ top # NULL => top \in S /\ k.up[top] = NULL
    /\ \A p \in Proc \ S : k.left[p] = NULL /\ k.right[p] = NULL

\* A tree of S, with nothing to be said of the rest, is a heap.
LEMMA PoolMade ==
    ASSUME NEW k, NEW S, NEW E, NEW R, NEW top \in Ptr, Rooted(k, S, E, R, top)
    PROVE  PoolGood(k, S, R)
<1> USE StrideAssumption
<1>1. PICK F : F = [x \in Ptr |-> IF x \in S THEN E[x] ELSE IF x = NULL THEN {} ELSE {x}]
  OBVIOUS
<1>2. S \subseteq Proc /\ E \in [Ptr -> SUBSET Proc] /\ E[NULL] = {} /\ NULL \notin S
  BY DEF Rooted, Tree
<1>3. SameBelow(E, F, S) /\ \A p \in Proc \ S : F[p] = {p}
  BY <1>1, <1>2 DEF SameBelow, Ptr
<1>4. Tree(k, S, F, R)
  <2>1. SameNodes(k, k, S, {})
    BY DEF SameNodes
  <2>2. QED
    BY <1>3, <2>1, TreeKept DEF Rooted
<1>5. Tree(k, Proc \ S, F, R)
  <2>1. ASSUME NEW p \in Proc \ S PROVE NodeOK(k, Proc \ S, F, R, p)
    BY <1>3 DEF Rooted, NodeOK, SameBelow
  <2>2. QED
    BY <1>3, <2>1 DEF Tree, SameBelow
<1>6. Tree(k, Proc, F, R)
  <2>1. S \cup (Proc \ S) = Proc
    BY <1>2
  <2>2. QED
    BY <1>4, <1>5, <2>1, TreeUnion
<1>7. F[top] = S
  <2>1. CASE top = NULL
    BY <1>2, <1>3, <2>1 DEF Rooted, SameBelow
  <2>2. CASE top # NULL
    BY <1>3, <2>2 DEF Rooted, SameBelow
  <2>3. QED
    BY <2>1, <2>2
<1>8. PoolOK(k, S, F, R)
  BY <1>2, <1>6, <1>7 DEF Rooted, PoolOK
<1>9. QED
  BY <1>8 DEF PoolGood

\* Comparisons depend on strides only.
LEMMA DecidesSame ==
    ASSUME NEW q, NEW A, NEW B, NEW R, Decides(q, A, B, R), NEW k, k.lab6_stride = q.lab6_stride
    PROVE  Decides(k, A, B, R)
BY DEF Decides, proc_stride_comp_f

\* What is in no tree is below nobody.
LEMMA Unlinked ==
    ASSUME NEW q, NEW S, NEW D, NEW R, PoolOK(q, S, D, R), NEW p \in Proc \ S
    PROVE  D[p] = {p} /\ \A x \in Proc : q.left[x] # p /\ q.right[x] # p
<1> USE StrideAssumption
<1>1. Tree(q, Proc, D, R) /\ D[NULL] = {} /\ \A x \in Proc : NodeOK(q, Proc, D, R, x)
  BY DEF PoolOK, Tree
<1>2. D[p] = {p}
  <2>1. q.left[p] = NULL /\ q.right[p] = NULL
    BY DEF PoolOK
  <2>2. NodeOK(q, Proc, D, R, p)
    BY <1>1
  <2>3. D[p] = {p} \cup (D[q.left[p]] \cup D[q.right[p]])
    BY <2>2 DEF NodeOK
  <2>4. QED
    BY <1>1, <2>1, <2>3
<1>3. ASSUME NEW x \in Proc, q.left[x] = p \/ q.right[x] = p PROVE FALSE
  <2>1. x \in S
    BY <1>3 DEF PoolOK
  <2>2. PICK t : t = q.lab6_run_pool /\ D[t] = S
    BY DEF PoolOK
  <2>3. Tree(q, S, D, R)
    <3>1. t \in Proc \cup {NULL}
      BY <2>2 DEF PoolOK, Ptr
    <3>2. QED
      BY <1>1, <2>2, <3>1, TreePart
  <2>4. NodeOK(q, S, D, R, x)
    BY <2>1, <2>3 DEF Tree
  <2>5. p \in S \cup {NULL}
    BY <1>3, <2>4 DEF NodeOK
  <2>6. QED
    BY <2>5
<1>4. QED
  BY <1>2, <1>3

\* skew_heap_insert adds a process to the heap.
LEMMA InsertGood ==
    ASSUME NEW q, NEW S, NEW D, NEW R, PoolOK(q, S, D, R), NEW p \in Proc \ S,
           Decides(q, S, {p}, R), NEW t, t = q.lab6_run_pool,
           NEW r, r = skew_heap_insert(q, t, p)
    PROVE  /\ HeapType(r.q) /\ SameFields(q, r.q) /\ r.top \in Ptr
           /\ \A k : HeapType(k) /\ SamePointers(r.q, k) /\ k.lab6_run_pool = r.top
                     => PoolGood(k, S \cup {p}, R)
<1> USE StrideAssumption
<1>1. PICK g : g = [q EXCEPT !.left[p] = NULL, !.right[p] = NULL, !.up[p] = NULL]
  OBVIOUS
<1>2. r = skew_heap_merge(g, t, p)
  BY <1>1 DEF skew_heap_insert
<1>3. /\ HeapType(q) /\ t \in Ptr /\ Tree(q, Proc, D, R) /\ S \subseteq Proc /\ D[t] = S
      /\ t # NULL => q.up[t] = NULL
      /\ \A x \in Proc \ S : q.left[x] = NULL /\ q.right[x] = NULL
  BY DEF PoolOK
<1>4. D[p] = {p} /\ \A x \in Proc : q.left[x] # p /\ q.right[x] # p
  BY Unlinked
<1>5. /\ DOMAIN q = RqFields /\ q.left \in [Proc -> Ptr] /\ q.right \in [Proc -> Ptr]
      /\ q.up \in [Proc -> Ptr] /\ NULL \in Ptr /\ p \in Ptr /\ p # NULL
  BY <1>3 DEF HeapType, Ptr
<1>6. /\ DOMAIN g = RqFields /\ SameFields(q, g) /\ g.left = [q.left EXCEPT ![p] = NULL]
      /\ g.right = [q.right EXCEPT ![p] = NULL] /\ g.up = [q.up EXCEPT ![p] = NULL]
  BY <1>1, <1>5 DEF RqFields, SameFields
<1>7. /\ HeapType(g) /\ g.up[p] = NULL /\ \A x \in Proc \ {p} : g.up[x] = q.up[x]
      /\ \A x \in Proc : g.left[x] = q.left[x] /\ g.right[x] = q.right[x]
  BY <1>3, <1>5, <1>6 DEF HeapType
<1>8. Tree(g, Proc, D, R)
  <2>1. SameNodes(q, g, Proc, {p})
    BY <1>4, <1>7 DEF SameNodes
  <2>2. SameBelow(D, D, Proc)
    BY <1>3 DEF SameBelow, Tree
  <2>3. QED
    BY <1>3, <2>1, <2>2, TreeKept
<1>9. Merged(g, D, R, t, p, r.top, r.q)
  <2>1. Decides(g, D[t], D[p], R)
    <3>1. g.lab6_stride = q.lab6_stride
      BY <1>6 DEF SameFields
    <3>2. QED
      BY <1>3, <1>4, <3>1, DecidesSame
  <2>2. D[t] \cap D[p] = {}
    BY <1>3, <1>4
  <2>3. QED
    BY <1>2, <1>3, <1>5, <1>7, <1>8, <2>1, <2>2, MergeGood
<1>10. PICK top, h : top = r.top /\ h = r.q
  OBVIOUS
<1>11. D[t] \cup D[p] = S \cup {p}
  BY <1>3, <1>4
<1>12. /\ HeapType(h) /\ SameFields(g, h) /\ SameOutside(g, h, S \cup {p})
       /\ top \in {t, p} /\ (top = NULL => t = NULL /\ p = NULL)
       /\ top # NULL => h.up[top] = g.up[top]
       /\ \E E : Tree(h, S \cup {p}, E, R) /\ E[top] = S \cup {p}
  BY <1>9, <1>10, <1>11 DEF Merged
<1>13. top \in Ptr /\ top # NULL /\ top \in S \cup {p} /\ h.up[top] = NULL
  <2>1. t # NULL => t \in S
    BY <1>3, SelfBelow DEF Ptr
  <2>2. g.up[top] = NULL
    <3>1. CASE top = p
      BY <1>7, <3>1
    <3>2. CASE top # p
      BY <1>3, <1>7, <1>12, <3>2, <2>1
    <3>3. QED
      BY <3>1, <3>2
  <2>3. QED
    BY <1>3, <1>5, <1>12, <2>1, <2>2
<1>14. PICK E : Tree(h, S \cup {p}, E, R) /\ E[top] = S \cup {p}
  BY <1>12
<1>15. ASSUME NEW k, HeapType(k), SamePointers(r.q, k), k.lab6_run_pool = r.top
       PROVE  PoolGood(k, S \cup {p}, R)
  <2>1. Tree(k, S \cup {p}, E, R)
    BY <1>10, <1>14, <1>15, TreeSame
  <2>2. k.up[top] = NULL /\ k.lab6_run_pool = top
    BY <1>10, <1>13, <1>15 DEF SamePointers
  <2>3. \A x \in Proc \ (S \cup {p}) : k.left[x] = NULL /\ k.right[x] = NULL
    BY <1>3, <1>7, <1>10, <1>12, <1>15 DEF SamePointers, SameOutside
  <2>4. Rooted(k, S \cup {p}, E, R, top)
    BY <1>13, <1>14, <1>15, <2>1, <2>2, <2>3 DEF Rooted
  <2>5. QED
    BY <1>13, <2>4, PoolMade
<1>16. SameFields(q, h)
  BY <1>6, <1>12 DEF SameFields
<1>17. QED
  BY <1>10, <1>12, <1>13, <1>15, <1>16

\* The root t of a heap of S has been removed; its own pointers are what they were.
Removed(q, S, R, t, r) ==
    /\ HeapType(r.q) /\ SameFields(q, r.q) /\ r.top \in Ptr
    /\ r.top # NULL => r.top \in S \ {t} /\ r.q.up[r.top] = NULL
    /\ \A x \in Proc \ S : r.q.left[x] = NULL /\ r.q.right[x] = NULL
    /\ \E E : Tree(r.q, S \ {t}, E, R) /\ E[r.top] = S \ {t}

\* The two trees below the root, when it is removed.
LEMMA RemoveRoot ==
    ASSUME NEW q, NEW S, NEW D, NEW R, PoolOK(q, S, D, R), NEW t, t = q.lab6_run_pool, t # NULL,
           Decides(q, S \ {t}, S \ {t}, R),
           NEW r, r = skew_heap_remove(q, t, t)
    PROVE  Removed(q, S, R, t, r)
<1> USE StrideAssumption
<1>1. /\ HeapType(q) /\ t \in Proc /\ Tree(q, Proc, D, R) /\ S \subseteq Proc /\ D[t] = S
      /\ q.up[t] = NULL /\ \A x \in Proc \ S : q.left[x] = NULL /\ q.right[x] = NULL
  BY DEF PoolOK, Ptr
<1>2. PICK l, w : l = q.left[t] /\ w = q.right[t]
  OBVIOUS
<1>3. /\ l \in Ptr /\ w \in Ptr /\ D[l] \cup D[w] = S \ {t} /\ D[l] \cap D[w] = {}
  <2>1. NodeOK(q, Proc, D, R, t)
    BY <1>1 DEF Tree
  <2>2. /\ l \in Ptr /\ w \in Ptr /\ D[t] = {t} \cup (D[l] \cup D[w])
        /\ t \notin D[l] /\ t \notin D[w] /\ D[l] \cap D[w] = {}
    BY <1>2, <2>1 DEF NodeOK, Ptr
  <2>3. QED
    BY <1>1, <2>2
<1>4. (l # NULL => l \in S \ {t}) /\ (w # NULL => w \in S \ {t})
  BY <1>1, <1>3, SelfBelow DEF Ptr
<1>5. PICK m : m = skew_heap_merge(q, l, w)
  OBVIOUS
<1>6. Merged(q, D, R, l, w, m.top, m.q)
  <2>1. Decides(q, D[l], D[w], R)
    <3>1. D[l] \subseteq S \ {t} /\ D[w] \subseteq S \ {t}
      BY <1>3
    <3>2. QED
      BY <3>1 DEF Decides
  <2>2. QED
    BY <1>1, <1>3, <1>5, <2>1, MergeGood
<1>7. PICK top, h : top = m.top /\ h = m.q
  OBVIOUS
<1>8. /\ HeapType(h) /\ SameFields(q, h) /\ SameOutside(q, h, S \ {t})
      /\ top \in {l, w}
      /\ \E E : Tree(h, S \ {t}, E, R) /\ E[top] = S \ {t}
  BY <1>3, <1>6, <1>7 DEF Merged
<1>9. PICK k : k = IF top = NULL THEN h ELSE [h EXCEPT !.up[top] = NULL]
  OBVIOUS
<1>10. r = [top |-> top, q |-> k]
  BY <1>1, <1>2, <1>5, <1>7, <1>9 DEF skew_heap_remove
<1>11. /\ DOMAIN h = RqFields /\ h.left \in [Proc -> Ptr] /\ h.right \in [Proc -> Ptr]
       /\ h.up \in [Proc -> Ptr] /\ top \in Ptr /\ NULL \in Ptr
  BY <1>3, <1>8 DEF HeapType, Ptr
<1>12. /\ DOMAIN k = RqFields /\ SameFields(h, k) /\ k.left = h.left /\ k.right = h.right
       /\ k.up \in [Proc -> Ptr] /\ (top # NULL => k.up[top] = NULL)
       /\ \A x \in Proc \ {top} : k.up[x] = h.up[x]
  <2>1. CASE top = NULL
    BY <1>9, <1>11, <2>1 DEF SameFields
  <2>2. CASE top # NULL
    <3>1. top \in Proc /\ k = [h EXCEPT !.up = [h.up EXCEPT ![top] = NULL]]
      BY <1>9, <1>11, <2>2 DEF Ptr
    <3>2. /\ DOMAIN k = RqFields /\ SameFields(h, k) /\ k.left = h.left /\ k.right = h.right
          /\ k.up = [h.up EXCEPT ![top] = NULL]
      BY <1>11, <3>1 DEF SameFields, RqFields
    <3>3. QED
      BY <1>11, <3>1, <3>2
  <2>3. QED
    BY <2>1, <2>2
<1>13. HeapType(k) /\ SameFields(q, k)
  BY <1>8, <1>11, <1>12 DEF HeapType, SameFields
<1>14. PICK E : Tree(h, S \ {t}, E, R) /\ E[top] = S \ {t}
  BY <1>8
<1>15. Tree(k, S \ {t}, E, R)
  <2>1. ASSUME NEW x \in S \ {t} PROVE h.left[x] \notin {top} \ {NULL} /\ h.right[x] \notin {top} \ {NULL}
    <3>1. NodeOK(h, S \ {t}, E, R, x)
      BY <1>14 DEF Tree
    <3>2. x \notin E[h.left[x]] /\ x \notin E[h.right[x]]
      BY <3>1 DEF NodeOK
    <3>3. QED
      BY <1>14, <3>2
  <2>2. \A x \in (S \ {t}) \ ({top} \ {NULL}) : k.up[x] = h.up[x]
    BY <1>1, <1>12
  <2>3. SameNodes(h, k, S \ {t}, {top} \ {NULL})
    BY <1>12, <2>1, <2>2 DEF SameNodes
  <2>4. SameBelow(E, E, S \ {t})
    BY <1>14 DEF SameBelow, Tree
  <2>5. QED
    BY <1>14, <2>3, <2>4, TreeKept
<1>16. \A x \in Proc \ S : k.left[x] = NULL /\ k.right[x] = NULL
  BY <1>1, <1>8, <1>12 DEF SameOutside
<1>17. r.top = top /\ r.q = k
  BY <1>10
<1>18. top # NULL => top \in S \ {t} /\ k.up[top] = NULL
  BY <1>4, <1>8, <1>12
<1>19. QED
  BY <1>11, <1>13, <1>14, <1>15, <1>16, <1>17, <1>18 DEF Removed

-----------------------------------------------------------------------------
(***************************************************************************)
(* The lists of the other two classes.                                      *)
(***************************************************************************)
\* Linking at the tail.
LEMMA LinkTail ==
    ASSUME NEW s \in Seq(Proc), IsInjective(s), NEW p \in Proc, p \notin ToSet(s),
           NEW t, t = Append(s, p)
    PROVE  t \in Seq(Proc) /\ IsInjective(t) /\ ToSet(t) = ToSet(s) \cup {p}
<1>1. /\ t \in Seq(Proc) /\ Len(t) = Len(s) + 1 /\ DOMAIN t = 1 .. Len(s) + 1
      /\ \A i \in 1 .. Len(s) : t[i] = s[i]
      /\ t[Len(s) + 1] = p /\ DOMAIN s = 1 .. Len(s) /\ Len(s) \in Nat
  BY AppendProperties, LenProperties
<1>2. \A i \in 1 .. Len(s) : s[i] # p
  BY <1>1 DEF ToSet
<1>3. PICK n : n = Len(s)
  OBVIOUS
<1>4. ToSet(t) = ToSet(s) \cup {p}
  <2>1. ASSUME NEW x \in ToSet(t) PROVE x \in ToSet(s) \cup {p}
    BY <1>1, <2>1 DEF ToSet
  <2>2. ASSUME NEW x \in ToSet(s) PROVE x \in ToSet(t)
    BY <1>1, <2>2 DEF ToSet
  <2>3. p \in ToSet(t)
    BY <1>1 DEF ToSet
  <2>4. QED
    BY <2>1, <2>2, <2>3
<1>5. IsInjective(t)
  BY <1>1, <1>2 DEF IsInjective
<1>6. QED
  BY <1>1, <1>4, <1>5

\* Unlinking the head.
LEMMA UnlinkHead ==
    ASSUME NEW s \in Seq(Proc), IsInjective(s), s # <<>>, NEW p, p = Head(s),
           NEW t, t = RemoveAt(s, CHOOSE i \in DOMAIN s : s[i] = p)
    PROVE  /\ p \in ToSet(s) /\ p \in Proc
           /\ t \in Seq(Proc) /\ IsInjective(t) /\ ToSet(t) = ToSet(s) \ {p}
<1>1. PICK n : n = Len(s)
  OBVIOUS
<1>2. n \in Nat \ {0} /\ DOMAIN s = 1 .. n /\ p = s[1] /\ \A k \in 1 .. n : s[k] \in Proc
  BY <1>1, HeadTailProperties, LenProperties, ElementOfSeq
<1>3. 1 \in DOMAIN s /\ p \in ToSet(s) /\ p \in Proc
  BY <1>2 DEF ToSet
<1>4. (CHOOSE i \in DOMAIN s : s[i] = p) = 1
  <2>1. \A i \in DOMAIN s : s[i] = p => i = 1
    BY <1>2, <1>3 DEF IsInjective
  <2>2. s[1] = p /\ 1 \in DOMAIN s
    BY <1>2
  <2>3. QED
    BY <2>1, <2>2
<1>5. PICK a, b : a = SubSeq(s, 1, 1 - 1) /\ b = SubSeq(s, 1 + 1, n)
  OBVIOUS
<1>6. a \in Seq(Proc) /\ Len(a) = 0
  BY <1>2, <1>5, SubSeqProperties
<1>7. b \in Seq(Proc) /\ Len(b) = n - 1 /\ \A k \in 1 .. n - 1 : b[k] = s[k + 1]
  <2>1. /\ b \in Seq(Proc)
        /\ Len(b) = IF 2 <= n THEN n - 2 + 1 ELSE 0
        /\ \A k \in 1 .. n - 2 + 1 : b[k] = s[2 + k - 1]
    <3>1. 2 \in Int /\ n \in Int /\ \A k \in 2 .. n : s[k] \in Proc
      BY <1>2
    <3>2. QED
      BY <1>5, <3>1, SubSeqProperties
  <2>2. QED
    BY <1>2, <2>1
<1>8. t = a \o b
  <2>1. t = RemoveAt(s, 1)
    BY <1>4
  <2>2. QED
    BY <1>1, <1>5, <2>1 DEF RemoveAt
<1>9. t \in Seq(Proc) /\ DOMAIN t = 1 .. n - 1 /\ \A k \in 1 .. n - 1 : t[k] = s[k + 1]
  <2>1. /\ t \in Seq(Proc) /\ Len(t) = Len(a) + Len(b)
        /\ \A k \in 1 .. Len(a) + Len(b) : t[k] = IF k <= Len(a) THEN a[k] ELSE b[k - Len(a)]
    <3>1. /\ a \o b \in Seq(Proc) /\ Len(a \o b) = Len(a) + Len(b)
          /\ \A k \in 1 .. Len(a) + Len(b) :
               (a \o b)[k] = IF k <= Len(a) THEN a[k] ELSE b[k - Len(a)]
      BY <1>6, <1>7, ConcatProperties
    <3>2. QED
      BY <1>8, <3>1
  <2>2. Len(t) = n - 1 /\ \A k \in 1 .. n - 1 : t[k] = b[k]
    BY <1>2, <1>6, <1>7, <2>1
  <2>3. QED
    BY <1>7, <2>1, <2>2, LenProperties
<1>10. ToSet(t) = ToSet(s) \ {p}
  <2>1. ASSUME NEW x \in ToSet(t) PROVE x \in ToSet(s) /\ x # p
    <3>1. PICK k \in 1 .. n - 1 : x = s[k + 1]
      BY <1>9, <2>1 DEF ToSet
    <3>2. k + 1 \in 1 .. n /\ k + 1 # 1
      BY <1>2
    <3>3. QED
      BY <1>2, <1>3, <3>1, <3>2 DEF ToSet, IsInjective
  <2>2. ASSUME NEW x \in ToSet(s), x # p PROVE x \in ToSet(t)
    <3>1. PICK k \in 1 .. n : x = s[k]
      BY <1>2, <2>2 DEF ToSet
    <3>2. k - 1 \in 1 .. n - 1 /\ (k - 1) + 1 = k
      BY <1>2, <2>2, <3>1
    <3>3. t[k - 1] = x
      BY <1>9, <3>1, <3>2
    <3>4. QED
      BY <1>9, <3>2, <3>3 DEF ToSet
  <2>3. QED
    BY <2>1, <2>2
<1>11. IsInjective(t)
  <2>1. ASSUME NEW j \in 1 .. n - 1, NEW k \in 1 .. n - 1, t[j] = t[k] PROVE j = k
    <3>1. s[j + 1] = s[k + 1] /\ j + 1 \in DOMAIN s /\ k + 1 \in DOMAIN s
      BY <1>2, <1>9, <2>1
    <3>2. QED
      BY <3>1 DEF IsInjective
  <2>2. QED
    BY <1>9, <2>1 DEF IsInjective
<1>12. QED
  BY <1>3, <1>9, <1>10, <1>11

-----------------------------------------------------------------------------
(***************************************************************************)
(* The functions of a class.                                                *)
(***************************************************************************)
RqType(q) ==
    /\ HeapType(q) /\ q.run_list \in Seq(Proc)
    /\ q.time_slice \in [Proc -> 0 .. MAX_TIME_SLICE]
    /\ q.lab6_stride \in [Proc -> 0 .. Word - 1]
    /\ q.lab6_priority \in [Proc -> 1 .. BIG_STRIDE]

\* The queue has the processes S; under the stride class R holds of every process in the
\* heap and those right below it.
RqOK(q, S, R) ==
    /\ RqType(q) /\ S \subseteq Proc /\ q.proc_num = Cardinality(S)
    /\ IF sched_class = "stride" THEN PoolGood(q, S, R)
       ELSE ToSet(q.run_list) = S /\ IsInjective(q.run_list)

\* k has the strides and priorities of q.
SamePasses(q, k) == k.lab6_stride = q.lab6_stride /\ k.lab6_priority = q.lab6_priority

\* What else Slice leaves alone.
LEMMA SliceFields ==
    ASSUME NEW q, DOMAIN q = RqFields, q.time_slice \in [Proc -> 0 .. MAX_TIME_SLICE],
           NEW p \in Proc, NEW k, k = Slice(q, p)
    PROVE  /\ DOMAIN k = RqFields /\ SamePointers(q, k) /\ SamePasses(q, k)
           /\ k.run_list = q.run_list /\ k.proc_num = q.proc_num
           /\ k.lab6_run_pool = q.lab6_run_pool
           /\ k.time_slice \in [Proc -> 0 .. MAX_TIME_SLICE]
<1> USE StrideAssumption
<1>1. PICK n : n = IF q.time_slice[p] = 0 \/ q.time_slice[p] > MAX_TIME_SLICE
                     THEN MAX_TIME_SLICE ELSE q.time_slice[p]
  OBVIOUS
<1>2. k = [q EXCEPT !.time_slice = [q.time_slice EXCEPT ![p] = n]]
  BY <1>1 DEF Slice
<1>3. n \in 0 .. MAX_TIME_SLICE
  BY <1>1
<1>4. QED
  BY <1>2, <1>3 DEF RqFields, SamePointers, SamePasses

\* One more is counted.
LEMMA CountOneMore ==
    ASSUME NEW S, S \subseteq Proc, NEW p \in Proc \ S
    PROVE  Cardinality(S \cup {p}) = Cardinality(S) + 1
BY FS_AddElement, FS_Subset, StrideAssumption

\* One less.
LEMMA CountOneLess ==
    ASSUME NEW S, S \subseteq Proc, NEW p \in S
    PROVE  Cardinality(S \ {p}) = Cardinality(S) - 1
BY FS_RemoveElement, FS_Subset, StrideAssumption

\* sched_class_enqueue adds a process that is not in the queue.
LEMMA EnqueueGood ==
    ASSUME NEW q, NEW S, NEW R, RqOK(q, S, R), sched_class \in Classes, NEW p \in Proc \ S,
           sched_class = "stride" => Decides(q, S, {p}, R),
           NEW k, k = sched_class_enqueue(q, p)
    PROVE  RqOK(k, S \cup {p}, R) /\ SamePasses(q, k)
<1> USE StrideAssumption
<1>1. /\ RqType(q) /\ S \subseteq Proc /\ q.proc_num = Cardinality(S) /\ p # idleproc
      /\ DOMAIN q = RqFields
  BY DEF RqOK, RqType, HeapType
<1>2. S \cup {p} \subseteq Proc /\ Cardinality(S \cup {p}) = q.proc_num + 1
  BY <1>1, CountOneMore
<1>3. CASE sched_class \in {"RR", "FIFO"}
  <2>1. PICK g : g = FIFO_enqueue(q, p)
    OBVIOUS
  <2>2. PICK s : s = Append(q.run_list, p)
    OBVIOUS
  <2>3. g = [q EXCEPT !.run_list = s, !.proc_num = q.proc_num + 1]
    BY <2>1, <2>2 DEF FIFO_enqueue
  <2>4. /\ DOMAIN g = RqFields /\ SamePointers(q, g) /\ SamePasses(q, g)
        /\ g.run_list = s /\ g.proc_num = q.proc_num + 1 /\ g.time_slice = q.time_slice
    BY <1>1, <2>3 DEF RqFields, SamePointers, SamePasses
  <2>5. s \in Seq(Proc) /\ IsInjective(s) /\ ToSet(s) = S \cup {p}
    <3>1. /\ q.run_list \in Seq(Proc) /\ IsInjective(q.run_list) /\ ToSet(q.run_list) = S
      BY <1>3 DEF RqOK, RqType
    <3>2. QED
      BY <2>2, <3>1, LinkTail
  <2>6. /\ DOMAIN k = RqFields /\ SamePointers(q, k) /\ SamePasses(q, k)
        /\ k.run_list = s /\ k.proc_num = q.proc_num + 1
        /\ k.time_slice \in [Proc -> 0 .. MAX_TIME_SLICE]
    <3>1. q.time_slice \in [Proc -> 0 .. MAX_TIME_SLICE]
      BY <1>1 DEF RqType
    <3>2. CASE sched_class = "FIFO"
      <4>1. k = g
        BY <1>1, <2>1, <3>2 DEF sched_class_enqueue
      <4>2. QED
        BY <2>4, <3>1, <4>1
    <3>3. CASE sched_class = "RR"
      <4>1. k = Slice(g, p)
        BY <1>1, <2>1, <3>3 DEF sched_class_enqueue, RR_enqueue
      <4>2. /\ DOMAIN k = RqFields /\ SamePointers(g, k) /\ SamePasses(g, k)
            /\ k.run_list = g.run_list /\ k.proc_num = g.proc_num
            /\ k.time_slice \in [Proc -> 0 .. MAX_TIME_SLICE]
        BY <2>4, <3>1, <4>1, SliceFields
      <4>3. QED
        BY <2>4, <4>2 DEF SamePointers, SamePasses
    <3>4. QED
      BY <1>3, <3>2, <3>3
  <2>7. RqType(k)
    BY <1>1, <2>5, <2>6 DEF RqType, HeapType, SamePointers, SamePasses
  <2>8. sched_class # "stride"
    BY <1>3
  <2>9. QED
    BY <1>2, <2>5, <2>6, <2>7, <2>8 DEF RqOK
<1>4. CASE sched_class = "stride"
  <2>1. PICK t, r : t = q.lab6_run_pool /\ r = skew_heap_insert(q, t, p)
    OBVIOUS
  <2>2. PICK g, h : g = WithRoot(r) /\ h = Slice(g, p)
    OBVIOUS
  <2>3. k = [h EXCEPT !.proc_num = h.proc_num + 1]
    BY <1>1, <1>4, <2>1, <2>2 DEF sched_class_enqueue, stride_enqueue
  <2>4. PICK D : PoolOK(q, S, D, R)
    BY <1>4 DEF RqOK, PoolGood
  <2>5. Decides(q, S, {p}, R)
    BY <1>4
  <2>6. HeapType(r.q) /\ SameFields(q, r.q) /\ r.top \in Ptr
        /\ \A e : HeapType(e) /\ SamePointers(r.q, e) /\ e.lab6_run_pool = r.top
                     => PoolGood(e, S \cup {p}, R)
    BY <2>1, <2>4, <2>5, InsertGood
  <2>7. /\ DOMAIN g = RqFields /\ SamePointers(r.q, g) /\ SamePasses(q, g)
        /\ g.run_list = q.run_list /\ g.proc_num = q.proc_num /\ g.time_slice = q.time_slice
        /\ g.lab6_run_pool = r.top
    <3>1. g = [r.q EXCEPT !.lab6_run_pool = r.top] /\ DOMAIN r.q = RqFields
      BY <2>2, <2>6 DEF WithRoot, HeapType
    <3>2. QED
      BY <2>6, <3>1 DEF RqFields, SamePointers, SamePasses, SameFields
  <2>8. /\ DOMAIN h = RqFields /\ SamePointers(g, h) /\ SamePasses(g, h)
        /\ h.run_list = g.run_list /\ h.proc_num = g.proc_num
        /\ h.lab6_run_pool = g.lab6_run_pool
        /\ h.time_slice \in [Proc -> 0 .. MAX_TIME_SLICE]
    <3>1. g.time_slice \in [Proc -> 0 .. MAX_TIME_SLICE]
      BY <1>1, <2>7 DEF RqType
    <3>2. QED
      BY <2>2, <2>7, <3>1, SliceFields
  <2>9. /\ DOMAIN k = RqFields /\ SamePointers(h, k) /\ SamePasses(h, k)
        /\ k.run_list = h.run_list /\ k.proc_num = h.proc_num + 1
        /\ k.lab6_run_pool = h.lab6_run_pool /\ k.time_slice = h.time_slice
    BY <2>3, <2>8 DEF RqFields, SamePointers, SamePasses
  <2>10. SamePointers(r.q, k) /\ SamePasses(q, k) /\ k.lab6_run_pool = r.top
    BY <2>7, <2>8, <2>9 DEF SamePointers, SamePasses
  <2>11. HeapType(k)
    BY <2>6, <2>9, <2>10 DEF HeapType, SamePointers
  <2>12. PoolGood(k, S \cup {p}, R)
    BY <2>6, <2>10, <2>11
  <2>13. RqType(k)
    <3>1. k.run_list = q.run_list /\ k.time_slice \in [Proc -> 0 .. MAX_TIME_SLICE]
      BY <2>7, <2>8, <2>9
    <3>2. QED
      BY <1>1, <2>10, <2>11, <3>1 DEF RqType, SamePasses
  <2>14. k.proc_num = q.proc_num + 1
    BY <2>7, <2>8, <2>9
  <2>15. QED
    BY <1>2, <1>4, <2>10, <2>12, <2>13, <2>14 DEF RqOK
<1>5. QED
  BY <1>3, <1>4 DEF Classes

\* In k the stride of p has advanced by what one of the priorities gives it.
Advanced(q, k, p) ==
    \E prior \in 1 .. BIG_STRIDE :
      k.lab6_stride = [q.lab6_stride EXCEPT ![p] = (q.lab6_stride[p] + BIG_STRIDE \div prior) % Word]

\* The least entry, or the head, is taken from the queue.
Taken(q, A, R, t, k) ==
    /\ t \in A /\ RqOK(k, A \ {t}, R)
    /\ IF sched_class = "stride" THEN t = q.lab6_run_pool /\ Advanced(q, k, t) ELSE SamePasses(q, k)

\* A step of at most BIG_STRIDE.
LEMMA PassType ==
    ASSUME NEW prior \in 1 .. BIG_STRIDE
    PROVE  BIG_STRIDE \div prior \in 0 .. BIG_STRIDE
<1>1. BIG_STRIDE \in Nat /\ prior \in Nat /\ prior >= 1
  BY StrideAssumption
<1>2. PICK d : d = BIG_STRIDE \div prior
  OBVIOUS
<1>3. d \in Int /\ d >= 0 /\ d <= BIG_STRIDE
  BY <1>1, <1>2
<1>4. QED
  BY <1>2, <1>3

\* RR_pick_next and FIFO_pick_next, and list_del_init of what they picked.
LEMMA ListPickGood ==
    ASSUME NEW q, NEW A, NEW R, RqOK(q, A, R), sched_class \in {"RR", "FIFO"},
           NEW n, n = sched_class_pick_next(q)
    PROVE  /\ n.next = NULL => A = {} /\ n.q = q
           /\ n.next # NULL => Taken(q, A, R, n.next, sched_class_dequeue(n.q, n.next))
<1> USE StrideAssumption
<1>1. /\ RqType(q) /\ A \subseteq Proc /\ q.proc_num = Cardinality(A)
      /\ ToSet(q.run_list) = A /\ IsInjective(q.run_list)
      /\ DOMAIN q = RqFields /\ q.run_list \in Seq(Proc)
  BY DEF RqOK, RqType, HeapType
<1>2. n = [q |-> q, next |-> IF q.run_list = <<>> THEN NULL ELSE Head(q.run_list)]
  BY DEF sched_class_pick_next, list_pick_next
<1>3. CASE q.run_list = <<>>
  <2>1. n.next = NULL /\ n.q = q
    BY <1>2, <1>3
  <2>2. DOMAIN q.run_list = {}
    BY <1>3
  <2>3. A = {}
    BY <1>1, <2>2 DEF ToSet
  <2>4. QED
    BY <2>1, <2>3
<1>4. CASE q.run_list # <<>>
  <2>1. PICK s, p, t : s = q.run_list /\ p = Head(s)
                       /\ t = RemoveAt(s, CHOOSE i \in DOMAIN s : s[i] = p)
    OBVIOUS
  <2>2. p \in A /\ p \in Proc /\ t \in Seq(Proc) /\ IsInjective(t) /\ ToSet(t) = A \ {p}
    BY <1>1, <1>4, <2>1, UnlinkHead
  <2>3. n.next = p /\ n.q = q /\ n.next # NULL
    BY <1>2, <1>4, <2>1, <2>2
  <2>4. PICK k : k = sched_class_dequeue(q, p)
    OBVIOUS
  <2>5. k = [q EXCEPT !.run_list = t, !.proc_num = q.proc_num - 1]
    BY <2>1, <2>4 DEF sched_class_dequeue, list_dequeue
  <2>6. /\ DOMAIN k = RqFields /\ SamePointers(q, k) /\ SamePasses(q, k)
        /\ k.run_list = t /\ k.proc_num = q.proc_num - 1 /\ k.time_slice = q.time_slice
    BY <1>1, <2>5 DEF RqFields, SamePointers, SamePasses
  <2>7. RqType(k)
    BY <1>1, <2>2, <2>6 DEF RqType, HeapType, SamePointers, SamePasses
  <2>8. Cardinality(A \ {p}) = q.proc_num - 1 /\ A \ {p} \subseteq Proc
    BY <1>1, <2>2, CountOneLess
  <2>9. sched_class # "stride"
    OBVIOUS
  <2>10. RqOK(k, A \ {p}, R)
    BY <2>2, <2>6, <2>7, <2>8, <2>9 DEF RqOK
  <2>11. Taken(q, A, R, p, k)
    BY <2>2, <2>6, <2>9, <2>10 DEF Taken
  <2>12. QED
    BY <2>3, <2>4, <2>11
<1>5. QED
  BY <1>3, <1>4

\* The queue of which the root has been picked.
LEMMA RootAdvanced ==
    ASSUME NEW q, NEW A, NEW D, NEW R, RqType(q), PoolOK(q, A, D, R), Decides(q, A, A, R),
           NEW t, t = q.lab6_run_pool, t # NULL, NEW n, n = stride_pick_next(q)
    PROVE  /\ n.next = t /\ t \in A /\ RqType(n.q) /\ PoolOK(n.q, A, D, R)
           /\ n.q.lab6_run_pool = t /\ n.q.proc_num = q.proc_num
           /\ Decides(n.q, A \ {t}, A \ {t}, R) /\ Advanced(q, n.q, t)
<1> USE StrideAssumption
<1>1. PICK prior : prior = IF q.lab6_priority[t] = 0 THEN 1 ELSE q.lab6_priority[t]
  OBVIOUS
<1>2. PICK v : v = (q.lab6_stride[t] + BIG_STRIDE \div prior) % Word
  OBVIOUS
<1>3. PICK k : k = [q EXCEPT !.lab6_priority[t] = prior, !.lab6_stride[t] = v]
  OBVIOUS
<1>4. n = [next |-> t, q |-> k]
  BY <1>1, <1>2, <1>3 DEF stride_pick_next
<1>5. /\ t \in Proc /\ A \subseteq Proc /\ DOMAIN q = RqFields /\ D[t] = A /\ Tree(q, Proc, D, R)
      /\ q.lab6_stride \in [Proc -> 0 .. Word - 1] /\ q.lab6_priority \in [Proc -> 1 .. BIG_STRIDE]
  BY DEF PoolOK, RqType, HeapType, Ptr
<1>6. t \in A
  BY <1>5, SelfBelow
<1>7. prior \in 1 .. BIG_STRIDE /\ v \in 0 .. Word - 1
  <2>1. prior \in 1 .. BIG_STRIDE
    BY <1>1, <1>5
  <2>2. PICK d : d = q.lab6_stride[t] + BIG_STRIDE \div prior
    OBVIOUS
  <2>3. q.lab6_stride[t] \in Int /\ BIG_STRIDE \div prior \in Int
    BY <1>5, <2>1, PassType
  <2>4. d \in Int /\ Word \in Nat \ {0}
    BY <2>2, <2>3
  <2>5. d % Word \in 0 .. Word - 1
    BY <2>4
  <2>6. QED
    BY <1>2, <2>1, <2>2, <2>5
<1>8. /\ DOMAIN k = RqFields /\ SamePointers(q, k) /\ k.run_list = q.run_list
      /\ k.proc_num = q.proc_num /\ k.lab6_run_pool = t /\ k.time_slice = q.time_slice
      /\ k.lab6_stride = [q.lab6_stride EXCEPT ![t] = v]
      /\ k.lab6_priority = [q.lab6_priority EXCEPT ![t] = prior]
  BY <1>3, <1>5 DEF RqFields, SamePointers
<1>9. RqType(k)
  <2>1. k.lab6_stride \in [Proc -> 0 .. Word - 1] /\ k.lab6_priority \in [Proc -> 1 .. BIG_STRIDE]
    BY <1>5, <1>7, <1>8
  <2>2. QED
    BY <1>8, <2>1 DEF RqType, HeapType, SamePointers
<1>10. PoolOK(k, A, D, R)
  <2>1. Tree(k, Proc, D, R)
    BY <1>5, <1>8, TreeSame
  <2>2. QED
    BY <1>8, <1>9, <2>1 DEF PoolOK, RqType, SamePointers
<1>11. Decides(k, A \ {t}, A \ {t}, R)
  <2>1. ASSUME NEW x \in A \ {t}, NEW y \in A \ {t}
        PROVE  IF proc_stride_comp_f(k, x, y) = -1 THEN <<x, y>> \in R ELSE <<y, x>> \in R
    <3>1. k.lab6_stride[x] = q.lab6_stride[x] /\ k.lab6_stride[y] = q.lab6_stride[y]
      BY <1>5, <1>8
    <3>2. proc_stride_comp_f(k, x, y) = proc_stride_comp_f(q, x, y)
      BY <3>1 DEF proc_stride_comp_f
    <3>3. QED
      BY <3>2 DEF Decides
  <2>2. QED
    BY <2>1 DEF Decides
<1>12. Advanced(q, k, t)
  BY <1>2, <1>7, <1>8 DEF Advanced
<1>13. QED
  BY <1>4, <1>6, <1>8, <1>9, <1>10, <1>11, <1>12

\* stride_dequeue of the root.
LEMMA StrideDequeueGood ==
    ASSUME NEW q, NEW A, NEW D, NEW R, RqType(q), PoolOK(q, A, D, R), q.proc_num = Cardinality(A),
           NEW t, t = q.lab6_run_pool, t # NULL, t \in A, Decides(q, A \ {t}, A \ {t}, R),
           sched_class = "stride", NEW k, k = sched_class_dequeue(q, t)
    PROVE  RqOK(k, A \ {t}, R) /\ SamePasses(q, k)
<1> USE StrideAssumption
<1>1. PICK r, g : r = skew_heap_remove(q, t, t) /\ g = WithRoot(r)
  OBVIOUS
<1>2. PICK num : num = g.proc_num - 1
  OBVIOUS
<1>3. k = [g EXCEPT !.proc_num = num, !.left[t] = NULL, !.right[t] = NULL, !.up[t] = NULL]
  BY <1>1, <1>2 DEF sched_class_dequeue, stride_dequeue
<1>4. /\ HeapType(r.q) /\ SameFields(q, r.q) /\ r.top \in Ptr
      /\ r.top # NULL => r.top \in A \ {t} /\ r.q.up[r.top] = NULL
      /\ \A x \in Proc \ A : r.q.left[x] = NULL /\ r.q.right[x] = NULL
      /\ \E E : Tree(r.q, A \ {t}, E, R) /\ E[r.top] = A \ {t}
  <2>1. Removed(q, A, R, t, r)
    BY <1>1, RemoveRoot
  <2>2. QED
    BY <2>1 DEF Removed
<1>5. PICK E : Tree(r.q, A \ {t}, E, R) /\ E[r.top] = A \ {t}
  BY <1>4
<1>6. PICK top, h : top = r.top /\ h = r.q
  OBVIOUS
<1>7. A \subseteq Proc /\ t \in Proc /\ NULL \in Ptr
  BY DEF PoolOK, Ptr
<1>8. /\ DOMAIN h = RqFields /\ h.left \in [Proc -> Ptr] /\ h.right \in [Proc -> Ptr]
      /\ h.up \in [Proc -> Ptr]
  BY <1>4, <1>6 DEF HeapType
<1>9. /\ DOMAIN g = RqFields /\ SamePointers(h, g) /\ SamePasses(q, g) /\ g.lab6_run_pool = top
      /\ g.run_list = q.run_list /\ g.proc_num = q.proc_num /\ g.time_slice = q.time_slice
  <2>1. g = [h EXCEPT !.lab6_run_pool = top]
    BY <1>1, <1>6 DEF WithRoot
  <2>2. QED
    BY <1>4, <1>6, <1>8, <2>1 DEF RqFields, SamePointers, SamePasses, SameFields
<1>10. /\ DOMAIN k = RqFields /\ SamePasses(q, k) /\ k.lab6_run_pool = top
       /\ k.run_list = q.run_list /\ k.proc_num = num /\ k.time_slice = q.time_slice
       /\ k.left = [h.left EXCEPT ![t] = NULL] /\ k.right = [h.right EXCEPT ![t] = NULL]
       /\ k.up = [h.up EXCEPT ![t] = NULL]
  BY <1>3, <1>9 DEF RqFields, SamePointers, SamePasses
<1>11. HeapType(k) /\ \A x \in Proc \ {t} : k.left[x] = h.left[x] /\ k.right[x] = h.right[x] /\ k.up[x] = h.up[x]
  BY <1>7, <1>8, <1>10 DEF HeapType
<1>12. PoolGood(k, A \ {t}, R)
  <2>1. Tree(k, A \ {t}, E, R)
    <3>1. \A x \in A \ {t} : k.left[x] = h.left[x] /\ k.right[x] = h.right[x] /\ k.up[x] = h.up[x]
      BY <1>7, <1>11
    <3>2. SameNodes(h, k, A \ {t}, {})
      BY <3>1 DEF SameNodes
    <3>3. SameBelow(E, E, A \ {t})
      BY <1>5 DEF SameBelow, Tree
    <3>4. QED
      BY <1>5, <1>6, <3>2, <3>3, TreeKept
  <2>2. top # NULL => top \in A \ {t} /\ k.up[top] = NULL
    BY <1>4, <1>6, <1>7, <1>11
  <2>3. \A x \in Proc \ (A \ {t}) : k.left[x] = NULL /\ k.right[x] = NULL
    <3>1. k.left[t] = NULL /\ k.right[t] = NULL
      BY <1>7, <1>8, <1>10
    <3>2. QED
      BY <1>4, <1>6, <1>11, <3>1
  <2>4. top \in Ptr /\ k.lab6_run_pool = top /\ E[top] = A \ {t}
    BY <1>4, <1>5, <1>6, <1>10
  <2>5. Rooted(k, A \ {t}, E, R, top)
    BY <1>11, <2>1, <2>2, <2>3, <2>4 DEF Rooted
  <2>6. QED
    BY <2>4, <2>5, PoolMade
<1>13. RqType(k)
  BY <1>10, <1>11 DEF RqType, SamePasses
<1>14. k.proc_num = Cardinality(A \ {t}) /\ A \ {t} \subseteq Proc
  BY <1>2, <1>7, <1>9, <1>10, CountOneLess
<1>15. QED
  BY <1>10, <1>12, <1>13, <1>14 DEF RqOK

\* Whatever the class, what is picked leaves the queue.
LEMMA PickGood ==
    ASSUME NEW q, NEW A, NEW R, RqOK(q, A, R), sched_class \in Classes,
           sched_class = "stride" => Decides(q, A, A, R),
           NEW n, n = sched_class_pick_next(q)
    PROVE  /\ n.next = NULL => A = {} /\ n.q = q
           /\ n.next # NULL => Taken(q, A, R, n.next, sched_class_dequeue(n.q, n.next))
<1> USE StrideAssumption
<1>1. CASE sched_class \in {"RR", "FIFO"}
  BY <1>1, ListPickGood
<1>2. CASE sched_class = "stride"
  <2>1. PICK t : t = q.lab6_run_pool
    OBVIOUS
  <2>2. PICK D : PoolOK(q, A, D, R)
    BY <1>2 DEF RqOK, PoolGood
  <2>3. RqType(q) /\ q.proc_num = Cardinality(A) /\ Decides(q, A, A, R) /\ n = stride_pick_next(q)
    BY <1>2 DEF RqOK, sched_class_pick_next
  <2>4. CASE t = NULL
    <3>1. n.next = NULL /\ n.q = q
      BY <2>1, <2>3, <2>4 DEF stride_pick_next
    <3>2. A = {}
      BY <2>1, <2>2, <2>4 DEF PoolOK, Tree
    <3>3. QED
      BY <3>1, <3>2
  <2>5. CASE t # NULL
    <3>1. PICK g : g = n.q
      OBVIOUS
    <3>2. /\ n.next = t /\ t \in A /\ RqType(g) /\ PoolOK(g, A, D, R)
          /\ g.lab6_run_pool = t /\ g.proc_num = q.proc_num
          /\ Decides(g, A \ {t}, A \ {t}, R) /\ Advanced(q, g, t)
      BY <2>1, <2>2, <2>3, <2>5, <3>1, RootAdvanced
    <3>3. PICK k : k = sched_class_dequeue(g, t)
      OBVIOUS
    <3>4. RqOK(k, A \ {t}, R) /\ SamePasses(g, k)
      BY <1>2, <2>3, <2>5, <3>2, <3>3, StrideDequeueGood
    <3>5. Advanced(q, k, t)
      BY <3>2, <3>4 DEF Advanced, SamePasses
    <3>6. Taken(q, A, R, t, k)
      BY <1>2, <2>1, <3>2, <3>4, <3>5 DEF Taken
    <3>7. QED
      BY <2>5, <3>1, <3>2, <3>3, <3>6
  <2>6. QED
    BY <2>4, <2>5
<1>3. QED
  BY <1>1, <1>2 DEF Classes

-----------------------------------------------------------------------------
(***************************************************************************)
(* schedule.                                                                *)
(***************************************************************************)
\* R holds of x and z if it holds of x and y, and y and z.
Chained(A, R) == \A x, y, z \in A : <<x, y>> \in R /\ <<y, z>> \in R => <<x, z>> \in R

\* The root comes first of its tree.
LEMMA RootFirst ==
    ASSUME NEW q, NEW S, NEW D, NEW R, Tree(q, S, D, R), Chained(S, R), NEW x \in S
    PROVE  \A y \in D[x] : y = x \/ <<x, y>> \in R
<1> USE StrideAssumption
<1>1. PICK Bad : Bad = {z \in S : \E y \in D[z] : y # z /\ <<z, y>> \notin R}
  OBVIOUS
<1>2. SUFFICES ASSUME Bad # {} PROVE FALSE
  BY <1>1
<1>3. S \subseteq Proc /\ D \in [Ptr -> SUBSET Proc] /\ D[NULL] = {} /\ NULL \notin S
  BY DEF Tree
<1>4. \A z \in S : IsFiniteSet(D[z]) /\ Cardinality(D[z]) \in Nat
  <2>1. ASSUME NEW z \in S PROVE IsFiniteSet(D[z]) /\ Cardinality(D[z]) \in Nat
    <3>1. D[z] \subseteq Proc
      BY <1>3 DEF Ptr
    <3>2. QED
      BY <3>1, FS_Subset, FS_CardinalityType
  <2>2. QED
    BY <2>1
<1>5. PICK T : T = {Cardinality(D[z]) : z \in Bad}
  OBVIOUS
<1>6. T \subseteq Nat /\ T # {}
  BY <1>1, <1>2, <1>4, <1>5
<1>7. PICK n \in T : \A m \in T : n <= m
  BY <1>6, LeastNatural
<1>8. PICK z \in Bad : n = Cardinality(D[z])
  BY <1>5, <1>7
<1>9. z \in S
  BY <1>1, <1>8
<1>10. PICK y \in D[z] : y # z /\ <<z, y>> \notin R
  BY <1>1, <1>8
<1>11. NodeOK(q, S, D, R, z)
  BY <1>9 DEF Tree
<1>12. PICK c \in S : y \in D[c] /\ <<z, c>> \in R /\ D[c] \subseteq D[z] /\ z \notin D[c]
  <2>1. PICK l, r : l = q.left[z] /\ r = q.right[z]
    OBVIOUS
  <2>2. /\ l \in S \cup {NULL} /\ r \in S \cup {NULL}
        /\ l # NULL => <<z, l>> \in R
        /\ r # NULL => <<z, r>> \in R
        /\ D[z] = {z} \cup (D[l] \cup D[r]) /\ z \notin D[l] /\ z \notin D[r]
    BY <1>11, <2>1 DEF NodeOK
  <2>3. CASE y \in D[l]
    <3>1. l \in S /\ <<z, l>> \in R /\ D[l] \subseteq D[z] /\ z \notin D[l]
      BY <1>3, <2>2, <2>3
    <3>2. QED
      BY <2>3, <3>1
  <2>4. CASE y \in D[r]
    <3>1. r \in S /\ <<z, r>> \in R /\ D[r] \subseteq D[z] /\ z \notin D[r]
      BY <1>3, <2>2, <2>4
    <3>2. QED
      BY <2>4, <3>1
  <2>5. QED
    BY <1>10, <2>2, <2>3, <2>4
<1>13. c \notin Bad
  <2>1. SUFFICES ASSUME c \in Bad PROVE FALSE
    OBVIOUS
  <2>2. n <= Cardinality(D[c])
    BY <1>5, <1>7, <2>1
  <2>3. z \in D[z] /\ D[c] # D[z]
    BY <1>9, <1>12, SelfBelow
  <2>4. Cardinality(D[c]) <= Cardinality(D[z]) /\ (Cardinality(D[c]) = Cardinality(D[z]) => D[c] = D[z])
    BY <1>4, <1>9, <1>12, FS_Subset
  <2>5. QED
    BY <1>4, <1>8, <1>9, <1>12, <2>2, <2>3, <2>4
<1>14. y = c \/ <<c, y>> \in R
  BY <1>1, <1>12, <1>13
<1>15. y \in S
  BY <1>9, <1>11, <1>10 DEF NodeOK
<1>16. QED
  BY <1>9, <1>10, <1>12, <1>14, <1>15 DEF Chained

\* The processes that can run in the states st.
CanRun(st) == {p \in Proc : st[p] = "RUNNABLE"}

\* The queue q lacks the process that runs; A can run.
Prepared(q, S, A, R, st) ==
    /\ RqOK(q, S, R) /\ sched_class \in Classes /\ current \in Proc \cup {idleproc}
    /\ A = CanRun(st) /\ S = A \ {current}
    /\ sched_class = "stride" => Decides(q, A, A, R)

\* schedule's queue, when the process that runs has been put back: the processes A that can run.
LEMMA QueuedGood ==
    ASSUME NEW q, NEW S, NEW A, NEW R, NEW st, Prepared(q, S, A, R, st),
           NEW k, k = IF st[current] = "RUNNABLE" THEN sched_class_enqueue(q, current) ELSE q
    PROVE  RqOK(k, A, R) /\ SamePasses(q, k)
<1> USE StrideAssumption
<1>0. /\ RqOK(q, S, R) /\ sched_class \in Classes /\ current \in Proc \cup {idleproc}
      /\ A = CanRun(st) /\ S = A \ {current}
      /\ sched_class = "stride" => Decides(q, A, A, R)
  BY DEF Prepared
<1>1. SamePasses(q, q)
  BY DEF SamePasses
<1>2. CASE current = idleproc
  <2>1. sched_class_enqueue(q, idleproc) = q
    BY DEF sched_class_enqueue
  <2>2. k = q /\ S = A
    BY <1>0, <1>2, <2>1 DEF CanRun
  <2>3. QED
    BY <1>0, <1>1, <2>2
<1>3. CASE current \in Proc /\ st[current] # "RUNNABLE"
  <2>1. k = q /\ S = A
    BY <1>0, <1>3 DEF CanRun
  <2>2. QED
    BY <1>0, <1>1, <2>1
<1>4. CASE current \in Proc /\ st[current] = "RUNNABLE"
  <2>1. current \in Proc \ S /\ S \cup {current} = A /\ k = sched_class_enqueue(q, current)
    BY <1>0, <1>4 DEF CanRun
  <2>2. PICK p : p = current
    OBVIOUS
  <2>3. sched_class = "stride" => Decides(q, S, {p}, R)
    BY <1>0, <2>1, <2>2 DEF Decides
  <2>4. p \in Proc \ S /\ k = sched_class_enqueue(q, p) /\ S \cup {p} = A
    BY <2>1, <2>2
  <2>5. RqOK(k, S \cup {p}, R) /\ SamePasses(q, k)
    BY <1>0, <2>3, <2>4, EnqueueGood
  <2>6. QED
    BY <2>4, <2>5
<1>5. QED
  BY <1>0, <1>2, <1>3, <1>4

\* c is what schedule selects of A, and k the queue without it.
Scheduled(q, A, R, c, k) ==
    /\ A = {} => c = idleproc /\ RqOK(k, {}, R)
    /\ A # {} => c \in A /\ RqOK(k, A \ {c}, R)
    /\ A # {} /\ sched_class = "stride" =>
         /\ Advanced(q, k, c)
         /\ Chained(A, R) => \A p \in A : p = c \/ <<c, p>> \in R

\* schedule on the queue q, which lacks the process that runs.
LEMMA ScheduleGood ==
    ASSUME NEW q, NEW S, NEW A, NEW R, NEW st, Prepared(q, S, A, R, st),
           schedule(q, st)
    PROVE  /\ Scheduled(q, A, R, current', rq')
           /\ state' = st /\ need_resched' = need_resched \ {current}
<1> USE StrideAssumption
<1>0. /\ RqOK(q, S, R) /\ sched_class \in Classes /\ current \in Proc \cup {idleproc}
      /\ A = CanRun(st) /\ S = A \ {current}
      /\ sched_class = "stride" => Decides(q, A, A, R)
  BY DEF Prepared
<1>1. PICK h : h = IF st[current] = "RUNNABLE" THEN sched_class_enqueue(q, current) ELSE q
  OBVIOUS
<1>2. PICK n : n = sched_class_pick_next(h)
  OBVIOUS
<1>3. PICK c, k : c = current' /\ k = rq'
  OBVIOUS
<1>4. /\ k = IF n.next = NULL THEN n.q ELSE sched_class_dequeue(n.q, n.next)
      /\ c = IF n.next = NULL THEN idleproc ELSE n.next
      /\ state' = st /\ need_resched' = need_resched \ {current}
  BY <1>1, <1>2, <1>3 DEF schedule
<1>5. RqOK(h, A, R) /\ SamePasses(q, h)
  BY <1>1, QueuedGood
<1>6. sched_class = "stride" => Decides(h, A, A, R)
  BY <1>0, <1>5, DecidesSame DEF SamePasses
<1>7. /\ n.next = NULL => A = {} /\ n.q = h
      /\ n.next # NULL => Taken(h, A, R, n.next, sched_class_dequeue(n.q, n.next))
  BY <1>0, <1>2, <1>5, <1>6, PickGood
<1>8. Scheduled(q, A, R, c, k)
  <2>1. CASE n.next = NULL
    BY <1>4, <1>5, <1>7, <2>1 DEF Scheduled
  <2>2. CASE n.next # NULL
    <3>1. Taken(h, A, R, c, k) /\ c = n.next
      BY <1>4, <1>7, <2>2
    <3>2. c \in A /\ RqOK(k, A \ {c}, R)
      BY <3>1 DEF Taken
    <3>3. ASSUME sched_class = "stride"
          PROVE  Advanced(q, k, c) /\ (Chained(A, R) => \A p \in A : p = c \/ <<c, p>> \in R)
      <4>1. c = h.lab6_run_pool /\ Advanced(h, k, c)
        BY <3>1, <3>3 DEF Taken
      <4>2. Advanced(q, k, c)
        BY <1>5, <4>1 DEF Advanced, SamePasses
      <4>3. PICK D : PoolOK(h, A, D, R)
        BY <1>5, <3>3 DEF RqOK, PoolGood
      <4>4. Tree(h, Proc, D, R) /\ c \in Proc \cup {NULL} /\ D[c] = A
        BY <4>1, <4>3 DEF PoolOK, Ptr
      <4>5. Tree(h, A, D, R)
        <5>1. Tree(h, D[c], D, R)
          BY ONLY <4>4, TreePart
        <5>2. QED
          BY <4>4, <5>1
      <4>6. QED
        BY <3>2, <4>2, <4>4, <4>5, RootFirst
    <3>4. QED
      BY <3>2, <3>3 DEF Scheduled
  <2>3. QED
    BY <2>1, <2>2
<1>9. QED
  BY <1>3, <1>4, <1>8

-----------------------------------------------------------------------------
(***************************************************************************)
(* The steps.  R is any relation that the comparisons of the processes      *)
(* that can run decide.                                                     *)
(***************************************************************************)
States == {"UNINIT", "RUNNABLE", "SLEEPING", "ZOMBIE"}

BaseOK ==
    /\ sched_class \in Classes
    /\ state \in [Proc \cup {idleproc} -> States]
    /\ current \in Proc \cup {idleproc} /\ need_resched \subseteq Proc \cup {idleproc}
    /\ state[current] = "RUNNABLE" /\ state[idleproc] = "RUNNABLE"

\* The processes that can run.
Alive == {p \in Proc : state[p] = "RUNNABLE"}

\* In k the strides of W are those of rq, but that c may have advanced.
Passed(W, c, k) ==
    \E prior \in 1 .. BIG_STRIDE : \A p \in W :
      k.lab6_stride[p] = IF p = c THEN (rq.lab6_stride[p] + BIG_STRIDE \div prior) % Word
                                  ELSE rq.lab6_stride[p]

\* A step to the queue k and the process c, where W can run.
Kept(R, W, c, k) ==
    /\ RqOK(k, W \ {c}, R)
    /\ sched_class = "stride" =>
         \/ c = current /\ k.lab6_stride = rq.lab6_stride
         \/ W = {}
         \/ c \in W /\ Passed(W, c, k) /\ (Chained(W, R) => \A p \in W : p = c \/ <<c, p>> \in R)

\* What a step keeps, for the relation R.
StepGood(R) == BaseOK' /\ sched_class' = sched_class /\ Kept(R, Alive', current', rq')

\* Before the step.
Ready0(R) ==
    /\ BaseOK /\ RqOK(rq, Ready, R)
    /\ sched_class = "stride" => Decides(rq, Alive \cup Alive', Alive \cup Alive', R)

\* Who is ready can run, and so can the process that runs.
LEMMA AliveReady ==
    ASSUME BaseOK
    PROVE  Ready = Alive \ {current} /\ (current \in Proc => current \in Alive) /\ Alive \subseteq Proc
BY DEF BaseOK, Ready, Alive

\* The comparisons of some are among those of more.
LEMMA DecidesPart ==
    ASSUME NEW q, NEW A, NEW B, NEW R, Decides(q, A, B, R), NEW C \in SUBSET A, NEW D \in SUBSET B,
           NEW k, \A x \in A \cup B : k.lab6_stride[x] = q.lab6_stride[x]
    PROVE  Decides(k, C, D, R)
<1>1. ASSUME NEW x \in C, NEW y \in D
      PROVE  IF proc_stride_comp_f(k, x, y) = -1 THEN <<x, y>> \in R ELSE <<y, x>> \in R
  <2>1. k.lab6_stride[x] = q.lab6_stride[x] /\ k.lab6_stride[y] = q.lab6_stride[y]
    OBVIOUS
  <2>2. proc_stride_comp_f(k, x, y) = proc_stride_comp_f(q, x, y)
    BY <2>1 DEF proc_stride_comp_f
  <2>3. QED
    BY <2>2 DEF Decides
<1>2. QED
  BY <1>1 DEF Decides

\* schedule as the end of a step.
LEMMA EndsInSchedule ==
    ASSUME BaseOK, sched_class' = sched_class, NEW R, NEW q, NEW S, RqOK(q, S, R),
           NEW st \in [Proc \cup {idleproc} -> States], st[idleproc] = "RUNNABLE", schedule(q, st),
           NEW A, A = CanRun(st), S = A \ {current},
           sched_class = "stride" => Decides(q, A, A, R),
           \A p \in A : q.lab6_stride[p] = rq.lab6_stride[p]
    PROVE  StepGood(R)
<1> USE StrideAssumption
<1>1. PICK c, k : c = current' /\ k = rq'
  OBVIOUS
<1>2. /\ Scheduled(q, A, R, c, k)
      /\ state' = st /\ need_resched' = need_resched \ {current}
  <2>1. sched_class \in Classes /\ current \in Proc \cup {idleproc}
    BY DEF BaseOK
  <2>2. Prepared(q, S, A, R, st)
    BY <2>1 DEF Prepared
  <2>3. Scheduled(q, A, R, current', rq') /\ state' = st /\ need_resched' = need_resched \ {current}
    BY <2>2, ScheduleGood
  <2>4. QED
    BY ONLY <1>1, <2>3
<1>3. c \in Proc \cup {idleproc} /\ st[c] = "RUNNABLE" /\ (A # {} => c \in A) /\ (A = {} => c = idleproc)
  BY <1>2 DEF Scheduled, CanRun
<1>4. BaseOK'
  <2>1. current' = c
    BY <1>1
  <2>2. QED
    BY <1>2, <1>3, <2>1 DEF BaseOK
<1>5. Alive' = A
  BY <1>2 DEF Alive, CanRun
<1>6. Kept(R, A, c, k)
  <2>1. CASE A = {}
    <3>1. A \ {c} = {}
      BY <2>1
    <3>2. QED
      BY <1>2, <2>1, <3>1 DEF Scheduled, Kept
  <2>2. CASE A # {}
    <3>1. RqOK(k, A \ {c}, R) /\ c \in A
      BY <1>2, <2>2 DEF Scheduled
    <3>2. ASSUME sched_class = "stride"
          PROVE  Passed(A, c, k) /\ (Chained(A, R) => \A p \in A : p = c \/ <<c, p>> \in R)
      <4>1. Advanced(q, k, c) /\ (Chained(A, R) => \A p \in A : p = c \/ <<c, p>> \in R)
        BY <1>2, <2>2, <3>2 DEF Scheduled
      <4>2. PICK prior \in 1 .. BIG_STRIDE :
              k.lab6_stride = [q.lab6_stride EXCEPT ![c] = (q.lab6_stride[c] + BIG_STRIDE \div prior) % Word]
        BY <4>1 DEF Advanced
      <4>3. q.lab6_stride \in [Proc -> 0 .. Word - 1] /\ A \subseteq Proc
        BY DEF RqOK, RqType, CanRun
      <4>4. PICK f, g : f = q.lab6_stride /\ g = (f[c] + BIG_STRIDE \div prior) % Word
        OBVIOUS
      <4>5. k.lab6_stride = [f EXCEPT ![c] = g] /\ f \in [Proc -> 0 .. Word - 1]
        BY <4>2, <4>3, <4>4
      <4>6. ASSUME NEW p \in A
            PROVE  k.lab6_stride[p] = IF p = c THEN (rq.lab6_stride[p] + BIG_STRIDE \div prior) % Word
                                                ELSE rq.lab6_stride[p]
        <5>1. f[p] = rq.lab6_stride[p] /\ p \in Proc
          BY <4>3, <4>4, <4>6
        <5>2. k.lab6_stride[p] = IF p = c THEN g ELSE f[p]
          BY <4>5, <5>1
        <5>3. QED
          BY <4>4, <5>1, <5>2
      <4>7. Passed(A, c, k)
        BY <4>6 DEF Passed
      <4>8. QED
        BY <4>1, <4>7
    <3>3. QED
      BY <3>1, <3>2 DEF Kept
  <2>3. QED
    BY <2>1, <2>2
<1>7. Kept(R, Alive', current', rq')
  BY <1>1, <1>5, <1>6
<1>8. QED
  BY <1>4, <1>7 DEF StepGood

\* A step in which nobody is scheduled.
LEMMA NobodyScheduled ==
    ASSUME BaseOK', current' = current, sched_class' = sched_class, NEW R, NEW k, k = rq',
           RqOK(k, Ready', R), k.lab6_stride = rq.lab6_stride
    PROVE  StepGood(R)
<1>1. Ready' = Alive' \ {current'}
  BY DEF Ready, Alive
<1>2. PICK c, W : c = current' /\ W = Alive'
  OBVIOUS
<1>3. RqOK(k, W \ {c}, R)
  BY <1>1, <1>2
<1>4. Kept(R, W, c, k)
  BY <1>2, <1>3 DEF Kept
<1>5. QED
  BY <1>2, <1>4 DEF StepGood

\* do_fork: the child joins the queue.
LEMMA ForkGood ==
    ASSUME NEW R, Ready0(R), NEW child \in Proc, do_fork(child)
    PROVE  StepGood(R)
<1> USE StrideAssumption
<1>1. /\ BaseOK /\ RqOK(rq, Ready, R)
      /\ sched_class = "stride" => Decides(rq, Alive \cup Alive', Alive \cup Alive', R)
  BY DEF Ready0
<1>2. /\ current \in Proc /\ state[child] = "UNINIT"
      /\ state' = [state EXCEPT ![child] = "RUNNABLE"] /\ rq' = Woken(rq, child)
      /\ sched_class' = sched_class /\ current' = current /\ need_resched' = need_resched
  BY DEF do_fork
<1>3. child # current /\ child \notin Ready /\ Ready' = Ready \cup {child} /\ Alive' = Alive \cup {child}
  BY <1>1, <1>2 DEF BaseOK, Ready, Alive, States
<1>4. BaseOK'
  BY <1>1, <1>2, <1>3 DEF BaseOK, States
<1>5. PICK k : k = rq'
  OBVIOUS
<1>6. k = sched_class_enqueue(rq, child)
  BY <1>2, <1>3, <1>5 DEF Woken
<1>7. sched_class = "stride" => Decides(rq, Ready, {child}, R)
  BY <1>1, <1>3, AliveReady DEF Decides
<1>8. RqOK(k, Ready \cup {child}, R) /\ SamePasses(rq, k)
  <2>1. sched_class \in Classes /\ child \in Proc \ Ready
    BY <1>1, <1>3 DEF BaseOK
  <2>2. QED
    BY <1>1, <1>6, <1>7, <2>1, EnqueueGood
<1>9. RqOK(k, Ready', R) /\ k.lab6_stride = rq.lab6_stride
  BY <1>3, <1>8 DEF SamePasses
<1>10. QED
  BY <1>2, <1>4, <1>5, <1>9, NobodyScheduled

\* schedule on the queue as it is, with the states st in which nobody has been woken.
LEMMA JustSchedule ==
    ASSUME NEW R, Ready0(R), sched_class' = sched_class, NEW st, schedule(rq, st),
           st \in [Proc \cup {idleproc} -> States],
           st[idleproc] = "RUNNABLE",
           \A p \in Proc \ {current} : st[p] = state[p]
    PROVE  StepGood(R)
<1> USE StrideAssumption
<1>1. /\ BaseOK /\ RqOK(rq, Ready, R)
      /\ sched_class = "stride" => Decides(rq, Alive \cup Alive', Alive \cup Alive', R)
  BY DEF Ready0
<1>2. PICK A : A = CanRun(st)
  OBVIOUS
<1>3. Ready = A \ {current}
  BY <1>2 DEF CanRun, Ready
<1>4. A \subseteq Alive /\ A \subseteq Proc
  BY <1>1, <1>2, AliveReady DEF CanRun, Alive, BaseOK
<1>5. sched_class = "stride" => Decides(rq, A, A, R)
  BY <1>1, <1>4 DEF Decides
<1>6. PICK q, S : q = rq /\ S = Ready
  OBVIOUS
<1>7. RqOK(q, S, R) /\ schedule(q, st) /\ S = A \ {current}
      /\ (sched_class = "stride" => Decides(q, A, A, R))
      /\ \A p \in A : q.lab6_stride[p] = rq.lab6_stride[p]
  BY <1>1, <1>3, <1>5, <1>6
<1>8. QED
  BY <1>1, <1>2, <1>7, EndsInSchedule

\* do_wait.
LEMMA WaitGood ==
    ASSUME NEW R, Ready0(R), do_wait
    PROVE  StepGood(R)
<1> USE StrideAssumption
<1>1. PICK st : st = [state EXCEPT ![current] = "SLEEPING"]
  OBVIOUS
<1>2. sched_class' = sched_class /\ schedule(rq, st) /\ current \in Proc
  BY <1>1 DEF do_wait
<1>3. BaseOK
  BY DEF Ready0
<1>4. /\ st \in [Proc \cup {idleproc} -> States] /\ st[idleproc] = "RUNNABLE"
      /\ \A p \in Proc \ {current} : st[p] = state[p]
  BY <1>1, <1>2, <1>3 DEF BaseOK, States
<1>5. QED
  BY <1>2, <1>4, JustSchedule

\* do_yield, and the way back to user mode.
LEMMA YieldGood ==
    ASSUME NEW R, Ready0(R), do_yield \/ trap_return
    PROVE  StepGood(R)
<1>1. PICK st : st = state
  OBVIOUS
<1>2. sched_class' = sched_class /\ schedule(rq, st)
  BY <1>1 DEF do_yield, trap_return
<1>3. BaseOK
  BY DEF Ready0
<1>4. /\ st \in [Proc \cup {idleproc} -> States] /\ st[idleproc] = "RUNNABLE"
      /\ \A p \in Proc \ {current} : st[p] = state[p]
  BY <1>1, <1>3 DEF BaseOK
<1>5. QED
  BY <1>2, <1>4, JustSchedule

\* A queue in which only slices and priorities have changed.
LEMMA RqSame ==
    ASSUME NEW q, NEW S, NEW R, RqOK(q, S, R), NEW k, DOMAIN k = RqFields, SamePointers(q, k),
           k.run_list = q.run_list, k.proc_num = q.proc_num, k.lab6_run_pool = q.lab6_run_pool,
           k.time_slice \in [Proc -> 0 .. MAX_TIME_SLICE],
           k.lab6_stride \in [Proc -> 0 .. Word - 1], k.lab6_priority \in [Proc -> 1 .. BIG_STRIDE]
    PROVE  RqOK(k, S, R)
<1>1. RqType(q) /\ S \subseteq Proc /\ q.proc_num = Cardinality(S)
  BY DEF RqOK
<1>2. RqType(k)
  BY <1>1 DEF RqType, HeapType, SamePointers
<1>3. ASSUME sched_class = "stride" PROVE PoolGood(k, S, R)
  <2>1. PICK D : PoolOK(q, S, D, R)
    BY <1>3 DEF RqOK, PoolGood
  <2>2. Tree(k, Proc, D, R)
    BY <2>1, TreeSame DEF PoolOK
  <2>3. PoolOK(k, S, D, R)
    BY <1>2, <2>1, <2>2 DEF PoolOK, RqType, SamePointers
  <2>4. QED
    BY <2>3 DEF PoolGood
<1>4. ASSUME sched_class # "stride" PROVE ToSet(k.run_list) = S /\ IsInjective(k.run_list)
  <2>1. ToSet(q.run_list) = S /\ IsInjective(q.run_list)
    BY <1>4 DEF RqOK
  <2>2. QED
    BY <2>1
<1>5. QED
  BY <1>1, <1>2, <1>3, <1>4 DEF RqOK

\* lab6_set_priority.
LEMMA PriorityGood ==
    ASSUME NEW R, Ready0(R), NEW priority \in Priorities, lab6_set_priority(priority)
    PROVE  StepGood(R)
<1> USE StrideAssumption
<1>1. BaseOK /\ RqOK(rq, Ready, R)
  BY DEF Ready0
<1>2. PICK n : n = IF priority = 0 THEN 1 ELSE priority
  OBVIOUS
<1>3. PICK k : k = rq'
  OBVIOUS
<1>4. /\ current \in Proc /\ k = [rq EXCEPT !.lab6_priority[current] = n]
      /\ sched_class' = sched_class /\ current' = current /\ need_resched' = need_resched
      /\ state' = state
  BY <1>2, <1>3 DEF lab6_set_priority
<1>5. n \in 1 .. BIG_STRIDE
  BY <1>2
<1>6. RqType(rq) /\ DOMAIN rq = RqFields
  BY <1>1 DEF RqOK, RqType, HeapType
<1>7. PICK f : f = [rq.lab6_priority EXCEPT ![current] = n]
  OBVIOUS
<1>8. f \in [Proc -> 1 .. BIG_STRIDE]
  BY <1>4, <1>5, <1>6, <1>7 DEF RqType
<1>9. /\ DOMAIN k = RqFields /\ SamePointers(rq, k) /\ k.run_list = rq.run_list
      /\ k.proc_num = rq.proc_num /\ k.lab6_run_pool = rq.lab6_run_pool
      /\ k.time_slice = rq.time_slice /\ k.lab6_stride = rq.lab6_stride /\ k.lab6_priority = f
  BY <1>4, <1>6, <1>7 DEF RqFields, SamePointers
<1>10. RqOK(k, Ready, R)
  BY <1>1, <1>6, <1>8, <1>9, RqSame DEF RqType
<1>11. BaseOK' /\ Ready' = Ready
  BY <1>1, <1>4 DEF BaseOK, Ready
<1>12. RqOK(k, Ready', R)
  BY <1>10, <1>11
<1>13. QED
  BY <1>3, <1>4, <1>9, <1>11, <1>12, NobodyScheduled

\* The clock.
LEMMA TickGood ==
    ASSUME NEW R, Ready0(R), sched_class_proc_tick
    PROVE  StepGood(R)
<1> USE StrideAssumption
<1>1. BaseOK /\ RqOK(rq, Ready, R)
  BY DEF Ready0
<1>2. PICK k : k = rq'
  OBVIOUS
<1>3. /\ sched_class' = sched_class /\ current' = current /\ state' = state
      /\ need_resched' \subseteq need_resched \cup {current}
  BY DEF sched_class_proc_tick
<1>4. BaseOK' /\ Ready' = Ready
  BY <1>1, <1>3 DEF BaseOK, Ready
<1>5. RqOK(k, Ready, R) /\ k.lab6_stride = rq.lab6_stride
  <2>1. CASE k = rq
    BY <1>1, <2>1
  <2>2. CASE k # rq
    <3>1. PICK n : n = Ticked(current)
      OBVIOUS
    <3>2. k = [rq EXCEPT !.time_slice[current] = n] /\ current \in Proc
      BY <1>1, <1>2, <2>2, <3>1 DEF sched_class_proc_tick, BaseOK
    <3>3. RqType(rq) /\ DOMAIN rq = RqFields
      BY <1>1 DEF RqOK, RqType, HeapType
    <3>4. n \in 0 .. MAX_TIME_SLICE
      <4>1. rq.time_slice[current] \in 0 .. MAX_TIME_SLICE
        BY <3>2, <3>3 DEF RqType
      <4>2. QED
        BY <3>1, <4>1 DEF Ticked
    <3>5. PICK f : f = [rq.time_slice EXCEPT ![current] = n]
      OBVIOUS
    <3>6. f \in [Proc -> 0 .. MAX_TIME_SLICE]
      BY <3>2, <3>3, <3>4, <3>5 DEF RqType
    <3>7. /\ DOMAIN k = RqFields /\ SamePointers(rq, k) /\ k.run_list = rq.run_list
          /\ k.proc_num = rq.proc_num /\ k.lab6_run_pool = rq.lab6_run_pool
          /\ k.time_slice = f /\ k.lab6_stride = rq.lab6_stride
          /\ k.lab6_priority = rq.lab6_priority
      BY <3>2, <3>3, <3>5 DEF RqFields, SamePointers
    <3>8. QED
      BY <1>1, <3>3, <3>6, <3>7, RqSame DEF RqType
  <2>3. QED
    BY <2>1, <2>2
<1>6. RqOK(k, Ready', R)
  BY <1>4, <1>5
<1>7. QED
  BY <1>2, <1>3, <1>4, <1>5, <1>6, NobodyScheduled

\* wakeup_proc of the member of T, or of nobody.
LEMMA WokenGood ==
    ASSUME NEW q, NEW S, NEW R, RqOK(q, S, R), sched_class \in Classes,
           NEW T, T \subseteq Proc \ S, current \notin T, NEW x \in Proc, T \subseteq {x},
           sched_class = "stride" => Decides(q, S, T, R), NEW k, k = WokenAny(q, T)
    PROVE  RqOK(k, S \cup T, R) /\ SamePasses(q, k)
<1>1. CASE T = {}
  <2>1. k = q /\ S \cup T = S
    BY <1>1 DEF WokenAny
  <2>2. QED
    BY <2>1 DEF SamePasses
<1>2. CASE T = {x}
  <2>1. (CHOOSE p \in T : TRUE) = x
    BY <1>2
  <2>2. k = sched_class_enqueue(q, x) /\ x \in Proc \ S
    BY <1>2, <2>1 DEF WokenAny, Woken
  <2>3. sched_class = "stride" => Decides(q, S, {x}, R)
    BY <1>2
  <2>4. RqOK(k, S \cup {x}, R) /\ SamePasses(q, k)
    BY <2>2, <2>3, EnqueueGood
  <2>5. QED
    BY <1>2, <2>4
<1>3. QED
  BY <1>1, <1>2

\* The queue without what was left of a process that exits.
Forgotten(q, p) ==
    [q EXCEPT !.lab6_stride[p] = 0, !.lab6_priority[p] = 1, !.time_slice[p] = 0]

\* It is as good as before.
LEMMA ForgottenGood ==
    ASSUME NEW q, NEW S, NEW R, RqOK(q, S, R), NEW p \in Proc, NEW k, k = Forgotten(q, p)
    PROVE  RqOK(k, S, R) /\ \A x \in Proc \ {p} : k.lab6_stride[x] = q.lab6_stride[x]
<1> USE StrideAssumption
<1>1. RqType(q) /\ DOMAIN q = RqFields
  BY DEF RqOK, RqType, HeapType
<1>2. /\ q.time_slice \in [Proc -> 0 .. MAX_TIME_SLICE]
      /\ q.lab6_stride \in [Proc -> 0 .. Word - 1]
      /\ q.lab6_priority \in [Proc -> 1 .. BIG_STRIDE]
  BY <1>1 DEF RqType
<1>3. PICK f, g, h : /\ f = [q.lab6_stride EXCEPT ![p] = 0] /\ g = [q.lab6_priority EXCEPT ![p] = 1]
                     /\ h = [q.time_slice EXCEPT ![p] = 0]
  OBVIOUS
<1>4. /\ f \in [Proc -> 0 .. Word - 1] /\ g \in [Proc -> 1 .. BIG_STRIDE]
      /\ h \in [Proc -> 0 .. MAX_TIME_SLICE]
      /\ \A x \in Proc \ {p} : f[x] = q.lab6_stride[x]
  BY <1>2, <1>3
<1>5. k = [q EXCEPT !.lab6_stride = f, !.lab6_priority = g, !.time_slice = h]
  BY <1>3 DEF Forgotten
<1>6. /\ DOMAIN k = RqFields /\ SamePointers(q, k) /\ k.run_list = q.run_list
      /\ k.proc_num = q.proc_num /\ k.lab6_run_pool = q.lab6_run_pool
      /\ k.time_slice = h /\ k.lab6_stride = f /\ k.lab6_priority = g
  BY <1>1, <1>5 DEF RqFields, SamePointers
<1>7. QED
  BY <1>4, <1>6, RqSame

\* do_exit: the one that exits leaves, and whoever it wakes joins.
LEMMA ExitGood ==
    ASSUME NEW R, Ready0(R), NEW woken \in SUBSET Sleepers, do_exit(woken)
    PROVE  StepGood(R)
<1> USE StrideAssumption
<1>1. /\ BaseOK /\ RqOK(rq, Ready, R)
      /\ sched_class = "stride" => Decides(rq, Alive \cup Alive', Alive \cup Alive', R)
  BY DEF Ready0
<1>2. PICK T, U : T = woken \ {initproc} /\ U = woken \cap {initproc}
  OBVIOUS
<1>3. PICK q0 : q0 = Forgotten(rq, current)
  OBVIOUS
<1>4. PICK q1 : q1 = WokenAny(q0, T)
  OBVIOUS
<1>5. PICK q2 : q2 = WokenAny(q1, U)
  OBVIOUS
<1>6. PICK st : st = [p \in DOMAIN state |-> IF p = current THEN "ZOMBIE"
                                            ELSE IF p \in woken THEN "RUNNABLE" ELSE state[p]]
  OBVIOUS
<1>7. /\ current \in Proc \ {initproc} /\ Cardinality(T) <= 1
      /\ schedule(q2, st) /\ sched_class' = sched_class
  BY <1>2, <1>3, <1>4, <1>5, <1>6 DEF do_exit, Forgotten
<1>8. woken \subseteq Proc /\ woken \cap Ready = {} /\ current \notin woken
  BY <1>1 DEF Sleepers, Ready, BaseOK
<1>9. /\ st \in [Proc \cup {idleproc} -> States] /\ st[idleproc] = "RUNNABLE"
  <2>1. state \in [Proc \cup {idleproc} -> States] /\ state[idleproc] = "RUNNABLE"
    BY <1>1 DEF BaseOK
  <2>2. DOMAIN state = Proc \cup {idleproc}
    BY <2>1
  <2>3. ASSUME NEW p \in Proc \cup {idleproc} PROVE st[p] \in States
    BY <1>6, <2>1, <2>2 DEF States
  <2>4. QED
    BY <1>6, <1>7, <2>1, <2>2, <2>3
<1>10. PICK A : A = CanRun(st)
  OBVIOUS
<1>11. A = Ready \cup woken /\ A = A \ {current} /\ A \subseteq Proc
  <2>1. DOMAIN state = Proc \cup {idleproc}
    BY <1>1 DEF BaseOK
  <2>2. QED
    BY <1>6, <1>8, <1>10, <2>1 DEF CanRun, Ready
<1>12. Alive' = A
  <2>1. state' = st
    BY <1>7 DEF schedule
  <2>2. QED
    BY <1>10, <2>1 DEF Alive, CanRun
<1>13. RqOK(q0, Ready, R) /\ \A x \in Proc \ {current} : q0.lab6_stride[x] = rq.lab6_stride[x]
  BY <1>1, <1>3, <1>7, ForgottenGood
<1>14. sched_class = "stride" => Decides(q0, A, A, R)
  <2>1. \A x \in A \cup A : q0.lab6_stride[x] = rq.lab6_stride[x]
    BY <1>11, <1>13
  <2>2. sched_class = "stride" => Decides(rq, A, A, R)
    BY <1>1, <1>12 DEF Decides
  <2>3. QED
    BY <2>1, <2>2, DecidesPart
<1>15. PICK x \in Proc : T \subseteq {x}
  <2>1. CASE T = {}
    BY <2>1
  <2>2. CASE T # {}
    <3>1. PICK x \in T : TRUE
      BY <2>2
    <3>2. T \subseteq Proc /\ IsFiniteSet(T) /\ Cardinality(T) \in Nat
      BY <1>2, <1>8, FS_Subset, FS_CardinalityType
    <3>3. IsFiniteSet(T \ {x}) /\ Cardinality(T \ {x}) = Cardinality(T) - 1
      BY <3>1, <3>2, FS_RemoveElement
    <3>4. Cardinality(T \ {x}) \in Nat
      BY <3>3, FS_CardinalityType
    <3>5. Cardinality(T \ {x}) = 0
      BY <1>7, <3>2, <3>3, <3>4
    <3>6. T \ {x} = {}
      BY <3>3, <3>5, FS_EmptySet
    <3>7. QED
      BY <3>1, <3>2, <3>6
  <2>3. QED
    BY <2>1, <2>2
<1>16. RqOK(q1, Ready \cup T, R) /\ SamePasses(q0, q1)
  <2>1. T \subseteq Proc \ Ready /\ current \notin T /\ sched_class \in Classes
    BY <1>1, <1>2, <1>8 DEF BaseOK
  <2>2. sched_class = "stride" => Decides(q0, Ready, T, R)
    BY <1>2, <1>11, <1>14 DEF Decides
  <2>3. QED
    BY <1>4, <1>13, <1>15, <2>1, <2>2, WokenGood
<1>17. RqOK(q2, A, R) /\ SamePasses(q1, q2)
  <2>1. PICK S : S = Ready \cup T
    OBVIOUS
  <2>2. U \subseteq Proc \ S /\ current \notin U /\ U \subseteq {initproc} /\ sched_class \in Classes
        /\ S \cup U = A /\ initproc \in Proc
    BY <1>1, <1>2, <1>8, <1>11, <2>1 DEF BaseOK
  <2>3. sched_class = "stride" => Decides(q1, S, U, R)
    <3>1. \A y \in A \cup A : q1.lab6_stride[y] = q0.lab6_stride[y]
      BY <1>16 DEF SamePasses
    <3>2. S \subseteq A /\ U \subseteq A
      BY <2>2
    <3>3. QED
      BY <1>14, <3>1, <3>2, DecidesPart
  <2>4. RqOK(q2, S \cup U, R) /\ SamePasses(q1, q2)
    BY <1>5, <1>16, <2>1, <2>2, <2>3, WokenGood
  <2>5. QED
    BY <2>2, <2>4
<1>18. \A p \in A : q2.lab6_stride[p] = rq.lab6_stride[p]
  BY <1>11, <1>13, <1>16, <1>17 DEF SamePasses
<1>19. sched_class = "stride" => Decides(q2, A, A, R)
  <2>1. \A y \in A \cup A : q2.lab6_stride[y] = q0.lab6_stride[y]
    BY <1>16, <1>17 DEF SamePasses
  <2>2. QED
    BY <1>14, <2>1, DecidesPart
<1>20. PICK S : S = A
  OBVIOUS
<1>21. RqOK(q2, S, R) /\ S = A \ {current}
  BY <1>11, <1>17, <1>20
<1>22. QED
  BY <1>1, <1>7, <1>9, <1>10, <1>18, <1>19, <1>21, EndsInSchedule

\* Every step.
LEMMA NextGood ==
    ASSUME NEW R, Ready0(R), Next
    PROVE  StepGood(R)
<1>1. ASSUME NEW p \in Proc, do_fork(p) PROVE StepGood(R)
  BY <1>1, ForkGood
<1>2. ASSUME do_wait PROVE StepGood(R)
  BY <1>2, WaitGood
<1>3. ASSUME NEW woken \in SUBSET Sleepers, do_exit(woken) PROVE StepGood(R)
  BY <1>3, ExitGood
<1>4. ASSUME do_yield \/ trap_return PROVE StepGood(R)
  BY <1>4, YieldGood
<1>5. ASSUME NEW n \in Priorities, lab6_set_priority(n) PROVE StepGood(R)
  BY <1>5, PriorityGood
<1>6. ASSUME sched_class_proc_tick PROVE StepGood(R)
  BY <1>6, TickGood
<1>7. QED
  BY <1>1, <1>2, <1>3, <1>4, <1>5, <1>6 DEF Next

-----------------------------------------------------------------------------
(***************************************************************************)
(* ReadyExact.                                                              *)
(***************************************************************************)
\* The children of a node, and the nodes the pointers reach from the root.
BelowIn(q, p) == {q.left[p], q.right[p]} \ {NULL}

Reached(q) ==
    {p \in Proc : \A S \in SUBSET Proc :
       {q.lab6_run_pool} \ {NULL} \subseteq S /\ (\A r \in S : BelowIn(q, r) \subseteq S) => p \in S}

\* The nodes the pointers reach from the root are those of the heap.
LEMMA PoolIsTree ==
    ASSUME NEW q, NEW S, NEW D, NEW R, PoolOK(q, S, D, R)
    PROVE  Reached(q) = S /\ Tree(q, S, D, R)
<1> USE StrideAssumption
<1>1. PICK t : t = q.lab6_run_pool
  OBVIOUS
<1>2. t \in Proc \cup {NULL} /\ Tree(q, Proc, D, R) /\ D[t] = S /\ S \subseteq Proc /\ HeapType(q)
  BY <1>1 DEF PoolOK, Ptr
<1>3. Tree(q, S, D, R) /\ (t # NULL => t \in S)
  <2>1. Tree(q, D[t], D, R) /\ (t # NULL => t \in D[t])
    BY <1>2, TreePart
  <2>2. QED
    BY <1>2, <2>1
<1>4. \A r \in S : BelowIn(q, r) \subseteq S
  <2>1. ASSUME NEW r \in S PROVE BelowIn(q, r) \subseteq S
    <3>1. NodeOK(q, S, D, R, r)
      BY <1>3 DEF Tree
    <3>2. QED
      BY <3>1 DEF NodeOK, BelowIn
  <2>2. QED
    BY <2>1
<1>5. Reached(q) \subseteq S
  BY <1>1, <1>2, <1>3, <1>4 DEF Reached
<1>6. ASSUME NEW T \in SUBSET Proc, {t} \ {NULL} \subseteq T, \A r \in T : BelowIn(q, r) \subseteq T
      PROVE  S \subseteq T
  <2>1. CASE t = NULL
    BY <1>2, <2>1 DEF Tree
  <2>2. CASE t # NULL
    <3>1. PICK Q : Q = {xy \in Proc \X Proc : xy[1] \in T => xy[2] \in T}
      OBVIOUS
    <3>2. \A x, y \in Proc : <<x, y>> \in Q <=> (x \in T => y \in T)
      BY <3>1
    <3>3. ASSUME NEW p \in S PROVE NodeOK(q, S, D, Q, p)
      <4>1. NodeOK(q, S, D, R, p) /\ p \in Proc
        BY <1>2, <1>3 DEF Tree
      <4>2. \A c \in BelowIn(q, p) : c \in Proc /\ <<p, c>> \in Q
        BY <1>2, <1>4, <1>6, <3>2, <4>1
      <4>3. /\ q.left[p] # NULL => <<p, q.left[p]>> \in Q
            /\ q.right[p] # NULL => <<p, q.right[p]>> \in Q
        BY <4>2 DEF BelowIn
      <4>4. QED
        BY <4>1, <4>3 DEF NodeOK
    <3>4. Tree(q, S, D, Q)
      BY <1>3, <3>3 DEF Tree
    <3>5. Chained(S, Q)
      BY <1>2, <3>2 DEF Chained
    <3>6. \A y \in D[t] : y = t \/ <<t, y>> \in Q
      BY <1>3, <2>2, <3>4, <3>5, RootFirst
    <3>7. t \in T
      BY <1>6, <2>2
    <3>8. QED
      BY <1>2, <2>2, <3>2, <3>6, <3>7
  <2>3. QED
    BY <2>1, <2>2
<1>7. S \subseteq Reached(q)
  BY <1>1, <1>2, <1>6 DEF Reached
<1>8. QED
  BY <1>3, <1>5, <1>7

\* Every pair of processes.
AllPairs == Proc \X Proc

\* The inductive invariant.
StrideInv == BaseOK /\ RqOK(rq, Ready, AllPairs)

\* It says what ReadyExact says.
LEMMA InvExact == StrideInv => ReadyExact
<1> USE StrideAssumption
<1> SUFFICES ASSUME StrideInv PROVE ReadyExact
  OBVIOUS
<1>1. BaseOK /\ RqOK(rq, Ready, AllPairs) /\ RqType(rq)
  BY DEF StrideInv, RqOK
<1>2. TypeOK
  BY <1>1 DEF BaseOK, RqType, HeapType, TypeOK, States
<1>3. rq.proc_num = Cardinality(Ready)
  BY <1>1 DEF RqOK
<1>4. ASSUME sched_class = "stride"
      PROVE  /\ Pool = Ready
             /\ rq.lab6_run_pool # NULL => rq.up[rq.lab6_run_pool] = NULL
             /\ \A p \in Pool : rq.left[p] # NULL => rq.left[p] # rq.right[p]
             /\ \A p \in Pool : \A c \in Below(p) : rq.up[c] = p
  <2>1. PICK D : PoolOK(rq, Ready, D, AllPairs)
    BY <1>1, <1>4 DEF RqOK, PoolGood
  <2>2. Pool = Ready /\ Tree(rq, Ready, D, AllPairs)
    <3>1. Reached(rq) = Ready /\ Tree(rq, Ready, D, AllPairs)
      BY <2>1, PoolIsTree
    <3>2. QED
      BY <3>1 DEF Pool, Reached, Below, BelowIn
  <2>3. ASSUME NEW p \in Ready
        PROVE  /\ rq.left[p] # NULL => rq.left[p] # rq.right[p]
               /\ \A c \in Below(p) : rq.up[c] = p
    <3>1. NodeOK(rq, Ready, D, AllPairs, p)
      BY <2>2 DEF Tree
    <3>2. \A c \in Below(p) : rq.up[c] = p
      BY <3>1 DEF NodeOK, Below
    <3>3. ASSUME rq.left[p] # NULL, rq.left[p] = rq.right[p] PROVE FALSE
      <4>1. PICK c : c = rq.left[p]
        OBVIOUS
      <4>2. c \in Ready /\ D[c] \cap D[c] = {}
        BY <3>1, <3>3, <4>1 DEF NodeOK
      <4>3. c \in D[c]
        BY <2>2, <4>2, SelfBelow
      <4>4. QED
        BY <4>2, <4>3
    <3>4. QED
      BY <3>2, <3>3
  <2>4. QED
    BY <2>1, <2>2, <2>3 DEF PoolOK
<1>5. ASSUME sched_class # "stride" PROVE ToSet(rq.run_list) = Ready /\ IsInjective(rq.run_list)
  BY <1>1, <1>5 DEF RqOK
<1>6. QED
  BY <1>2, <1>3, <1>4, <1>5 DEF ReadyExact

\* Whatever is compared, AllPairs holds of it.
LEMMA AllDecide ==
    ASSUME NEW q, NEW A, A \subseteq Proc
    PROVE  Decides(q, A, A, AllPairs)
BY DEF Decides, AllPairs

\* sched_init and proc_init.
LEMMA InitStride == Init => StrideInv
<1> USE StrideAssumption
<1> SUFFICES ASSUME Init PROVE StrideInv
  OBVIOUS
<1>1. PICK none, zero, one : none = [p \in Proc |-> NULL] /\ zero = [p \in Proc |-> 0] /\ one = [p \in Proc |-> 1]
  OBVIOUS
<1>2. PICK q : q = [run_list |-> <<>>, proc_num |-> 0, lab6_run_pool |-> NULL,
                    left |-> none, right |-> none, up |-> none, time_slice |-> zero,
                    lab6_stride |-> zero, lab6_priority |-> one]
  OBVIOUS
<1>3. /\ sched_class \in Classes /\ rq = sched_class_enqueue(q, initproc)
      /\ current = idleproc /\ need_resched = {idleproc}
      /\ state = [p \in Proc \cup {idleproc} |->
                   IF p \in {idleproc, initproc} THEN "RUNNABLE" ELSE "UNINIT"]
  BY <1>1, <1>2 DEF Init
<1>4. BaseOK
  BY <1>3 DEF BaseOK, States
<1>5. Ready = {initproc}
  BY <1>3 DEF Ready
<1>6. /\ none \in [Proc -> Ptr] /\ zero \in [Proc -> 0 .. MAX_TIME_SLICE]
      /\ zero \in [Proc -> 0 .. Word - 1] /\ one \in [Proc -> 1 .. BIG_STRIDE]
  BY <1>1 DEF Ptr
<1>7. /\ DOMAIN q = RqFields /\ q.left = none /\ q.right = none /\ q.up = none
      /\ q.run_list = <<>> /\ q.proc_num = 0 /\ q.lab6_run_pool = NULL
      /\ q.time_slice = zero /\ q.lab6_stride = zero /\ q.lab6_priority = one
  BY <1>2 DEF RqFields
<1>8. HeapType(q) /\ RqType(q)
  BY <1>6, <1>7 DEF HeapType, RqType
<1>9. PoolGood(q, {}, AllPairs)
  <2>1. PICK E : E = [x \in Ptr |-> {}]
    OBVIOUS
  <2>2. Tree(q, {}, E, AllPairs) /\ E[NULL] = {}
    BY <2>1 DEF Tree, Ptr
  <2>3. NULL \in Ptr
    BY DEF Ptr
  <2>4. Rooted(q, {}, E, AllPairs, NULL)
    BY <1>1, <1>7, <1>8, <2>2 DEF Rooted
  <2>5. QED
    BY <2>3, <2>4, PoolMade
<1>10. RqOK(q, {}, AllPairs)
  <2>1. Cardinality({}) = 0
    BY FS_EmptySet
  <2>2. ToSet(q.run_list) = {} /\ IsInjective(q.run_list)
    BY <1>7 DEF ToSet, IsInjective
  <2>3. QED
    BY <1>7, <1>8, <1>9, <2>1, <2>2 DEF RqOK
<1>11. RqOK(rq, {} \cup {initproc}, AllPairs)
  <2>1. Decides(q, {}, {initproc}, AllPairs)
    BY DEF Decides
  <2>2. QED
    BY <1>3, <1>10, <2>1, EnqueueGood
<1>12. RqOK(rq, Ready, AllPairs)
  <2>1. {} \cup {initproc} = Ready
    BY <1>5
  <2>2. QED
    BY <1>11, <2>1
<1>13. QED
  BY <1>4, <1>12 DEF StrideInv

\* Every step keeps it.
LEMMA StrideStep == StrideInv /\ [Next]_vars => StrideInv'
<1> SUFFICES ASSUME StrideInv, [Next]_vars PROVE StrideInv'
  OBVIOUS
<1>1. CASE Next
  <2>1. Ready0(AllPairs)
    <3>1. Alive \subseteq Proc /\ Alive' \subseteq Proc
      BY DEF Alive
    <3>2. Decides(rq, Alive \cup Alive', Alive \cup Alive', AllPairs)
      BY <3>1, AllDecide
    <3>3. QED
      BY <3>2 DEF Ready0, StrideInv
  <2>2. StepGood(AllPairs)
    BY <1>1, <2>1, NextGood
  <2>3. BaseOK' /\ sched_class' = sched_class /\ RqOK(rq', Alive' \ {current'}, AllPairs)
    BY <2>2 DEF StepGood, Kept
  <2>4. Ready' = Alive' \ {current'}
    BY DEF Ready, Alive
  <2>5. RqOK(rq, Ready, AllPairs)'
    BY <2>3, <2>4 DEF RqOK
  <2>6. QED
    BY <2>3, <2>5 DEF StrideInv
<1>2. CASE UNCHANGED vars
  BY <1>2 DEF vars, StrideInv, BaseOK, RqOK, Ready
<1>3. QED
  BY <1>1, <1>2

\* Under each of the three classes, for any number of processes and whatever they set their
\* priorities to, the ready processes are exactly those in the run queue: the heap loses and
\* duplicates nobody.
THEOREM ReadyAlwaysExact == Spec => []ReadyExact
<1>1. Spec => []StrideInv
  BY InitStride, StrideStep, PTL DEF Spec
<1>2. QED
  BY <1>1, InvExact, PTL

-----------------------------------------------------------------------------
(***************************************************************************)
(* OrderKept.                                                               *)
(***************************************************************************)
\* How far the stride t is ahead of s.
Dist(s, t) == (t - s) % Word

Strides == 0 .. Word - 1

\* The difference of two words.
LEMMA DistValue ==
    ASSUME NEW s \in Strides, NEW t \in Strides
    PROVE  Dist(s, t) = IF t >= s THEN t - s ELSE t - s + Word
<1>1. Word \in Nat \ {0} /\ s \in Int /\ t \in Int /\ 0 <= s /\ s < Word /\ 0 <= t /\ t < Word
  BY StrideAssumption DEF Strides
<1>2. PICK d : d = t - s
  OBVIOUS
<1>3. d \in Int /\ -Word < d /\ d < Word
  BY <1>1, <1>2
<1>4. CASE d >= 0
  <2>1. d % Word = d
    BY <1>1, <1>3, <1>4
  <2>2. QED
    BY <1>1, <1>2, <1>4, <2>1 DEF Dist
<1>5. CASE d < 0
  <2>1. d % Word = d + Word
    BY <1>1, <1>3, <1>5
  <2>2. QED
    BY <1>1, <1>2, <1>5, <2>1 DEF Dist
<1>6. QED
  BY <1>3, <1>4, <1>5

\* Distances from a third stride.
LEMMA DistFrom ==
    ASSUME NEW b \in Strides, NEW s \in Strides, NEW t \in Strides,
           NEW x, x = Dist(b, s), NEW y, y = Dist(b, t)
    PROVE  x \in Nat /\ y \in Nat /\ Dist(s, t) = IF y >= x THEN y - x ELSE y - x + Word
<1>1. Word \in Nat \ {0} /\ s \in Int /\ t \in Int /\ b \in Int
      /\ 0 <= s /\ s < Word /\ 0 <= t /\ t < Word /\ 0 <= b /\ b < Word
  BY StrideAssumption DEF Strides
<1>2. x = IF s >= b THEN s - b ELSE s - b + Word
  BY DistValue
<1>3. y = IF t >= b THEN t - b ELSE t - b + Word
  BY DistValue
<1>4. Dist(s, t) = IF t >= s THEN t - s ELSE t - s + Word
  BY DistValue
<1>5. QED
  BY ONLY <1>1, <1>2, <1>3, <1>4

\* A stride that advances by d is ahead of itself by d.
LEMMA DistPass ==
    ASSUME NEW b \in Strides, NEW d \in 0 .. BIG_STRIDE, NEW t, t = (b + d) % Word
    PROVE  t \in Strides /\ Dist(b, t) = d
<1>1. Word \in Nat \ {0} /\ b \in Int /\ 0 <= b /\ b < Word /\ d \in Int /\ 0 <= d /\ d < Word
  BY StrideAssumption DEF Strides
<1>2. PICK e : e = b + d
  OBVIOUS
<1>3. e \in Int /\ 0 <= e /\ e < Word + Word
  BY <1>1, <1>2
<1>4. CASE e < Word
  <2>1. e % Word = e
    BY <1>1, <1>3, <1>4
  <2>2. t = e /\ t \in Strides
    BY <1>1, <1>2, <1>3, <1>4, <2>1 DEF Strides
  <2>3. QED
    BY <1>1, <1>2, <2>2, DistValue
<1>5. CASE e >= Word
  <2>1. e % Word = e - Word
    BY <1>1, <1>3, <1>5
  <2>2. t = e - Word /\ t \in Strides
    BY <1>1, <1>2, <1>3, <1>5, <2>1 DEF Strides
  <2>3. QED
    BY <1>1, <1>2, <2>2, DistValue
<1>6. QED
  BY <1>1, <1>3, <1>4, <1>5

\* The pairs of which the second is ahead of the first by at most BIG_STRIDE.
Near(f) == {xy \in Proc \X Proc : Dist(f[xy[1]], f[xy[2]]) <= BIG_STRIDE}

\* From the stride b, the strides f of V lie ahead by at most BIG_STRIDE.
Within(f, V, b) == b \in Strides /\ \A p \in V : Dist(b, f[p]) <= BIG_STRIDE

\* Then they lie so from the least of them, too.
LEMMA WindowMade ==
    ASSUME NEW f \in [Proc -> Strides], NEW V, V \subseteq Proc, V # {}, NEW b, Within(f, V, b)
    PROVE  \E m \in V : \A p \in V : Dist(f[m], f[p]) <= BIG_STRIDE
<1>1. b \in Strides /\ \A p \in V : f[p] \in Strides /\ Dist(b, f[p]) <= BIG_STRIDE
  BY DEF Within
<1>2. PICK T : T = {Dist(b, f[p]) : p \in V}
  OBVIOUS
<1>3. T \subseteq Nat /\ T # {}
  BY <1>1, <1>2, DistFrom
<1>4. PICK n \in T : \A j \in T : n <= j
  BY <1>3, LeastNatural
<1>5. PICK m \in V : n = Dist(b, f[m])
  BY <1>2, <1>4
<1>6. ASSUME NEW p \in V PROVE Dist(f[m], f[p]) <= BIG_STRIDE
  <2>1. PICK x, y : x = Dist(b, f[m]) /\ y = Dist(b, f[p])
    OBVIOUS
  <2>2. x <= y /\ y <= BIG_STRIDE
    BY <1>1, <1>2, <1>4, <1>5, <2>1
  <2>3. x \in Nat /\ y \in Nat /\ Dist(f[m], f[p]) = IF y >= x THEN y - x ELSE y - x + Word
    BY <1>1, <2>1, DistFrom
  <2>4. QED
    BY <2>2, <2>3, StrideAssumption
<1>7. QED
  BY <1>6

\* Strides in such a window are compared rightly, which is why BIG_STRIDE is less than half a
\* word, and being ahead is transitive.
LEMMA WindowDecides ==
    ASSUME BIG_STRIDE < Word \div 2,
           NEW q, NEW f, f = q.lab6_stride, f \in [Proc -> Strides],
           NEW V, V \subseteq Proc, NEW b, Within(f, V, b)
    PROVE  Decides(q, V, V, Near(f)) /\ Chained(V, Near(f))
<1>1. b \in Strides /\ \A p \in V : p \in Proc /\ f[p] \in Strides /\ Dist(b, f[p]) <= BIG_STRIDE
  BY DEF Within
<1>2. \A x, y \in V : <<x, y>> \in Near(f) <=> Dist(f[x], f[y]) <= BIG_STRIDE
  BY <1>1 DEF Near
<1>3. PICK half : half = Word \div 2
  OBVIOUS
<1>4. Word \in Nat /\ half \in Int /\ 2 * half <= Word /\ BIG_STRIDE \in Nat /\ BIG_STRIDE < half
  BY <1>3, StrideAssumption
<1>5. ASSUME NEW x \in V, NEW y \in V
      PROVE  IF proc_stride_comp_f(q, x, y) = -1 THEN <<x, y>> \in Near(f) ELSE <<y, x>> \in Near(f)
  <2>1. PICK u, w : u = Dist(b, f[x]) /\ w = Dist(b, f[y])
    OBVIOUS
  <2>2. u \in Nat /\ w \in Nat /\ u <= BIG_STRIDE /\ w <= BIG_STRIDE
    BY <1>1, <2>1, DistFrom
  <2>3. Dist(f[x], f[y]) = IF w >= u THEN w - u ELSE w - u + Word
    BY <1>1, <2>1, DistFrom
  <2>4. Dist(f[y], f[x]) = IF u >= w THEN u - w ELSE u - w + Word
    BY <1>1, <2>1, DistFrom
  <2>5. PICK c : c = Dist(f[y], f[x])
    OBVIOUS
  <2>6. proc_stride_comp_f(q, x, y) = IF c = 0 THEN 0 ELSE IF c < half THEN 1 ELSE -1
    BY <1>3, <2>5 DEF proc_stride_comp_f, Dist
  <2>7. CASE u < w
    <3>1. c # 0 /\ ~(c < half) /\ Dist(f[x], f[y]) <= BIG_STRIDE
      BY <1>4, <2>2, <2>3, <2>4, <2>5, <2>7
    <3>2. QED
      BY <1>2, <2>6, <3>1
  <2>8. CASE u >= w
    <3>1. c = u - w /\ c \in Nat /\ c <= BIG_STRIDE /\ c < half
      BY <1>4, <2>2, <2>4, <2>5, <2>8
    <3>2. proc_stride_comp_f(q, x, y) # -1
      BY <2>6, <3>1
    <3>3. QED
      BY <1>2, <2>5, <3>1, <3>2
  <2>9. QED
    BY <2>2, <2>7, <2>8
<1>6. ASSUME NEW x \in V, NEW y \in V, NEW z \in V, <<x, y>> \in Near(f), <<y, z>> \in Near(f)
      PROVE  <<x, z>> \in Near(f)
  <2>1. PICK u, w, v : u = Dist(b, f[x]) /\ w = Dist(b, f[y]) /\ v = Dist(b, f[z])
    OBVIOUS
  <2>2. u \in Nat /\ w \in Nat /\ v \in Nat /\ u <= BIG_STRIDE /\ w <= BIG_STRIDE /\ v <= BIG_STRIDE
    BY <1>1, <2>1, DistFrom
  <2>3. Dist(f[x], f[y]) = IF w >= u THEN w - u ELSE w - u + Word
    BY <1>1, <2>1, DistFrom
  <2>4. Dist(f[y], f[z]) = IF v >= w THEN v - w ELSE v - w + Word
    BY <1>1, <2>1, DistFrom
  <2>5. Dist(f[x], f[z]) = IF v >= u THEN v - u ELSE v - u + Word
    BY <1>1, <2>1, DistFrom
  <2>6. Dist(f[x], f[y]) <= BIG_STRIDE /\ Dist(f[y], f[z]) <= BIG_STRIDE
    BY <1>2, <1>6
  <2>7. u <= w /\ w <= v
    BY <1>4, <2>2, <2>3, <2>4, <2>6
  <2>8. Dist(f[x], f[z]) <= BIG_STRIDE
    BY <1>4, <2>2, <2>5, <2>7
  <2>9. QED
    BY <1>2, <2>8
<1>7. QED
  BY <1>5, <1>6 DEF Decides, Chained

\* A heap is ordered by R when R holds of each node and those right below it.
LEMMA PoolOrdered ==
    ASSUME NEW q, NEW S, NEW R, PoolGood(q, S, R), NEW Q,
           \A p \in S : \A c \in BelowIn(q, p) : <<p, c>> \in Q
    PROVE  PoolGood(q, S, Q)
<1>1. PICK D : PoolOK(q, S, D, R)
  BY DEF PoolGood
<1>2. ASSUME NEW p \in Proc PROVE NodeOK(q, Proc, D, Q, p)
  <2>1. NodeOK(q, Proc, D, R, p)
    BY <1>1 DEF PoolOK, Tree
  <2>2. /\ q.left[p] # NULL => <<p, q.left[p]>> \in Q
        /\ q.right[p] # NULL => <<p, q.right[p]>> \in Q
    <3>1. CASE p \in S
      BY <3>1 DEF BelowIn
    <3>2. CASE p \notin S
      BY <1>1, <3>2 DEF PoolOK
    <3>3. QED
      BY <3>1, <3>2
  <2>3. QED
    BY <2>1, <2>2 DEF NodeOK
<1>3. Tree(q, Proc, D, Q)
  BY <1>1, <1>2 DEF PoolOK, Tree
<1>4. PoolOK(q, S, D, Q)
  BY <1>1, <1>3 DEF PoolOK
<1>5. QED
  BY <1>4 DEF PoolGood

\* And then R holds of the nodes that are reached.
LEMMA ReachedOrdered ==
    ASSUME NEW q, NEW S, NEW R, PoolGood(q, S, R)
    PROVE  Reached(q) = S /\ \A p \in S : \A c \in BelowIn(q, p) : c \in S /\ <<p, c>> \in R
<1>1. PICK D : PoolOK(q, S, D, R)
  BY DEF PoolGood
<1>2. Reached(q) = S /\ Tree(q, S, D, R)
  BY <1>1, PoolIsTree
<1>3. ASSUME NEW p \in S PROVE \A c \in BelowIn(q, p) : c \in S /\ <<p, c>> \in R
  <2>1. NodeOK(q, S, D, R, p)
    BY <1>2 DEF Tree
  <2>2. QED
    BY <2>1 DEF NodeOK, BelowIn
<1>4. QED
  BY <1>2, <1>3

\* After the pass of c, the first of W, the strides still lie in a window; so they do if
\* none has changed.
LEMMA WindowKept ==
    ASSUME NEW f, f = rq.lab6_stride, f \in [Proc -> Strides], NEW W, W \subseteq Proc, W # {},
           NEW b, Within(f, W, b), Chained(W, Near(f)),
           NEW R, R = Near(f), NEW c, NEW k, sched_class = "stride", Kept(R, W, c, k)
    PROVE  \E e : Within(k.lab6_stride, W, e)
<1>1. CASE k.lab6_stride = f
  BY <1>1
<1>2. CASE c \in W /\ Passed(W, c, k) /\ \A p \in W : p = c \/ <<c, p>> \in Near(f)
  <2>1. PICK prior \in 1 .. BIG_STRIDE : \A p \in W :
          k.lab6_stride[p] = IF p = c THEN (f[p] + BIG_STRIDE \div prior) % Word ELSE f[p]
    BY <1>2 DEF Passed
  <2>2. PICK d : d = BIG_STRIDE \div prior
    OBVIOUS
  <2>3. d \in 0 .. BIG_STRIDE
    BY <2>2, PassType
  <2>4. PICK e : e = f[c] /\ e \in Strides
    BY <1>2
  <2>5. ASSUME NEW p \in W PROVE Dist(e, k.lab6_stride[p]) <= BIG_STRIDE
    <3>1. CASE p = c
      <4>1. k.lab6_stride[p] = (e + d) % Word
        BY <2>1, <2>2, <2>4, <3>1
      <4>2. Dist(e, k.lab6_stride[p]) = d
        BY <2>3, <2>4, <4>1, DistPass
      <4>3. QED
        BY <2>3, <4>2, StrideAssumption
    <3>2. CASE p # c
      <4>1. k.lab6_stride[p] = f[p] /\ <<c, p>> \in Near(f)
        BY <1>2, <2>1, <3>2
      <4>2. QED
        BY <2>4, <4>1 DEF Near
    <3>3. QED
      BY <3>1, <3>2
  <2>6. QED
    BY <2>4, <2>5 DEF Within
<1>3. QED
  BY <1>1, <1>2 DEF Kept

\* What a step leaves, when the strides compared lie in a window before it.
LEMMA OrderStep ==
    ASSUME BIG_STRIDE < Word \div 2, StrideInv, StrideInv', sched_class = "stride", HeapOrdered,
           NEW W, W = Contenders \cup Contenders', W = {} \/ InWindow(W), Next
    PROVE  /\ Fair'
           /\ current' # current /\ current' \in Proc =>
                \A p \in Contenders' : Ahead(current', p) <= BIG_STRIDE
<1> USE StrideAssumption
<1>1. BaseOK /\ RqOK(rq, Ready, AllPairs) /\ BaseOK'
  BY DEF StrideInv
<1>2. Contenders = Alive /\ Contenders' = Alive' /\ Alive \subseteq Proc /\ Alive' \subseteq Proc
  BY <1>1 DEF BaseOK, Contenders, Ready, Alive
<1>3. PICK f, N : f = rq.lab6_stride /\ N = Near(f)
  OBVIOUS
<1>4. f \in [Proc -> Strides]
  BY <1>1, <1>3 DEF RqOK, RqType, Strides
<1>5. \A x, y \in Proc : Ahead(x, y) = Dist(f[x], f[y])
  BY <1>3 DEF Ahead, Dist
<1>6. \A x, y \in Proc : <<x, y>> \in N <=> Ahead(x, y) <= BIG_STRIDE
  BY <1>3, <1>5 DEF Near
<1>7. PICK b : W # {} => Within(f, W, b)
  <2>1. CASE W = {}
    BY <2>1
  <2>2. CASE W # {}
    <3>1. PICK a \in W : \A p \in W : Ahead(a, p) <= BIG_STRIDE
      BY <2>2 DEF InWindow
    <3>2. W \subseteq Proc
      BY <1>2
    <3>3. Within(f, W, f[a])
      BY <1>4, <1>5, <3>1, <3>2 DEF Within
    <3>4. QED
      BY <3>3
  <2>3. QED
    BY <2>1, <2>2
<1>8. Decides(rq, W, W, N) /\ Chained(W, N)
  <2>1. CASE W = {}
    BY <2>1 DEF Decides, Chained
  <2>2. CASE W # {}
    <3>1. W \subseteq Proc /\ Within(f, W, b)
      BY <1>2, <1>7, <2>2
    <3>2. QED
      BY <1>3, <1>4, <3>1, WindowDecides
  <2>3. QED
    BY <2>1, <2>2
<1>9. RqOK(rq, Ready, N)
  <2>1. PoolGood(rq, Ready, AllPairs)
    BY <1>1 DEF RqOK
  <2>2. /\ Reached(rq) = Ready
        /\ \A p \in Ready : \A c \in BelowIn(rq, p) : c \in Ready
    BY <2>1, ReachedOrdered
  <2>3. \A p \in Ready : \A c \in BelowIn(rq, p) : Ahead(p, c) <= BIG_STRIDE
    BY <2>2 DEF HeapOrdered, Pool, Below, Reached, BelowIn
  <2>4. Ready \subseteq Proc
    BY DEF Ready
  <2>5. \A p \in Ready : \A c \in BelowIn(rq, p) : <<p, c>> \in N
    BY <1>6, <2>2, <2>3, <2>4
  <2>6. PoolGood(rq, Ready, N)
    BY <2>1, <2>5, PoolOrdered
  <2>7. QED
    BY <1>1, <2>6 DEF RqOK
<1>10. StepGood(N)
  <2>1. Ready0(N)
    BY <1>1, <1>2, <1>8, <1>9 DEF Ready0
  <2>2. QED
    BY <2>1, NextGood
<1>11. PICK c, k, V : c = current' /\ k = rq' /\ V = Alive'
  OBVIOUS
<1>12. Kept(N, V, c, k) /\ sched_class' = sched_class
  BY <1>10, <1>11 DEF StepGood
<1>13. V \subseteq W /\ V \subseteq Proc /\ Chained(V, N) /\ (W # {} => Within(f, V, b))
  BY <1>2, <1>7, <1>8, <1>11 DEF Chained, Within
<1>14. V # {} => InWindow(V)'
  <2>1. SUFFICES ASSUME V # {} PROVE InWindow(V)'
    OBVIOUS
  <2>2. PICK g : g = k.lab6_stride
    OBVIOUS
  <2>3. g \in [Proc -> Strides]
    BY <1>12, <2>2 DEF Kept, RqOK, RqType, Strides
  <2>4. PICK e : Within(g, V, e)
    <3>1. Within(f, V, b)
      BY <1>13, <2>1
    <3>2. QED
      BY <1>3, <1>4, <1>12, <1>13, <2>1, <2>2, <3>1, WindowKept
  <2>5. \E m \in V : \A p \in V : Dist(g[m], g[p]) <= BIG_STRIDE
    BY <1>13, <2>1, <2>3, <2>4, WindowMade
  <2>6. QED
    BY <1>11, <2>2, <2>5 DEF InWindow, Ahead, Dist
<1>15. HeapOrdered'
  <2>1. PICK S : S = V \ {c}
    OBVIOUS
  <2>2. PoolGood(k, S, N)
    BY <1>12, <2>1 DEF Kept, RqOK
  <2>3. /\ Reached(k) = S
        /\ \A p \in S : \A x \in BelowIn(k, p) : x \in S /\ <<p, x>> \in N
    BY <2>2, ReachedOrdered
  <2>4. \A p \in S : k.lab6_stride[p] = f[p]
    <3>1. CASE k.lab6_stride = rq.lab6_stride
      BY <1>3, <3>1
    <3>2. CASE V = {}
      BY <2>1, <3>2
    <3>3. CASE Passed(V, c, k)
      BY <1>3, <2>1, <3>3 DEF Passed
    <3>4. QED
      BY <1>12, <3>1, <3>2, <3>3 DEF Kept
  <2>5. ASSUME NEW p \in S, NEW x \in BelowIn(k, p)
        PROVE  Dist(k.lab6_stride[p], k.lab6_stride[x]) <= BIG_STRIDE
    <3>1. x \in S /\ <<p, x>> \in N
      BY <2>3
    <3>2. p \in Proc /\ x \in Proc
      BY <1>13, <2>1, <3>1
    <3>3. Dist(f[p], f[x]) <= BIG_STRIDE
      BY <1>5, <1>6, <3>1, <3>2
    <3>4. QED
      BY <2>4, <3>1, <3>3
  <2>6. QED
    BY <1>11, <2>3, <2>5 DEF HeapOrdered, Pool, Below, Ahead, Reached, BelowIn, Dist
<1>16. Fair'
  BY <1>2, <1>11, <1>14, <1>15 DEF Fair
<1>17. ASSUME c # current, c \in Proc PROVE \A p \in V : Ahead(c, p) <= BIG_STRIDE
  <2>1. c \in V
    BY <1>1, <1>11, <1>17 DEF BaseOK, Alive
  <2>2. \A p \in V : p = c \/ <<c, p>> \in N
    BY <1>12, <1>13, <1>17, <2>1 DEF Kept
  <2>3. Dist(f[c], f[c]) = 0
    BY <1>4, <1>17, DistValue DEF Strides
  <2>4. ASSUME NEW p \in V PROVE Ahead(c, p) <= BIG_STRIDE
    <3>1. CASE p = c
      BY <1>5, <1>17, <2>3, <3>1
    <3>2. CASE p # c
      BY <1>6, <1>13, <1>17, <2>2, <3>2
    <3>3. QED
      BY <3>1, <3>2
  <2>5. QED
    BY <2>4
<1>18. QED
  BY <1>2, <1>11, <1>16, <1>17

\* With a BIG_STRIDE of less than half a word, for any number of processes: as long as nobody
\* joins whose stride is out of reach, the heap stays ordered, the strides stay within
\* BIG_STRIDE, and the process that is picked has the least of them, wherever they wrap.
THEOREM OrderAlwaysKept ==
    ASSUME BIG_STRIDE < Word \div 2
    PROVE  Spec => OrderKept
<1>1. StrideInv /\ StrideInv' /\ [Next]_vars =>
        [sched_class = "stride" /\ Fair /\ (Contenders \cup Contenders' = {} \/
           InWindow(Contenders \cup Contenders'))
           => Fair' /\ (current' # current /\ current' \in Proc
                          => \A p \in Contenders' : Ahead(current', p) <= BIG_STRIDE)]_vars
  <2>1. SUFFICES ASSUME StrideInv, StrideInv', Next, sched_class = "stride", Fair,
                        Contenders \cup Contenders' = {} \/ InWindow(Contenders \cup Contenders')
                 PROVE  Fair' /\ (current' # current /\ current' \in Proc
                          => \A p \in Contenders' : Ahead(current', p) <= BIG_STRIDE)
    OBVIOUS
  <2>2. PICK W : W = Contenders \cup Contenders'
    OBVIOUS
  <2>3. HeapOrdered /\ (W = {} \/ InWindow(W))
    BY <2>1, <2>2 DEF Fair
  <2>4. QED
    BY <2>1, <2>2, <2>3, OrderStep
<1>2. Spec => []StrideInv
  BY InitStride, StrideStep, PTL DEF Spec
<1>3. QED
  BY <1>1, <1>2, PTL DEF Spec, OrderKept

=============================================================================
