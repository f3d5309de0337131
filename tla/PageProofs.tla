----------------------------- MODULE PageProofs -----------------------------
(***************************************************************************)
(* The page allocators, for any number of pages, as long as the last page  *)
(* stays free: the doubly linked free list describes the free pages        *)
(* exactly, and blocks that touch have been merged, so that a request is   *)
(* met whenever there are enough contiguous pages.                         *)
(*                                                                         *)
(* Ring says that the pointers link a set of blocks in address order:      *)
(* list_add and list_del then add a block to the set and remove one, and   *)
(* the proof is about sets.  A sequence is needed only for what the loops  *)
(* of the code see, which is Walk.                                         *)
(*                                                                         *)
(* On lab2's page allocator, the SLUB heap: every object of a slab is held *)
(* by one client or on the freelist once, the counts are right, and each   *)
(* slab is on the list that its count says.                                *)
(*                                                                         *)
(* On lab8's, the SLOB heap: its pages are divided into blocks, from       *)
(* address to length, each free or in one use.  slob_alloc cuts and        *)
(* slob_free merges blocks; what is not free keeps its length meanwhile.   *)
(***************************************************************************)
EXTENDS Kmalloc, KernelLemmas

LinksType == [next : [Entry -> Entry], prev : [Entry -> Entry]]

\* On the way along next, e comes before page x: &free_list before all of them.
Below(e, x) == e = free_list \/ e < x

\* The links of &free_list and the blocks B form one ring, in address order.
Ring(l, B) ==
    /\ l \in LinksType /\ B \subseteq Page
    /\ \A e \in B \cup {free_list} :
         /\ l.next[e] \in B \cup {free_list} /\ l.prev[e] \in B \cup {free_list}
         /\ l.prev[l.next[e]] = e /\ l.next[l.prev[e]] = e
         /\ l.next[e] # free_list => Below(e, l.next[e])
    /\ \A e \in B \cup {free_list} : \A x \in B : Below(e, x) => l.next[e] <= x

\* Blocks B of the sizes f lie within memory and do not overlap.
Laid(B, f) ==
    /\ B \subseteq Page /\ f \in [Page -> 0 .. NPage]
    /\ \A p \in B : f[p] >= 1 /\ p + f[p] <= NPage
    /\ \A p, q \in B : p < q => p + f[p] <= q

\* The pages of the blocks B.
Covered(B, f) == {x \in Page : \E p \in B : p <= x /\ x < p + f[p]}

PmmType ==
    [manager : Managers, links : LinksType, property : [Page -> 0 .. NPage],
     PG_property : SUBSET Page, nr_free : Nat]

\* Everything but the pages U is in some block of the allocator m.
Shape(m, U) ==
    /\ m \in PmmType /\ U \subseteq Page
    /\ Ring(m.links, m.PG_property)
    /\ Laid(m.PG_property, m.property)
    /\ Covered(m.PG_property, m.property) = Page \ U
    /\ m.nr_free = Cardinality(Page \ U)

\* Two blocks that touch are so because of what was just linked: the first of
\* them is in X or the second in Y.
MergedBut(B, f, X, Y) ==
    \A p, q \in B : p < q /\ p \notin X /\ q \notin Y => p + f[p] < q

\* The list s is in address order.
Listing(s, B) ==
    /\ s \in Seq(Page) /\ Range(s) = B
    /\ \A i, j \in 1 .. Len(s) : i < j => s[i] < s[j]

\* The i-th entry of the circular list: &free_list comes before the first and
\* after the last.
Node(s, i) == IF i \in 1 .. Len(s) THEN s[i] ELSE free_list

\* Along next the links l visit s.
Chain(l, s) == \A i \in 0 .. Len(s) : l.next[Node(s, i)] = Node(s, i + 1)

-----------------------------------------------------------------------------
\* A list in address order has no page twice, and so no more entries than there
\* are pages.
LEMMA ListedFacts ==
    ASSUME NEW s, NEW B, Listing(s, B)
    PROVE  /\ s \in Seq(Page) /\ IsInjective(s) /\ B \subseteq Page
           /\ Len(s) \in 0 .. NPage
           /\ \A i \in 1 .. Len(s) : s[i] \in Page /\ s[i] \in B /\ s[i] # free_list
           /\ \A p \in B : \E i \in 1 .. Len(s) : s[i] = p
<1> USE PageAllocAssumption
<1>1. s \in Seq(Page) /\ Len(s) \in Nat /\ DOMAIN s = 1 .. Len(s)
  BY LenProperties DEF Listing
<1>2. /\ B \subseteq Page /\ \A i \in 1 .. Len(s) : s[i] \in Page /\ s[i] \in B
      /\ \A p \in B : \E i \in 1 .. Len(s) : s[i] = p
  BY <1>1, RangeFacts, ElementOfSeq DEF Listing
<1>3. \A i \in 1 .. Len(s) : s[i] # free_list
  BY <1>2 DEF free_list, Page
<1>4. \A i, j \in 1 .. Len(s) : s[i] = s[j] => i = j
  BY <1>2 DEF Listing, Page
<1>5. IsInjective(s)
  BY <1>1, <1>4 DEF IsInjective
<1>6. Len(s) <= NPage
  <2>1. IsFiniteSet(Page) /\ Cardinality(Page) = NPage
    BY FS_Interval DEF Page
  <2>2. QED
    BY <1>1, <1>5, <2>1, ListIsShort
<1>7. QED
  BY <1>1, <1>2, <1>3, <1>5, <1>6

\* Every set of pages can be listed in address order.
LEMMA ListingExists ==
    ASSUME NEW B, B \subseteq Page
    PROVE  \E s : Listing(s, B)
<1> USE PageAllocAssumption
<1> DEFINE T == {n \in Nat : n <= NPage => \E s : Listing(s, B \cap 0 .. n - 1)}
<1>1. 0 \in T
  <2>1. B \cap 0 .. 0 - 1 = {} /\ << >> \in Seq(Page) /\ Len(<< >>) = 0
    BY EmptySeq
  <2>2. Range(<< >>) = {}
    BY <2>1, RangeFacts
  <2>3. Listing(<< >>, {})
    BY <2>1, <2>2 DEF Listing
  <2>4. QED
    BY <2>1, <2>3
<1>2. ASSUME NEW n \in Nat, n \in T PROVE n + 1 \in T
  <2>1. SUFFICES ASSUME n + 1 <= NPage PROVE \E s : Listing(s, B \cap 0 .. (n + 1) - 1)
    OBVIOUS
  <2>2. PICK s : Listing(s, B \cap 0 .. n - 1)
    BY <1>2, <2>1
  <2>3. CASE n \notin B
    <3>1. B \cap 0 .. (n + 1) - 1 = B \cap 0 .. n - 1
      BY <2>3 DEF Page
    <3>2. QED
      BY <2>2, <3>1
  <2>4. CASE n \in B
    <3> DEFINE u == Append(s, n)
    <3>1. /\ s \in Seq(Page) /\ Len(s) \in Nat /\ n \in Page
          /\ \A i \in 1 .. Len(s) : s[i] \in B \cap 0 .. n - 1
      BY <2>2, <2>4, ListedFacts
    <3>2. /\ u \in Seq(Page) /\ Len(u) = Len(s) + 1
          /\ \A k \in 1 .. Len(s) : u[k] = s[k]
          /\ u[Len(s) + 1] = n
          /\ Range(u) = Range(s) \cup {n}
      BY <3>1, AppendFacts
    <3> HIDE DEF u
    <3>3. Range(u) = B \cap 0 .. (n + 1) - 1
      BY <2>2, <2>4, <3>2 DEF Listing, Page
    <3>4. ASSUME NEW i \in 1 .. Len(u), NEW j \in 1 .. Len(u), i < j PROVE u[i] < u[j]
      <4>1. i \in 1 .. Len(s) /\ u[i] = s[i] /\ s[i] \in 0 .. n - 1
        BY <3>1, <3>2, <3>4
      <4>2. CASE j = Len(s) + 1
        BY <3>2, <4>1, <4>2
      <4>3. CASE j \in 1 .. Len(s)
        BY <2>2, <3>2, <3>4, <4>1, <4>3 DEF Listing
      <4>4. QED
        BY <3>1, <3>2, <4>2, <4>3
    <3>5. Listing(u, B \cap 0 .. (n + 1) - 1)
      BY <3>2, <3>3, <3>4 DEF Listing
    <3>6. QED
      BY <3>5
  <2>5. QED
    BY <2>3, <2>4
<1> HIDE DEF T
<1>3. NPage \in T
  BY <1>1, <1>2, InductionOverSets
<1>4. B \cap 0 .. NPage - 1 = B
  BY DEF Page
<1>5. QED
  BY <1>3, <1>4 DEF T

\* Following next NPage + 1 times, from any entry, is a function.
LEMMA SuccessorsExist ==
    ASSUME NEW nx \in [Entry -> Entry], NEW L \in Nat
    PROVE  \E g \in [0 .. L -> Entry] : g[0] = free_list /\ \A i \in 1 .. L : g[i] = nx[g[i - 1]]
<1> USE PageAllocAssumption
<1> DEFINE Path(n) == {g \in [0 .. n -> Entry] :
                         g[0] = free_list /\ \A i \in 1 .. n : g[i] = nx[g[i - 1]]}
           T == {n \in Nat : Path(n) # {}}
<1>1. 0 \in T
  <2>1. [i \in 0 .. 0 |-> free_list] \in Path(0)
    BY DEF Entry
  <2>2. QED
    BY <2>1
<1>2. ASSUME NEW n \in Nat, n \in T PROVE n + 1 \in T
  <2>1. PICK g \in [0 .. n -> Entry] :
               g[0] = free_list /\ \A i \in 1 .. n : g[i] = nx[g[i - 1]]
    BY <1>2
  <2> DEFINE h == [i \in 0 .. n + 1 |-> IF i = n + 1 THEN nx[g[n]] ELSE g[i]]
  <2>2. h \in [0 .. n + 1 -> Entry] /\ h[0] = free_list
    BY <2>1
  <2>3. ASSUME NEW i \in 1 .. n + 1 PROVE h[i] = nx[h[i - 1]]
    <3>1. CASE i = n + 1
      BY <3>1
    <3>2. CASE i # n + 1
      <4>1. i \in 1 .. n /\ i - 1 \in 0 .. n
        BY <3>2
      <4>2. h[i] = g[i] /\ h[i - 1] = g[i - 1]
        BY <3>2, <4>1
      <4>3. QED
        BY <2>1, <4>1, <4>2
    <3>3. QED
      BY <3>1, <3>2
  <2>4. h \in Path(n + 1)
    BY <2>2, <2>3
  <2>5. QED
    BY <2>4
<1> HIDE DEF T
<1>3. Nat \subseteq T
  BY <1>1, <1>2, InductionOverSets
<1>4. QED
  BY <1>3 DEF T

\* The walk from &free_list along next visits the list.
LEMMA WalkIs ==
    ASSUME NEW l \in LinksType, NEW s, NEW B, Listing(s, B), Chain(l, s)
    PROVE  Walk(l) = s
<1> USE PageAllocAssumption
<1> DEFINE StepOf(g) == [i \in 0 .. NPage + 1 |-> IF i = 0 THEN free_list ELSE l.next[g[i - 1]]]
           at == CHOOSE g : g = StepOf(g)
           Ends(i) == /\ at[i + 1] = free_list \/ i = NPage
                      /\ \A j \in 1 .. i : at[j] # free_list
           len == CHOOSE i \in 0 .. NPage : Ends(i)
<1>1. Walk(l) = [i \in 1 .. len |-> at[i]]
  BY DEF Walk
<1>2. /\ l.next \in [Entry -> Entry] /\ Len(s) \in 0 .. NPage
      /\ \A i \in 1 .. Len(s) : s[i] # free_list /\ s[i] \in Page
  BY ListedFacts DEF LinksType
<1>3. at = StepOf(at)
  <2>0. PICK L \in Nat, nx \in [Entry -> Entry] : L = NPage + 1 /\ nx = l.next
    BY <1>2
  <2>1. PICK g \in [0 .. L -> Entry] :
               g[0] = free_list /\ \A i \in 1 .. L : g[i] = nx[g[i - 1]]
    BY SuccessorsExist
  <2>2. g = StepOf(g)
    BY <2>0, <2>1
  <2> HIDE DEF StepOf
  <2>3. QED
    BY <2>2
<1> HIDE DEF at
<1>4. at[0] = free_list /\ \A i \in 1 .. NPage + 1 : at[i] = l.next[at[i - 1]]
  BY <1>3
<1> HIDE DEF StepOf
<1> DEFINE T == {n \in Nat : n <= Len(s) + 1 => at[n] = Node(s, n)}
<1>5. 0 \in T
  BY <1>2, <1>4 DEF Node
<1>6. ASSUME NEW n \in Nat, n \in T PROVE n + 1 \in T
  <2>1. SUFFICES ASSUME n + 1 <= Len(s) + 1 PROVE at[n + 1] = Node(s, n + 1)
    OBVIOUS
  <2>2. at[n] = Node(s, n) /\ n \in 0 .. Len(s) /\ n + 1 \in 1 .. NPage + 1
    BY <1>2, <1>6, <2>1
  <2>3. at[n + 1] = l.next[at[n]]
    BY <1>4, <2>2
  <2>4. QED
    BY <2>2, <2>3 DEF Chain
<1> HIDE DEF T
<1>7. \A n \in 0 .. Len(s) + 1 : at[n] = Node(s, n)
  <2>1. Nat \subseteq T
    BY <1>5, <1>6, InductionOverSets
  <2>2. QED
    BY <1>2, <2>1 DEF T
<1>8. at[Len(s) + 1] = free_list /\ \A i \in 1 .. Len(s) : at[i] = s[i] /\ at[i] # free_list
  BY <1>2, <1>7 DEF Node
<1>9. Ends(Len(s)) /\ Len(s) \in 0 .. NPage
  BY <1>2, <1>8
<1>10. ASSUME NEW i \in 0 .. NPage, Ends(i) PROVE i = Len(s)
  <2>1. CASE i < Len(s)
    <3>1. i + 1 \in 1 .. Len(s) /\ i # NPage
      BY <1>2, <2>1
    <3>2. QED
      BY <1>8, <1>10, <3>1
  <2>2. CASE i > Len(s)
    <3>1. Len(s) + 1 \in 1 .. i
      BY <1>2, <2>2
    <3>2. QED
      BY <1>8, <1>10, <3>1
  <2>3. QED
    BY <1>2, <2>1, <2>2
<1>11. len = Len(s)
  <2> HIDE DEF Ends
  <2>1. Ends(len) /\ len \in 0 .. NPage
    BY <1>9
  <2>2. QED
    BY <1>10, <2>1
<1>12. [i \in 1 .. Len(s) |-> at[i]] = s
  <2>0. s \in Seq(Page)
    BY DEF Listing
  <2>1. s = [i \in 1 .. Len(s) |-> s[i]]
    BY <2>0, SeqDef, LenProperties
  <2>2. QED
    BY <1>8, <2>1
<1>13. QED
  BY <1>1, <1>11, <1>12
\* The walk along a ring lists its blocks in address order.
LEMMA WalkListsRing ==
    ASSUME NEW l, NEW B, Ring(l, B)
    PROVE  Listing(Walk(l), B)
<1> USE PageAllocAssumption
<1>1. PICK s : Listing(s, B)
  BY ListingExists DEF Ring
<1>2. /\ Len(s) \in Nat
      /\ \A i \in 1 .. Len(s) : s[i] \in Page /\ s[i] \in B /\ s[i] # free_list
      /\ \A p \in B : \E i \in 1 .. Len(s) : s[i] = p
      /\ \A i, j \in 1 .. Len(s) : i < j => s[i] < s[j]
  BY <1>1, ListedFacts DEF Listing
<1>3. ASSUME NEW i \in 0 .. Len(s) PROVE l.next[Node(s, i)] = Node(s, i + 1)
  <2> DEFINE e == Node(s, i)
             x == l.next[e]
  <2>1. e \in B \cup {free_list} /\ x \in B \cup {free_list}
    BY <1>2 DEF Ring, Node
  <2>2. ASSUME NEW j \in 1 .. Len(s), i < j PROVE Below(e, s[j])
    BY <1>2, <2>2 DEF Below, Node
  <2>3. ASSUME NEW j \in 1 .. Len(s), Below(e, s[j]) PROVE i < j
    <3>1. CASE i = 0
      BY <3>1
    <3>2. CASE i \in 1 .. Len(s)
      <4>1. s[i] < s[j]
        BY <1>2, <2>3, <3>2 DEF Below, Node
      <4>2. ~(s[j] < s[i]) /\ s[i] # s[j]
        BY <1>2, <3>2, <4>1 DEF Page
      <4>3. QED
        BY <1>2, <3>2, <4>2
    <3>3. QED
      BY <1>2, <3>1, <3>2
  <2>4. CASE i = Len(s)
    <3>1. x = free_list
      <4>1. SUFFICES ASSUME x # free_list PROVE FALSE
        OBVIOUS
      <4>2. x \in B /\ Below(e, x)
        BY <2>1, <4>1 DEF Ring
      <4>3. PICK j \in 1 .. Len(s) : s[j] = x
        BY <1>2, <4>2
      <4>4. QED
        BY <1>2, <2>3, <2>4, <4>2, <4>3
    <3>2. QED
      BY <1>2, <2>4, <3>1 DEF Node
  <2>5. CASE i < Len(s)
    <3>1. i + 1 \in 1 .. Len(s) /\ Node(s, i + 1) = s[i + 1]
      BY <1>2, <2>5 DEF Node
    <3>2. Below(e, s[i + 1])
      BY <1>2, <2>2, <3>1
    <3>3. x <= s[i + 1]
      BY <1>2, <2>1, <3>1, <3>2 DEF Ring
    <3>4. x # free_list
      BY <1>2, <3>1, <3>3 DEF free_list, Page
    <3>5. x \in B /\ Below(e, x)
      BY <2>1, <3>4 DEF Ring
    <3>6. PICK j \in 1 .. Len(s) : s[j] = x
      BY <1>2, <3>5
    <3>7. i + 1 <= j
      BY <1>2, <2>3, <3>5, <3>6
    <3>8. i + 1 = j \/ s[i + 1] < s[j]
      BY <1>2, <3>1, <3>7
    <3>9. QED
      BY <1>2, <3>1, <3>3, <3>6, <3>8 DEF Page
  <2>6. QED
    BY <1>2, <2>4, <2>5
<1>4. Walk(l) = s
  <2>1. l \in LinksType /\ Chain(l, s)
    BY <1>3 DEF Chain, Ring
  <2>2. QED
    BY <1>1, <2>1, WalkIs
<1>5. QED
  BY <1>1, <1>4

-----------------------------------------------------------------------------
\* __list_add of a block between two entries that follow each other.
LEMMA AddToRing ==
    ASSUME NEW l, NEW B, Ring(l, B), NEW b \in Page \ B, NEW p \in B \cup {free_list},
           Below(p, b), b < l.next[p]
    PROVE  /\ Ring(__list_add(l, b, p, l.next[p]), B \cup {b})
           /\ __list_add(l, b, p, l.next[p]).prev[b] = p
           /\ __list_add(l, b, p, l.next[p]).next[b] = l.next[p]
<1> USE PageAllocAssumption DEF free_list
<1> DEFINE q == l.next[p]
           k == __list_add(l, b, p, q)
           E == B \cup {free_list}
<1>1. /\ l \in LinksType /\ B \subseteq Page /\ q \in E /\ b \notin E /\ E \subseteq Entry
      /\ b \in Entry /\ l.prev[q] = p
  <2>1. l \in LinksType /\ B \subseteq Page /\ q \in E /\ l.prev[q] = p
    BY DEF Ring
  <2>2. QED
    BY <2>1 DEF Page, Entry
<1>2. /\ \A e \in E : k.next[e] = IF e = p THEN b ELSE l.next[e]
      /\ \A e \in E : k.prev[e] = IF e = q THEN b ELSE l.prev[e]
      /\ k.next[b] = q /\ k.prev[b] = p
      /\ k \in LinksType
  BY <1>1 DEF __list_add, LinksType
<1> HIDE DEF k
<1>3. ASSUME NEW e \in E
      PROVE  /\ l.next[e] \in E /\ l.prev[e] \in E
             /\ l.prev[l.next[e]] = e /\ l.next[l.prev[e]] = e
             /\ l.next[e] # free_list => Below(e, l.next[e])
             /\ \A x \in B : Below(e, x) => l.next[e] <= x
  BY DEF Ring
<1>4. ASSUME NEW e \in E \cup {b}
      PROVE  /\ k.next[e] \in E \cup {b} /\ k.prev[e] \in E \cup {b}
             /\ k.prev[k.next[e]] = e /\ k.next[k.prev[e]] = e
  <2>1. CASE e = b
    BY <1>1, <1>2, <2>1
  <2>2. CASE e \in E
    <3>1. k.next[e] \in E \cup {b} /\ k.prev[k.next[e]] = e
      BY <1>1, <1>2, <1>3, <2>2
    <3>2. k.prev[e] \in E \cup {b} /\ k.next[k.prev[e]] = e
      BY <1>1, <1>2, <1>3, <2>2
    <3>3. QED
      BY <3>1, <3>2
  <2>3. QED
    BY <2>1, <2>2
<1>5. ASSUME NEW e \in E \cup {b}, k.next[e] # free_list PROVE Below(e, k.next[e])
  <2>1. CASE e = b
    BY <1>1, <1>2, <1>5, <2>1 DEF Below
  <2>2. CASE e = p
    BY <1>1, <1>2, <2>2
  <2>3. CASE e \in E /\ e # p
    BY <1>2, <1>3, <1>5, <2>3
  <2>4. QED
    BY <2>1, <2>2, <2>3
<1>6. ASSUME NEW e \in E \cup {b}, NEW x \in B \cup {b}, Below(e, x) PROVE k.next[e] <= x
  <2>0. b \in Page /\ x \in Page /\ q \in Entry
    BY <1>1
  <2>1. CASE e = b
    <3>1. x \in B /\ b < x
      BY <1>1, <1>6, <2>0, <2>1 DEF Below, Page
    <3>2. Below(p, x)
      BY <1>1, <2>0, <3>1 DEF Below, Page
    <3>3. q <= x
      BY <1>3, <3>1, <3>2
    <3>4. QED
      BY <1>2, <2>1, <3>3
  <2>2. CASE e = p
    <3>1. x = b \/ q <= x
      BY <1>3, <1>6, <2>2
    <3>2. b <= x
      BY <2>0, <3>1 DEF Page, Entry
    <3>3. QED
      BY <1>2, <2>2, <3>2
  <2>3. CASE e \in E /\ e # p
    <3>1. CASE x \in B
      BY <1>2, <1>3, <1>6, <2>3, <3>1
    <3>2. CASE x = b
      <4>1. CASE e = free_list
        <5>1. p \in B /\ Below(e, p) /\ p < b
          BY <1>1, <2>3, <4>1 DEF Below
        <5>2. l.next[e] <= p
          BY <1>3, <2>3, <5>1
        <5>3. l.next[e] \in Entry
          BY <1>1, <1>3, <2>3
        <5>4. QED
          BY <1>1, <1>2, <2>0, <2>3, <3>2, <5>1, <5>2, <5>3 DEF Page, Entry
      <4>2. CASE e \in B
        <5>1. e < b /\ e \in Page
          BY <1>1, <1>6, <3>2, <4>2 DEF Below, Page
        <5>2. p \in B /\ e < p
          <6>1. ~ Below(p, e)
            <7>1. SUFFICES ASSUME Below(p, e) PROVE FALSE
              OBVIOUS
            <7>2. q <= e
              BY <1>3, <4>2, <7>1
            <7>3. QED
              BY <2>0, <5>1, <7>2 DEF Page, Entry
          <6>2. QED
            BY <1>1, <2>3, <5>1, <6>1 DEF Below, Page
        <5>3. l.next[e] <= p
          BY <1>3, <4>2, <5>2 DEF Below
        <5>4. l.next[e] \in Entry /\ p < b
          BY <1>1, <1>3, <2>3, <5>2 DEF Below, Page
        <5>5. QED
          BY <1>1, <1>2, <2>0, <2>3, <3>2, <5>2, <5>3, <5>4 DEF Page, Entry
      <4>3. QED
        BY <2>3, <4>1, <4>2
    <3>3. QED
      BY <3>1, <3>2
  <2>4. QED
    BY <2>1, <2>2, <2>3
<1>7. Ring(k, B \cup {b})
  BY <1>1, <1>2, <1>4, <1>5, <1>6 DEF Ring
<1>8. QED
  BY <1>2, <1>7 DEF k

\* list_del of a block.
LEMMA DelFromRing ==
    ASSUME NEW l, NEW B, Ring(l, B), NEW b \in B
    PROVE  /\ Ring(list_del(l, b), B \ {b})
           /\ list_del(l, b).next[l.prev[b]] = l.next[b]
           /\ l.prev[b] \in (B \cup {free_list}) \ {b} /\ Below(l.prev[b], b)
           /\ l.next[b] \in (B \cup {free_list}) \ {b} /\ b < l.next[b]
<1> USE PageAllocAssumption DEF free_list
<1> DEFINE p == l.prev[b]
           q == l.next[b]
           k == list_del(l, b)
           E == B \cup {free_list}
<1>1. /\ l \in LinksType /\ B \subseteq Page /\ p \in E /\ q \in E /\ E \subseteq Entry
      /\ b \in Page /\ b # free_list /\ l.prev[q] = b /\ l.next[p] = b
  BY DEF Ring, Page, Entry
<1>3. ASSUME NEW e \in E
      PROVE  /\ l.next[e] \in E /\ l.prev[e] \in E
             /\ l.prev[l.next[e]] = e /\ l.next[l.prev[e]] = e
             /\ l.next[e] # free_list => Below(e, l.next[e])
             /\ \A x \in B : Below(e, x) => l.next[e] <= x
  BY DEF Ring
<1>a. Below(p, b) /\ p # b
  <2>1. Below(p, b)
    BY <1>1, <1>3
  <2>2. QED
    BY <1>1, <2>1 DEF Below, Page
<1>b. b < q /\ q # b
  <2>1. q # free_list => Below(b, q)
    BY <1>3
  <2>2. QED
    BY <1>1, <2>1 DEF Below, Page
<1>2. /\ \A e \in E : k.next[e] = IF e = p THEN q ELSE l.next[e]
      /\ \A e \in E : k.prev[e] = IF e = q THEN p ELSE l.prev[e]
      /\ k \in LinksType
  BY <1>1 DEF list_del, LinksType
<1> HIDE DEF k
<1>4. ASSUME NEW e \in E \ {b}
      PROVE  /\ k.next[e] \in E \ {b} /\ k.prev[e] \in E \ {b}
             /\ k.prev[k.next[e]] = e /\ k.next[k.prev[e]] = e
  <2>1. k.next[e] \in E \ {b} /\ k.prev[k.next[e]] = e
    BY <1>1, <1>2, <1>3, <1>a, <1>b
  <2>2. k.prev[e] \in E \ {b} /\ k.next[k.prev[e]] = e
    BY <1>1, <1>2, <1>3, <1>a, <1>b
  <2>3. QED
    BY <2>1, <2>2
<1>5. ASSUME NEW e \in E \ {b}, k.next[e] # free_list PROVE Below(e, k.next[e])
  <2>1. CASE e = p
    <3>1. k.next[e] = q
      BY <1>2, <2>1
    <3> HIDE DEF p, q, E
    <3>2. p \in Int /\ b \in Int /\ q \in Int
      <4>1. p \in Entry /\ q \in Entry /\ b \in Page
        BY <1>1
      <4>2. QED
        BY <4>1 DEF Entry, Page
    <3>3. p = free_list \/ p < q
      BY <1>a, <1>b, <3>2 DEF Below
    <3>4. QED
      BY <2>1, <3>1, <3>3 DEF Below
  <2>2. CASE e # p
    BY <1>2, <1>3, <1>5, <2>2
  <2>3. QED
    BY <2>1, <2>2
<1>6. ASSUME NEW e \in E \ {b}, NEW x \in B \ {b}, Below(e, x) PROVE k.next[e] <= x
  <2>1. CASE e = p
    <3>1. b <= x
      BY <1>1, <1>3, <1>6, <2>1
    <3>2. Below(b, x)
      BY <1>1, <3>1 DEF Below, Page
    <3>3. q <= x
      BY <1>3, <3>2
    <3>4. QED
      BY <1>2, <2>1, <3>3
  <2>2. CASE e # p
    BY <1>2, <1>3, <1>6, <2>2
  <2>3. QED
    BY <2>1, <2>2
<1>7. (B \ {b}) \cup {free_list} = E \ {b}
  BY <1>1
<1>8. Ring(k, B \ {b})
  BY <1>1, <1>2, <1>4, <1>5, <1>6, <1>7 DEF Ring
<1>9. QED
  BY <1>1, <1>2, <1>8, <1>a, <1>b DEF k

\* A loop along the list that stops at the first entry in S finds the lowest
\* block in S.
LEMMA FirstInFacts ==
    ASSUME NEW w, NEW B, NEW S, Listing(w, B)
    PROVE  /\ FirstIn(w, S) = NULL => B \cap S = {}
           /\ FirstIn(w, S) # NULL => /\ FirstIn(w, S) \in B \cap S
                                      /\ \A p \in B \cap S : FirstIn(w, S) <= p
<1> USE PageAllocAssumption
<1> DEFINE at == {i \in DOMAIN w : w[i] \in S}
<1>1. /\ Len(w) \in Nat /\ DOMAIN w = 1 .. Len(w)
      /\ \A i \in 1 .. Len(w) : w[i] \in Page /\ w[i] \in B
      /\ \A p \in B : \E i \in 1 .. Len(w) : w[i] = p
      /\ \A i, j \in 1 .. Len(w) : i < j => w[i] < w[j]
  BY ListedFacts, LenProperties DEF Listing
<1>2. CASE at = {}
  <2>1. FirstIn(w, S) = NULL /\ B \cap S = {}
    BY <1>1, <1>2 DEF FirstIn
  <2>2. QED
    BY <2>1
<1>3. CASE at # {}
  <2>1. PICK i \in at : \A j \in at : i <= j
    <3>1. at \subseteq Nat
      BY <1>1
    <3>2. QED
      BY <1>3, <3>1, LeastNatural
  <2>2. Min(at) \in at /\ \A j \in at : Min(at) <= j
    BY <2>1 DEF Min
  <2>3. FirstIn(w, S) = w[Min(at)]
    BY <1>3 DEF FirstIn
  <2> HIDE DEF at
  <2>4. FirstIn(w, S) \in B \cap S /\ FirstIn(w, S) \in Page
    BY <1>1, <2>2, <2>3 DEF at
  <2>5. ASSUME NEW p \in B \cap S PROVE FirstIn(w, S) <= p
    <3>1. PICK j \in 1 .. Len(w) : w[j] = p
      BY <1>1
    <3>2. Min(at) <= j /\ Min(at) \in 1 .. Len(w)
      BY <1>1, <2>2, <3>1 DEF at
    <3>3. Min(at) = j \/ w[Min(at)] < w[j]
      BY <1>1, <3>1, <3>2
    <3>4. QED
      BY <1>1, <2>3, <3>1, <3>2, <3>3 DEF Page
  <2>6. FirstIn(w, S) # NULL
    BY <2>4 DEF Page, NULL
  <2>7. QED
    BY <2>4, <2>5, <2>6
<1>4. QED
  BY <1>2, <1>3

-----------------------------------------------------------------------------
\* The blocks before and after b on the ring are the nearest ones.
LEMMA Neighbours ==
    ASSUME NEW l, NEW B, Ring(l, B), NEW a \in B, NEW b \in B, a < b
    PROVE  /\ l.prev[b] \in B /\ a <= l.prev[b] /\ l.prev[b] < b
           /\ l.next[a] \in B /\ a < l.next[a] /\ l.next[a] <= b
<1> USE PageAllocAssumption DEF free_list
<1> DEFINE p == l.prev[b]
           q == l.next[a]
<1>1. /\ B \subseteq Page /\ p \in B \cup {free_list} /\ q \in B \cup {free_list}
      /\ l.next[p] = b /\ a \in Page /\ b \in Page /\ Below(a, b)
  BY DEF Ring, Below
<1>2. q <= b /\ q # free_list
  <2>1. q <= b
    BY <1>1 DEF Ring
  <2>2. QED
    BY <1>1, <2>1 DEF Page
<1>3. a < q
  <2>1. Below(a, q)
    BY <1>2 DEF Ring
  <2>2. QED
    BY <1>1, <2>1 DEF Below, Page
<1>4. Below(p, b)
  <2>1. b # free_list
    BY <1>1 DEF Page
  <2>2. QED
    BY <1>1, <2>1 DEF Ring
<1>5. ~ Below(p, a)
  <2>1. SUFFICES ASSUME Below(p, a) PROVE FALSE
    OBVIOUS
  <2>2. b <= a
    BY <1>1, <2>1 DEF Ring
  <2>3. QED
    BY <1>1, <2>2 DEF Page
<1>6. QED
  BY <1>1, <1>2, <1>3, <1>4, <1>5 DEF Below, Page

\* What is left of a block after its first n pages have been taken.
Remains(B, f, page, n) == IF f[page] > n THEN (B \ {page}) \cup {page + n} ELSE B \ {page}

RemainingSizes(f, page, n) == IF f[page] > n THEN [f EXCEPT ![page + n] = f[page] - n] ELSE f

\* Taking pages from a block leaves the other blocks as they are.
LEMMA LaidTake ==
    ASSUME NEW B, NEW f, Laid(B, f), MergedBut(B, f, {}, {}), NEW page \in B,
           NEW n \in Nat \ {0}, n <= f[page]
    PROVE  /\ Laid(Remains(B, f, page, n), RemainingSizes(f, page, n))
           /\ MergedBut(Remains(B, f, page, n), RemainingSizes(f, page, n), {}, {})
           /\ page .. page + n - 1 \subseteq Covered(B, f)
           /\ Covered(Remains(B, f, page, n), RemainingSizes(f, page, n))
                = Covered(B, f) \ page .. page + n - 1
           /\ f[page] > n => /\ page + n \in Page \ B
                             /\ \A q \in B : page < q => page + n < q
<1> USE PageAllocAssumption
<1> DEFINE C == Remains(B, f, page, n)
           g == RemainingSizes(f, page, n)
<1>1. /\ B \subseteq Page /\ f \in [Page -> 0 .. NPage] /\ page \in Page
      /\ \A p \in B : p \in Page /\ f[p] \in Nat /\ f[p] >= 1 /\ p + f[p] <= NPage
      /\ \A p, q \in B : p < q => p + f[p] < q
  BY DEF Laid, MergedBut
<1>2. f[page] > n => /\ page + n \in Page \ B
                     /\ \A q \in B : page < q => page + n < q
  BY <1>1 DEF Page
<1>3. \A p \in C : (p \in B /\ p # page /\ g[p] = f[p])
                   \/ (p = page + n /\ f[page] > n /\ g[p] = f[page] - n)
  BY <1>1, <1>2 DEF Remains, RemainingSizes
<1>4. /\ \A p \in B : p # page => p \in C /\ g[p] = f[p]
      /\ f[page] > n => page + n \in C /\ g[page + n] = f[page] - n
  BY <1>1, <1>2 DEF Remains, RemainingSizes
<1>5. C \subseteq Page /\ g \in [Page -> 0 .. NPage]
  BY <1>1, <1>2 DEF Remains, RemainingSizes, Page
<1> HIDE DEF C, g
<1>6. ASSUME NEW p \in C PROVE g[p] >= 1 /\ p + g[p] <= NPage
  <2>1. CASE p \in B /\ g[p] = f[p]
    BY <1>1, <2>1
  <2>2. CASE p = page + n /\ f[page] > n /\ g[p] = f[page] - n
    BY <1>1, <2>2 DEF Page
  <2>3. QED
    BY <1>3, <2>1, <2>2
<1>7. ASSUME NEW p \in C, NEW q \in C, p < q PROVE p + g[p] < q
  <2>1. CASE p \in B /\ q \in B /\ g[p] = f[p]
    BY <1>1, <1>7, <2>1
  <2>2. CASE p \in B /\ p # page /\ g[p] = f[p] /\ q = page + n /\ f[page] > n
    <3>1. p < page
      BY <1>1, <1>2, <1>7, <2>2 DEF Page
    <3>2. p + f[p] < page
      BY <1>1, <2>2, <3>1
    <3>3. QED
      BY <1>1, <2>2, <3>2 DEF Page
  <2>3. CASE p = page + n /\ g[p] = f[page] - n /\ q \in B
    <3>1. page < q
      BY <1>1, <1>7, <2>3 DEF Page
    <3>2. page + f[page] < q
      BY <1>1, <2>3, <3>1
    <3>3. QED
      BY <1>1, <2>3, <3>2 DEF Page
  <2>4. QED
    BY <1>3, <1>5, <1>7, <2>1, <2>2, <2>3 DEF Page
<1>8. Laid(C, g) /\ MergedBut(C, g, {}, {})
  <2>1. \A p, q \in C : p < q => p + g[p] <= q
    BY <1>5, <1>7 DEF Page
  <2>2. QED
    BY <1>5, <1>6, <1>7, <2>1 DEF Laid, MergedBut
<1>9. page .. page + n - 1 \subseteq Covered(B, f)
  BY <1>1 DEF Covered, Page
<1>10. ASSUME NEW x \in Page
       PROVE  x \in Covered(C, g) <=> x \in Covered(B, f) /\ x \notin page .. page + n - 1
  <2>1. ASSUME x \in Covered(C, g)
        PROVE  x \in Covered(B, f) /\ x \notin page .. page + n - 1
    <3>1. PICK p \in C : p <= x /\ x < p + g[p]
      BY <2>1 DEF Covered
    <3>2. CASE p \in B /\ p # page /\ g[p] = f[p]
      <4>1. x \in Covered(B, f)
        BY <3>1, <3>2 DEF Covered
      <4>2. p < page \/ page < p
        BY <1>1, <3>2 DEF Page
      <4>3. CASE p < page
        <5>1. p + f[p] < page
          BY <1>1, <3>2, <4>3
        <5>2. QED
          BY <1>1, <3>1, <3>2, <4>1, <5>1 DEF Page
      <4>4. CASE page < p
        <5>1. page + f[page] < p
          BY <1>1, <3>2, <4>4
        <5>2. QED
          BY <1>1, <3>1, <3>2, <4>1, <5>1 DEF Page
      <4>5. QED
        BY <4>2, <4>3, <4>4
    <3>3. CASE p = page + n /\ g[p] = f[page] - n
      BY <1>1, <3>1, <3>3 DEF Covered, Page
    <3>4. QED
      BY <1>3, <3>2, <3>3
  <2>2. ASSUME x \in Covered(B, f), x \notin page .. page + n - 1
        PROVE  x \in Covered(C, g)
    <3>1. PICK p \in B : p <= x /\ x < p + f[p]
      BY <2>2 DEF Covered
    <3>2. CASE p # page
      BY <1>4, <3>1, <3>2 DEF Covered
    <3>3. CASE p = page
      <4>1. page + n <= x /\ f[page] > n
        BY <1>1, <2>2, <3>1, <3>3 DEF Page
      <4>2. page + n \in C /\ g[page + n] = f[page] - n
        BY <1>4, <4>1
      <4>3. x < (page + n) + g[page + n]
        BY <1>1, <3>1, <3>3, <4>2 DEF Page
      <4>4. QED
        BY <4>1, <4>2, <4>3 DEF Covered
    <3>4. QED
      BY <3>2, <3>3
  <2>3. QED
    BY <2>1, <2>2
<1>11. Covered(C, g) = Covered(B, f) \ page .. page + n - 1
  <2>1. Covered(C, g) \subseteq Page /\ Covered(B, f) \subseteq Page
    BY DEF Covered
  <2>2. QED
    BY <1>10, <2>1
<1>12. QED
  BY <1>2, <1>8, <1>9, <1>11 DEF C, g

\* A block put where no page was covered.
LEMMA LaidLink ==
    ASSUME NEW B, NEW f, Laid(B, f), MergedBut(B, f, {}, {}), NEW base \in Page,
           NEW n \in Nat \ {0}, base + n <= NPage,
           \A x \in base .. base + n - 1 : x \notin Covered(B, f)
    PROVE  /\ Laid(B \cup {base}, [f EXCEPT ![base] = n])
           /\ MergedBut(B \cup {base}, [f EXCEPT ![base] = n], {base}, {base})
           /\ Covered(B \cup {base}, [f EXCEPT ![base] = n])
                = Covered(B, f) \cup base .. base + n - 1
           /\ B \cap base .. base + n - 1 = {}
<1> USE PageAllocAssumption
<1> DEFINE C == B \cup {base}
           g == [f EXCEPT ![base] = n]
<1>1. /\ B \subseteq Page /\ f \in [Page -> 0 .. NPage]
      /\ \A p \in B : p \in Page /\ f[p] \in Nat /\ f[p] >= 1 /\ p + f[p] <= NPage
      /\ \A p, q \in B : p < q => p + f[p] < q
  BY DEF Laid, MergedBut
<1>2. \A p \in B : p \in Covered(B, f)
  BY <1>1 DEF Covered, Page
<1>3. base \notin B /\ B \cap base .. base + n - 1 = {}
  BY <1>2 DEF Page
<1>4. ASSUME NEW p \in B, p < base PROVE p + f[p] <= base
  <2>1. SUFFICES ASSUME base < p + f[p] PROVE FALSE
    BY <1>1 DEF Page
  <2>2. base \in Covered(B, f)
    BY <1>1, <1>4, <2>1 DEF Covered, Page
  <2>3. QED
    BY <2>2 DEF Page
<1>5. ASSUME NEW q \in B, base < q PROVE base + n <= q
  <2>1. SUFFICES ASSUME q < base + n PROVE FALSE
    BY <1>1 DEF Page
  <2>2. q \in base .. base + n - 1
    BY <1>1, <1>5, <2>1 DEF Page
  <2>3. QED
    BY <1>3, <2>2
<1>6. /\ g \in [Page -> 0 .. NPage] /\ g[base] = n /\ \A p \in B : g[p] = f[p]
      /\ C \subseteq Page
  BY <1>1, <1>3 DEF Page
<1> HIDE DEF g
<1>7. ASSUME NEW p \in C, NEW q \in C, p < q
      PROVE  p + g[p] <= q /\ (p # base /\ q # base => p + g[p] < q)
  <2>1. CASE p \in B /\ q \in B
    <3>1. p + f[p] < q /\ g[p] = f[p]
      BY <1>1, <1>6, <1>7, <2>1
    <3>2. p + f[p] \in Nat /\ q \in Nat
      BY <1>1, <2>1 DEF Page
    <3>3. QED
      BY ONLY <3>1, <3>2
  <2>2. CASE p = base
    <3>1. q \in B
      BY <1>7, <2>2 DEF Page
    <3>2. base + n <= q
      BY <1>5, <1>7, <2>2, <3>1
    <3>3. QED
      BY <1>6, <2>2, <3>2
  <2>3. CASE q = base
    <3>1. p \in B
      BY <1>7, <2>3 DEF Page
    <3>2. p + f[p] <= base
      BY <1>4, <1>7, <2>3, <3>1
    <3>3. QED
      BY <1>6, <2>3, <3>1, <3>2
  <2>4. QED
    BY <1>7, <2>1, <2>2, <2>3
<1>8. Laid(C, g)
  <2>1. \A p \in C : g[p] >= 1 /\ p + g[p] <= NPage
    BY <1>1, <1>6
  <2>2. QED
    BY <1>6, <1>7, <2>1 DEF Laid
<1>9. MergedBut(C, g, {base}, {base})
  BY <1>7 DEF MergedBut
<1>10. Covered(C, g) = Covered(B, f) \cup base .. base + n - 1
  <2>1. ASSUME NEW x \in Page
        PROVE  x \in Covered(C, g) <=> x \in Covered(B, f) \/ x \in base .. base + n - 1
    <3>1. x \in Covered(C, g) <=> \E p \in C : p <= x /\ x < p + g[p]
      BY <2>1 DEF Covered
    <3>2. x \in Covered(B, f) <=> \E p \in B : p <= x /\ x < p + f[p]
      BY <2>1 DEF Covered
    <3>3. (\E p \in C : p <= x /\ x < p + g[p])
            <=> (\E p \in B : p <= x /\ x < p + g[p]) \/ (base <= x /\ x < base + g[base])
      OBVIOUS
    <3>4. (\E p \in B : p <= x /\ x < p + g[p]) <=> (\E p \in B : p <= x /\ x < p + f[p])
      BY <1>6
    <3>5. (base <= x /\ x < base + g[base]) <=> x \in base .. base + n - 1
      BY <1>1, <1>6, <2>1 DEF Page
    <3>6. QED
      BY ONLY <3>1, <3>2, <3>3, <3>4, <3>5
  <2>2. base .. base + n - 1 \subseteq Page
    BY DEF Page
  <2>3. QED
    BY <2>1, <2>2 DEF Covered
<1>11. QED
  BY <1>3, <1>8, <1>9, <1>10 DEF g

\* The sizes after block p has taken over block q.
Enlarged(f, p, q) == [f EXCEPT ![p] = f[p] + f[q]]

\* A block that takes over the block which begins where it ends.
LEMMA LaidAbsorb ==
    ASSUME NEW B, NEW f, Laid(B, f), NEW p \in B, NEW q \in B, p + f[p] = q
    PROVE  /\ Laid(B \ {q}, Enlarged(f, p, q))
           /\ Covered(B \ {q}, Enlarged(f, p, q)) = Covered(B, f)
           /\ MergedBut(B, f, {q}, {q}) => MergedBut(B \ {q}, Enlarged(f, p, q), {p}, {})
           /\ MergedBut(B, f, {p}, {}) => MergedBut(B \ {q}, Enlarged(f, p, q), {}, {})
<1> USE PageAllocAssumption
<1> DEFINE C == B \ {q}
           g == Enlarged(f, p, q)
<1>1. /\ B \subseteq Page /\ f \in [Page -> 0 .. NPage] /\ p < q
      /\ \A a \in B : a \in Page /\ f[a] \in Nat /\ f[a] >= 1 /\ a + f[a] <= NPage
      /\ \A a, b \in B : a < b => a + f[a] <= b
  <2>1. B \subseteq Page /\ f \in [Page -> 0 .. NPage]
    BY DEF Laid
  <2>2. \A a \in B : a \in Page /\ f[a] \in Nat /\ f[a] >= 1 /\ a + f[a] <= NPage
    BY <2>1 DEF Laid
  <2>3. \A a, b \in B : a < b => a + f[a] <= b
    BY DEF Laid
  <2>4. p < q
    <3>1. p \in Int /\ f[p] \in Int /\ f[p] >= 1
      BY <2>2 DEF Page
    <3>2. QED
      BY <3>1
  <2>5. QED
    BY <2>1, <2>2, <2>3, <2>4
<1>2. /\ g \in [Page -> 0 .. NPage] /\ g[p] = f[p] + f[q] /\ \A a \in B : a # p => g[a] = f[a]
      /\ C \subseteq Page /\ p \in C /\ p + g[p] = q + f[q]
  <2>1. /\ p \in Page /\ q \in Page /\ f[p] \in Nat /\ f[q] \in Nat /\ p + f[p] = q
        /\ q + f[q] <= NPage /\ p # q
    BY <1>1 DEF Page
  <2>2. f[p] + f[q] \in 0 .. NPage /\ p + (f[p] + f[q]) = q + f[q]
    BY <2>1 DEF Page
  <2>3. QED
    BY <1>1, <2>1, <2>2 DEF Enlarged
<1> HIDE DEF g
<1>3. ASSUME NEW b \in C, p < b PROVE q < b /\ p + g[p] <= b
  <2>1. q <= b
    BY <1>1, <1>3
  <2>2. q < b
    BY <1>1, <1>3, <2>1 DEF Page
  <2>3. q + f[q] <= b
    BY <1>1, <1>3, <2>2
  <2>4. QED
    BY <1>2, <2>2, <2>3
<1>4. Laid(C, g)
  <2>1. ASSUME NEW a \in C PROVE g[a] >= 1 /\ a + g[a] <= NPage
    <3>1. CASE a = p
      BY <1>1, <1>2, <3>1
    <3>2. CASE a # p
      BY <1>1, <1>2, <3>2
    <3>3. QED
      BY <3>1, <3>2
  <2>2. \A a, b \in C : a < b => a + g[a] <= b
    BY <1>1, <1>2, <1>3
  <2>3. QED
    BY <1>2, <2>1, <2>2 DEF Laid
<1>5. ASSUME NEW x \in Page PROVE x \in Covered(C, g) <=> x \in Covered(B, f)
  <2>1. ASSUME NEW a \in C, a <= x, x < a + g[a] PROVE x \in Covered(B, f)
    <3>1. CASE a # p
      BY <1>2, <2>1, <3>1 DEF Covered
    <3>2. CASE a = p
      <4>1. x < p + f[p] \/ (q <= x /\ x < q + f[q])
        BY <1>1, <1>2, <2>1, <3>2 DEF Page
      <4>2. QED
        BY <2>1, <3>2, <4>1 DEF Covered
    <3>3. QED
      BY <3>1, <3>2
  <2>2. ASSUME NEW a \in B, a <= x, x < a + f[a] PROVE x \in Covered(C, g)
    <3>1. CASE a # p /\ a # q
      BY <1>2, <2>2, <3>1 DEF Covered
    <3>2. CASE a = p \/ a = q
      <4>0. p \in Page /\ q \in Page /\ f[p] \in Nat /\ f[q] \in Nat
        BY <1>1
      <4>1. p <= x /\ x < p + g[p]
        <5>1. CASE a = p
          <6>1. p <= x /\ x < p + f[p]
            BY <2>2, <5>1
          <6>2. f[p] <= g[p] /\ g[p] \in Nat
            BY <1>2, <1>1, <4>0
          <6>3. QED
            BY <4>0, <6>1, <6>2 DEF Page
        <5>2. CASE a = q
          <6>1. p <= x
            BY <1>1, <2>2, <4>0, <5>2 DEF Page
          <6>2. x < q + f[q]
            BY <2>2, <5>2
          <6>3. QED
            BY <1>2, <6>1, <6>2
        <5>3. QED
          BY <3>2, <5>1, <5>2
      <4>2. QED
        BY <1>2, <4>1 DEF Covered
    <3>3. QED
      BY <3>1, <3>2
  <2>3. QED
    BY <2>1, <2>2 DEF Covered
<1>6. Covered(C, g) = Covered(B, f)
  <2>1. Covered(C, g) \subseteq Page /\ Covered(B, f) \subseteq Page
    BY DEF Covered
  <2>2. QED
    BY <1>5, <2>1
<1>7. MergedBut(B, f, {q}, {q}) => MergedBut(C, g, {p}, {})
  BY <1>2 DEF MergedBut
<1>8. ASSUME MergedBut(B, f, {p}, {}) PROVE MergedBut(C, g, {}, {})
  <2>1. ASSUME NEW a \in C, NEW b \in C, a < b PROVE a + g[a] < b
    <3>1. CASE a # p
      BY <1>2, <1>8, <2>1, <3>1 DEF MergedBut
    <3>2. CASE a = p
      <4>1. q < b /\ q # p
        BY <1>1, <1>3, <2>1, <3>2 DEF Page
      <4>2. q + f[q] < b
        BY <1>8, <4>1 DEF MergedBut
      <4>3. QED
        BY <1>2, <3>2, <4>2
    <3>3. QED
      BY <3>1, <3>2
  <2>2. QED
    BY <2>1 DEF MergedBut
<1>9. QED
  BY <1>4, <1>6, <1>7, <1>8 DEF g

-----------------------------------------------------------------------------
\* Pages of memory are finite in number, and n of them in a row are n.
LEMMA CountPages ==
    ASSUME NEW A, A \subseteq Page
    PROVE  /\ IsFiniteSet(A) /\ Cardinality(A) \in 0 .. NPage
           /\ \A base, n \in Nat : base .. base + n - 1 \subseteq A =>
                /\ n <= Cardinality(A)
                /\ Cardinality(A \ base .. base + n - 1) = Cardinality(A) - n
<1> USE PageAllocAssumption
<1>1. IsFiniteSet(Page) /\ Cardinality(Page) = NPage
  BY FS_Interval DEF Page
<1>2. IsFiniteSet(A) /\ Cardinality(A) \in Nat /\ Cardinality(A) <= NPage
  BY <1>1, FS_Subset, FS_CardinalityType
<1>3. ASSUME NEW base \in Nat, NEW n \in Nat, base .. base + n - 1 \subseteq A
      PROVE  n <= Cardinality(A) /\ Cardinality(A \ base .. base + n - 1) = Cardinality(A) - n
  <2> DEFINE R == base .. base + n - 1
             D == A \ R
  <2>1. IsFiniteSet(R) /\ Cardinality(R) = n
    BY FS_Interval
  <2>2. IsFiniteSet(D) /\ Cardinality(D) \in Nat
    BY <1>2, FS_Subset, FS_CardinalityType
  <2>3. R \cup D = A /\ R \cap D = {}
    BY <1>3
  <2> HIDE DEF R, D
  <2>4. Cardinality(R \cup D) = Cardinality(R) + Cardinality(D) - Cardinality(R \cap D)
    BY <2>1, <2>2, FS_Union
  <2>a. Cardinality(R \cap D) = 0
    BY <2>3, FS_EmptySet
  <2>b. Cardinality(A) = Cardinality(R) + Cardinality(D) - Cardinality(R \cap D)
    BY <2>3, <2>4, Zenon
  <2>5. Cardinality(A) = n + Cardinality(D)
    BY <2>1, <2>2, <2>a, <2>b
  <2>6. n <= Cardinality(A) /\ Cardinality(D) = Cardinality(A) - n
    BY <1>2, <2>2, <2>5
  <2>7. QED
    BY <2>6 DEF R, D
<1>4. QED
  BY <1>2, <1>3

\* Clearing what the unlinked pages hold changes no block.
LEMMA ForgetKeeps ==
    ASSUME NEW m, NEW U, Shape(m, U), MergedBut(m.PG_property, m.property, {}, {})
    PROVE  /\ Shape(Forget(m), U)
           /\ MergedBut(Forget(m).PG_property, Forget(m).property, {}, {})
<1> USE PageAllocAssumption
<1> DEFINE B  == m.PG_property
           E  == B \cup {free_list}
           k  == Forget(m)
           on == ToSet(Walk(m.links)) \cup {free_list}
<1>1. m \in PmmType /\ Ring(m.links, B) /\ m.links \in LinksType /\ B \subseteq Page
  BY DEF Shape, Ring
<1>2. on = E
  <2>1. Range(Walk(m.links)) = B
    BY <1>1, WalkListsRing DEF Listing
  <2>2. QED
    BY <2>1 DEF ToSet, Range
<1>3. /\ k.manager = m.manager /\ k.PG_property = B /\ k.nr_free = m.nr_free
      /\ k.links.next = [e \in Entry |-> IF e \in E THEN m.links.next[e] ELSE e]
      /\ k.links.prev = [e \in Entry |-> IF e \in E THEN m.links.prev[e] ELSE e]
      /\ k.property = [p \in Page |-> IF p \in E THEN m.property[p] ELSE 0]
      /\ k \in PmmType
  <2> HIDE DEF on
  <2>1. k = [m EXCEPT !.links.next = [e \in Entry |-> IF e \in E THEN @[e] ELSE e],
                      !.links.prev = [e \in Entry |-> IF e \in E THEN @[e] ELSE e],
                      !.property = [p \in Page |-> IF p \in E THEN @[p] ELSE 0]]
    BY <1>2 DEF Forget, on
  <2> DEFINE nx == [e \in Entry |-> IF e \in E THEN m.links.next[e] ELSE e]
             pv == [e \in Entry |-> IF e \in E THEN m.links.prev[e] ELSE e]
             pr == [p \in Page |-> IF p \in E THEN m.property[p] ELSE 0]
  <2>2. k.links = [next |-> nx, prev |-> pv]
    <3> HIDE DEF k
    <3>1. m.links = [next |-> m.links.next, prev |-> m.links.prev]
      BY <1>1 DEF LinksType
    <3>2. k.links = [m.links EXCEPT !.next = nx, !.prev = pv]
      BY <1>1, <2>1 DEF PmmType
    <3> HIDE DEF nx, pv
    <3>3. QED
      BY <3>1, <3>2
  <2>3. /\ k.property = pr /\ k.manager = m.manager /\ k.PG_property = B /\ k.nr_free = m.nr_free
        /\ k = [manager |-> k.manager, links |-> k.links, property |-> k.property,
                PG_property |-> k.PG_property, nr_free |-> k.nr_free]
    <3> HIDE DEF k
    <3>1. QED
      BY <1>1, <2>1 DEF PmmType
  <2>4. nx \in [Entry -> Entry] /\ pv \in [Entry -> Entry] /\ pr \in [Page -> 0 .. NPage]
    BY <1>1 DEF LinksType, PmmType
  <2>5. k \in PmmType
    <3> HIDE DEF k, nx, pv, pr
    <3>1. k.links \in LinksType
      BY <2>2, <2>4 DEF LinksType
    <3>2. QED
      BY <1>1, <2>3, <2>4, <3>1 DEF PmmType
  <2> HIDE DEF k
  <2>6. QED
    BY <2>2, <2>3, <2>5
<1> HIDE DEF k
<1>4. /\ \A e \in E : k.links.next[e] = m.links.next[e] /\ k.links.prev[e] = m.links.prev[e]
      /\ \A p \in B : k.property[p] = m.property[p]
  BY <1>1, <1>3 DEF Entry
<1>5. Ring(k.links, B)
  <2>1. k.links \in LinksType
    BY <1>3 DEF PmmType
  <2>2. ASSUME NEW e \in E
        PROVE  /\ k.links.next[e] \in E /\ k.links.prev[e] \in E
               /\ k.links.prev[k.links.next[e]] = e /\ k.links.next[k.links.prev[e]] = e
               /\ k.links.next[e] # free_list => Below(e, k.links.next[e])
    <3>1. /\ m.links.next[e] \in E /\ m.links.prev[e] \in E
          /\ m.links.prev[m.links.next[e]] = e /\ m.links.next[m.links.prev[e]] = e
          /\ m.links.next[e] # free_list => Below(e, m.links.next[e])
      BY <1>1 DEF Ring
    <3>2. QED
      BY <1>4, <3>1
  <2>3. ASSUME NEW e \in E, NEW x \in B, Below(e, x) PROVE k.links.next[e] <= x
    <3>1. m.links.next[e] <= x
      BY <1>1, <2>3 DEF Ring
    <3>2. QED
      BY <1>4, <3>1
  <2>4. QED
    BY <1>1, <2>1, <2>2, <2>3 DEF Ring
<1>6. Laid(B, k.property)
  BY <1>3, <1>4 DEF Shape, Laid, PmmType
<1>7. Covered(B, k.property) = Covered(B, m.property)
  BY <1>4 DEF Covered
<1>8. MergedBut(B, k.property, {}, {})
  BY <1>4 DEF MergedBut
<1>9. QED
  BY <1>3, <1>5, <1>6, <1>7, <1>8 DEF Shape, k

\* What a call leaves behind: the blocks are the free pages, and merged.
Good(m, U) == Shape(m, U) /\ MergedBut(m.PG_property, m.property, {}, {})

\* Taking the first n pages of a block.
LEMMA TakeGood ==
    ASSUME NEW m, NEW U, Good(m, U), NEW page \in m.PG_property,
           NEW n \in Nat \ {0}, n <= m.property[page]
    PROVE  /\ Good(Take(m, page, n), U \cup page .. page + n - 1)
           /\ page .. page + n - 1 \subseteq Page \ U
<1> USE PageAllocAssumption
<1> DEFINE B == m.PG_property
           f == m.property
           l == m.links
           C == Remains(B, f, page, n)
           g == RemainingSizes(f, page, n)
           k == Take(m, page, n)
           V == U \cup page .. page + n - 1
           more == f[page] > n
           cut == list_del(l, page)
           all == list_add(cut, l.prev[page], page + n)
<1>1. /\ m \in PmmType /\ Ring(l, B) /\ Laid(B, f) /\ MergedBut(B, f, {}, {}) /\ U \subseteq Page
      /\ Covered(B, f) = Page \ U /\ m.nr_free = Cardinality(Page \ U)
  BY DEF Good, Shape
<1>2. /\ Laid(C, g) /\ MergedBut(C, g, {}, {})
      /\ page .. page + n - 1 \subseteq Page \ U
      /\ Covered(C, g) = Page \ V
      /\ more => /\ page + n \in Page \ B
                 /\ \A q \in B : page < q => page + n < q
  <2> HIDE DEF B, f, C, g
  <2>1. /\ Laid(C, g) /\ MergedBut(C, g, {}, {})
        /\ page .. page + n - 1 \subseteq Covered(B, f)
        /\ Covered(C, g) = Covered(B, f) \ page .. page + n - 1
        /\ f[page] > n => /\ page + n \in Page \ B
                          /\ \A q \in B : page < q => page + n < q
    BY <1>1, LaidTake DEF B, f, C, g
  <2>2. QED
    BY <1>1, <2>1
<1>3. /\ Ring(cut, B \ {page}) /\ cut.next[l.prev[page]] = l.next[page]
      /\ l.prev[page] \in (B \cup {free_list}) \ {page} /\ Below(l.prev[page], page)
      /\ l.next[page] \in B \cup {free_list} /\ page < l.next[page]
  <2> HIDE DEF B
  <2>1. page \in B
    BY DEF B
  <2>2. QED
    BY <1>1, <2>1, DelFromRing
<1>4. ASSUME more PROVE Ring(all, C)
  <2> DEFINE p == l.prev[page]
             b == page + n
  <2>1. B \subseteq Page /\ page \in Page
    BY <1>1 DEF Laid
  <2>2. b \in Page \ (B \ {page}) /\ p \in (B \ {page}) \cup {free_list}
    BY <1>2, <1>3, <1>4
  <2>3. Below(p, b)
    BY <1>3, <2>1, <2>2 DEF Below, Page
  <2>4. b < cut.next[p]
    <3>1. CASE l.next[page] \in B
      BY <1>2, <1>3, <1>4, <3>1
    <3>2. CASE l.next[page] = free_list
      BY <1>3, <2>2, <3>2 DEF free_list, Page
    <3>3. QED
      BY <1>3, <3>1, <3>2
  <2> DEFINE D == B \ {page}
  <2>5. C = D \cup {b}
    BY <1>4 DEF Remains
  <2>6. all = __list_add(cut, b, p, cut.next[p])
    BY DEF list_add
  <2>7. Ring(cut, D) /\ b \in Page \ D /\ p \in D \cup {free_list}
    BY <1>3, <2>2
  <2> HIDE DEF cut, all, p, b, C, D
  <2>8. QED
    BY <2>3, <2>4, <2>5, <2>6, <2>7, AddToRing
<1>5. /\ k.links = IF more THEN all ELSE cut
      /\ k.property = g /\ k.nr_free = m.nr_free - n /\ k.manager = m.manager
      /\ k.PG_property = C
      /\ k = [manager |-> k.manager, links |-> k.links, property |-> k.property,
              PG_property |-> k.PG_property, nr_free |-> k.nr_free]
  <2>1. page + n # page
    BY <1>1 DEF Laid, Page
  <2> HIDE DEF cut, all
  <2>2. k = [m EXCEPT !.links = IF more THEN all ELSE cut,
                      !.property = IF more THEN [@ EXCEPT ![page + n] = f[page] - n] ELSE @,
                      !.PG_property = (@ \cup (IF more THEN {page + n} ELSE {})) \ {page},
                      !.nr_free = @ - n]
    BY DEF Take, cut, all
  <2> HIDE DEF k
  <2>3. /\ k.links = IF more THEN all ELSE cut
        /\ k.property = g /\ k.nr_free = m.nr_free - n /\ k.manager = m.manager
        /\ k.PG_property = (B \cup (IF more THEN {page + n} ELSE {})) \ {page}
        /\ k = [manager |-> k.manager, links |-> k.links, property |-> k.property,
                PG_property |-> k.PG_property, nr_free |-> k.nr_free]
    BY <1>1, <2>2 DEF PmmType, RemainingSizes
  <2>4. k.PG_property = C
    BY <2>1, <2>3 DEF Remains
  <2>5. QED
    BY <2>3, <2>4
<1>6. Ring(k.links, C)
  <2> HIDE DEF cut, all, k
  <2>1. ~ more => C = B \ {page}
    BY DEF Remains
  <2>2. QED
    BY <1>3, <1>4, <1>5, <2>1
<1>7. k.nr_free = Cardinality(Page \ V) /\ k.nr_free \in Nat /\ V \subseteq Page
  <2>1. page \in Page /\ n \in Nat
    BY <1>1 DEF Laid
  <2>2. page \in Nat
    BY <2>1 DEF Page
  <2>3. /\ Cardinality(Page \ U) \in Nat /\ n <= Cardinality(Page \ U)
        /\ Cardinality((Page \ U) \ page .. page + n - 1) = Cardinality(Page \ U) - n
    <3> DEFINE A == Page \ U
    <3>1. A \subseteq Page /\ page .. page + n - 1 \subseteq A
      BY <1>2
    <3> HIDE DEF A
    <3>2. /\ Cardinality(A) \in 0 .. NPage /\ n <= Cardinality(A)
          /\ Cardinality(A \ page .. page + n - 1) = Cardinality(A) - n
      BY <2>1, <2>2, <3>1, CountPages
    <3>3. QED
      BY <3>2 DEF A
  <2>4. (Page \ U) \ page .. page + n - 1 = Page \ V /\ V \subseteq Page
    BY <1>1, <1>2
  <2>5. k.nr_free = Cardinality(Page \ U) - n
    BY <1>1, <1>5
  <2> HIDE DEF k, V
  <2>6. Cardinality(Page \ V) = Cardinality(Page \ U) - n
    BY <2>3, <2>4, Zenon
  <2>7. QED
    BY <2>3, <2>4, <2>5, <2>6
<1>8. k \in PmmType
  <2>1. k.links \in LinksType /\ g \in [Page -> 0 .. NPage] /\ C \subseteq Page
    BY <1>2, <1>6 DEF Ring, Laid
  <2>2. m.manager \in Managers
    BY <1>1 DEF PmmType
  <2> HIDE DEF k, g, C
  <2>3. QED
    BY <1>5, <1>7, <2>1, <2>2 DEF PmmType
<1>9. Shape(k, V)
  <2> HIDE DEF k, g, C, V
  <2>1. QED
    BY <1>2, <1>5, <1>6, <1>7, <1>8 DEF Shape
<1>10. MergedBut(k.PG_property, k.property, {}, {})
  BY <1>2, <1>5
<1>11. QED
  BY <1>2, <1>9, <1>10 DEF Good

\* The block that absorbs the next one covers the same pages.
LEMMA AbsorbShape ==
    ASSUME NEW m, NEW U, Shape(m, U), NEW p \in m.PG_property, NEW q \in m.PG_property,
           p + m.property[p] = q
    PROVE  /\ Shape(Absorb(m, p, q), U)
           /\ Absorb(m, p, q).PG_property = m.PG_property \ {q}
           /\ Absorb(m, p, q).property = Enlarged(m.property, p, q)
<1> USE PageAllocAssumption
<1> DEFINE B == m.PG_property
           f == m.property
           k == Absorb(m, p, q)
           g == Enlarged(f, p, q)
<1>1. m \in PmmType /\ Ring(m.links, B) /\ Laid(B, f) /\ p \in B /\ q \in B /\ p + f[p] = q
  BY DEF Shape
<1>2. Laid(B \ {q}, g) /\ Covered(B \ {q}, g) = Covered(B, f)
  <2> HIDE DEF B, f
  <2>1. QED
    BY <1>1, LaidAbsorb
<1>3. Ring(list_del(m.links, q), B \ {q})
  <2> HIDE DEF B
  <2>1. QED
    BY <1>1, DelFromRing
<1>4. k = [m EXCEPT !.links = list_del(@, q), !.property[p] = @ + m.property[q],
                    !.PG_property = @ \ {q}]
  BY DEF Absorb
<1> DEFINE cut == list_del(m.links, q)
<1>5. /\ k.links = cut /\ k.property = g /\ k.PG_property = B \ {q}
      /\ k.manager = m.manager /\ k.nr_free = m.nr_free
      /\ k = [manager |-> k.manager, links |-> k.links, property |-> k.property,
              PG_property |-> k.PG_property, nr_free |-> k.nr_free]
  <2> HIDE DEF k
  <2>1. QED
    BY <1>1, <1>4 DEF PmmType, Enlarged
<1>6. k \in PmmType
  <2>1. cut \in LinksType /\ g \in [Page -> 0 .. NPage] /\ B \ {q} \in SUBSET Page
    BY <1>2, <1>3 DEF Ring, Laid
  <2> HIDE DEF k, cut, g
  <2>2. QED
    BY <1>1, <1>5, <2>1 DEF PmmType
<1>7. QED
  <2> HIDE DEF k, g, cut
  <2>1. Shape(k, U)
    BY <1>2, <1>3, <1>5, <1>6 DEF Shape, cut
  <2>2. QED
    BY <1>5, <2>1 DEF k, g

\* Merging a block that was just linked into the one below it.
LEMMA MergeBelowGood ==
    ASSUME NEW m, NEW U, Shape(m, U), NEW base \in m.PG_property,
           MergedBut(m.PG_property, m.property, {base}, {base})
    PROVE  LET r == MergeBelow(m, base)
           IN  /\ Shape(r.pmm, U) /\ r.base \in r.pmm.PG_property
               /\ MergedBut(r.pmm.PG_property, r.pmm.property, {r.base}, {})
<1> USE PageAllocAssumption
<1> DEFINE B == m.PG_property
           f == m.property
           p == m.links.prev[base]
           r == MergeBelow(m, base)
           meet == p # free_list /\ p + f[p] = base
<1>1. /\ Ring(m.links, B) /\ Laid(B, f) /\ base \in B /\ B \subseteq Page
      /\ f \in [Page -> 0 .. NPage]
  BY DEF Shape, Laid
<1>2. p \in B \cup {free_list}
  BY <1>1 DEF Ring
<1>3. CASE meet
  <2>1. p \in B /\ p + f[p] = base
    BY <1>2, <1>3
  <2>2. r.base = p /\ r.pmm = Absorb(m, p, base)
    BY <1>3 DEF MergeBelow
  <2> DEFINE k == Absorb(m, p, base)
             g == Enlarged(f, p, base)
  <2>3. Shape(k, U) /\ k.PG_property = B \ {base} /\ k.property = g
    BY <2>1, AbsorbShape
  <2>4. MergedBut(B \ {base}, g, {p}, {})
    <3> HIDE DEF B, f, p
    <3>1. QED
      BY <1>1, <2>1, LaidAbsorb DEF B, f
  <2>5. p \in B \ {base}
    BY <1>1, <2>1 DEF Laid, Page
  <2> HIDE DEF k, g, r
  <2>6. QED
    BY <2>2, <2>3, <2>4, <2>5 DEF k, r
<1>4. CASE ~ meet
  <2>1. r.base = base /\ r.pmm = m
    BY <1>4 DEF MergeBelow
  <2>2. ASSUME NEW a \in B, NEW b \in B, a < b, a # base PROVE a + f[a] < b
    <3>1. CASE b # base
      BY <2>2, <3>1 DEF MergedBut
    <3>2. CASE b = base
      <4>1. p \in B /\ a <= p /\ p < base
        <5> HIDE DEF B, p
        <5>1. QED
          BY <1>1, <2>2, <3>2, Neighbours DEF p
      <4>2. a \in Page /\ p \in Page /\ base \in Page /\ f[a] \in Nat /\ f[p] \in Nat
        BY <1>1, <4>1
      <4>3. CASE a = p
        <5>1. p + f[p] # base
          BY <1>1, <1>4, <4>1, <4>2 DEF free_list, Page
        <5>2. a + f[a] <= base
          BY <1>1, <2>2, <3>2 DEF Laid
        <5>3. QED
          BY <3>2, <4>2, <4>3, <5>1, <5>2 DEF Page
      <4>4. CASE a < p
        <5>1. a + f[a] <= p
          BY <1>1, <4>1, <4>4 DEF Laid
        <5>2. QED
          BY <3>2, <4>1, <4>2, <5>1 DEF Page
      <4>5. QED
        BY <4>1, <4>2, <4>3, <4>4 DEF Page
    <3>3. QED
      BY <3>1, <3>2
  <2>3. MergedBut(B, f, {base}, {})
    BY <2>2 DEF MergedBut
  <2> HIDE DEF r
  <2>4. QED
    BY <1>1, <2>1, <2>3 DEF r
<1>5. QED
  BY <1>3, <1>4

\* Merging the block above into one that touches no block below it.
LEMMA MergeAboveGood ==
    ASSUME NEW m, NEW U, Shape(m, U), NEW base \in m.PG_property,
           MergedBut(m.PG_property, m.property, {base}, {})
    PROVE  Good(MergeAbove(m, base), U)
<1> USE PageAllocAssumption
<1> DEFINE B == m.PG_property
           f == m.property
           p == m.links.next[base]
           meet == p # free_list /\ base + f[base] = p
<1>1. /\ Ring(m.links, B) /\ Laid(B, f) /\ base \in B /\ B \subseteq Page
      /\ f \in [Page -> 0 .. NPage]
  BY DEF Shape, Laid
<1>2. p \in B \cup {free_list}
  BY <1>1 DEF Ring
<1>3. CASE meet
  <2>1. p \in B /\ base + f[base] = p
    BY <1>2, <1>3
  <2> DEFINE k == Absorb(m, base, p)
             g == Enlarged(f, base, p)
  <2>2. MergeAbove(m, base) = k
    BY <1>3 DEF MergeAbove
  <2>3. Shape(k, U) /\ k.PG_property = B \ {p} /\ k.property = g
    BY <2>1, AbsorbShape
  <2>4. MergedBut(B \ {p}, g, {}, {})
    <3> HIDE DEF B, f, p
    <3>1. QED
      BY <1>1, <2>1, LaidAbsorb DEF B, f
  <2> HIDE DEF k, g
  <2>5. QED
    BY <2>2, <2>3, <2>4 DEF Good
<1>4. CASE ~ meet
  <2>1. MergeAbove(m, base) = m
    BY <1>4 DEF MergeAbove
  <2>2. ASSUME NEW a \in B, NEW b \in B, a < b PROVE a + f[a] < b
    <3>1. CASE a # base
      BY <2>2, <3>1 DEF MergedBut
    <3>2. CASE a = base
      <4>1. p \in B /\ base < p /\ p <= b
        <5> HIDE DEF B, p
        <5>1. QED
          BY <1>1, <2>2, <3>2, Neighbours DEF p
      <4>2. b \in Page /\ p \in Page /\ base \in Page /\ f[base] \in Nat
        BY <1>1, <4>1
      <4>a. p # free_list
        BY <4>2 DEF free_list, Page
      <4>b. base + f[base] <= p
        BY <1>1, <4>1 DEF Laid
      <4>3. base + f[base] # p /\ base + f[base] <= p
        BY <1>4, <4>a, <4>b
      <4>4. QED
        BY <3>2, <4>1, <4>2, <4>3 DEF Page
    <3>3. QED
      BY <3>1, <3>2
  <2>3. MergedBut(B, f, {}, {})
    BY <2>2 DEF MergedBut
  <2>4. QED
    BY <2>1, <2>3 DEF Good
<1>5. QED
  BY <1>3, <1>4

\* As long as the last page is free, there is a block above every page in use, and
\* the loop that looks for the place of a block links it before that one.
LEMMA LinkGood ==
    ASSUME NEW m, NEW U, Good(m, U), NPage - 1 \notin U, NEW base \in U
    PROVE  /\ base \notin m.PG_property
           /\ Ring(LinkByAddress(m.links, base), m.PG_property \cup {base})
<1> USE PageAllocAssumption
<1> DEFINE B == m.PG_property
           f == m.property
           l == m.links
           w == Walk(l)
           above == FirstIn(w, {p \in Page : base < p})
<1>1. /\ Ring(l, B) /\ Laid(B, f) /\ B \subseteq Page /\ U \subseteq Page /\ base \in Page
      /\ Covered(B, f) = Page \ U
  <2>1. Ring(l, B) /\ Laid(B, f) /\ U \subseteq Page /\ Covered(B, f) = Page \ U
    BY DEF Good, Shape
  <2>2. B \subseteq Page
    BY <2>1 DEF Laid
  <2>3. QED
    BY <2>1, <2>2
<1>2. base \notin B
  <2>1. ASSUME base \in B PROVE base \in Covered(B, f)
    <3>1. f[base] \in Nat /\ f[base] >= 1 /\ base \in Nat
      BY <1>1, <2>1 DEF Laid, Page
    <3>2. base <= base /\ base < base + f[base]
      BY <3>1
    <3>3. QED
      BY <1>1, <2>1, <3>2 DEF Covered
  <2>2. QED
    BY <1>1, <2>1
<1>3. PICK b \in B : base < b
  <2>1. NPage - 1 \in Covered(B, f)
    BY <1>1 DEF Page
  <2>2. PICK b \in B : b <= NPage - 1 /\ NPage - 1 < b + f[b]
    BY <2>1 DEF Covered
  <2>3. SUFFICES ASSUME ~(base < b) PROVE FALSE
    BY <2>2
  <2>4. base \in Covered(B, f)
    <3>1. b \in Int /\ base \in Int /\ f[b] \in Int /\ base <= NPage - 1 /\ NPage \in Int
      BY <1>1, <2>2 DEF Laid, Page
    <3>2. b <= base /\ base < b + f[b]
      BY <2>2, <2>3, <3>1
    <3>3. QED
      BY <1>1, <3>2 DEF Covered
  <2>5. QED
    BY <1>1, <2>4
<1>4. Listing(w, B)
  BY <1>1, WalkListsRing
<1>5. w # << >>
  BY <1>3, <1>4 DEF Listing, Range
<1>6. above # NULL /\ above \in B /\ base < above /\ \A p \in B : base < p => above <= p
  <2> DEFINE S == {p \in Page : base < p}
  <2>1. b \in B \cap S
    BY <1>1, <1>3
  <2> HIDE DEF S, w
  <2>2. /\ FirstIn(w, S) = NULL => B \cap S = {}
        /\ FirstIn(w, S) # NULL => /\ FirstIn(w, S) \in B \cap S
                                   /\ \A p \in B \cap S : FirstIn(w, S) <= p
    BY <1>4, FirstInFacts
  <2>3. QED
    BY <1>1, <2>1, <2>2 DEF S
<1> HIDE DEF above
<1> DEFINE e == l.prev[above]
<1>7. /\ e \in B \cup {free_list} /\ l.next[e] = above
      /\ above # free_list
  BY <1>1, <1>6 DEF Ring, Page, free_list
<1>8. Below(e, base)
  <2>1. SUFFICES ASSUME e # free_list, ~(e < base) PROVE FALSE
    BY DEF Below
  <2>2. e \in B /\ e \in Page /\ above \in Page /\ e # base
    BY <1>1, <1>2, <1>6, <1>7, <2>1
  <2>3. above <= e
    BY <1>1, <1>6, <2>1, <2>2 DEF Page
  <2>4. Below(e, above)
    BY <1>1, <1>7 DEF Ring
  <2>5. QED
    BY <2>1, <2>2, <2>3, <2>4 DEF Below, Page
<1>9. LinkByAddress(l, base) = __list_add(l, base, e, l.next[e])
  BY <1>5, <1>6, <1>7 DEF LinkByAddress, list_add_before, above
<1>10. Ring(__list_add(l, base, e, l.next[e]), B \cup {base})
  <2>1. base \in Page \ B /\ base < l.next[e]
    BY <1>1, <1>2, <1>6, <1>7
  <2> HIDE DEF B, l, e
  <2>2. QED
    BY <1>1, <1>7, <1>8, <2>1, AddToRing
<1>11. QED
  BY <1>2, <1>9, <1>10

\* Freeing pages in use, in the middle of memory.
LEMMA FreeGood ==
    ASSUME NEW m, NEW U, Good(m, U), NPage - 1 \notin U, NEW base \in Page,
           NEW n \in Nat \ {0}, base .. base + n - 1 \subseteq U
    PROVE  Good(FreePages(m, base, n), U \ base .. base + n - 1)
<1> USE PageAllocAssumption
<1> DEFINE B == m.PG_property
           f == m.property
           V == U \ base .. base + n - 1
           linked == [m EXCEPT !.links = LinkByAddress(@, base),
                               !.property[base] = n,
                               !.PG_property = (@ \ base .. base + n - 1) \cup {base},
                               !.nr_free = @ + n]
           below == MergeBelow(linked, base)
           g == [f EXCEPT ![base] = n]
           links == LinkByAddress(m.links, base)
<1>1. /\ m \in PmmType /\ Laid(B, f) /\ MergedBut(B, f, {}, {}) /\ B \subseteq Page
      /\ U \subseteq Page /\ Covered(B, f) = Page \ U /\ m.nr_free = Cardinality(Page \ U)
  BY DEF Good, Shape, Laid
<1>2. base \in U /\ base + n <= NPage
  <2>1. base \in base .. base + n - 1 /\ base + n - 1 \in base .. base + n - 1
    BY DEF Page
  <2>2. base + n - 1 \in Page
    BY <1>1, <2>1
  <2>3. QED
    BY <2>1, <2>2 DEF Page
<1>3. base \notin B /\ Ring(links, B \cup {base})
  BY <1>2, LinkGood
<1>4. /\ Laid(B \cup {base}, g)
      /\ MergedBut(B \cup {base}, g, {base}, {base})
      /\ Covered(B \cup {base}, g) = Covered(B, f) \cup base .. base + n - 1
      /\ B \cap base .. base + n - 1 = {}
  <2>1. \A x \in base .. base + n - 1 : x \notin Covered(B, f)
    BY <1>1
  <2> HIDE DEF B, f
  <2>2. QED
    BY <1>1, <1>2, <2>1, LaidLink
<1>5. /\ linked.links = links /\ linked.property = g /\ linked.PG_property = B \cup {base}
      /\ linked.nr_free = m.nr_free + n /\ linked.manager = m.manager
      /\ linked = [manager |-> linked.manager, links |-> linked.links,
                   property |-> linked.property, PG_property |-> linked.PG_property,
                   nr_free |-> linked.nr_free]
  <2>1. (B \ base .. base + n - 1) \cup {base} = B \cup {base}
    BY <1>4
  <2> HIDE DEF links
  <2>2. linked = [m EXCEPT !.links = links, !.property[base] = n,
                           !.PG_property = (@ \ base .. base + n - 1) \cup {base},
                           !.nr_free = @ + n]
    BY DEF links
  <2> HIDE DEF linked
  <2>3. QED
    BY <1>1, <2>1, <2>2 DEF PmmType
<1>6. Page \ V = (Page \ U) \cup base .. base + n - 1
  BY <1>1
<1>7. linked.nr_free = Cardinality(Page \ V) /\ linked.nr_free \in Nat
  <2>1. base \in Nat /\ n \in Nat
    BY DEF Page
  <2>2. /\ Cardinality(Page \ V) \in Nat
        /\ Cardinality((Page \ V) \ base .. base + n - 1) = Cardinality(Page \ V) - n
    <3> DEFINE A == Page \ V
    <3>1. A \subseteq Page /\ base .. base + n - 1 \subseteq A
      BY <1>6
    <3> HIDE DEF A
    <3>2. /\ Cardinality(A) \in 0 .. NPage
          /\ Cardinality(A \ base .. base + n - 1) = Cardinality(A) - n
      BY <2>1, <3>1, CountPages
    <3>3. QED
      BY <3>2 DEF A
  <2>3. (Page \ V) \ base .. base + n - 1 = Page \ U
    BY <1>1
  <2>4. linked.nr_free = Cardinality(Page \ U) + n
    BY <1>1, <1>5
  <2> HIDE DEF linked, V
  <2>5. Cardinality(Page \ U) = Cardinality(Page \ V) - n
    BY <2>2, <2>3, Zenon
  <2>6. QED
    BY <2>2, <2>4, <2>5
<1>8. Shape(linked, V)
  <2>1. linked \in PmmType
    <3>1. links \in LinksType /\ g \in [Page -> 0 .. NPage] /\ B \cup {base} \in SUBSET Page
      BY <1>3, <1>4 DEF Ring, Laid
    <3> HIDE DEF linked, links, g
    <3>2. QED
      BY <1>1, <1>5, <1>7, <3>1 DEF PmmType
  <2> HIDE DEF linked, links, g, B, f
  <2>2. V \subseteq Page /\ Covered(B \cup {base}, g) = Page \ V
    BY <1>1, <1>4, <1>6
  <2> HIDE DEF V
  <2>3. QED
    BY <1>3, <1>4, <1>5, <1>7, <2>1, <2>2 DEF Shape
<1>9. /\ Shape(below.pmm, V) /\ below.base \in below.pmm.PG_property
      /\ MergedBut(below.pmm.PG_property, below.pmm.property, {below.base}, {})
  <2>1. /\ base \in linked.PG_property
        /\ MergedBut(linked.PG_property, linked.property, {base}, {base})
    BY <1>4, <1>5
  <2> HIDE DEF linked, V
  <2>2. QED
    BY <1>8, <2>1, MergeBelowGood
<1>10. Good(MergeAbove(below.pmm, below.base), V)
  <2> HIDE DEF below, V
  <2>1. QED
    BY <1>9, MergeAboveGood
<1>11. FreePages(m, base, n) = Forget(MergeAbove(below.pmm, below.base))
  <2>1. default_free_pages(m, base, n) = MergeAbove(below.pmm, below.base)
    BY DEF default_free_pages
  <2>2. QED
    BY <2>1 DEF FreePages, best_fit_free_pages
<1> HIDE DEF below, V
<1>12. Good(Forget(MergeAbove(below.pmm, below.base)), V)
  BY <1>10, ForgetKeeps DEF Good
<1>13. QED
  BY <1>11, <1>12 DEF V

\* The blocks that are large enough, and what alloc_pages makes of them.
LEMMA AllocGood ==
    ASSUME NEW m, NEW U, Good(m, U), NEW n \in Nat \ {0}, AllocPages(m, n).page # NULL
    PROVE  LET a == AllocPages(m, n)
           IN  /\ Good(a.pmm, U \cup a.page .. a.page + n - 1)
               /\ a.page .. a.page + n - 1 \subseteq Page \ U
               /\ a.page \in m.PG_property /\ a.page \in Page
               /\ a.pmm = Forget(Take(m, a.page, n))
<1> USE PageAllocAssumption
<1> DEFINE B == m.PG_property
           f == m.property
           w == Walk(m.links)
           a == AllocPages(m, n)
           fits == {p \in Fitting(m, n) : f[p] <= m.nr_free}
           best == {p \in fits : \A q \in fits : f[p] <= f[q]}
           page == a.page
<1>1. Listing(w, B) /\ Range(w) = B
  <2>1. Ring(m.links, B)
    BY DEF Good, Shape
  <2>2. QED
    BY <2>1, WalkListsRing DEF Listing
<1>2. Fitting(m, n) = {p \in B : f[p] >= n}
  <2>1. ToSet(w) = B
    BY <1>1 DEF ToSet, Range
  <2>2. QED
    BY <2>1 DEF Fitting
<1>3. page = FirstIn(w, Fitting(m, n)) \/ page = FirstIn(w, best)
  <2> HIDE DEF w
  <2>1. default_alloc_pages(m, n) = FirstIn(w, Fitting(m, n))
    BY DEF default_alloc_pages, w
  <2>2. best_fit_alloc_pages(m, n) = FirstIn(w, best)
    BY DEF best_fit_alloc_pages, w
  <2> HIDE DEF best
  <2>3. QED
    BY <2>1, <2>2 DEF AllocPages
<1>4. page \in B /\ f[page] >= n
  <2> HIDE DEF w, page, B, f
  <2>1. \A S : FirstIn(w, S) # NULL => FirstIn(w, S) \in S
    BY <1>1, FirstInFacts
  <2>2. page # NULL
    BY DEF page
  <2>3. page \in Fitting(m, n)
    <3>1. best \subseteq Fitting(m, n)
      OBVIOUS
    <3> HIDE DEF best
    <3>2. QED
      BY <1>3, <2>1, <2>2, <3>1
  <2>4. QED
    BY <1>2, <2>3
<1>5. a.pmm = Forget(Take(m, page, n))
  <2>1. page # NULL
    OBVIOUS
  <2>2. QED
    BY <2>1 DEF AllocPages
<1>6. /\ Good(Take(m, page, n), U \cup page .. page + n - 1)
      /\ page .. page + n - 1 \subseteq Page \ U
  <2>1. f[page] \in Nat
    BY <1>4 DEF Good, Shape, Laid
  <2>2. n <= f[page]
    BY <1>4, <2>1
  <2> HIDE DEF page
  <2>3. QED
    BY <1>4, <2>2, TakeGood
<1>7. Good(Forget(Take(m, page, n)), U \cup page .. page + n - 1)
  <2> HIDE DEF page
  <2>1. QED
    BY <1>6, ForgetKeeps DEF Good
<1>8. page \in Page
  BY <1>4 DEF Good, Shape, Laid
<1>9. QED
  <2> HIDE DEF a
  <2>1. QED
    BY <1>4, <1>5, <1>6, <1>7, <1>8 DEF a

\* When n pages in a row are free there is a block for them.
LEMMA AllocServes ==
    ASSUME NEW m, NEW U, Good(m, U), NEW p \in Page, NEW n \in Nat \ {0}, p + n <= NPage,
           (p .. p + n - 1) \cap U = {}
    PROVE  AllocPages(m, n).page # NULL
<1> USE PageAllocAssumption
<1> DEFINE B == m.PG_property
           f == m.property
           w == Walk(m.links)
           fits == {q \in Fitting(m, n) : f[q] <= m.nr_free}
           best == {q \in fits : \A r \in fits : f[q] <= f[r]}
<1>1. /\ Ring(m.links, B) /\ Laid(B, f) /\ MergedBut(B, f, {}, {}) /\ U \subseteq Page
      /\ Covered(B, f) = Page \ U /\ m.nr_free = Cardinality(Page \ U)
  BY DEF Good, Shape
<1>2. /\ B \subseteq Page /\ f \in [Page -> 0 .. NPage]
      /\ \A q \in B : q \in Page /\ f[q] \in Nat /\ f[q] >= 1 /\ q + f[q] <= NPage
      /\ \A q, r \in B : q < r => q + f[q] < r
  BY <1>1 DEF Laid, MergedBut
<1>3. Listing(w, B) /\ Range(w) = B
  BY <1>1, WalkListsRing DEF Listing
<1>4. Fitting(m, n) = {q \in B : f[q] >= n}
  <2>1. ToSet(w) = B
    BY <1>3 DEF ToSet, Range
  <2>2. QED
    BY <2>1 DEF Fitting
<1>5. \A x \in p .. p + n - 1 : x \in Covered(B, f)
  BY <1>1 DEF Page
<1>6. PICK b \in B : b <= p /\ p < b + f[b]
  BY <1>5 DEF Covered, Page
<1>7. p + n <= b + f[b]
  <2> DEFINE x == b + f[b]
  <2>0. b \in Nat /\ f[b] \in Nat /\ p \in Nat
    BY <1>2 DEF Page
  <2>1. SUFFICES ASSUME x < p + n PROVE FALSE
    BY <2>0
  <2>2. x \in p .. p + n - 1 /\ x \in Page
    BY <1>6, <2>0, <2>1 DEF Page
  <2>3. PICK c \in B : c <= x /\ x < c + f[c]
    BY <1>5, <2>2 DEF Covered
  <2>4. b \in Page /\ c \in Page /\ f[b] \in Nat /\ f[c] \in Nat
    BY <1>2
  <2>a. b \in Nat /\ c \in Nat
    BY <2>4 DEF Page
  <2>5. c # b
    BY <2>3, <2>4, <2>a
  <2>6. ~(b < c)
    <3>1. b < c => x < c
      BY <1>2
    <3>2. QED
      BY <2>3, <2>4, <2>a, <3>1
  <2>7. ~(c < b)
    <3>1. c < b => c + f[c] < b
      BY <1>2
    <3>2. QED
      BY <2>3, <2>4, <2>a, <3>1
  <2>8. QED
    BY <2>a, <2>5, <2>6, <2>7
<1>8. b \in Fitting(m, n)
  BY <1>2, <1>4, <1>6, <1>7 DEF Page
<1>9. ASSUME NEW q \in B PROVE f[q] <= m.nr_free /\ m.nr_free \in Nat
  <2> DEFINE A == Page \ U
             k == f[q]
  <2>1. q \in Nat /\ k \in Nat
    BY <1>2 DEF Page
  <2>0. q + k <= NPage
    BY <1>2
  <2>2. \A x \in q .. q + k - 1 : x \in Page /\ q <= x /\ x < q + k
    <3> HIDE DEF k
    <3>1. QED
      BY <2>0, <2>1 DEF Page
  <2>3. q .. q + k - 1 \subseteq A
    BY <1>1, <2>2 DEF Covered
  <2>4. A \subseteq Page /\ m.nr_free = Cardinality(A)
    BY <1>1
  <2> HIDE DEF A, k
  <2>5. k <= Cardinality(A) /\ Cardinality(A) \in 0 .. NPage
    BY <2>1, <2>3, <2>4, CountPages
  <2>6. QED
    BY <2>4, <2>5 DEF k
<1>10. n <= m.nr_free
  <2>1. f[b] >= n /\ f[b] \in Nat
    BY <1>2, <1>4, <1>8
  <2>2. QED
    BY <1>9, <2>1
<1>11. FirstIn(w, Fitting(m, n)) # NULL
  <2>1. B \cap Fitting(m, n) # {}
    BY <1>8
  <2> HIDE DEF w, B
  <2>2. QED
    BY <1>3, <2>1, FirstInFacts
<1>12. FirstIn(w, best) # NULL
  <2> DEFINE sizes == {f[q] : q \in fits}
  <2>1. b \in fits /\ fits \subseteq B
    BY <1>4, <1>8, <1>9
  <2>2. sizes \subseteq Nat /\ sizes # {}
    BY <1>2, <2>1
  <2>3. PICK z \in sizes : \A y \in sizes : z <= y
    <3> HIDE DEF sizes
    <3>1. QED
      BY <2>2, LeastNatural
  <2>4. PICK q \in fits : f[q] = z
    BY <2>3
  <2>5. q \in best /\ q \in B
    BY <2>1, <2>3, <2>4
  <2>6. B \cap best # {}
    BY <2>5
  <2> HIDE DEF w, B, best
  <2>7. QED
    BY <1>3, <2>6, FirstInFacts
<1>13. default_alloc_pages(m, n) # NULL /\ best_fit_alloc_pages(m, n) # NULL
  BY <1>11, <1>12 DEF default_alloc_pages, best_fit_alloc_pages
<1>14. ~(n > m.nr_free)
  BY <1>9, <1>10
<1>15. QED
  BY <1>13, <1>14 DEF AllocPages

-----------------------------------------------------------------------------
\* The pages of the blocks that come first in the list s.
CoveredBy(s, i, f) == Covered({s[j] : j \in 1 .. i}, f)

\* The sizes of the blocks of a list add up to the pages they cover.
LEMMA SumsAreCounts ==
    ASSUME NEW s, NEW B, NEW f, Listing(s, B), Laid(B, f), NEW g,
           g[0] = 0, \A i \in 1 .. Len(s) : g[i] = g[i - 1] + f[s[i]]
    PROVE  g[Len(s)] = Cardinality(Covered(B, f))
<1> USE PageAllocAssumption
<1>1. /\ Len(s) \in Nat /\ B \subseteq Page /\ f \in [Page -> 0 .. NPage]
      /\ \A i \in 1 .. Len(s) : s[i] \in Page /\ s[i] \in B
      /\ \A p \in B : \E i \in 1 .. Len(s) : s[i] = p
      /\ \A i, j \in 1 .. Len(s) : i < j => s[i] < s[j]
      /\ \A p \in B : f[p] \in Nat /\ f[p] >= 1 /\ p + f[p] <= NPage
      /\ \A p, q \in B : p < q => p + f[p] <= q
  BY ListedFacts DEF Listing, Laid
<1> DEFINE T == {i \in Nat : i <= Len(s) => g[i] = Cardinality(CoveredBy(s, i, f))}
<1>2. 0 \in T
  <2>1. CoveredBy(s, 0, f) = {}
    BY DEF CoveredBy, Covered
  <2>2. QED
    BY <2>1, FS_EmptySet
<1>3. ASSUME NEW i \in Nat, i \in T PROVE i + 1 \in T
  <2>1. SUFFICES ASSUME i + 1 <= Len(s) PROVE g[i + 1] = Cardinality(CoveredBy(s, i + 1, f))
    OBVIOUS
  <2> DEFINE b == s[i + 1]
             R == b .. b + f[b] - 1
             A == CoveredBy(s, i, f)
             C == CoveredBy(s, i + 1, f)
  <2>2. i \in 0 .. Len(s) /\ i + 1 \in 1 .. Len(s) /\ i <= Len(s)
    BY <1>1, <2>1
  <2>3. g[i] = Cardinality(A) /\ g[i + 1] = g[i] + f[b]
    BY <1>3, <2>2
  <2>4. b \in B /\ b \in Nat /\ f[b] \in Nat /\ b + f[b] <= NPage
    BY <1>1, <2>2 DEF Page
  <2>5. \A j \in 1 .. i : s[j] \in B /\ s[j] \in Nat /\ f[s[j]] \in Nat /\ s[j] + f[s[j]] <= b
    <3>1. SUFFICES ASSUME NEW j \in 1 .. i
                   PROVE  s[j] \in B /\ s[j] \in Nat /\ f[s[j]] \in Nat /\ s[j] + f[s[j]] <= b
      OBVIOUS
    <3>2. j \in 1 .. Len(s) /\ j < i + 1
      BY <1>1, <2>2
    <3>3. s[j] < b /\ s[j] \in B
      BY <1>1, <2>2, <3>2
    <3>4. PICK p \in B, q \in B : p = s[j] /\ q = b
      BY <2>4, <3>3
    <3>5. p + f[p] <= q
      BY <1>1, <3>3, <3>4
    <3>6. p \in Nat /\ f[p] \in Nat
      BY <1>1 DEF Page
    <3>7. QED
      BY <3>4, <3>5, <3>6
  <2>6. \A x \in Page : x \in C <=> x \in A \/ (b <= x /\ x < b + f[b])
    <3>1. {s[j] : j \in 1 .. i + 1} = {s[j] : j \in 1 .. i} \cup {b}
      <4>1. 1 .. i + 1 = (1 .. i) \cup {i + 1}
        BY <2>2
      <4>2. QED
        BY <4>1
    <3>2. QED
      BY <3>1 DEF CoveredBy, Covered
  <2>7. C \subseteq Page /\ A \subseteq Page
    BY DEF CoveredBy, Covered
  <2>8. R \subseteq C
    BY <2>4, <2>6 DEF Page
  <2>9. A = C \ R
    <3>1. \A x \in A : x < b
      <4>1. SUFFICES ASSUME NEW x \in A PROVE x < b
        OBVIOUS
      <4>2. PICK j \in 1 .. i : s[j] <= x /\ x < s[j] + f[s[j]]
        BY DEF CoveredBy, Covered
      <4>3. QED
        BY <2>4, <2>5, <2>7, <4>2 DEF Page
    <3>2. \A x \in A : x \in C /\ x \notin R
      BY <2>4, <2>6, <2>7, <3>1 DEF Page
    <3>3. \A x \in C : x \notin R => x \in A
      BY <2>4, <2>6, <2>7 DEF Page
    <3> HIDE DEF A, C, R
    <3>4. QED
      BY <3>2, <3>3
  <2>10. Cardinality(A) = Cardinality(C) - f[b] /\ Cardinality(C) \in Nat
    <3>1. PICK k \in Nat, base \in Nat : k = f[b] /\ base = b
      BY <2>4
    <3>2. base .. base + k - 1 = R
      BY <3>1
    <3> HIDE DEF A, C, R, b
    <3>3. /\ Cardinality(C) \in 0 .. NPage
          /\ Cardinality(C \ base .. base + k - 1) = Cardinality(C) - k
      BY <2>7, <2>8, <3>2, CountPages
    <3>4. Cardinality(C \ base .. base + k - 1) = Cardinality(A)
      BY <2>9, <3>2, Zenon
    <3>5. QED
      BY <3>1, <3>3, <3>4
  <2> HIDE DEF A, b
  <2>11. QED
    BY <2>3, <2>4, <2>10
<1> HIDE DEF T
<1>4. Len(s) \in T
  BY <1>1, <1>2, <1>3, InductionOverSets
<1>5. {s[j] : j \in 1 .. Len(s)} = B
  BY <1>1
<1>6. CoveredBy(s, Len(s), f) = Covered(B, f)
  BY <1>5 DEF CoveredBy
<1>7. g[Len(s)] = Cardinality(CoveredBy(s, Len(s), f))
  BY <1>1, <1>4 DEF T
<1>8. QED
  BY <1>6, <1>7, Zenon

\* The lengths that default_check adds up make nr_free.
LEMMA TotalIsFree ==
    ASSUME NEW U, Good(pmm, U)
    PROVE  Total = pmm.nr_free
<1> DEFINE s == FreeList
           StepOf(h) == [i \in 0 .. Len(s) |->
                           IF i = 0 THEN 0 ELSE h[i - 1] + pmm.property[s[i]]]
           sum == CHOOSE h : h = StepOf(h)
<1>1. Listing(s, pmm.PG_property) /\ Laid(pmm.PG_property, pmm.property)
  BY WalkListsRing DEF FreeList, Good, Shape
<1>2. Len(s) \in Nat /\ \A i \in 1 .. Len(s) : pmm.property[s[i]] \in Int
  BY <1>1, ListedFacts DEF Laid
<1>a. PICK L \in Nat : L = Len(s)
  BY <1>2
<1>3. PICK d \in [1 .. L -> Int] : \A i \in 1 .. L : d[i] = pmm.property[s[i]]
  <2>1. [i \in 1 .. L |-> pmm.property[s[i]]] \in [1 .. L -> Int]
    BY <1>2, <1>a
  <2>2. QED
    BY <2>1
<1>4. PICK g \in [0 .. L -> Int] : g[0] = 0 /\ \A i \in 1 .. L : g[i] = g[i - 1] + d[i]
  BY SumsExist
<1>5. g = StepOf(g)
  BY <1>a, <1>3, <1>4
<1>6. Total = sum[Len(s)]
  BY DEF Total
<1>7. sum = StepOf(sum)
  <2> HIDE DEF StepOf
  <2>1. QED
    BY <1>5
<1> HIDE DEF sum
<1>8. sum[0] = 0 /\ \A i \in 1 .. Len(s) : sum[i] = sum[i - 1] + pmm.property[s[i]]
  <2>1. sum[0] = 0
    <3>1. 0 \in 0 .. Len(s)
      BY <1>2
    <3>2. QED
      BY <1>7, <3>1
  <2>2. ASSUME NEW i \in 1 .. Len(s) PROVE sum[i] = sum[i - 1] + pmm.property[s[i]]
    <3>1. i \in 0 .. Len(s) /\ i # 0
      BY <1>2
    <3> HIDE DEF s
    <3>2. QED
      BY <1>7, <3>1
  <2>3. QED
    BY <2>1, <2>2
<1>9. sum[Len(s)] = Cardinality(Covered(pmm.PG_property, pmm.property))
  <2>1. PICK t, B, f, h : t = s /\ B = pmm.PG_property /\ f = pmm.property /\ h = sum
    OBVIOUS
  <2>2. /\ Listing(t, B) /\ Laid(B, f)
        /\ h[0] = 0 /\ \A i \in 1 .. Len(t) : h[i] = h[i - 1] + f[t[i]]
    BY <1>1, <1>8, <2>1
  <2>3. h[Len(t)] = Cardinality(Covered(B, f))
    BY <2>2, SumsAreCounts
  <2>4. QED
    BY <2>1, <2>3
<1>10. QED
  BY <1>6, <1>9 DEF Good, Shape

-----------------------------------------------------------------------------
\* Every call leaves the blocks as they should be, and the last page free.
PageInv ==
    /\ Good(pmm, used)
    /\ NPage - 1 \notin used

\* All of memory is one block, the only one on the list.
LEMMA InitialGood ==
    ASSUME NEW mgr \in Managers
    PROVE  Good(InitialPmm(mgr), {})
<1> USE PageAllocAssumption
<1>1. PICK m : m = InitialPmm(mgr)
  OBVIOUS
<1> DEFINE self == [e \in Entry |-> e]
           none == [next |-> self, prev |-> self]
           f    == [p \in Page |-> IF p = 0 THEN NPage ELSE 0]
           l    == __list_add(none, 0, free_list, none.next[free_list])
<1>2. 0 \in Page /\ free_list \in Entry /\ 0 \in Entry
  BY DEF Page, Entry, free_list
<1>3. Ring(none, {})
  <2>1. none \in LinksType
    BY DEF LinksType
  <2>2. none.next[free_list] = free_list /\ none.prev[free_list] = free_list
    BY <1>2
  <2> HIDE DEF none
  <2>3. QED
    BY <2>1, <2>2 DEF Ring
<1>4. Ring(l, {0})
  <2>1. 0 \in Page \ {} /\ free_list \in {} \cup {free_list} /\ Below(free_list, 0)
    BY <1>2 DEF Below
  <2>2. 0 < none.next[free_list]
    BY <1>2 DEF free_list
  <2>3. {} \cup {0} = {0}
    OBVIOUS
  <2> HIDE DEF none
  <2>4. Ring(l, {} \cup {0})
    BY <1>3, <2>1, <2>2, AddToRing
  <2>5. QED
    BY <2>3, <2>4
<1>5. m = [manager |-> mgr, links |-> l, property |-> f, PG_property |-> {0}, nr_free |-> NPage]
  BY <1>1 DEF InitialPmm, list_add
<1>6. Laid({0}, f) /\ MergedBut({0}, f, {}, {})
  <2>1. f \in [Page -> 0 .. NPage] /\ f[0] = NPage
    BY <1>2
  <2>2. QED
    BY <1>2, <2>1 DEF Laid, MergedBut
<1>7. Covered({0}, f) = Page \ {}
  BY <1>2 DEF Covered, Page
<1>8. NPage = Cardinality(Page \ {})
  <2>1. Cardinality(Page) = NPage
    BY FS_Interval DEF Page
  <2>2. Page \ {} = Page
    OBVIOUS
  <2>3. QED
    BY <2>1, <2>2
<1>9. l \in LinksType
  BY <1>4 DEF Ring
<1> HIDE DEF l, f, none, self
<1>10. m \in PmmType
  BY <1>2, <1>5, <1>6, <1>9 DEF PmmType, Laid
<1>11. Shape(m, {})
  BY <1>4, <1>5, <1>6, <1>7, <1>8, <1>10 DEF Shape
<1>12. QED
  BY <1>1, <1>5, <1>6, <1>11 DEF Good

\* Nothing is used at first.
LEMMA InitPageInv ==
    ASSUME PageInit
    PROVE  PageInv
<1> USE PageAllocAssumption
<1>1. PICK mgr \in Managers : pmm = InitialPmm(mgr)
  BY DEF PageInit
<1>2. used = {} /\ NPage - 1 \notin used
  BY DEF PageInit
<1>3. Good(pmm, used)
  BY <1>1, <1>2, InitialGood
<1>4. QED
  BY <1>2, <1>3 DEF PageInv

\* Every call keeps it.
LEMMA NextPageInv ==
    ASSUME TopStaysFree, PageInv, [PageNext]_pageVars
    PROVE  PageInv'
<1> USE PageAllocAssumption
<1>1. ASSUME NEW n \in 1 .. NPage, alloc_pages(n) PROVE PageInv'
  <2>1. PICK a : /\ a = AllocPages(pmm, n) /\ a.page # NULL /\ pmm' = a.pmm
                 /\ used' = used \cup a.page .. a.page + n - 1
                 /\ TopKept
    BY <1>1 DEF alloc_pages
  <2>2. PICK m, U : m = pmm /\ U = used
    OBVIOUS
  <2>3. Good(m, U) /\ n \in Nat \ {0} /\ a = AllocPages(m, n) /\ AllocPages(m, n).page # NULL
    BY <2>1, <2>2 DEF PageInv
  <2>4. Good(a.pmm, U \cup a.page .. a.page + n - 1)
    BY <2>3, AllocGood
  <2>5. Good(pmm', used')
    BY <2>1, <2>2, <2>4
  <2>6. QED
    BY <2>1, <2>5 DEF PageInv, TopKept
<1>2. ASSUME NEW base \in Page, NEW n \in 1 .. NPage - base, free_pages(base, n)
      PROVE  PageInv'
  <2>1. PICK m, U : m = pmm /\ U = used
    OBVIOUS
  <2>2. /\ Good(m, U) /\ NPage - 1 \notin U /\ n \in Nat \ {0}
        /\ base .. base + n - 1 \subseteq U
    BY <1>2, <2>1 DEF PageInv, free_pages, Page
  <2>3. Good(FreePages(m, base, n), U \ base .. base + n - 1)
    BY <2>2, FreeGood
  <2>4. pmm' = FreePages(m, base, n) /\ used' = U \ base .. base + n - 1
    BY <1>2, <2>1 DEF free_pages
  <2>5. QED
    BY <2>2, <2>3, <2>4 DEF PageInv
<1>3. CASE UNCHANGED pageVars
  BY <1>3 DEF PageInv, pageVars
<1>4. QED
  BY <1>1, <1>2, <1>3 DEF PageNext

\* What PageInv says of the blocks, in the words of FreeListExact.
LEMMA PageInvExact ==
    ASSUME PageInv
    PROVE  FreeListExact
<1> USE PageAllocAssumption
<1> DEFINE B == pmm.PG_property
           f == pmm.property
           l == pmm.links
           w == FreeList
<1>1. /\ pmm \in PmmType /\ used \subseteq Page /\ Ring(l, B) /\ Laid(B, f)
      /\ Covered(B, f) = Page \ used /\ pmm.nr_free = Cardinality(Page \ used)
  BY DEF PageInv, Good, Shape
<1>2. /\ B \subseteq Page /\ f \in [Page -> 0 .. NPage] /\ l \in LinksType
      /\ \A q \in B : q \in Page /\ f[q] \in Nat /\ f[q] >= 1 /\ q + f[q] <= NPage
      /\ \A q, r \in B : q < r => q + f[q] <= r
  BY <1>1 DEF Laid, Ring
<1>3. Listing(w, B) /\ Range(w) = B
  BY <1>1, WalkListsRing DEF FreeList, Listing
<1>4. Blocks = B
  BY <1>3 DEF Blocks, ToSet, Range
<1>5. PageTypeOK
  <2>1. pmm.nr_free \in 0 .. NPage
    <3>1. PICK A : A = Page \ used
      OBVIOUS
    <3>2. Cardinality(A) \in 0 .. NPage
      BY <3>1, CountPages
    <3>3. QED
      BY <1>1, <3>1, <3>2
  <2>2. QED
    BY <1>1, <1>2, <2>1 DEF PageTypeOK, LinksType
<1>6. ListTotal
  <2>1. PICK U : U = used
    OBVIOUS
  <2>2. QED
    BY <2>1, TotalIsFree DEF PageInv, ListTotal
<1>7. UNION {Extent(p) : p \in B} = Page \ used
  <2>1. \A p \in B : Extent(p) = p .. p + f[p] - 1
    BY DEF Extent
  <2>2. ASSUME NEW x PROVE (\E p \in B : x \in Extent(p)) <=> x \in Covered(B, f)
    <3>1. ASSUME NEW p \in B, x \in Extent(p) PROVE x \in Covered(B, f)
      <4>1. p \in Page /\ f[p] \in Nat /\ p + f[p] <= NPage /\ x \in p .. p + f[p] - 1
        BY <1>2, <2>1, <3>1
      <4>2. x \in Page /\ p <= x /\ x < p + f[p]
        BY <4>1 DEF Page
      <4>3. QED
        BY <4>2 DEF Covered
    <3>2. ASSUME x \in Covered(B, f) PROVE \E p \in B : x \in Extent(p)
      <4>1. PICK p \in B : x \in Page /\ p <= x /\ x < p + f[p]
        BY <3>2 DEF Covered
      <4>2. p \in Page /\ f[p] \in Nat
        BY <1>2
      <4>3. x \in p .. p + f[p] - 1
        BY <4>1, <4>2 DEF Page
      <4>4. QED
        BY <2>1, <4>3
    <3>3. QED
      BY <3>1, <3>2
  <2>3. QED
    BY <1>1, <2>2
<1>8. \A p, q \in Blocks : p < q => p + pmm.property[p] <= q
  BY <1>2, <1>4
<1>9. \A i \in 1 .. Len(FreeList) - 1 : FreeList[i] < FreeList[i + 1]
  <2>1. Len(w) \in Nat /\ \A i, j \in 1 .. Len(w) : i < j => w[i] < w[j]
    BY <1>3, ListedFacts DEF Listing
  <2>2. QED
    BY <2>1
<1>10. \A e \in Blocks \cup {free_list} : pmm.links.prev[pmm.links.next[e]] = e
  BY <1>1, <1>4 DEF Ring
<1>11. QED
  BY <1>4, <1>5, <1>6, <1>7, <1>8, <1>9, <1>10 DEF FreeListExact

\* What PageInv promises a caller.
LEMMA PageInvServes ==
    ASSUME PageInv
    PROVE  ContiguousServed
<1> USE PageAllocAssumption
<1>1. ASSUME NEW p \in Page, NEW n \in 1 .. NPage - p, (p .. p + n - 1) \cap used = {}
      PROVE  AllocPages(pmm, n).page # NULL
  <2>1. PICK m, U : m = pmm /\ U = used
    OBVIOUS
  <2>2. Good(m, U) /\ n \in Nat \ {0} /\ p + n <= NPage /\ (p .. p + n - 1) \cap U = {}
    BY <1>1, <2>1 DEF PageInv, Page
  <2>3. AllocPages(m, n).page # NULL
    BY <2>2, AllocServes
  <2>4. QED
    BY <2>1, <2>3
<1>2. QED
  BY <1>1 DEF ContiguousServed

\* Whatever is allocated and freed, and in whatever order, the free list holds
\* exactly the free pages: in address order, linked both ways, each block once, with
\* PG_property set on first pages only, and nr_free their number.  For any number of
\* pages and both managers, as long as the last page is never given away.
THEOREM FreeListAlwaysExact ==
    ASSUME TopStaysFree
    PROVE  PageSpec => []FreeListExact
<1>1. PageInit => PageInv
  BY InitPageInv
<1>2. PageInv /\ [PageNext]_pageVars => PageInv'
  BY NextPageInv
<1>3. PageInv => FreeListExact
  BY PageInvExact
<1>4. QED
  BY <1>1, <1>2, <1>3, PTL DEF PageSpec

\* Freed blocks are always merged with the free blocks around them, so a request is met
\* whenever that many contiguous pages are free, under the same conditions.
THEOREM ContiguousAlwaysServed ==
    ASSUME TopStaysFree
    PROVE  PageSpec => []ContiguousServed
<1>1. PageInit => PageInv
  BY InitPageInv
<1>2. PageInv /\ [PageNext]_pageVars => PageInv'
  BY NextPageInv
<1>3. PageInv => ContiguousServed
  BY PageInvServes
<1>4. QED
  BY <1>1, <1>2, <1>3, PTL DEF PageSpec

-----------------------------------------------------------------------------

\* 1 << n is positive and doubles with n.
LEMMA ShiftFacts ==
    /\ Shift \in [Nat -> Nat \ {0}] /\ Shift[0] = 1
    /\ \A n \in Nat : Shift[n + 1] = 2 * Shift[n]
    /\ \A m, n \in Nat : m <= n => Shift[m] <= Shift[n]
<1> DEFINE StepOf(h) == [n \in Nat |-> IF n = 0 THEN 1 ELSE 2 * h[n - 1]]
           Stop == {0}
           v == [s \in Nat |-> 1]
           d == [s \in Nat |-> IF s = 0 THEN 0 ELSE s - 1]
           g == [s \in Nat |-> 2 * s]
<1>1. \E f \in [Nat -> Nat] : Recursive(f, Stop, v, d, g)
  <2>1. Stop \in SUBSET Nat /\ v \in [Nat -> Nat] /\ d \in [Nat -> Nat] /\ g \in [Nat -> Nat]
        /\ \A s \in Nat \ Stop : d[s] < s
    OBVIOUS
  <2> HIDE DEF Stop, v, d, g
  <2>2. QED
    BY <2>1, RecursionExists
<1>2. PICK f \in [Nat -> Nat] : \A s \in Nat : f[s] = IF s \in Stop THEN v[s] ELSE g[f[d[s]]]
  BY <1>1 DEF Recursive
<1>3. f[0] = 1 /\ \A s \in Nat \ {0} : f[s] = 2 * f[s - 1]
  <2>1. f[0] = 1
    BY <1>2
  <2>2. ASSUME NEW s \in Nat \ {0} PROVE f[s] = 2 * f[s - 1]
    <3>1. s - 1 \in Nat /\ f[s - 1] \in Nat /\ d[s] = s - 1 /\ s \notin Stop
      BY <1>2
    <3>2. f[s] = g[f[s - 1]]
      BY <1>2, <3>1
    <3>3. QED
      BY <3>1, <3>2
  <2>3. QED
    BY <2>1, <2>2
<1>4. f = StepOf(f)
  BY <1>2, <1>3
<1>5. Shift = StepOf(Shift)
  BY <1>4 DEF Shift
<1>6. DOMAIN Shift = Nat /\ Shift[0] = 1 /\ \A n \in Nat \ {0} : Shift[n] = 2 * Shift[n - 1]
  BY <1>5
<1> HIDE DEF StepOf
<1>7. \A n \in Nat : Shift[n + 1] = 2 * Shift[n]
  <2>1. SUFFICES ASSUME NEW n \in Nat PROVE Shift[n + 1] = 2 * Shift[n]
    OBVIOUS
  <2>2. n + 1 \in Nat \ {0} /\ (n + 1) - 1 = n
    OBVIOUS
  <2>3. QED
    BY <1>6, <2>2
<1> DEFINE P == {n \in Nat : Shift[n] \in Nat \ {0}}
<1>8. Nat \subseteq P
  <2>1. 0 \in P
    BY <1>6
  <2>2. ASSUME NEW n \in Nat, n \in P PROVE n + 1 \in P
    BY <1>7, <2>2
  <2> HIDE DEF P
  <2>3. QED
    BY <2>1, <2>2, InductionOverSets
<1>9. \A n \in Nat : Shift[n] \in Nat \ {0}
  BY <1>8
<1> DEFINE M == {n \in Nat : \A m \in 0 .. n : Shift[m] <= Shift[n]}
<1>10. Nat \subseteq M
  <2>1. 0 \in M
    BY <1>9
  <2>2. ASSUME NEW n \in Nat, n \in M PROVE n + 1 \in M
    <3>1. Shift[n + 1] = 2 * Shift[n] /\ Shift[n] \in Nat /\ Shift[n + 1] \in Nat
      BY <1>7, <1>9
    <3>2. ASSUME NEW m \in 0 .. n + 1 PROVE Shift[m] <= Shift[n + 1]
      <4>1. m \in Nat /\ Shift[m] \in Nat /\ (m = n + 1 \/ m \in 0 .. n)
        BY <1>9
      <4>2. m \in 0 .. n => Shift[m] <= Shift[n]
        BY <2>2
      <4>3. QED
        BY <3>1, <4>1, <4>2
    <3>3. QED
      BY <3>2
  <2> HIDE DEF M
  <2>3. QED
    BY <2>1, <2>2, InductionOverSets
<1>11. Shift \in [Nat -> Nat \ {0}]
  <2>1. Shift = [n \in Nat |-> Shift[n]]
    BY <1>5 DEF StepOf
  <2>2. QED
    BY <1>9, <2>1
<1>12. \A m, n \in Nat : m <= n => Shift[m] <= Shift[n]
  <2>1. \A m, n \in Nat : m <= n => m \in 0 .. n
    OBVIOUS
  <2>2. QED
    BY <1>10, <2>1
<1>13. QED
  BY <1>6, <1>7, <1>11, <1>12

-----------------------------------------------------------------------------
(***************************************************************************)
(* The SLUB heap of lab2.  A cache's three lists, and a slab moved from    *)
(* one to another.                                                         *)
(***************************************************************************)

\* The three lists of a cache, and the one a slab of n objects in use belongs on.
SlabLists == {"slabs_full", "slabs_partial", "slabs_empty"}

ListFor(n, num) ==
    IF n = 0 THEN "slabs_empty" ELSE IF n = num THEN "slabs_full" ELSE "slabs_partial"

CacheType ==
    [page : Page, obj_size : Nat \ {0}, num_per_slab : Nat \ {0},
     slabs_full : Seq(Page), slabs_partial : Seq(Page), slabs_empty : Seq(Page),
     total_slabs : Nat, active_objs : Nat]

SlabType == [cache : Nat, inuse : Nat, freelist : Seq(Nat)]

\* The objects of the slab in page p, for a cache like c.
ObjsOn(c, p) == {SlabAddr(p) + 1 + i * c.obj_size : i \in 0 .. c.num_per_slab - 1}

\* The list l holds the pages S, each once.
Lists(l, S) == l \in Seq(Page) /\ IsInjective(l) /\ Range(l) = S

Slabs(c) == Len(c.slabs_full) + Len(c.slabs_partial) + Len(c.slabs_empty)

\* Unlinking a slab that may be on the list or not.
LEMMA UnlinkedFacts ==
    ASSUME NEW l, NEW S, Lists(l, S), NEW p \in Page
    PROVE  /\ Lists(Unlinked(l, p), S \ {p})
           /\ Len(l) \in Nat /\ Len(Unlinked(l, p)) \in Nat
           /\ Len(Unlinked(l, p)) = Len(l) - (IF p \in S THEN 1 ELSE 0)
<1>1. l \in Seq(Page) /\ IsInjective(l) /\ Range(l) = S
  BY DEF Lists
<1>2. Len(l) \in Nat /\ DOMAIN l = 1 .. Len(l)
  BY <1>1, LenProperties
<1>3. ToSet(l) = S
  BY <1>1 DEF ToSet, Range
<1>4. CASE p \in S
  <2>1. \E i \in DOMAIN l : l[i] = p
    BY <1>1, <1>4 DEF Range
  <2>2. PICK i : i = CHOOSE j \in DOMAIN l : l[j] = p
    OBVIOUS
  <2>3. i \in 1 .. Len(l) /\ l[i] = p
    BY <1>2, <2>1, <2>2
  <2>4. Unlinked(l, p) = RemoveAt(l, i)
    BY <1>3, <1>4, <2>2 DEF Unlinked
  <2>5. /\ RemoveAt(l, i) \in Seq(Page) /\ Len(RemoveAt(l, i)) = Len(l) - 1
        /\ Range(RemoveAt(l, i)) = Range(l) \ {l[i]} /\ IsInjective(RemoveAt(l, i))
    BY <1>1, <2>3, RemoveAtFacts
  <2>6. QED
    BY <1>1, <1>2, <1>4, <2>3, <2>4, <2>5 DEF Lists
<1>5. CASE p \notin S
  <2>1. Unlinked(l, p) = l /\ S \ {p} = S
    BY <1>3, <1>5 DEF Unlinked
  <2>2. Len(Unlinked(l, p)) = Len(l) - (IF p \in S THEN 1 ELSE 0)
    BY <1>2, <1>5, <2>1
  <2>3. Lists(Unlinked(l, p), S \ {p})
    BY ONLY <2>1, Lists(l, S)
  <2>4. QED
    BY <1>2, <2>1, <2>2, <2>3
<1>6. QED
  BY <1>4, <1>5

\* Linking a slab at the tail.
LEMMA LinkedFacts ==
    ASSUME NEW l, NEW S, Lists(l, S), NEW p \in Page, p \notin S
    PROVE  /\ Lists(Append(l, p), S \cup {p})
           /\ Len(l) \in Nat /\ Len(Append(l, p)) = Len(l) + 1
<1>1. l \in Seq(Page) /\ IsInjective(l) /\ Range(l) = S /\ Len(l) \in Nat
  BY LenProperties DEF Lists
<1>2. /\ Append(l, p) \in Seq(Page) /\ Len(Append(l, p)) = Len(l) + 1
      /\ Range(Append(l, p)) = Range(l) \cup {p} /\ IsInjective(Append(l, p))
  BY <1>1, AppendFacts
<1>3. QED
  BY <1>1, <1>2 DEF Lists

\* The lists of cache c hold the slabs S[name], and slab p is on the list from.
MoveReady(c, S, p, from) ==
    /\ c \in CacheType /\ p \in Page /\ from \in SlabLists
    /\ \A name \in SlabLists : Lists(c[name], S[name])
    /\ \A name \in SlabLists : p \in S[name] <=> name = from

\* Cache d is c with slab p on the list named and on no other.
MoveDone(c, S, p, list, d) ==
    /\ d \in CacheType
    /\ \A name \in SlabLists :
         Lists(d[name], IF name = list THEN S[name] \cup {p} ELSE S[name] \ {p})
    /\ Slabs(d) = Slabs(c)
    /\ d.page = c.page /\ d.obj_size = c.obj_size /\ d.num_per_slab = c.num_per_slab
    /\ d.total_slabs = c.total_slabs /\ d.active_objs = c.active_objs

\* A slab that is on one of the lists is moved to the tail of the list named.
LEMMA MovedFacts ==
    ASSUME NEW c, NEW S, NEW p, NEW list \in SlabLists, NEW from, MoveReady(c, S, p, from)
    PROVE  MoveDone(c, S, p, list, Moved(c, p, list))
<1> DEFINE U(name) == Unlinked(c[name], p)
           d == Moved(c, p, list)
           cut == [c EXCEPT !.slabs_full = Unlinked(@, p), !.slabs_partial = Unlinked(@, p),
                            !.slabs_empty = Unlinked(@, p)]
<1>0. /\ c \in CacheType /\ p \in Page /\ from \in SlabLists
      /\ \A name \in SlabLists : Lists(c[name], S[name])
      /\ \A name \in SlabLists : p \in S[name] <=> name = from
  BY DEF MoveReady
<1>1. \A name \in SlabLists :
        /\ Lists(U(name), S[name] \ {p}) /\ U(name) \in Seq(Page)
        /\ Len(c[name]) \in Nat /\ Len(U(name)) \in Nat
        /\ Len(U(name)) = Len(c[name]) - (IF p \in S[name] THEN 1 ELSE 0)
  <2>1. SUFFICES ASSUME NEW name \in SlabLists
                 PROVE  /\ Lists(U(name), S[name] \ {p}) /\ U(name) \in Seq(Page)
                        /\ Len(c[name]) \in Nat /\ Len(U(name)) \in Nat
                        /\ Len(U(name)) = Len(c[name]) - (IF p \in S[name] THEN 1 ELSE 0)
    OBVIOUS
  <2>2. Lists(c[name], S[name])
    BY <1>0, <2>1
  <2>3. Lists(U(name), S[name] \ {p}) => U(name) \in Seq(Page)
    BY DEF Lists
  <2>4. QED
    BY <1>0, <2>2, <2>3, UnlinkedFacts
<1>2. /\ cut.page = c.page /\ cut.obj_size = c.obj_size /\ cut.num_per_slab = c.num_per_slab
      /\ cut.total_slabs = c.total_slabs /\ cut.active_objs = c.active_objs
      /\ cut.slabs_full = U("slabs_full") /\ cut.slabs_partial = U("slabs_partial")
      /\ cut.slabs_empty = U("slabs_empty")
      /\ cut \in CacheType
  <2>1. /\ U("slabs_full") \in Seq(Page) /\ U("slabs_partial") \in Seq(Page)
        /\ U("slabs_empty") \in Seq(Page)
    BY <1>1 DEF SlabLists
  <2> HIDE DEF U
  <2>2. /\ cut = [c EXCEPT !.slabs_full = U("slabs_full"), !.slabs_partial = U("slabs_partial"),
                           !.slabs_empty = U("slabs_empty")]
    BY <1>0 DEF U, CacheType
  <2> HIDE DEF cut
  <2>3. QED
    BY <1>0, <2>1, <2>2 DEF CacheType
<1>3. d = [cut EXCEPT ![list] = Append(@, p)]
  BY DEF Moved
<1>4. Append(U(list), p) \in Seq(Page) /\ Len(Append(U(list), p)) = Len(U(list)) + 1
      /\ Lists(Append(U(list), p), S[list] \cup {p})
  <2>1. Lists(U(list), S[list] \ {p}) /\ p \notin S[list] \ {p}
    BY <1>1
  <2>2. (S[list] \ {p}) \cup {p} = S[list] \cup {p}
    OBVIOUS
  <2> HIDE DEF U
  <2>3. /\ Lists(Append(U(list), p), (S[list] \ {p}) \cup {p})
        /\ Len(Append(U(list), p)) = Len(U(list)) + 1
    BY <1>0, <2>1, LinkedFacts
  <2>4. QED
    BY <2>2, <2>3 DEF Lists
<1> HIDE DEF U, d, cut
<1>5. /\ d.page = c.page /\ d.obj_size = c.obj_size /\ d.num_per_slab = c.num_per_slab
      /\ d.total_slabs = c.total_slabs /\ d.active_objs = c.active_objs
      /\ d.slabs_full = IF list = "slabs_full" THEN Append(U(list), p) ELSE U("slabs_full")
      /\ d.slabs_partial = IF list = "slabs_partial" THEN Append(U(list), p) ELSE U("slabs_partial")
      /\ d.slabs_empty = IF list = "slabs_empty" THEN Append(U(list), p) ELSE U("slabs_empty")
      /\ d \in CacheType
  <2>1. CASE list = "slabs_full"
    BY <1>2, <1>3, <1>4, <2>1 DEF CacheType
  <2>2. CASE list = "slabs_partial"
    BY <1>2, <1>3, <1>4, <2>2 DEF CacheType
  <2>3. CASE list = "slabs_empty"
    BY <1>2, <1>3, <1>4, <2>3 DEF CacheType
  <2>4. QED
    BY <2>1, <2>2, <2>3 DEF SlabLists
<1>6. "slabs_full" \in SlabLists /\ "slabs_partial" \in SlabLists /\ "slabs_empty" \in SlabLists
  BY DEF SlabLists
<1>7. \A name \in SlabLists :
        Lists(d[name], IF name = list THEN S[name] \cup {p} ELSE S[name] \ {p})
  BY <1>1, <1>4, <1>5, <1>6 DEF SlabLists
<1>8. Slabs(d) = Slabs(c)
  <2>1. \A name \in SlabLists : Len(d[name]) = Len(U(name)) + (IF name = list THEN 1 ELSE 0)
    <3>1. SUFFICES ASSUME NEW name \in SlabLists
                   PROVE  Len(d[name]) = Len(U(name)) + (IF name = list THEN 1 ELSE 0)
      OBVIOUS
    <3>2. d[name] = IF name = list THEN Append(U(list), p) ELSE U(name)
      BY <1>5 DEF SlabLists
    <3>3. Len(U(name)) \in Nat
      BY <1>1
    <3>4. QED
      BY <1>4, <3>2, <3>3
  <2>2. \A name \in SlabLists :
          Len(d[name]) = (Len(c[name]) - (IF name = from THEN 1 ELSE 0)) + (IF name = list THEN 1 ELSE 0)
    BY <1>0, <1>1, <2>1
  <2>3. /\ Len(d.slabs_full) = (Len(c.slabs_full) - (IF "slabs_full" = from THEN 1 ELSE 0))
             + (IF "slabs_full" = list THEN 1 ELSE 0)
        /\ Len(d.slabs_partial) = (Len(c.slabs_partial) - (IF "slabs_partial" = from THEN 1 ELSE 0))
             + (IF "slabs_partial" = list THEN 1 ELSE 0)
        /\ Len(d.slabs_empty) = (Len(c.slabs_empty) - (IF "slabs_empty" = from THEN 1 ELSE 0))
             + (IF "slabs_empty" = list THEN 1 ELSE 0)
        /\ Len(c.slabs_full) \in Nat /\ Len(c.slabs_partial) \in Nat /\ Len(c.slabs_empty) \in Nat
    BY <1>1, <1>6, <2>2
  <2>4. PICK fa \in Int, fb \in Int, fe \in Int :
               /\ fa = IF "slabs_full" = from THEN 1 ELSE 0
               /\ fb = IF "slabs_partial" = from THEN 1 ELSE 0
               /\ fe = IF "slabs_empty" = from THEN 1 ELSE 0
    OBVIOUS
  <2>5. PICK ta \in Int, tb \in Int, te \in Int :
               /\ ta = IF "slabs_full" = list THEN 1 ELSE 0
               /\ tb = IF "slabs_partial" = list THEN 1 ELSE 0
               /\ te = IF "slabs_empty" = list THEN 1 ELSE 0
    OBVIOUS
  <2>6. fa + fb + fe = 1 /\ ta + tb + te = 1
    BY <1>0, <2>4, <2>5 DEF SlabLists
  <2>7. /\ Len(d.slabs_full) = (Len(c.slabs_full) - fa) + ta
        /\ Len(d.slabs_partial) = (Len(c.slabs_partial) - fb) + tb
        /\ Len(d.slabs_empty) = (Len(c.slabs_empty) - fe) + te
        /\ Len(c.slabs_full) \in Int /\ Len(c.slabs_partial) \in Int /\ Len(c.slabs_empty) \in Int
    BY ONLY <2>3, <2>4, <2>5
  <2>8. PICK a, b, e, x, y, z :
               /\ a = Len(c.slabs_full) /\ b = Len(c.slabs_partial) /\ e = Len(c.slabs_empty)
               /\ x = Len(d.slabs_full) /\ y = Len(d.slabs_partial) /\ z = Len(d.slabs_empty)
    OBVIOUS
  <2>9. /\ a \in Int /\ b \in Int /\ e \in Int
        /\ x = (a - fa) + ta /\ y = (b - fb) + tb /\ z = (e - fe) + te
    BY ONLY <2>7, <2>8
  <2>10. x + y + z = a + b + e
    BY <2>6, <2>9
  <2>11. QED
    BY ONLY <2>8, <2>10 DEF Slabs
<1>9. QED
  BY <1>5, <1>7, <1>8 DEF d, MoveDone

-----------------------------------------------------------------------------
(***************************************************************************)
(* A heap that is as it should be: HeapOK.                                 *)
(***************************************************************************)

\* A quotient is given by its remainder.
LEMMA DivUnique ==
    ASSUME NEW n \in Nat \ {0}, NEW q \in Nat, NEW r \in 0 .. n - 1
    PROVE  (n * q + r) \div n = q /\ n * q + r \in Nat
<1>1. ASSUME NEW a \in Nat, a = n * q + r PROVE a \div n = q
  BY <1>1
<1>2. n * q + r \in Nat
  OBVIOUS
<1>3. QED
  BY <1>1, <1>2

\* Multiplying by a natural number keeps the order.
LEMMA ProductMonotone ==
    ASSUME NEW a \in Nat, NEW b \in Nat, NEW c \in Nat, a <= b
    PROVE  a * c \in Nat /\ b * c \in Nat /\ a * c <= b * c
OBVIOUS

\* The i-th object of the slab in page p lies in that page.
LEMMA ObjectPlace ==
    ASSUME NEW c \in CacheType, c.num_per_slab * c.obj_size < PGSIZE, NEW p \in Page,
           NEW i \in 0 .. c.num_per_slab - 1
    PROVE  LET o == SlabAddr(p) + 1 + i * c.obj_size
           IN  /\ o \in Nat /\ obj_to_slab(o) = p /\ o \in SlabAddr(p) .. SlabAddr(p) + PGSIZE - 1
               /\ i * c.obj_size \in Nat
<1> DEFINE s == c.obj_size
           n == c.num_per_slab
<1>1. /\ s \in Nat \ {0} /\ n \in Nat \ {0} /\ PGSIZE \in Nat \ {0} /\ p \in Nat /\ n * s < PGSIZE
  BY PageAllocAssumption DEF CacheType, Page
<1> HIDE DEF s, n
<1>2. i \in Nat /\ i + 1 \in Nat /\ i + 1 <= n
  BY <1>1 DEF n
<1>3. (i + 1) * s \in Nat /\ n * s \in Nat /\ (i + 1) * s <= n * s
  BY <1>1, <1>2, ProductMonotone
<1>4. i * s \in Nat /\ (i + 1) * s = i * s + s
  BY <1>1, <1>2
<1>5. PICK x : x = i * s
  OBVIOUS
<1>6. x \in Nat /\ 1 + x \in 0 .. PGSIZE - 1
  BY <1>1, <1>3, <1>4, <1>5
<1>7. /\ (PGSIZE * (p + 1) + (1 + x)) \div PGSIZE = p + 1
      /\ PGSIZE * (p + 1) + (1 + x) \in Nat
  BY <1>1, <1>6, DivUnique
<1>8. SlabAddr(p) = PGSIZE * (p + 1) /\ SlabAddr(p) \in Nat
  BY <1>1 DEF SlabAddr
<1>9. SlabAddr(p) + 1 + x = PGSIZE * (p + 1) + (1 + x)
  BY <1>6, <1>8
<1>10. QED
  BY <1>1, <1>5, <1>6, <1>7, <1>8, <1>9 DEF obj_to_slab, s

\* The objects of a slab lie in its page and are finitely many.
LEMMA ObjectsFacts ==
    ASSUME NEW c \in CacheType, c.num_per_slab * c.obj_size < PGSIZE, NEW p \in Page
    PROVE  /\ \A o \in ObjsOn(c, p) : o \in Nat /\ obj_to_slab(o) = p
           /\ IsFiniteSet(ObjsOn(c, p))
<1>1. ASSUME NEW o \in ObjsOn(c, p)
      PROVE  /\ o \in Nat /\ obj_to_slab(o) = p /\ o \in SlabAddr(p) .. SlabAddr(p) + PGSIZE - 1
  <2>1. PICK i \in 0 .. c.num_per_slab - 1 : o = SlabAddr(p) + 1 + i * c.obj_size
    BY DEF ObjsOn
  <2>2. QED
    BY <2>1, ObjectPlace
<1>2. IsFiniteSet(SlabAddr(p) .. SlabAddr(p) + PGSIZE - 1)
  <2>1. SlabAddr(p) \in Int /\ SlabAddr(p) + PGSIZE - 1 \in Int
    BY PageAllocAssumption DEF SlabAddr, Page
  <2>2. QED
    BY <2>1, FS_Interval
<1>3. ObjsOn(c, p) \subseteq SlabAddr(p) .. SlabAddr(p) + PGSIZE - 1
  BY <1>1
<1>4. QED
  BY <1>1, <1>2, <1>3, FS_Subset

-----------------------------------------------------------------------------
\* The slabs of cache k that belong on the list of that name.
OnList(s, k, name) ==
    {p \in DOMAIN s.slabs : /\ s.slabs[p].cache = k
                            /\ ListFor(s.slabs[p].inuse, s.caches[k].num_per_slab) = name}

HeldOn(s, p) == ObjsOn(s.caches[s.slabs[p].cache], p) \cap DOMAIN s.objs

HeldFrom(s, k) == {o \in DOMAIN s.objs : s.objs[o] = k}

SlabOK(s, p) ==
    LET sl == s.slabs[p]
        c  == s.caches[sl.cache]
    IN  /\ sl \in SlabType /\ sl.cache \in DOMAIN s.caches
        /\ Range(sl.freelist) = ObjsOn(c, p) \ HeldOn(s, p) /\ IsInjective(sl.freelist)
        /\ Len(sl.freelist) + sl.inuse = c.num_per_slab
        /\ sl.inuse = Cardinality(HeldOn(s, p))
        /\ \A o \in HeldOn(s, p) : s.objs[o] = sl.cache

CacheOK(s, k) ==
    LET c == s.caches[k]
    IN  /\ c \in CacheType /\ c.num_per_slab * c.obj_size < PGSIZE
        /\ \A name \in SlabLists : Lists(c[name], OnList(s, k, name))
        /\ c.total_slabs = Slabs(c)
        /\ c.active_objs = Cardinality(HeldFrom(s, k))

HeapOK(s) ==
    /\ DOMAIN s = {"caches", "slabs", "objs", "pages"}
    /\ s.pages \subseteq Page /\ DOMAIN s.slabs \subseteq s.pages
    /\ IsFiniteSet(DOMAIN s.objs)
    /\ \A p \in DOMAIN s.slabs : SlabOK(s, p)
    /\ \A k \in DOMAIN s.caches : k \in Nat /\ CacheOK(s, k)
    /\ \A o \in DOMAIN s.objs :
         obj_to_slab(o) \in DOMAIN s.slabs /\ o \in HeldOn(s, obj_to_slab(o))
    /\ \A k \in DOMAIN s.caches : s.caches[k].page \in s.pages \ DOMAIN s.slabs
    /\ \A j, k \in DOMAIN s.caches : s.caches[j].page = s.caches[k].page => j = k
    /\ \A p \in s.pages \ DOMAIN s.slabs : \E k \in DOMAIN s.caches : s.caches[k].page = p

\* A list of three parts that share no entries has no entry twice.
LEMMA JoinedFacts ==
    ASSUME NEW l, NEW S, Lists(l, S), NEW m, NEW T, Lists(m, T), S \cap T = {}
    PROVE  /\ Lists(l \o m, S \cup T)
           /\ Len(l \o m) = Len(l) + Len(m) /\ Len(l) \in Nat /\ Len(m) \in Nat
<1>1. /\ l \in Seq(Page) /\ IsInjective(l) /\ Range(l) = S
      /\ m \in Seq(Page) /\ IsInjective(m) /\ Range(m) = T
  BY DEF Lists
<1>2. /\ Len(l) \in Nat /\ DOMAIN l = 1 .. Len(l) /\ Len(m) \in Nat /\ DOMAIN m = 1 .. Len(m)
  BY <1>1, LenProperties
<1>3. PICK t : t = l \o m
  OBVIOUS
<1>4. /\ t \in Seq(Page) /\ Len(t) = Len(l) + Len(m)
      /\ \A i \in 1 .. Len(l) + Len(m) : t[i] = IF i <= Len(l) THEN l[i] ELSE m[i - Len(l)]
  BY <1>1, <1>3, ConcatProperties
<1>5. DOMAIN t = 1 .. Len(l) + Len(m)
  BY <1>4, LenProperties
<1>6. \A i \in 1 .. Len(l) : t[i] = l[i] /\ l[i] \in S
  BY <1>1, <1>2, <1>4 DEF Range
<1>7. \A i \in Len(l) + 1 .. Len(l) + Len(m) :
        i - Len(l) \in 1 .. Len(m) /\ t[i] = m[i - Len(l)] /\ m[i - Len(l)] \in T
  <2>1. TAKE i \in Len(l) + 1 .. Len(l) + Len(m)
  <2>2. i - Len(l) \in 1 .. Len(m) /\ i \in 1 .. Len(l) + Len(m) /\ ~(i <= Len(l))
    BY <1>2
  <2>3. t[i] = m[i - Len(l)]
    BY <1>4, <2>2
  <2>4. m[i - Len(l)] \in T
    BY <1>1, <1>2, <2>2 DEF Range
  <2>5. QED
    BY <2>2, <2>3, <2>4
<1>8. IsInjective(t)
  <2>1. SUFFICES ASSUME NEW i \in DOMAIN t, NEW j \in DOMAIN t, t[i] = t[j] PROVE i = j
    BY DEF IsInjective
  <2>2. i \in 1 .. Len(l) \/ i \in Len(l) + 1 .. Len(l) + Len(m)
    BY <1>2, <1>5
  <2>3. j \in 1 .. Len(l) \/ j \in Len(l) + 1 .. Len(l) + Len(m)
    BY <1>2, <1>5
  <2>4. CASE i \in 1 .. Len(l) /\ j \in 1 .. Len(l)
    BY <1>1, <1>2, <1>6, <2>1, <2>4 DEF IsInjective
  <2>5. CASE i \in Len(l) + 1 .. Len(l) + Len(m) /\ j \in Len(l) + 1 .. Len(l) + Len(m)
    <3>1. i - Len(l) = j - Len(l)
      BY <1>1, <1>2, <1>7, <2>1, <2>5 DEF IsInjective
    <3>2. QED
      BY <1>2, <2>5, <3>1
  <2>6. QED
    BY <1>6, <1>7, <2>1, <2>2, <2>3, <2>4, <2>5
<1>9. Range(t) = S \cup T
  <2>1. ASSUME NEW x \in Range(t) PROVE x \in S \cup T
    <3>1. PICK i \in 1 .. Len(l) + Len(m) : t[i] = x
      BY <1>5 DEF Range
    <3>2. QED
      BY <1>2, <1>6, <1>7, <3>1
  <2>2. ASSUME NEW x \in S PROVE x \in Range(t)
    <3>1. PICK i \in 1 .. Len(l) : l[i] = x
      BY <1>1, <1>2 DEF Range
    <3>2. i \in DOMAIN t
      BY <1>2, <1>5
    <3>3. QED
      BY <1>6, <3>1, <3>2 DEF Range
  <2>3. ASSUME NEW x \in T PROVE x \in Range(t)
    <3>1. PICK i \in 1 .. Len(m) : m[i] = x
      BY <1>1, <1>2 DEF Range
    <3>2. Len(l) + i \in DOMAIN t /\ t[Len(l) + i] = x
      <4>1. Len(l) + i \in Len(l) + 1 .. Len(l) + Len(m) /\ (Len(l) + i) - Len(l) = i
        BY <1>2, <3>1
      <4>2. Len(l) + i \in 1 .. Len(l) + Len(m)
        BY <1>2, <4>1
      <4>3. QED
        BY <1>5, <1>7, <3>1, <4>1, <4>2
    <3>3. QED
      BY <3>2 DEF Range
  <2>4. QED
    BY <2>1, <2>2, <2>3
<1>10. QED
  BY <1>2, <1>3, <1>4, <1>8, <1>9 DEF Lists

\* What HeapOK says of the heap, in the words of SlabsExact.
LEMMA HeapOKExact ==
    ASSUME HeapOK(slub)
    PROVE  SlabsExact
<1> DEFINE s == slub
<1>1. ASSUME NEW p \in DOMAIN slub.slabs
      PROVE  LET sl   == slub.slabs[p]
                 c    == slub.caches[sl.cache]
                 held == ObjectsOf(p) \cap DOMAIN slub.objs
             IN  /\ ToSet(sl.freelist) = ObjectsOf(p) \ held /\ IsInjective(sl.freelist)
                 /\ sl.inuse = Cardinality(held)
                 /\ \A o \in held : slub.objs[o] = sl.cache
                 /\ (p \in ToSet(c.slabs_full)) <=> sl.inuse = c.num_per_slab
                 /\ (p \in ToSet(c.slabs_partial)) <=> sl.inuse \in 1 .. c.num_per_slab - 1
                 /\ (p \in ToSet(c.slabs_empty)) <=> sl.inuse = 0
  <2> DEFINE sl == slub.slabs[p]
             k  == sl.cache
             c  == slub.caches[k]
  <2>1. SlabOK(slub, p) /\ CacheOK(slub, k) /\ k \in DOMAIN slub.caches
    <3>1. SlabOK(slub, p)
      BY DEF HeapOK
    <3>2. k \in DOMAIN slub.caches
      BY <3>1 DEF SlabOK
    <3>3. QED
      BY <3>1, <3>2 DEF HeapOK
  <2>2. ObjectsOf(p) = ObjsOn(c, p) /\ ObjectsOf(p) \cap DOMAIN slub.objs = HeldOn(slub, p)
    BY DEF ObjectsOf, ObjsOn, HeldOn
  <2>3. /\ ToSet(sl.freelist) = ObjectsOf(p) \ HeldOn(slub, p) /\ IsInjective(sl.freelist)
        /\ sl.inuse = Cardinality(HeldOn(slub, p))
        /\ \A o \in HeldOn(slub, p) : slub.objs[o] = k
    BY <2>1, <2>2 DEF SlabOK, ToSet, Range
  <2>4. sl.inuse \in Nat /\ c.num_per_slab \in Nat \ {0} /\ sl.inuse <= c.num_per_slab
    <3>1. Len(sl.freelist) \in Nat /\ sl.inuse \in Nat
      BY <2>1, LenProperties DEF SlabOK, SlabType
    <3>2. c.num_per_slab \in Nat \ {0} /\ Len(sl.freelist) + sl.inuse = c.num_per_slab
      BY <2>1 DEF SlabOK, CacheOK, CacheType
    <3> HIDE DEF c, sl
    <3>3. QED
      BY <3>1, <3>2
  <2>5. ASSUME NEW name \in SlabLists
        PROVE  p \in ToSet(c[name]) <=> ListFor(sl.inuse, c.num_per_slab) = name
    <3>1. Range(c[name]) = OnList(slub, k, name)
      BY <2>1 DEF CacheOK, Lists
    <3>2. ToSet(c[name]) = Range(c[name])
      BY DEF ToSet, Range
    <3>3. QED
      BY <3>1, <3>2 DEF OnList
  <2>6. /\ p \in ToSet(c.slabs_full) <=> ListFor(sl.inuse, c.num_per_slab) = "slabs_full"
        /\ p \in ToSet(c.slabs_partial) <=> ListFor(sl.inuse, c.num_per_slab) = "slabs_partial"
        /\ p \in ToSet(c.slabs_empty) <=> ListFor(sl.inuse, c.num_per_slab) = "slabs_empty"
    BY <2>5 DEF SlabLists
  <2> HIDE DEF c, sl, k
  <2>7. /\ ListFor(sl.inuse, c.num_per_slab) = "slabs_full" <=> sl.inuse = c.num_per_slab
        /\ ListFor(sl.inuse, c.num_per_slab) = "slabs_partial" <=> sl.inuse \in 1 .. c.num_per_slab - 1
        /\ ListFor(sl.inuse, c.num_per_slab) = "slabs_empty" <=> sl.inuse = 0
    BY <2>4 DEF ListFor
  <2>8. QED
    BY <2>2, <2>3, <2>6, <2>7 DEF c, sl, k
<1>2. ASSUME NEW k \in DOMAIN slub.caches
      PROVE  LET c   == slub.caches[k]
                 all == c.slabs_full \o c.slabs_partial \o c.slabs_empty
             IN  /\ IsInjective(all)
                 /\ ToSet(all) = {p \in DOMAIN slub.slabs : slub.slabs[p].cache = k}
                 /\ c.total_slabs = Len(all)
                 /\ c.active_objs = Cardinality({o \in DOMAIN slub.objs : slub.objs[o] = k})
  <2> DEFINE c   == slub.caches[k]
             all == c.slabs_full \o c.slabs_partial \o c.slabs_empty
             F == OnList(slub, k, "slabs_full")
             P == OnList(slub, k, "slabs_partial")
             E == OnList(slub, k, "slabs_empty")
  <2>1. CacheOK(slub, k)
    BY DEF HeapOK
  <2>2. Lists(c.slabs_full, F) /\ Lists(c.slabs_partial, P) /\ Lists(c.slabs_empty, E)
    BY <2>1 DEF CacheOK, SlabLists
  <2>3. F \cap P = {} /\ (F \cup P) \cap E = {}
    BY DEF OnList
  <2>4. (F \cup P) \cup E = {p \in DOMAIN slub.slabs : slub.slabs[p].cache = k}
    BY DEF OnList, ListFor
  <2> HIDE DEF F, P, E, c
  <2>5. /\ Lists(c.slabs_full \o c.slabs_partial, F \cup P)
        /\ Len(c.slabs_full \o c.slabs_partial) = Len(c.slabs_full) + Len(c.slabs_partial)
    BY <2>2, <2>3, JoinedFacts
  <2>6. /\ Lists(all, (F \cup P) \cup E)
        /\ Len(all) = Len(c.slabs_full \o c.slabs_partial) + Len(c.slabs_empty)
    BY <2>2, <2>3, <2>5, JoinedFacts
  <2>7. Len(all) = Slabs(c)
    BY <2>5, <2>6 DEF Slabs
  <2> HIDE DEF all
  <2>8. IsInjective(all) /\ ToSet(all) = (F \cup P) \cup E
    BY <2>6 DEF Lists, ToSet, Range
  <2>9. c.total_slabs = Len(all) /\ c.active_objs = Cardinality({o \in DOMAIN slub.objs : slub.objs[o] = k})
    BY <2>1, <2>7 DEF CacheOK, HeldFrom, c
  <2>10. QED
    BY <2>4, <2>8, <2>9 DEF all, c
<1>3. DOMAIN slub.objs \subseteq UNION {ObjectsOf(p) : p \in DOMAIN slub.slabs}
  <2>1. ASSUME NEW o \in DOMAIN slub.objs
        PROVE  \E p \in DOMAIN slub.slabs : o \in ObjectsOf(p)
    <3>1. obj_to_slab(o) \in DOMAIN slub.slabs /\ o \in HeldOn(slub, obj_to_slab(o))
      BY DEF HeapOK
    <3>2. o \in ObjectsOf(obj_to_slab(o))
      BY <3>1 DEF HeldOn, ObjsOn, ObjectsOf
    <3>3. QED
      BY <3>1, <3>2
  <2>2. QED
    BY <2>1
<1>4. slub.pages = DOMAIN slub.slabs \cup {slub.caches[k].page : k \in DOMAIN slub.caches}
  BY DEF HeapOK
<1>5. DOMAIN slub.slabs \cap {slub.caches[k].page : k \in DOMAIN slub.caches} = {}
  BY DEF HeapOK
<1>6. QED
  BY <1>1, <1>2, <1>3, <1>4, <1>5 DEF SlabsExact

-----------------------------------------------------------------------------
(***************************************************************************)
(* Creating a cache.                                                       *)
(***************************************************************************)

\* A slab is as it should be as long as nothing it depends on changes.
LEMMA SlabKept ==
    ASSUME NEW s, NEW t, NEW p, SlabOK(s, p), t.slabs[p] = s.slabs[p],
           s.slabs[p].cache \in DOMAIN t.caches,
           t.caches[s.slabs[p].cache].obj_size = s.caches[s.slabs[p].cache].obj_size,
           t.caches[s.slabs[p].cache].num_per_slab = s.caches[s.slabs[p].cache].num_per_slab,
           HeldOn(t, p) = HeldOn(s, p), \A o \in HeldOn(s, p) : t.objs[o] = s.objs[o]
    PROVE  SlabOK(t, p)
<1> DEFINE k == s.slabs[p].cache
<1>1. ObjsOn(t.caches[k], p) = ObjsOn(s.caches[k], p)
  BY DEF ObjsOn
<1>2. QED
  BY <1>1 DEF SlabOK

\* And so is a cache.
LEMMA CacheKept ==
    ASSUME NEW s, NEW t, NEW k, CacheOK(s, k), t.caches[k] = s.caches[k],
           \A name \in SlabLists : OnList(t, k, name) = OnList(s, k, name),
           HeldFrom(t, k) = HeldFrom(s, k)
    PROVE  CacheOK(t, k)
<1>1. \A name \in SlabLists : Lists(t.caches[k][name], OnList(t, k, name))
  BY DEF CacheOK
<1>2. QED
  BY <1>1 DEF CacheOK

\* Facts about a heap that is as it should be.
LEMMA HeapFacts ==
    ASSUME NEW s, HeapOK(s)
    PROVE  /\ \A p \in DOMAIN s.slabs :
                /\ p \in Page /\ SlabOK(s, p) /\ s.slabs[p] \in SlabType
                /\ s.slabs[p].cache \in DOMAIN s.caches
                /\ \A o \in HeldOn(s, p) : /\ o \in DOMAIN s.objs /\ o \in Nat
                                           /\ obj_to_slab(o) = p /\ s.objs[o] = s.slabs[p].cache
           /\ \A k \in DOMAIN s.caches :
                /\ k \in Nat /\ CacheOK(s, k) /\ s.caches[k] \in CacheType
                /\ s.caches[k].num_per_slab * s.caches[k].obj_size < PGSIZE
                /\ s.caches[k].page \in Page /\ s.caches[k].page \in s.pages
                /\ s.caches[k].page \notin DOMAIN s.slabs
           /\ \A o \in DOMAIN s.objs :
                /\ obj_to_slab(o) \in DOMAIN s.slabs /\ o \in HeldOn(s, obj_to_slab(o))
                /\ s.objs[o] = s.slabs[obj_to_slab(o)].cache /\ o \in Nat
           /\ IsFiniteSet(DOMAIN s.objs)
<1>1. \A k \in DOMAIN s.caches :
        /\ k \in Nat /\ CacheOK(s, k) /\ s.caches[k] \in CacheType
        /\ s.caches[k].num_per_slab * s.caches[k].obj_size < PGSIZE
        /\ s.caches[k].page \in Page /\ s.caches[k].page \in s.pages
        /\ s.caches[k].page \notin DOMAIN s.slabs
  BY DEF HeapOK, CacheOK
<1>2. ASSUME NEW p \in DOMAIN s.slabs
      PROVE  /\ p \in Page /\ SlabOK(s, p) /\ s.slabs[p] \in SlabType
             /\ s.slabs[p].cache \in DOMAIN s.caches
             /\ \A o \in HeldOn(s, p) : /\ o \in DOMAIN s.objs /\ o \in Nat
                                        /\ obj_to_slab(o) = p /\ s.objs[o] = s.slabs[p].cache
  <2>1. p \in Page /\ SlabOK(s, p)
    BY DEF HeapOK
  <2>2. s.slabs[p] \in SlabType /\ s.slabs[p].cache \in DOMAIN s.caches
    BY <2>1 DEF SlabOK
  <2>3. PICK c : c = s.caches[s.slabs[p].cache]
    OBVIOUS
  <2>4. c \in CacheType /\ c.num_per_slab * c.obj_size < PGSIZE
    BY <1>1, <2>2, <2>3
  <2>5. \A o \in ObjsOn(c, p) : o \in Nat /\ obj_to_slab(o) = p
    BY <2>1, <2>4, ObjectsFacts
  <2>6. \A o \in HeldOn(s, p) : o \in ObjsOn(c, p) /\ o \in DOMAIN s.objs
    BY <2>3 DEF HeldOn
  <2>7. \A o \in HeldOn(s, p) : s.objs[o] = s.slabs[p].cache
    BY <2>1 DEF SlabOK
  <2>8. QED
    BY <2>1, <2>2, <2>5, <2>6, <2>7
<1>3. IsFiniteSet(DOMAIN s.objs) /\ \A o \in DOMAIN s.objs :
        obj_to_slab(o) \in DOMAIN s.slabs /\ o \in HeldOn(s, obj_to_slab(o))
  BY DEF HeapOK
<1>4. QED
  BY <1>1, <1>2, <1>3

\* A cache as kmem_cache_create makes it.
LEMMA NewCacheFacts ==
    ASSUME NEW page \in Page, NEW size \in Nat \ {0}, size < PGSIZE
    PROVE  LET c == NewCache(page, size)
           IN  /\ c \in CacheType /\ c.num_per_slab * c.obj_size < PGSIZE /\ c.page = page
               /\ \A name \in SlabLists : Lists(c[name], {})
               /\ c.total_slabs = Slabs(c) /\ c.active_objs = 0
<1> DEFINE n == (PGSIZE - 1) \div size
           c == NewCache(page, size)
<1>1. PGSIZE \in Nat \ {0} /\ PGSIZE - 1 \in Nat
  BY PageAllocAssumption
<1>2. n \in Nat \ {0} /\ n * size < PGSIZE
  <2>1. PICK a : a = PGSIZE - 1
    OBVIOUS
  <2>2. a \in Nat /\ size <= a
    BY <1>1, <2>1
  <2>3. PICK q : q = a \div size
    OBVIOUS
  <2>4. q \in Nat /\ size * q <= a /\ a < size * q + size
    BY <2>2, <2>3
  <2>5. q # 0
    BY <2>2, <2>4
  <2>6. q * size = size * q
    BY <2>4
  <2>7. QED
    BY <1>1, <2>1, <2>3, <2>4, <2>5, <2>6
<1> HIDE DEF n
<1>3. << >> \in Seq(Page) /\ Len(<< >>) = 0 /\ IsInjective(<< >>) /\ Range(<< >>) = {}
  <2>1. << >> \in Seq(Page) /\ Len(<< >>) = 0
    BY EmptySeq
  <2>2. Range(<< >>) = {}
    BY <2>1, RangeFacts
  <2>3. DOMAIN << >> = {}
    BY <2>1, LenProperties
  <2>4. QED
    BY <2>1, <2>2, <2>3 DEF IsInjective
<1>4. /\ c = [page |-> page, obj_size |-> size, num_per_slab |-> n,
              slabs_full |-> <<>>, slabs_partial |-> <<>>, slabs_empty |-> <<>>,
              total_slabs |-> 0, active_objs |-> 0]
  BY DEF NewCache, n
<1> HIDE DEF c
<1>5. c \in CacheType /\ c.num_per_slab * c.obj_size < PGSIZE /\ c.page = page /\ c.active_objs = 0
  BY <1>2, <1>3, <1>4 DEF CacheType
<1>6. c.slabs_full = <<>> /\ c.slabs_partial = <<>> /\ c.slabs_empty = <<>> /\ c.total_slabs = 0
  BY <1>4
<1>7. \A name \in SlabLists : Lists(c[name], {})
  BY <1>3, <1>6 DEF Lists, SlabLists
<1>8. c.total_slabs = Slabs(c)
  BY <1>3, <1>6 DEF Slabs
<1>9. QED
  BY <1>5, <1>7, <1>8 DEF c

\* The heap with one more cache.
WithCache(s, k, page, size) ==
    [s EXCEPT !.caches = With(@, k, NewCache(page, size)), !.pages = @ \cup {page}]

\* Creating a cache in a page of its own keeps the heap as it should be.
LEMMA WithCacheOK ==
    ASSUME NEW s, HeapOK(s), NEW k \in Nat, k \notin DOMAIN s.caches,
           NEW page \in Page, page \notin s.pages, NEW size \in Nat \ {0}, size < PGSIZE
    PROVE  LET t == WithCache(s, k, page, size)
           IN  /\ HeapOK(t) /\ t.pages = s.pages \cup {page}
               /\ DOMAIN t.caches = DOMAIN s.caches \cup {k}
<1> DEFINE n == NewCache(page, size)
           t == WithCache(s, k, page, size)
<1>1. /\ n \in CacheType /\ n.num_per_slab * n.obj_size < PGSIZE /\ n.page = page
      /\ \A name \in SlabLists : Lists(n[name], {})
      /\ n.total_slabs = Slabs(n) /\ n.active_objs = 0
  BY NewCacheFacts
<1>2. /\ DOMAIN t = {"caches", "slabs", "objs", "pages"}
      /\ t.pages = s.pages \cup {page} /\ t.slabs = s.slabs /\ t.objs = s.objs
      /\ t.caches = With(s.caches, k, n)
  <2> HIDE DEF n
  <2>1. DOMAIN s = {"caches", "slabs", "objs", "pages"}
    BY DEF HeapOK
  <2>2. QED
    BY <2>1 DEF WithCache, n
<1> HIDE DEF n, t
<1>3. /\ DOMAIN t.caches = DOMAIN s.caches \cup {k} /\ t.caches[k] = n
      /\ \A j \in DOMAIN s.caches : t.caches[j] = s.caches[j]
  <2>1. PICK f : f = s.caches
    OBVIOUS
  <2>2. /\ DOMAIN With(f, k, n) = DOMAIN f \cup {k} /\ With(f, k, n)[k] = n
        /\ \A j \in DOMAIN f \ {k} : With(f, k, n)[j] = f[j]
    BY DEF With
  <2>3. QED
    BY <1>2, <2>1, <2>2
<1>4. ASSUME NEW p \in DOMAIN t.slabs PROVE SlabOK(t, p) /\ HeldOn(t, p) = HeldOn(s, p)
  <2>1. SlabOK(s, p) /\ s.slabs[p].cache \in DOMAIN s.caches
    BY <1>2, HeapFacts
  <2>2. t.caches[s.slabs[p].cache] = s.caches[s.slabs[p].cache]
    BY <1>3, <2>1
  <2>3. HeldOn(t, p) = HeldOn(s, p)
    BY <1>2, <2>2 DEF HeldOn
  <2>4. SlabOK(t, p)
    BY <1>2, <1>3, <2>1, <2>2, <2>3, SlabKept
  <2>5. QED
    BY <2>3, <2>4
<1>5. ASSUME NEW j \in DOMAIN t.caches PROVE CacheOK(t, j)
  <2>1. CASE j = k
    <3>1. \A name \in SlabLists : OnList(t, k, name) = {}
      BY <1>2, HeapFacts DEF OnList
    <3>2. HeldFrom(t, k) = {}
      BY <1>2, HeapFacts DEF HeldFrom
    <3>3. QED
      BY <1>1, <1>3, <2>1, <3>1, <3>2, FS_EmptySet DEF CacheOK
  <2>2. CASE j # k
    <3>1. j \in DOMAIN s.caches /\ t.caches[j] = s.caches[j] /\ CacheOK(s, j)
      BY <1>3, <2>2, HeapFacts
    <3>2. HeldFrom(t, j) = HeldFrom(s, j)
      BY <1>2 DEF HeldFrom
    <3>3. \A name \in SlabLists : OnList(t, j, name) = OnList(s, j, name)
      BY <1>2, <3>1 DEF OnList
    <3>4. QED
      BY <3>1, <3>2, <3>3, CacheKept
  <2>3. QED
    BY <2>1, <2>2
<1>6. /\ t.pages \subseteq Page /\ DOMAIN t.slabs \subseteq t.pages /\ IsFiniteSet(DOMAIN t.objs)
      /\ \A o \in DOMAIN t.objs :
           obj_to_slab(o) \in DOMAIN t.slabs /\ o \in HeldOn(t, obj_to_slab(o))
  <2>1. s.pages \subseteq Page /\ DOMAIN s.slabs \subseteq s.pages
    BY DEF HeapOK
  <2>2. QED
    BY <1>2, <1>4, <2>1, HeapFacts
<1>7. /\ \A j \in DOMAIN t.caches : t.caches[j].page \in t.pages \ DOMAIN t.slabs
      /\ \A i, j \in DOMAIN t.caches : t.caches[i].page = t.caches[j].page => i = j
      /\ \A p \in t.pages \ DOMAIN t.slabs : \E j \in DOMAIN t.caches : t.caches[j].page = p
      /\ \A j \in DOMAIN t.caches : j \in Nat
  BY <1>1, <1>2, <1>3 DEF HeapOK
<1>8. HeapOK(t)
  BY <1>2, <1>4, <1>5, <1>6, <1>7 DEF HeapOK
<1>9. QED
  BY <1>2, <1>3, <1>8 DEF t

-----------------------------------------------------------------------------
(***************************************************************************)
(* Adding a slab to a cache.                                               *)
(***************************************************************************)

\* Products with the same positive factor differ when the other factors do.
LEMMA ProductInjective ==
    ASSUME NEW a \in Nat, NEW b \in Nat, NEW c \in Nat \ {0}, a * c = b * c
    PROVE  a = b
<1>1. ASSUME NEW x \in Nat, NEW y \in Nat, x < y PROVE x * c # y * c
  <2>1. x + 1 <= y /\ x + 1 \in Nat
    BY <1>1
  <2>2. (x + 1) * c <= y * c /\ (x + 1) * c \in Nat /\ y * c \in Nat
    BY <2>1, ProductMonotone
  <2>3. (x + 1) * c = x * c + c /\ x * c \in Nat
    OBVIOUS
  <2>4. QED
    BY <2>2, <2>3
<1>2. ~(a < b) /\ ~(b < a)
  BY <1>1
<1>3. QED
  BY <1>2

\* A slab as kmem_cache_grow makes it: every object once on the freelist.
LEMMA NewSlabFacts ==
    ASSUME NEW c \in CacheType, c.num_per_slab * c.obj_size < PGSIZE, NEW p \in Page,
           NEW k \in Nat
    PROVE  LET sl == NewSlab(p, k, c)
           IN  /\ sl \in SlabType /\ sl.cache = k /\ sl.inuse = 0
               /\ Range(sl.freelist) = ObjsOn(c, p) /\ IsInjective(sl.freelist)
               /\ Len(sl.freelist) = c.num_per_slab
<1> DEFINE n == c.num_per_slab
           z == c.obj_size
           f == [i \in 1 .. n |-> SlabAddr(p) + 1 + (n - i) * z]
           sl == NewSlab(p, k, c)
<1>1. n \in Nat \ {0} /\ z \in Nat \ {0}
  BY DEF CacheType
<1>2. sl = [cache |-> k, inuse |-> 0, freelist |-> f]
  BY DEF NewSlab
<1>3. \A i \in 0 .. n - 1 : SlabAddr(p) + 1 + i * z \in Nat /\ i * z \in Nat
  BY ObjectPlace
<1> HIDE DEF n, z, sl
<1>4. \A i \in 1 .. n : n - i \in 0 .. n - 1 /\ n - (n - i) = i
  BY <1>1
<1>5. \A i \in 0 .. n - 1 : n - i \in 1 .. n /\ n - (n - i) = i
  BY <1>1
<1>6. f \in [1 .. n -> Nat]
  BY <1>3, <1>4
<1>7. f \in Seq(Nat) /\ Len(f) = n /\ DOMAIN f = 1 .. n
  <2>1. n \in Nat /\ DOMAIN f = 1 .. n
    BY <1>1
  <2> HIDE DEF f
  <2>2. QED
    BY <1>6, <2>1, FunctionIsSeq
<1>8. IsInjective(f)
  <2>1. SUFFICES ASSUME NEW i \in 1 .. n, NEW j \in 1 .. n, f[i] = f[j] PROVE i = j
    BY <1>7 DEF IsInjective
  <2>2. PICK x, y : x = n - i /\ y = n - j
    OBVIOUS
  <2>3. x \in 0 .. n - 1 /\ y \in 0 .. n - 1
    BY <1>4, <2>2
  <2>4. SlabAddr(p) + 1 + x * z = SlabAddr(p) + 1 + y * z
    BY <2>1, <2>2
  <2>5. SlabAddr(p) \in Int
    BY PageAllocAssumption DEF SlabAddr, Page
  <2>6. x * z \in Nat /\ y * z \in Nat
    BY <1>3, <2>3
  <2>7. x * z = y * z
    BY <2>4, <2>5, <2>6
  <2>8. x \in Nat /\ y \in Nat
    BY <2>3
  <2>9. x = y
    BY <1>1, <2>7, <2>8, ProductInjective
  <2>10. QED
    BY <1>1, <2>2, <2>9
<1>9. Range(f) = ObjsOn(c, p)
  <2>1. ASSUME NEW o \in Range(f) PROVE o \in ObjsOn(c, p)
    <3>1. PICK i \in 1 .. n : o = f[i]
      BY <1>7 DEF Range
    <3>2. n - i \in 0 .. n - 1 /\ o = SlabAddr(p) + 1 + (n - i) * z
      BY <1>4, <3>1
    <3>3. QED
      BY <3>2 DEF ObjsOn, n, z
  <2>2. ASSUME NEW o \in ObjsOn(c, p) PROVE o \in Range(f)
    <3>1. PICK i \in 0 .. n - 1 : o = SlabAddr(p) + 1 + i * z
      BY DEF ObjsOn, n, z
    <3>2. n - i \in 1 .. n /\ n - (n - i) = i
      BY <1>5
    <3>3. f[n - i] = SlabAddr(p) + 1 + (n - (n - i)) * z
      BY <3>2
    <3>4. f[n - i] = o
      BY <3>1, <3>2, <3>3
    <3> HIDE DEF f
    <3>5. QED
      BY <1>7, <3>2, <3>4 DEF Range
  <2>3. QED
    BY <2>1, <2>2
<1> HIDE DEF f
<1>10. sl \in SlabType /\ sl.cache = k /\ sl.inuse = 0 /\ sl.freelist = f
  BY <1>2, <1>7 DEF SlabType
<1>11. QED
  BY <1>7, <1>8, <1>9, <1>10 DEF sl, n

\* The heap with one more slab for cache k.
WithSlab(s, k, page) ==
    [s EXCEPT !.slabs = With(@, page, NewSlab(page, k, s.caches[k])),
              !.caches[k].slabs_empty = Append(@, page),
              !.caches[k].total_slabs = @ + 1,
              !.pages = @ \cup {page}]

\* Adding a slab in a page of its own does, too; the cache then has an empty slab.
LEMMA WithSlabOK ==
    ASSUME NEW s, HeapOK(s), NEW k \in DOMAIN s.caches, NEW page \in Page, page \notin s.pages
    PROVE  LET t == WithSlab(s, k, page)
           IN  /\ HeapOK(t) /\ t.pages = s.pages \cup {page}
               /\ DOMAIN t.caches = DOMAIN s.caches
               /\ t.caches[k].slabs_empty # <<>>
<1> DEFINE c == s.caches[k]
           d == [c EXCEPT !.slabs_empty = Append(@, page), !.total_slabs = @ + 1]
           n == NewSlab(page, k, c)
           t == WithSlab(s, k, page)
<1>1. /\ c \in CacheType /\ c.num_per_slab * c.obj_size < PGSIZE /\ k \in Nat /\ CacheOK(s, k)
      /\ page \notin DOMAIN s.slabs /\ DOMAIN s.slabs \subseteq s.pages
  BY HeapFacts DEF HeapOK
<1>2. /\ n \in SlabType /\ n.cache = k /\ n.inuse = 0
      /\ Range(n.freelist) = ObjsOn(c, page) /\ IsInjective(n.freelist)
      /\ Len(n.freelist) = c.num_per_slab
  <2> HIDE DEF c
  <2>1. QED
    BY <1>1, NewSlabFacts
<1> HIDE DEF n
<1>3. /\ DOMAIN t = {"caches", "slabs", "objs", "pages"}
      /\ t.pages = s.pages \cup {page} /\ t.slabs = With(s.slabs, page, n) /\ t.objs = s.objs
      /\ t.caches = [s.caches EXCEPT ![k] = d]
  <2>1. DOMAIN s = {"caches", "slabs", "objs", "pages"}
    BY DEF HeapOK
  <2>2. QED
    BY <2>1 DEF WithSlab, n
<1> HIDE DEF t
<1>4. /\ DOMAIN t.slabs = DOMAIN s.slabs \cup {page} /\ t.slabs[page] = n
      /\ \A p \in DOMAIN s.slabs : t.slabs[p] = s.slabs[p]
  BY <1>1, <1>3 DEF With
<1>5. /\ DOMAIN t.caches = DOMAIN s.caches /\ t.caches[k] = d
      /\ \A j \in DOMAIN s.caches : j # k => t.caches[j] = s.caches[j]
  BY <1>3
<1>6. /\ Lists(Append(c.slabs_empty, page), OnList(s, k, "slabs_empty") \cup {page})
      /\ Len(Append(c.slabs_empty, page)) = Len(c.slabs_empty) + 1
      /\ Append(c.slabs_empty, page) \in Seq(Page) /\ Append(c.slabs_empty, page) # <<>>
      /\ Len(c.slabs_empty) \in Nat
  <2>1. Lists(c.slabs_empty, OnList(s, k, "slabs_empty"))
    BY <1>1 DEF CacheOK, SlabLists
  <2>2. page \notin OnList(s, k, "slabs_empty")
    BY <1>1 DEF OnList
  <2>3. c.slabs_empty \in Seq(Page)
    BY <1>1 DEF CacheType
  <2> HIDE DEF c
  <2>4. /\ Lists(Append(c.slabs_empty, page), OnList(s, k, "slabs_empty") \cup {page})
        /\ Len(Append(c.slabs_empty, page)) = Len(c.slabs_empty) + 1 /\ Len(c.slabs_empty) \in Nat
    BY <2>1, <2>2, LinkedFacts
  <2>5. Append(c.slabs_empty, page) \in Seq(Page) /\ Append(c.slabs_empty, page) # <<>>
    BY <2>3, AppendFacts
  <2>6. QED
    BY <2>4, <2>5
<1> HIDE DEF c
<1>7. /\ d \in CacheType /\ d.page = c.page /\ d.obj_size = c.obj_size
      /\ d.num_per_slab = c.num_per_slab /\ d.slabs_full = c.slabs_full
      /\ d.slabs_partial = c.slabs_partial /\ d.slabs_empty = Append(c.slabs_empty, page)
      /\ d.total_slabs = c.total_slabs + 1 /\ d.active_objs = c.active_objs
  <2>1. PICK l, n1 : l = Append(c.slabs_empty, page) /\ n1 = c.total_slabs + 1
    OBVIOUS
  <2>2. l \in Seq(Page) /\ n1 \in Nat
    BY <1>1, <1>6, <2>1 DEF CacheType
  <2>3. d = [c EXCEPT !.slabs_empty = l, !.total_slabs = n1]
    BY <1>1, <2>1 DEF CacheType
  <2> HIDE DEF d
  <2>4. QED
    BY <1>1, <2>1, <2>2, <2>3 DEF CacheType
<1> HIDE DEF d
<1>8. ASSUME NEW j \in DOMAIN s.caches
      PROVE  /\ t.caches[j].page = s.caches[j].page /\ t.caches[j].obj_size = s.caches[j].obj_size
             /\ t.caches[j].num_per_slab = s.caches[j].num_per_slab
  BY <1>5, <1>7 DEF c
<1>9. ASSUME NEW p \in DOMAIN s.slabs PROVE SlabOK(t, p) /\ HeldOn(t, p) = HeldOn(s, p)
  <2>1. SlabOK(s, p) /\ s.slabs[p].cache \in DOMAIN s.caches /\ t.slabs[p] = s.slabs[p]
    BY <1>4, HeapFacts
  <2>2. HeldOn(t, p) = HeldOn(s, p)
    BY <1>3, <1>8, <2>1 DEF HeldOn, ObjsOn
  <2>3. SlabOK(t, p)
    BY <1>3, <1>5, <1>8, <2>1, <2>2, SlabKept
  <2>4. QED
    BY <2>2, <2>3
<1>10. SlabOK(t, page)
  <2>1. HeldOn(t, page) = {}
    <3>1. SUFFICES ASSUME NEW o \in HeldOn(t, page) PROVE FALSE
      OBVIOUS
    <3>2. o \in ObjsOn(d, page) /\ o \in DOMAIN s.objs
      BY <1>2, <1>3, <1>4, <1>5 DEF HeldOn
    <3>3. obj_to_slab(o) = page
      <4>1. d.num_per_slab * d.obj_size < PGSIZE
        BY <1>1, <1>7
      <4>2. QED
        BY <1>7, <3>2, <4>1, ObjectsFacts
    <3>4. QED
      BY <1>1, <3>2, <3>3, HeapFacts
  <2>2. ObjsOn(d, page) = ObjsOn(c, page)
    BY <1>7 DEF ObjsOn
  <2>3. Cardinality({}) = 0
    BY FS_EmptySet
  <2>4. Len(n.freelist) + n.inuse = d.num_per_slab
    BY <1>1, <1>2, <1>7 DEF CacheType
  <2>5. QED
    BY <1>2, <1>4, <1>5, <2>1, <2>2, <2>3, <2>4 DEF SlabOK
<1>11. CacheOK(t, k)
  <2>1. c.num_per_slab \in Nat \ {0} /\ d.num_per_slab * d.obj_size < PGSIZE
    BY <1>1, <1>7 DEF CacheType
  <2>2. /\ OnList(t, k, "slabs_full") = OnList(s, k, "slabs_full")
        /\ OnList(t, k, "slabs_partial") = OnList(s, k, "slabs_partial")
        /\ OnList(t, k, "slabs_empty") = OnList(s, k, "slabs_empty") \cup {page}
    BY <1>2, <1>4, <1>5, <1>7, <2>1 DEF OnList, ListFor, c
  <2>3. \A name \in SlabLists : Lists(c[name], OnList(s, k, name))
    BY <1>1 DEF CacheOK, c
  <2>4. \A name \in SlabLists : Lists(d[name], OnList(t, k, name))
    BY <1>6, <1>7, <2>2, <2>3 DEF SlabLists
  <2>5. HeldFrom(t, k) = HeldFrom(s, k)
    BY <1>3 DEF HeldFrom
  <2>6. c.total_slabs = Slabs(c) /\ c.active_objs = Cardinality(HeldFrom(s, k))
    BY <1>1 DEF CacheOK, c
  <2>7. d.total_slabs = Slabs(d)
    <3>1. Len(c.slabs_full) \in Nat /\ Len(c.slabs_partial) \in Nat
      BY <1>1, LenProperties DEF CacheType
    <3>2. PICK x, y, z, w, u :
                 /\ x = Len(c.slabs_full) /\ y = Len(c.slabs_partial) /\ z = Len(c.slabs_empty)
                 /\ w = Len(d.slabs_empty) /\ u = c.total_slabs
      OBVIOUS
    <3>3. x \in Nat /\ y \in Nat /\ z \in Nat /\ w = z + 1 /\ u = x + y + z
      BY <1>6, <1>7, <2>6, <3>1, <3>2 DEF Slabs
    <3>4. u + 1 = x + y + w
      BY ONLY <3>3
    <3>5. QED
      BY <1>7, <3>2, <3>4 DEF Slabs
  <2>8. QED
    BY <1>5, <1>7, <2>1, <2>4, <2>5, <2>6, <2>7 DEF CacheOK
<1>12. ASSUME NEW j \in DOMAIN s.caches, j # k PROVE CacheOK(t, j)
  <2>1. CacheOK(s, j) /\ t.caches[j] = s.caches[j]
    BY <1>5, <1>12, HeapFacts
  <2>2. \A name \in SlabLists : OnList(t, j, name) = OnList(s, j, name)
    BY <1>2, <1>4, <1>12, <2>1 DEF OnList
  <2>3. HeldFrom(t, j) = HeldFrom(s, j)
    BY <1>3 DEF HeldFrom
  <2>4. QED
    BY <2>1, <2>2, <2>3, CacheKept
<1>13. /\ t.pages \subseteq Page /\ DOMAIN t.slabs \subseteq t.pages /\ IsFiniteSet(DOMAIN t.objs)
       /\ \A o \in DOMAIN t.objs :
            obj_to_slab(o) \in DOMAIN t.slabs /\ o \in HeldOn(t, obj_to_slab(o))
  <2>1. s.pages \subseteq Page /\ DOMAIN s.slabs \subseteq s.pages
    BY DEF HeapOK
  <2>2. QED
    BY <1>3, <1>4, <1>9, <2>1, HeapFacts
<1>14. \A j \in DOMAIN t.caches : t.caches[j].page \in t.pages \ DOMAIN t.slabs
  <2>1. \A j \in DOMAIN s.caches : s.caches[j].page \in s.pages \ DOMAIN s.slabs
    BY DEF HeapOK
  <2>2. QED
    BY <1>3, <1>4, <1>5, <1>8, <2>1
<1>15. \A i, j \in DOMAIN t.caches : t.caches[i].page = t.caches[j].page => i = j
  <2>1. \A i, j \in DOMAIN s.caches : s.caches[i].page = s.caches[j].page => i = j
    BY DEF HeapOK
  <2>2. QED
    BY <1>5, <1>8, <2>1
<1>16. \A p \in t.pages \ DOMAIN t.slabs : \E j \in DOMAIN t.caches : t.caches[j].page = p
  <2>1. \A p \in s.pages \ DOMAIN s.slabs : \E j \in DOMAIN s.caches : s.caches[j].page = p
    BY DEF HeapOK
  <2>2. QED
    BY <1>3, <1>4, <1>5, <1>8, <2>1
<1>17. HeapOK(t)
  <2>1. \A j \in DOMAIN t.caches : j \in Nat /\ CacheOK(t, j)
    BY <1>5, <1>11, <1>12, HeapFacts
  <2>2. \A p \in DOMAIN t.slabs : SlabOK(t, p)
    BY <1>4, <1>9, <1>10
  <2>3. QED
    BY <1>3, <1>13, <1>14, <1>15, <1>16, <2>1, <2>2 DEF HeapOK
<1>18. t.caches[k].slabs_empty # <<>>
  BY <1>5, <1>6, <1>7
<1>19. QED
  BY <1>3, <1>5, <1>17, <1>18 DEF t

-----------------------------------------------------------------------------
(***************************************************************************)
(* One object taken or given back: everything else is as it was.           *)
(***************************************************************************)

\* From s to t, only object o of the slab p of cache k has been taken or given back, and
\* the slab has gone to the list it belongs on.
Exchanged(s, t, k, p, o) ==
    /\ DOMAIN t = {"caches", "slabs", "objs", "pages"} /\ t.pages = s.pages
    /\ DOMAIN t.slabs = DOMAIN s.slabs /\ DOMAIN t.caches = DOMAIN s.caches
    /\ \A q \in DOMAIN s.slabs : q # p => t.slabs[q] = s.slabs[q]
    /\ \A j \in DOMAIN s.caches : j # k => t.caches[j] = s.caches[j]
    /\ \E n : t.caches[k] = [Moved(s.caches[k], p, ListFor(t.slabs[p].inuse, s.caches[k].num_per_slab))
                               EXCEPT !.active_objs = n]
    /\ \A x : x # o => (x \in DOMAIN t.objs <=> x \in DOMAIN s.objs)
    /\ \A x \in DOMAIN s.objs : x # o => t.objs[x] = s.objs[x]
    /\ o \in DOMAIN t.objs => t.objs[o] = k
    /\ IsFiniteSet(DOMAIN t.objs)

\* What has to be shown of slab p and cache k themselves.
SlabCounted(t, p, k, objs, num) ==
    LET sl == t.slabs[p]
    IN  /\ sl \in SlabType /\ sl.cache = k
        /\ Range(sl.freelist) = objs \ DOMAIN t.objs /\ IsInjective(sl.freelist)
        /\ Len(sl.freelist) + sl.inuse = num
        /\ sl.inuse = Cardinality(objs \cap DOMAIN t.objs)
        /\ t.caches[k].active_objs \in Nat
        /\ t.caches[k].active_objs = Cardinality(HeldFrom(t, k))

\* A heap where one object has been taken or given back is as it should be, when
\* that slab and its cache are.
LEMMA ExchangedOK ==
    ASSUME NEW s, HeapOK(s), NEW p \in DOMAIN s.slabs, NEW k, s.slabs[p].cache = k,
           NEW o \in ObjsOn(s.caches[k], p), NEW t, Exchanged(s, t, k, p, o),
           SlabCounted(t, p, k, ObjsOn(s.caches[k], p), s.caches[k].num_per_slab)
    PROVE  HeapOK(t)
<1> DEFINE c == s.caches[k]
           d == t.caches[k]
           objs == ObjsOn(c, p)
           list == ListFor(t.slabs[p].inuse, c.num_per_slab)
           from == ListFor(s.slabs[p].inuse, c.num_per_slab)
<1>1. /\ k \in DOMAIN s.caches /\ p \in Page /\ c \in CacheType /\ CacheOK(s, k)
      /\ c.num_per_slab * c.obj_size < PGSIZE /\ SlabOK(s, p)
  BY HeapFacts
<1>2. /\ DOMAIN t = {"caches", "slabs", "objs", "pages"} /\ t.pages = s.pages
      /\ DOMAIN t.slabs = DOMAIN s.slabs /\ DOMAIN t.caches = DOMAIN s.caches
      /\ \A q \in DOMAIN s.slabs : q # p => t.slabs[q] = s.slabs[q]
      /\ \A j \in DOMAIN s.caches : j # k => t.caches[j] = s.caches[j]
      /\ \A x : x # o => (x \in DOMAIN t.objs <=> x \in DOMAIN s.objs)
      /\ \A x \in DOMAIN s.objs : x # o => t.objs[x] = s.objs[x]
      /\ o \in DOMAIN t.objs => t.objs[o] = k
      /\ IsFiniteSet(DOMAIN t.objs)
  BY DEF Exchanged
<1>3. /\ t.slabs[p] \in SlabType /\ t.slabs[p].cache = k
      /\ Range(t.slabs[p].freelist) = objs \ DOMAIN t.objs /\ IsInjective(t.slabs[p].freelist)
      /\ Len(t.slabs[p].freelist) + t.slabs[p].inuse = c.num_per_slab
      /\ t.slabs[p].inuse = Cardinality(objs \cap DOMAIN t.objs)
      /\ d.active_objs \in Nat /\ d.active_objs = Cardinality(HeldFrom(t, k))
  BY DEF SlabCounted
<1>4. o \in Nat /\ obj_to_slab(o) = p
  <2> HIDE DEF c
  <2>1. \A x \in ObjsOn(c, p) : x \in Nat /\ obj_to_slab(x) = p
    BY <1>1, ObjectsFacts
  <2>2. QED
    BY <2>1 DEF c
<1>5. /\ d \in CacheType /\ d.page = c.page /\ d.obj_size = c.obj_size
      /\ d.num_per_slab = c.num_per_slab /\ d.total_slabs = Slabs(d)
      /\ \A name \in SlabLists :
           Lists(d[name], IF name = list THEN OnList(s, k, name) \cup {p} ELSE OnList(s, k, name) \ {p})
  <2> DEFINE S == [name \in SlabLists |-> OnList(s, k, name)]
             m == Moved(c, p, list)
  <2>1. \A name \in SlabLists : Lists(c[name], S[name])
    BY <1>1 DEF CacheOK
  <2>2. list \in SlabLists /\ from \in SlabLists
    BY DEF ListFor, SlabLists
  <2>3. \A name \in SlabLists : p \in S[name] <=> name = from
    BY DEF OnList
  <2> HIDE DEF c, S, list, from
  <2>4. /\ m \in CacheType
        /\ \A name \in SlabLists :
             Lists(m[name], IF name = list THEN S[name] \cup {p} ELSE S[name] \ {p})
        /\ Slabs(m) = Slabs(c)
        /\ m.page = c.page /\ m.obj_size = c.obj_size /\ m.num_per_slab = c.num_per_slab
        /\ m.total_slabs = c.total_slabs
    <3>1. MoveReady(c, S, p, from)
      BY <1>1, <2>1, <2>2, <2>3 DEF MoveReady, c
    <3>2. MoveDone(c, S, p, list, m)
      BY <2>2, <3>1, MovedFacts DEF m
    <3>3. QED
      BY <3>2 DEF MoveDone
  <2> HIDE DEF m
  <2>5. PICK n : d = [m EXCEPT !.active_objs = n]
    BY DEF Exchanged, m, list, c
  <2>6. /\ d.page = m.page /\ d.obj_size = m.obj_size /\ d.num_per_slab = m.num_per_slab
        /\ d.total_slabs = m.total_slabs /\ d.slabs_full = m.slabs_full
        /\ d.slabs_partial = m.slabs_partial /\ d.slabs_empty = m.slabs_empty
        /\ d.active_objs = n
    BY <2>4, <2>5 DEF CacheType
  <2>7. n \in Nat
    BY <1>3, <2>6
  <2>8. d \in CacheType
    BY <2>4, <2>5, <2>7 DEF CacheType
  <2> HIDE DEF d
  <2>9. \A name \in SlabLists : d[name] = m[name]
    BY <2>6 DEF SlabLists
  <2>10. \A name \in SlabLists : S[name] = OnList(s, k, name)
    BY DEF S
  <2>11. d.total_slabs = Slabs(d)
    <3>1. c.total_slabs = Slabs(c)
      BY <1>1 DEF CacheOK, c
    <3>2. Slabs(d) = Slabs(m)
      BY <2>6 DEF Slabs
    <3>3. QED
      BY <2>4, <2>6, <3>1, <3>2
  <2>12. \A name \in SlabLists :
           Lists(d[name], IF name = list THEN OnList(s, k, name) \cup {p} ELSE OnList(s, k, name) \ {p})
    BY <2>4, <2>9, <2>10
  <2>13. QED
    BY <2>4, <2>6, <2>8, <2>11, <2>12
<1>6. \A j \in DOMAIN s.caches :
        /\ t.caches[j].page = s.caches[j].page /\ t.caches[j].obj_size = s.caches[j].obj_size
        /\ t.caches[j].num_per_slab = s.caches[j].num_per_slab
  BY <1>2, <1>5
<1>7. ASSUME NEW name \in SlabLists
      PROVE  OnList(t, k, name) = IF name = list THEN OnList(s, k, name) \cup {p}
                                                 ELSE OnList(s, k, name) \ {p}
  <2>1. d.num_per_slab = c.num_per_slab
    BY <1>5
  <2>2. ASSUME NEW q
        PROVE  q \in OnList(t, k, name) <=>
                 q \in IF name = list THEN OnList(s, k, name) \cup {p} ELSE OnList(s, k, name) \ {p}
    <3>1. CASE q = p
      BY <1>2, <1>3, <2>1, <3>1 DEF OnList
    <3>2. CASE q # p
      BY <1>2, <2>1, <3>2 DEF OnList
    <3>3. QED
      BY <3>1, <3>2
  <2>3. QED
    BY <2>2
<1>8. CacheOK(t, k)
  <2>1. \A name \in SlabLists : Lists(d[name], OnList(t, k, name))
    BY <1>5, <1>7
  <2>2. QED
    BY <1>1, <1>3, <1>5, <2>1 DEF CacheOK
<1>9. ASSUME NEW j \in DOMAIN s.caches, j # k PROVE CacheOK(t, j)
  <2>1. CacheOK(s, j) /\ t.caches[j] = s.caches[j]
    BY <1>2, <1>9, HeapFacts
  <2>2. \A name \in SlabLists : OnList(t, j, name) = OnList(s, j, name)
    <3>1. SUFFICES ASSUME NEW name \in SlabLists, NEW q
                   PROVE  q \in OnList(t, j, name) <=> q \in OnList(s, j, name)
      OBVIOUS
    <3>2. CASE q = p
      BY <1>3, <1>9, <3>2 DEF OnList
    <3>3. CASE q # p
      BY <1>2, <2>1, <3>3 DEF OnList
    <3>4. QED
      BY <3>2, <3>3
  <2>3. HeldFrom(t, j) = HeldFrom(s, j)
    <3>1. SUFFICES ASSUME NEW x PROVE x \in HeldFrom(t, j) <=> x \in HeldFrom(s, j)
      OBVIOUS
    <3>2. CASE x = o
      <4>1. x \notin HeldFrom(t, j)
        BY <1>2, <1>9, <3>2 DEF HeldFrom
      <4>2. x \in DOMAIN s.objs => s.objs[x] = k
        BY <1>4, <3>2, HeapFacts
      <4>3. QED
        BY <1>9, <4>1, <4>2 DEF HeldFrom
    <3>3. CASE x # o
      BY <1>2, <3>3 DEF HeldFrom
    <3>4. QED
      BY <3>2, <3>3
  <2>4. QED
    BY <2>1, <2>2, <2>3, CacheKept
<1>10. HeldOn(t, p) = objs \cap DOMAIN t.objs
  BY <1>3, <1>5 DEF HeldOn, ObjsOn
<1>11. SlabOK(t, p)
  <2>1. ObjsOn(d, p) = objs
    BY <1>5 DEF ObjsOn
  <2>2. \A x \in HeldOn(t, p) : t.objs[x] = k
    <3>1. SUFFICES ASSUME NEW x \in objs, x \in DOMAIN t.objs PROVE t.objs[x] = k
      BY <1>10
    <3>2. CASE x = o
      BY <1>2, <3>1, <3>2
    <3>3. CASE x # o
      <4>1. x \in DOMAIN s.objs /\ t.objs[x] = s.objs[x]
        BY <1>2, <3>1, <3>3
      <4>2. x \in HeldOn(s, p)
        BY <3>1, <4>1 DEF HeldOn
      <4>3. QED
        BY <4>1, <4>2, HeapFacts
    <3>4. QED
      BY <3>2, <3>3
  <2>3. QED
    BY <1>1, <1>2, <1>3, <1>5, <1>10, <2>1, <2>2 DEF SlabOK
<1>12. ASSUME NEW q \in DOMAIN s.slabs, q # p PROVE SlabOK(t, q) /\ HeldOn(t, q) = HeldOn(s, q)
  <2>1. SlabOK(s, q) /\ s.slabs[q].cache \in DOMAIN s.caches /\ t.slabs[q] = s.slabs[q] /\ q \in Page
    BY <1>2, <1>12, HeapFacts
  <2>2. PICK e : e = s.caches[s.slabs[q].cache]
    OBVIOUS
  <2>3. e \in CacheType /\ e.num_per_slab * e.obj_size < PGSIZE
    BY <2>1, <2>2, HeapFacts
  <2>4. \A x \in ObjsOn(e, q) : obj_to_slab(x) = q
    BY <2>1, <2>3, ObjectsFacts
  <2>5. ObjsOn(t.caches[t.slabs[q].cache], q) = ObjsOn(e, q) /\ o \notin ObjsOn(e, q)
    BY <1>4, <1>6, <1>12, <2>1, <2>2, <2>4 DEF ObjsOn
  <2>6. HeldOn(t, q) = HeldOn(s, q)
    BY <1>2, <2>2, <2>5 DEF HeldOn
  <2>7. \A x \in HeldOn(s, q) : t.objs[x] = s.objs[x]
    BY <1>2, <2>2, <2>5 DEF HeldOn
  <2>8. SlabOK(t, q)
    BY <1>2, <1>6, <2>1, <2>6, <2>7, SlabKept
  <2>9. QED
    BY <2>6, <2>8
<1>13. ASSUME NEW x \in DOMAIN t.objs
       PROVE  obj_to_slab(x) \in DOMAIN t.slabs /\ x \in HeldOn(t, obj_to_slab(x))
  <2>1. CASE x = o
    BY <1>2, <1>4, <1>10, <1>13, <2>1
  <2>2. CASE x # o
    <3>1. x \in DOMAIN s.objs /\ obj_to_slab(x) \in DOMAIN s.slabs /\ x \in HeldOn(s, obj_to_slab(x))
      BY <1>2, <1>13, <2>2, HeapFacts
    <3>2. CASE obj_to_slab(x) = p
      <4>1. x \in objs
        BY <3>1, <3>2 DEF HeldOn
      <4>2. QED
        BY <1>2, <1>10, <1>13, <3>1, <3>2, <4>1
    <3>3. CASE obj_to_slab(x) # p
      BY <1>2, <1>12, <3>1, <3>3
    <3>4. QED
      BY <3>2, <3>3
  <2>3. QED
    BY <2>1, <2>2
<1>14. /\ \A j \in DOMAIN t.caches : t.caches[j].page \in t.pages \ DOMAIN t.slabs
       /\ \A i, j \in DOMAIN t.caches : t.caches[i].page = t.caches[j].page => i = j
       /\ \A q \in t.pages \ DOMAIN t.slabs : \E j \in DOMAIN t.caches : t.caches[j].page = q
       /\ t.pages \subseteq Page /\ DOMAIN t.slabs \subseteq t.pages
  <2>1. /\ \A j \in DOMAIN s.caches : s.caches[j].page \in s.pages \ DOMAIN s.slabs
        /\ \A i, j \in DOMAIN s.caches : s.caches[i].page = s.caches[j].page => i = j
        /\ \A q \in s.pages \ DOMAIN s.slabs : \E j \in DOMAIN s.caches : s.caches[j].page = q
        /\ s.pages \subseteq Page /\ DOMAIN s.slabs \subseteq s.pages
    BY DEF HeapOK
  <2>2. QED
    BY <1>2, <1>6, <2>1
<1>15. \A j \in DOMAIN t.caches : j \in Nat /\ CacheOK(t, j)
  BY <1>2, <1>8, <1>9, HeapFacts
<1>16. \A q \in DOMAIN t.slabs : SlabOK(t, q)
  BY <1>2, <1>11, <1>12
<1>17. QED
  BY <1>2, <1>13, <1>14, <1>15, <1>16 DEF HeapOK

\* The slabs of cache k on each of its lists.
ListsOf(s, k) == [name \in SlabLists |-> OnList(s, k, name)]

\* A slab can be moved to any list of its cache.
LEMMA HeapMoves ==
    ASSUME NEW s, HeapOK(s), NEW p \in DOMAIN s.slabs, NEW k, s.slabs[p].cache = k,
           NEW list \in SlabLists
    PROVE  MoveDone(s.caches[k], ListsOf(s, k), p, list, Moved(s.caches[k], p, list))
<1>1. k \in DOMAIN s.caches /\ p \in Page /\ s.caches[k] \in CacheType /\ CacheOK(s, k)
  BY HeapFacts
<1>2. PICK from : from = ListFor(s.slabs[p].inuse, s.caches[k].num_per_slab)
  OBVIOUS
<1>3. from \in SlabLists
  BY <1>2 DEF ListFor, SlabLists
<1>4. \A name \in SlabLists : Lists(s.caches[k][name], ListsOf(s, k)[name])
  BY <1>1 DEF CacheOK, ListsOf
<1>5. \A name \in SlabLists : p \in ListsOf(s, k)[name] <=> name = from
  BY <1>2 DEF OnList, ListsOf
<1>6. MoveReady(s.caches[k], ListsOf(s, k), p, from)
  BY <1>1, <1>3, <1>4, <1>5 DEF MoveReady
<1>7. QED
  BY <1>6, MovedFacts

\* The slab p of cache k is sl, the cache's lists are moved and count n objects held.
SlabReplaced(s, t, k, p, sl, list, n) ==
    /\ HeapOK(s) /\ p \in DOMAIN s.slabs /\ s.slabs[p].cache = k
    /\ list = ListFor(sl.inuse, s.caches[k].num_per_slab)
    /\ DOMAIN t = {"caches", "slabs", "objs", "pages"} /\ t.pages = s.pages
    /\ t.slabs = [s.slabs EXCEPT ![p] = sl]
    /\ t.caches = [s.caches EXCEPT ![k] = [Moved(s.caches[k], p, list) EXCEPT !.active_objs = n]]

\* What clients hold has changed in object o alone, which cache k owns.
TableChanged(s, t, o, k) ==
    /\ o \in DOMAIN t.objs => t.objs[o] = k
    /\ IsFiniteSet(DOMAIN t.objs)
    /\ \A x : x # o => (x \in DOMAIN t.objs <=> x \in DOMAIN s.objs)
    /\ \A x \in DOMAIN s.objs : x # o => t.objs[x] = s.objs[x]

\* What a heap with that slab and an objects' table o with one entry more or less is.
LEMMA ReplacedExchanged ==
    ASSUME NEW s, NEW t, NEW k, NEW p, NEW sl, NEW list, NEW n,
           SlabReplaced(s, t, k, p, sl, list, n), NEW o, TableChanged(s, t, o, k)
    PROVE  /\ Exchanged(s, t, k, p, o) /\ t.slabs[p] = sl /\ t.caches[k].active_objs = n
           /\ DOMAIN t.caches = DOMAIN s.caches
<1>1. /\ k \in DOMAIN s.caches /\ HeapOK(s) /\ p \in DOMAIN s.slabs /\ s.slabs[p].cache = k
      /\ list = ListFor(sl.inuse, s.caches[k].num_per_slab)
  BY HeapFacts DEF SlabReplaced
<1>2. /\ DOMAIN t = {"caches", "slabs", "objs", "pages"} /\ t.pages = s.pages
      /\ t.slabs = [s.slabs EXCEPT ![p] = sl]
      /\ t.caches = [s.caches EXCEPT ![k] = [Moved(s.caches[k], p, list) EXCEPT !.active_objs = n]]
  BY DEF SlabReplaced
<1>3. list \in SlabLists
  BY <1>1 DEF ListFor, SlabLists
<1>4. PICK m : m = Moved(s.caches[k], p, list)
  OBVIOUS
<1>5. m \in CacheType
  BY <1>1, <1>3, <1>4, HeapMoves DEF MoveDone
<1>6. PICK d : d = [m EXCEPT !.active_objs = n]
  OBVIOUS
<1>7. d.active_objs = n
  BY <1>5, <1>6 DEF CacheType
<1>8. /\ t.slabs[p] = sl /\ DOMAIN t.slabs = DOMAIN s.slabs
      /\ \A q \in DOMAIN s.slabs : q # p => t.slabs[q] = s.slabs[q]
  BY <1>1, <1>2
<1>9. /\ t.caches[k] = d /\ DOMAIN t.caches = DOMAIN s.caches
      /\ \A j \in DOMAIN s.caches : j # k => t.caches[j] = s.caches[j]
  BY <1>1, <1>2, <1>4, <1>6
<1>10. t.caches[k] = [Moved(s.caches[k], p, ListFor(t.slabs[p].inuse, s.caches[k].num_per_slab))
                        EXCEPT !.active_objs = n]
  BY <1>1, <1>4, <1>6, <1>8, <1>9
<1>11. QED
  BY <1>2, <1>7, <1>8, <1>9, <1>10 DEF Exchanged, TableChanged

\* Taking an object from a slab that has a free one keeps the heap exact.
LEMMA ObjectFromOK ==
    ASSUME NEW h, HeapOK(h.slub), NEW p \in DOMAIN h.slub.slabs, NEW k,
           h.slub.slabs[p].cache = k, h.slub.slabs[p].freelist # <<>>
    PROVE  LET r == ObjectFrom(h, k, p)
           IN  /\ HeapOK(r.slub) /\ r.pmm = h.pmm /\ r.slub.pages = h.slub.pages
               /\ DOMAIN r.slub.caches = DOMAIN h.slub.caches
<1> DEFINE r == ObjectFrom(h, k, p)
<1>1. PICK s, t : s = h.slub /\ t = r.slub
  OBVIOUS
<1>2. HeapOK(s) /\ p \in DOMAIN s.slabs /\ s.slabs[p].cache = k /\ s.slabs[p].freelist # <<>>
  BY <1>1
<1>3. PICK c, sl, f : c = s.caches[k] /\ sl = s.slabs[p] /\ f = sl.freelist
  OBVIOUS
<1>4. PICK o, objs : o = Head(f) /\ objs = ObjsOn(c, p)
  OBVIOUS
<1>5. PICK list : list = IF sl.inuse + 1 = c.num_per_slab THEN "slabs_full" ELSE "slabs_partial"
  OBVIOUS
<1>6. /\ k \in DOMAIN s.caches /\ p \in Page /\ c \in CacheType /\ CacheOK(s, k)
      /\ c.num_per_slab * c.obj_size < PGSIZE /\ SlabOK(s, p) /\ sl \in SlabType
      /\ IsFiniteSet(DOMAIN s.objs) /\ sl.cache = k
  BY <1>2, <1>3, HeapFacts
<1>7. /\ Range(f) = objs \ (objs \cap DOMAIN s.objs) /\ IsInjective(f)
      /\ Len(f) + sl.inuse = c.num_per_slab
      /\ sl.inuse = Cardinality(objs \cap DOMAIN s.objs)
  BY <1>3, <1>4, <1>6 DEF SlabOK, HeldOn
<1>8. f \in Seq(Nat) /\ f # <<>> /\ sl.inuse \in Nat /\ k \in Nat
  BY <1>2, <1>3, <1>6 DEF SlabType
<1>9. /\ o \in Range(f) /\ o \in Nat /\ Tail(f) \in Seq(Nat) /\ Len(f) \in Nat \ {0}
      /\ Len(Tail(f)) = Len(f) - 1 /\ Range(f) = Range(Tail(f)) \cup {o}
      /\ IsInjective(Tail(f)) /\ o \notin Range(Tail(f))
  BY <1>4, <1>7, <1>8, TailFacts
<1>10. o \in objs /\ o \notin DOMAIN s.objs
  BY <1>7, <1>9
<1>11. PICK sm : sm = [sl EXCEPT !.freelist = Tail(@), !.inuse = @ + 1]
  OBVIOUS
<1>12. sm \in SlabType /\ sm.cache = k /\ sm.freelist = Tail(f) /\ sm.inuse = sl.inuse + 1
  <2>1. sm = [sl EXCEPT !.freelist = Tail(f), !.inuse = sl.inuse + 1]
    BY <1>3, <1>6, <1>11 DEF SlabType
  <2>2. sl.inuse + 1 \in Nat
    BY <1>8
  <2>3. QED
    BY <1>6, <1>8, <1>9, <2>1, <2>2 DEF SlabType
<1>13. list = ListFor(sm.inuse, c.num_per_slab)
  BY <1>5, <1>8, <1>12 DEF ListFor
<1>14. PICK n : n = c.active_objs + 1
  OBVIOUS
<1>15. list \in SlabLists
  BY <1>5 DEF SlabLists
<1>16. PICK m : m = Moved(c, p, list)
  OBVIOUS
<1>17. m.active_objs = c.active_objs /\ m \in CacheType
  BY <1>2, <1>3, <1>6, <1>15, <1>16, HeapMoves DEF MoveDone
<1>18. r = [pmm |-> h.pmm,
            slub |-> [s EXCEPT !.slabs[p].freelist = Tail(@), !.slabs[p].inuse = @ + 1,
                               !.caches[k] = [m EXCEPT !.active_objs = @ + 1],
                               !.objs = With(@, o, k)]]
  BY <1>1, <1>3, <1>4, <1>5, <1>16 DEF ObjectFrom
<1>19. [m EXCEPT !.active_objs = @ + 1] = [m EXCEPT !.active_objs = n]
  BY <1>14, <1>17 DEF CacheType
<1>20. /\ t = [s EXCEPT !.slabs[p].freelist = Tail(@), !.slabs[p].inuse = @ + 1,
                        !.caches[k] = [m EXCEPT !.active_objs = @ + 1],
                        !.objs = With(@, o, k)]
       /\ r.pmm = h.pmm
  BY <1>1, <1>18
<1>21. DOMAIN s = {"caches", "slabs", "objs", "pages"}
  BY <1>2 DEF HeapOK
<1> HIDE DEF r
<1>22. /\ DOMAIN t = {"caches", "slabs", "objs", "pages"} /\ t.pages = s.pages
       /\ t.slabs = [s.slabs EXCEPT ![p] = sm]
       /\ t.caches = [s.caches EXCEPT ![k] = [m EXCEPT !.active_objs = n]]
       /\ t.objs = With(s.objs, o, k)
  <2>1. /\ DOMAIN t = {"caches", "slabs", "objs", "pages"} /\ t.pages = s.pages
        /\ t.objs = With(s.objs, o, k)
        /\ t.caches = [s.caches EXCEPT ![k] = [m EXCEPT !.active_objs = @ + 1]]
    BY <1>20, <1>21
  <2>2. t.slabs = [s.slabs EXCEPT ![p] = sm]
    BY <1>2, <1>3, <1>6, <1>11, <1>20, <1>21 DEF SlabType
  <2>3. QED
    BY <1>19, <2>1, <2>2
<1>23. SlabReplaced(s, t, k, p, sm, list, n)
  BY <1>2, <1>3, <1>13, <1>16, <1>22 DEF SlabReplaced
<1>24. /\ DOMAIN t.objs = DOMAIN s.objs \cup {o} /\ t.objs[o] = k
       /\ \A x \in DOMAIN s.objs : x # o => t.objs[x] = s.objs[x]
  BY <1>22 DEF With
<1>25. IsFiniteSet(DOMAIN t.objs)
  BY <1>6, <1>24, FS_AddElement
<1>26. /\ Exchanged(s, t, k, p, o) /\ t.slabs[p] = sm /\ t.caches[k].active_objs = n
       /\ DOMAIN t.caches = DOMAIN s.caches
  <2>1. TableChanged(s, t, o, k)
    BY <1>24, <1>25 DEF TableChanged
  <2>2. QED
    BY ONLY <1>23, <2>1, ReplacedExchanged
<1>27. SlabCounted(t, p, k, objs, c.num_per_slab)
  <2>1. Range(sm.freelist) = objs \ DOMAIN t.objs
    BY <1>7, <1>9, <1>10, <1>12, <1>24
  <2>2. Len(sm.freelist) + sm.inuse = c.num_per_slab
    BY <1>7, <1>8, <1>9, <1>12
  <2>3. sm.inuse = Cardinality(objs \cap DOMAIN t.objs)
    <3>1. objs \cap DOMAIN t.objs = (objs \cap DOMAIN s.objs) \cup {o}
      BY <1>10, <1>24
    <3>2. IsFiniteSet(objs \cap DOMAIN s.objs)
      BY <1>6, FS_Subset
    <3>3. Cardinality((objs \cap DOMAIN s.objs) \cup {o}) = Cardinality(objs \cap DOMAIN s.objs) + 1
      BY <1>10, <3>2, FS_AddElement
    <3>4. QED
      BY <1>7, <1>12, <3>1, <3>3
  <2>4. n \in Nat /\ n = Cardinality(HeldFrom(t, k))
    <3>1. c.active_objs = Cardinality(HeldFrom(s, k)) /\ c.active_objs \in Nat
      BY <1>3, <1>6 DEF CacheOK, CacheType
    <3>2. HeldFrom(t, k) = HeldFrom(s, k) \cup {o} /\ o \notin HeldFrom(s, k)
      BY <1>10, <1>24 DEF HeldFrom
    <3>3. IsFiniteSet(HeldFrom(s, k))
      BY <1>6, FS_Subset DEF HeldFrom
    <3>4. Cardinality(HeldFrom(s, k) \cup {o}) = Cardinality(HeldFrom(s, k)) + 1
      BY <3>2, <3>3, FS_AddElement
    <3>5. QED
      BY <1>14, <3>1, <3>2, <3>4
  <2>5. QED
    BY <1>9, <1>12, <1>26, <2>1, <2>2, <2>3, <2>4 DEF SlabCounted
<1>28. HeapOK(t)
  <2>1. o \in ObjsOn(s.caches[k], p)
    BY <1>3, <1>4, <1>10
  <2>2. SlabCounted(t, p, k, ObjsOn(s.caches[k], p), s.caches[k].num_per_slab)
    BY <1>3, <1>4, <1>27
  <2>3. QED
    BY <1>2, <1>26, <2>1, <2>2, ExchangedOK
<1>29. QED
  BY <1>1, <1>20, <1>22, <1>26, <1>28 DEF r

\* Linking x at the head.
LEMMA PutFirstFacts ==
    ASSUME NEW S, NEW l \in Seq(S), NEW x \in S, IsInjective(l), x \notin Range(l)
    PROVE  /\ <<x>> \o l \in Seq(S) /\ Len(<<x>> \o l) = Len(l) + 1 /\ Len(l) \in Nat
           /\ Range(<<x>> \o l) = Range(l) \cup {x} /\ IsInjective(<<x>> \o l)
<1>1. PICK u : u = <<x>>
  OBVIOUS
<1>2. u \in Seq(S) /\ Len(u) = 1 /\ u[1] = x
  BY <1>1
<1>3. PICK t : t = u \o l
  OBVIOUS
<1>4. Len(l) \in Nat /\ DOMAIN l = 1 .. Len(l)
  BY LenProperties
<1>5. /\ t \in Seq(S) /\ Len(t) = 1 + Len(l)
      /\ \A i \in 1 .. 1 + Len(l) : t[i] = IF i <= 1 THEN u[i] ELSE l[i - 1]
  BY <1>2, <1>3, ConcatProperties
<1>6. DOMAIN t = 1 .. Len(l) + 1
  BY <1>4, <1>5, LenProperties
<1>7. t[1] = x /\ \A i \in 2 .. Len(l) + 1 : i - 1 \in 1 .. Len(l) /\ t[i] = l[i - 1]
  <2>1. 1 \in 1 .. 1 + Len(l) /\ 1 <= 1
    BY <1>4
  <2>2. \A i \in 2 .. Len(l) + 1 : i - 1 \in 1 .. Len(l) /\ i \in 1 .. 1 + Len(l) /\ ~(i <= 1)
    BY <1>4
  <2>3. QED
    BY <1>2, <1>5, <2>1, <2>2
<1>8. ASSUME NEW i \in DOMAIN t, NEW j \in DOMAIN t, t[i] = t[j] PROVE i = j
  <2>1. (i = 1 \/ i \in 2 .. Len(l) + 1) /\ (j = 1 \/ j \in 2 .. Len(l) + 1)
    BY <1>4, <1>6
  <2>2. \A n \in 2 .. Len(l) + 1 : t[n] # x
    BY <1>4, <1>7 DEF Range
  <2>3. CASE i \in 2 .. Len(l) + 1 /\ j \in 2 .. Len(l) + 1
    <3>1. i - 1 = j - 1
      BY <1>4, <1>7, <1>8, <2>3 DEF IsInjective
    <3>2. QED
      BY <1>4, <2>3, <3>1
  <2>4. QED
    BY <1>7, <1>8, <2>1, <2>2, <2>3
<1>9. Range(t) = Range(l) \cup {x}
  <2>1. ASSUME NEW y \in Range(t) PROVE y \in Range(l) \cup {x}
    <3>1. PICK i \in 1 .. Len(l) + 1 : t[i] = y
      BY <1>6 DEF Range
    <3>2. i = 1 \/ i \in 2 .. Len(l) + 1
      BY <1>4, <3>1
    <3>3. QED
      BY <1>4, <1>7, <3>1, <3>2 DEF Range
  <2>2. ASSUME NEW y \in Range(l) PROVE y \in Range(t)
    <3>1. PICK i \in 1 .. Len(l) : l[i] = y
      BY <1>4 DEF Range
    <3>2. i + 1 \in 2 .. Len(l) + 1 /\ (i + 1) - 1 = i /\ i + 1 \in 1 .. Len(l) + 1
      BY <1>4, <3>1
    <3>3. t[i + 1] = y
      BY <1>7, <3>1, <3>2
    <3>4. QED
      BY <1>6, <3>2, <3>3 DEF Range
  <2>3. x \in Range(t)
    <3>1. 1 \in 1 .. Len(l) + 1
      BY <1>4
    <3>2. QED
      BY <1>6, <1>7, <3>1 DEF Range
  <2>4. QED
    BY <2>1, <2>2, <2>3
<1>10. IsInjective(t)
  BY <1>8 DEF IsInjective
<1>11. QED
  BY <1>1, <1>3, <1>4, <1>5, <1>9, <1>10

\* Giving an object back to its cache keeps the heap exact.
LEMMA CacheFreeOK ==
    ASSUME NEW h, HeapOK(h.slub), NEW o \in DOMAIN h.slub.objs, NEW k, h.slub.objs[o] = k
    PROVE  LET r == kmem_cache_free(h, k, o)
           IN  /\ HeapOK(r.slub) /\ r.pmm = h.pmm /\ r.slub.pages = h.slub.pages
               /\ DOMAIN r.slub.caches = DOMAIN h.slub.caches
               /\ h.slub.slabs[obj_to_slab(o)].cache = k
<1> DEFINE r == kmem_cache_free(h, k, o)
<1>1. PICK s, t : s = h.slub /\ t = r.slub
  OBVIOUS
<1>2. PICK p : p = obj_to_slab(o)
  OBVIOUS
<1>3. HeapOK(s) /\ p \in DOMAIN s.slabs /\ s.slabs[p].cache = k /\ o \in HeldOn(s, p) /\ o \in Nat
  BY <1>1, <1>2, HeapFacts
<1>4. PICK c, sl, f, objs : c = s.caches[k] /\ sl = s.slabs[p] /\ f = sl.freelist /\ objs = ObjsOn(c, p)
  OBVIOUS
<1>5. PICK list : list = IF sl.inuse = 1 THEN "slabs_empty" ELSE "slabs_partial"
  OBVIOUS
<1>6. /\ k \in DOMAIN s.caches /\ p \in Page /\ c \in CacheType /\ CacheOK(s, k)
      /\ c.num_per_slab * c.obj_size < PGSIZE /\ SlabOK(s, p) /\ sl \in SlabType
      /\ IsFiniteSet(DOMAIN s.objs) /\ sl.cache = k
  BY <1>3, <1>4, HeapFacts
<1>7. /\ Range(f) = objs \ (objs \cap DOMAIN s.objs) /\ IsInjective(f)
      /\ Len(f) + sl.inuse = c.num_per_slab
      /\ sl.inuse = Cardinality(objs \cap DOMAIN s.objs)
      /\ o \in objs /\ o \in DOMAIN s.objs
  BY <1>3, <1>4, <1>6 DEF SlabOK, HeldOn
<1>8. f \in Seq(Nat) /\ sl.inuse \in Nat /\ k \in Nat /\ Len(f) \in Nat /\ c.num_per_slab \in Nat
  BY <1>4, <1>6, LenProperties DEF SlabType, CacheType
<1>9. PICK g : g = <<o>> \o f
  OBVIOUS
<1>10. /\ g \in Seq(Nat) /\ Len(g) = Len(f) + 1
       /\ Range(g) = Range(f) \cup {o} /\ IsInjective(g)
  BY <1>3, <1>7, <1>8, <1>9, PutFirstFacts
<1>11. sl.inuse \in Nat \ {0} /\ sl.inuse - 1 \in Nat
  <2>1. IsFiniteSet(objs \cap DOMAIN s.objs) /\ objs \cap DOMAIN s.objs # {}
    BY <1>6, <1>7, FS_Subset
  <2>2. Cardinality(objs \cap DOMAIN s.objs) # 0
    BY <2>1, FS_EmptySet
  <2>3. QED
    BY <1>7, <1>8, <2>2
<1>12. PICK sm : sm = [sl EXCEPT !.freelist = <<o>> \o @, !.inuse = @ - 1]
  OBVIOUS
<1>13. sm \in SlabType /\ sm.cache = k /\ sm.freelist = g /\ sm.inuse = sl.inuse - 1
  <2>1. sm = [sl EXCEPT !.freelist = g, !.inuse = sl.inuse - 1]
    BY <1>4, <1>6, <1>9, <1>12 DEF SlabType
  <2>2. QED
    BY <1>6, <1>10, <1>11, <2>1 DEF SlabType
<1>14. list = ListFor(sm.inuse, c.num_per_slab)
  BY <1>5, <1>7, <1>8, <1>11, <1>13 DEF ListFor
<1>15. PICK n : n = c.active_objs - 1
  OBVIOUS
<1>16. list \in SlabLists
  BY <1>5 DEF SlabLists
<1>17. PICK m : m = Moved(c, p, list)
  OBVIOUS
<1>18. m.active_objs = c.active_objs /\ m \in CacheType
  BY <1>3, <1>4, <1>6, <1>16, <1>17, HeapMoves DEF MoveDone
<1>19. DOMAIN s = {"caches", "slabs", "objs", "pages"}
  BY <1>3 DEF HeapOK
<1>20. [m EXCEPT !.active_objs = @ - 1] = [m EXCEPT !.active_objs = n]
  BY <1>15, <1>18 DEF CacheType
<1>21. /\ t = [s EXCEPT !.slabs[p].freelist = <<o>> \o @, !.slabs[p].inuse = @ - 1,
                        !.caches[k] = [m EXCEPT !.active_objs = @ - 1],
                        !.objs = Restrict(@, DOMAIN @ \ {o})]
       /\ r.pmm = h.pmm
  BY <1>1, <1>2, <1>4, <1>5, <1>17 DEF kmem_cache_free
<1> HIDE DEF r
<1>22. /\ DOMAIN t = {"caches", "slabs", "objs", "pages"} /\ t.pages = s.pages
       /\ t.slabs = [s.slabs EXCEPT ![p] = sm]
       /\ t.caches = [s.caches EXCEPT ![k] = [m EXCEPT !.active_objs = n]]
       /\ t.objs = [x \in DOMAIN s.objs \ {o} |-> s.objs[x]]
  <2>1. /\ DOMAIN t = {"caches", "slabs", "objs", "pages"} /\ t.pages = s.pages
        /\ t.objs = [x \in DOMAIN s.objs \ {o} |-> s.objs[x]]
    BY <1>19, <1>21 DEF Restrict
  <2>3. t.caches = [s.caches EXCEPT ![k] = [m EXCEPT !.active_objs = n]]
    BY <1>19, <1>20, <1>21
  <2>4. t.slabs = [s.slabs EXCEPT ![p] = sm]
    BY <1>3, <1>4, <1>6, <1>12, <1>19, <1>21 DEF SlabType
  <2>5. QED
    BY <2>1, <2>3, <2>4
<1>23. SlabReplaced(s, t, k, p, sm, list, n)
  BY <1>3, <1>4, <1>14, <1>17, <1>22 DEF SlabReplaced
<1>24. /\ DOMAIN t.objs = DOMAIN s.objs \ {o}
       /\ \A x \in DOMAIN s.objs : x # o => t.objs[x] = s.objs[x]
  BY <1>22
<1>25. IsFiniteSet(DOMAIN t.objs)
  BY <1>6, <1>24, FS_Subset
<1>26. /\ Exchanged(s, t, k, p, o) /\ t.slabs[p] = sm /\ t.caches[k].active_objs = n
       /\ DOMAIN t.caches = DOMAIN s.caches
  <2>1. TableChanged(s, t, o, k)
    BY <1>24, <1>25 DEF TableChanged
  <2>2. QED
    BY ONLY <1>23, <2>1, ReplacedExchanged
<1>27. SlabCounted(t, p, k, objs, c.num_per_slab)
  <2>1. Range(sm.freelist) = objs \ DOMAIN t.objs
    BY <1>7, <1>10, <1>13, <1>24
  <2>2. Len(sm.freelist) + sm.inuse = c.num_per_slab
    <3>1. PICK a, b, d, e : a = Len(f) /\ b = sl.inuse /\ d = Len(sm.freelist) /\ e = sm.inuse
      OBVIOUS
    <3>2. a \in Nat /\ b \in Nat /\ d = a + 1 /\ e = b - 1 /\ a + b = c.num_per_slab
      BY <1>7, <1>8, <1>10, <1>11, <1>13, <3>1
    <3>3. d + e = c.num_per_slab
      BY ONLY <3>2
    <3>4. QED
      BY <3>1, <3>3
  <2>3. sm.inuse = Cardinality(objs \cap DOMAIN t.objs)
    <3>1. objs \cap DOMAIN t.objs = (objs \cap DOMAIN s.objs) \ {o}
      BY <1>24
    <3>2. IsFiniteSet(objs \cap DOMAIN s.objs)
      BY <1>6, FS_Subset
    <3>3. Cardinality((objs \cap DOMAIN s.objs) \ {o}) = Cardinality(objs \cap DOMAIN s.objs) - 1
      BY <1>7, <3>2, FS_RemoveElement
    <3>4. QED
      BY <1>7, <1>13, <3>1, <3>3
  <2>4. n \in Nat /\ n = Cardinality(HeldFrom(t, k))
    <3>1. c.active_objs = Cardinality(HeldFrom(s, k)) /\ c.active_objs \in Nat
      BY <1>4, <1>6 DEF CacheOK, CacheType
    <3>2. HeldFrom(t, k) = HeldFrom(s, k) \ {o} /\ o \in HeldFrom(s, k)
      BY <1>1, <1>24 DEF HeldFrom
    <3>3. IsFiniteSet(HeldFrom(s, k)) /\ IsFiniteSet(HeldFrom(t, k))
      BY <1>6, <1>25, FS_Subset DEF HeldFrom
    <3>4. Cardinality(HeldFrom(s, k) \ {o}) = Cardinality(HeldFrom(s, k)) - 1
      BY <3>2, <3>3, FS_RemoveElement
    <3>5. Cardinality(HeldFrom(t, k)) \in Nat
      BY <3>3, FS_CardinalityType
    <3>6. QED
      BY <1>15, <3>1, <3>2, <3>4, <3>5
  <2>5. QED
    BY <1>10, <1>13, <1>26, <2>1, <2>2, <2>3, <2>4 DEF SlabCounted
<1>28. HeapOK(t)
  <2>1. o \in ObjsOn(s.caches[k], p)
    BY <1>4, <1>7
  <2>2. SlabCounted(t, p, k, ObjsOn(s.caches[k], p), s.caches[k].num_per_slab)
    BY <1>4, <1>27
  <2>3. QED
    BY <1>3, <1>26, <2>1, <2>2, ExchangedOK
<1>29. QED
  <2>1. /\ HeapOK(r.slub) /\ r.pmm = h.pmm /\ r.slub.pages = h.slub.pages
        /\ DOMAIN r.slub.caches = DOMAIN h.slub.caches
        /\ h.slub.slabs[obj_to_slab(o)].cache = k
    <3>1. HeapOK(r.slub)
      BY ONLY <1>1, <1>28
    <3>2. r.slub.pages = h.slub.pages
      BY ONLY <1>1, <1>22
    <3>3. DOMAIN r.slub.caches = DOMAIN h.slub.caches
      BY ONLY <1>1, <1>26
    <3>4. h.slub.slabs[obj_to_slab(o)].cache = k
      BY ONLY <1>1, <1>2, <1>3
    <3>5. QED
      BY ONLY <1>21, <3>1, <3>2, <3>3, <3>4
  <2>2. QED
    BY <2>1 DEF r

-----------------------------------------------------------------------------
(***************************************************************************)
(* The heap on the page allocator.                                         *)
(***************************************************************************)

\* The heap h in the allocator's state, when the pages U are in use.
HeapGood(h, U) ==
    /\ Good(h.pmm, U) /\ HeapOK(h.slub) /\ h.slub.pages \subseteq U
    /\ KmallocCaches \subseteq DOMAIN h.slub.caches

\* A slab at the head of the partial or of the empty list has a free object.
LEMMA HeadHasObject ==
    ASSUME NEW s, HeapOK(s), NEW k \in DOMAIN s.caches,
           NEW list \in {"slabs_partial", "slabs_empty"}, s.caches[k][list] # <<>>
    PROVE  /\ Head(s.caches[k][list]) \in DOMAIN s.slabs
           /\ s.slabs[Head(s.caches[k][list])].cache = k
           /\ s.slabs[Head(s.caches[k][list])].freelist # <<>>
<1>1. PICK l, p, sl : l = s.caches[k][list] /\ p = Head(l) /\ sl = s.slabs[p]
  OBVIOUS
<1>2. CacheOK(s, k)
  BY HeapFacts
<1>3. Lists(l, OnList(s, k, list))
  BY <1>1, <1>2 DEF CacheOK, SlabLists
<1>4. l \in Seq(Page) /\ l # <<>> /\ Range(l) = OnList(s, k, list)
  BY <1>1, <1>3 DEF Lists
<1>5. p \in OnList(s, k, list)
  BY <1>1, <1>4, TailFacts
<1>6. /\ p \in DOMAIN s.slabs /\ sl.cache = k
      /\ ListFor(sl.inuse, s.caches[k].num_per_slab) = list
  BY <1>1, <1>5 DEF OnList
<1>7. /\ sl.freelist \in Seq(Nat) /\ sl.inuse \in Nat
      /\ Len(sl.freelist) + sl.inuse = s.caches[k].num_per_slab
      /\ s.caches[k].num_per_slab \in Nat \ {0}
  <2>1. SlabOK(s, p) /\ s.slabs[p] \in SlabType /\ s.caches[k] \in CacheType
    BY <1>6, HeapFacts
  <2>2. QED
    BY <1>1, <1>6, <2>1 DEF SlabOK, SlabType, CacheType
<1>8. sl.inuse # s.caches[k].num_per_slab
  BY <1>6, <1>7 DEF ListFor
<1>9. sl.freelist # <<>>
  <2>1. sl.freelist = <<>> => Len(sl.freelist) = 0
    OBVIOUS
  <2>2. QED
    BY <1>7, <1>8, <2>1
<1>10. QED
  BY <1>1, <1>6, <1>9

\* Taking that object.
LEMMA HeadObjectGood ==
    ASSUME NEW h, NEW U, HeapGood(h, U), NEW k \in DOMAIN h.slub.caches,
           NEW list \in {"slabs_partial", "slabs_empty"}, h.slub.caches[k][list] # <<>>
    PROVE  LET r == ObjectFrom(h, k, Head(h.slub.caches[k][list]))
           IN  HeapGood(r, U) /\ r.slub.pages = h.slub.pages
<1>1. PICK p : p = Head(h.slub.caches[k][list])
  OBVIOUS
<1>2. PICK r : r = ObjectFrom(h, k, p)
  OBVIOUS
<1>3. HeapOK(h.slub)
  BY DEF HeapGood
<1>4. /\ p \in DOMAIN h.slub.slabs /\ h.slub.slabs[p].cache = k
      /\ h.slub.slabs[p].freelist # <<>>
  BY <1>1, <1>3, HeadHasObject
<1>5. /\ HeapOK(r.slub) /\ r.pmm = h.pmm /\ r.slub.pages = h.slub.pages
      /\ DOMAIN r.slub.caches = DOMAIN h.slub.caches
  BY <1>2, <1>3, <1>4, ObjectFromOK
<1>6. HeapGood(r, U)
  BY <1>5 DEF HeapGood
<1>7. QED
  BY <1>1, <1>2, <1>5, <1>6

\* A page taken from the allocator was not in use.
LEMMA OnePageGood ==
    ASSUME NEW m, NEW U, Good(m, U), AllocPages(m, 1).page # NULL
    PROVE  LET a == AllocPages(m, 1)
           IN  Good(a.pmm, U \cup {a.page}) /\ a.page \in Page \ U
<1>1. PICK a : a = AllocPages(m, 1)
  OBVIOUS
<1>2. 1 \in Nat \ {0}
  OBVIOUS
<1>3. /\ Good(a.pmm, U \cup a.page .. a.page + 1 - 1)
      /\ a.page .. a.page + 1 - 1 \subseteq Page \ U /\ a.page \in Page
  BY <1>1, <1>2, AllocGood
<1>4. a.page .. a.page + 1 - 1 = {a.page}
  BY <1>3 DEF Page
<1>5. QED
  BY <1>1, <1>3, <1>4

\* Creating a cache, or failing to.
LEMMA CreateGood ==
    ASSUME NEW h, NEW U, Good(h.pmm, U), HeapOK(h.slub), h.slub.pages \subseteq U,
           NEW k \in Nat, k \notin DOMAIN h.slub.caches, NEW size \in Nat \ {0}, size < PGSIZE
    PROVE  LET r == kmem_cache_create(h, k, size)
               a == AllocPages(h.pmm, 1)
           IN  /\ Good(r.pmm, (U \ h.slub.pages) \cup r.slub.pages) /\ HeapOK(r.slub)
               /\ a.page = NULL => r = h
               /\ a.page # NULL => /\ r.slub.pages = h.slub.pages \cup {a.page} /\ r.pmm = a.pmm
                                   /\ DOMAIN r.slub.caches = DOMAIN h.slub.caches \cup {k}
<1>1. PICK s, m : s = h.slub /\ m = h.pmm
  OBVIOUS
<1>2. PICK a : a = AllocPages(m, 1)
  OBVIOUS
<1>3. PICK r : r = kmem_cache_create(h, k, size)
  OBVIOUS
<1>4. Good(m, U) /\ HeapOK(s) /\ s.pages \subseteq U /\ k \notin DOMAIN s.caches
  BY <1>1
<1>5. r = CacheIn(h, k, size, a)
  BY <1>1, <1>2, <1>3 DEF kmem_cache_create
<1>6. CASE a.page = NULL
  <2>1. r = h
    BY <1>5, <1>6 DEF CacheIn
  <2>2. (U \ s.pages) \cup s.pages = U
    BY <1>4
  <2>3. QED
    BY <1>1, <1>2, <1>3, <1>4, <1>6, <2>1, <2>2
<1>7. CASE a.page # NULL
  <2>1. Good(a.pmm, U \cup {a.page}) /\ a.page \in Page \ U
    BY <1>2, <1>4, <1>7, OnePageGood
  <2>2. PICK t : t = WithCache(s, k, a.page, size)
    OBVIOUS
  <2>3. /\ HeapOK(t) /\ t.pages = s.pages \cup {a.page}
        /\ DOMAIN t.caches = DOMAIN s.caches \cup {k}
    BY <1>4, <2>1, <2>2, WithCacheOK
  <2>4. r = [pmm |-> a.pmm, slub |-> t]
    BY <1>1, <1>5, <1>7, <2>2 DEF CacheIn, WithCache
  <2>5. (U \ s.pages) \cup t.pages = U \cup {a.page}
    BY <1>4, <2>3
  <2>6. QED
    BY <1>1, <1>2, <1>3, <1>7, <2>1, <2>3, <2>4, <2>5
<1>8. QED
  BY <1>6, <1>7

\* A new slab for a cache, or none.
LEMMA GrowGood ==
    ASSUME NEW h, NEW U, HeapGood(h, U), NEW k \in DOMAIN h.slub.caches
    PROVE  LET r == kmem_cache_grow(h, k)
           IN  /\ HeapGood(r, (U \ h.slub.pages) \cup r.slub.pages)
               /\ h.slub.pages \subseteq r.slub.pages /\ k \in DOMAIN r.slub.caches
<1>1. PICK s, m : s = h.slub /\ m = h.pmm
  OBVIOUS
<1>2. PICK a : a = AllocPages(m, 1)
  OBVIOUS
<1>3. PICK r : r = kmem_cache_grow(h, k)
  OBVIOUS
<1>4. /\ Good(m, U) /\ HeapOK(s) /\ s.pages \subseteq U /\ k \in DOMAIN s.caches
      /\ KmallocCaches \subseteq DOMAIN s.caches
  BY <1>1 DEF HeapGood
<1>5. r = SlabIn(h, k, a)
  BY <1>1, <1>2, <1>3 DEF kmem_cache_grow
<1>6. CASE a.page = NULL
  <2>1. r = h
    BY <1>5, <1>6 DEF SlabIn
  <2>2. (U \ s.pages) \cup s.pages = U
    BY <1>4
  <2>3. QED
    BY <1>1, <1>3, <1>4, <2>1, <2>2
<1>7. CASE a.page # NULL
  <2>1. Good(a.pmm, U \cup {a.page}) /\ a.page \in Page \ U
    BY <1>2, <1>4, <1>7, OnePageGood
  <2>2. PICK t : t = WithSlab(s, k, a.page)
    OBVIOUS
  <2>3. /\ HeapOK(t) /\ t.pages = s.pages \cup {a.page} /\ DOMAIN t.caches = DOMAIN s.caches
    BY <1>4, <2>1, <2>2, WithSlabOK
  <2>4. r = [pmm |-> a.pmm, slub |-> t]
    BY <1>1, <1>5, <1>7, <2>2 DEF SlabIn, WithSlab
  <2>5. (U \ s.pages) \cup t.pages = U \cup {a.page}
    BY <1>4, <2>3
  <2>6. r.pmm = a.pmm /\ r.slub = t
    BY <2>4
  <2>7. HeapGood(r, U \cup {a.page})
    BY <1>4, <2>1, <2>3, <2>6 DEF HeapGood
  <2>8. QED
    BY <1>1, <1>3, <1>4, <2>3, <2>5, <2>6, <2>7
<1>8. QED
  BY <1>6, <1>7

\* An object for a client, from the slab the code picks.
LEMMA CacheAllocGood ==
    ASSUME NEW h, NEW U, HeapGood(h, U), NEW k \in DOMAIN h.slub.caches
    PROVE  LET r == kmem_cache_alloc(h, k)
           IN  HeapGood(r, (U \ h.slub.pages) \cup r.slub.pages)
<1>1. PICK c : c = h.slub.caches[k]
  OBVIOUS
<1>2. PICK r : r = kmem_cache_alloc(h, k)
  OBVIOUS
<1>3. (U \ h.slub.pages) \cup h.slub.pages = U
  BY DEF HeapGood
<1>4. PICK partial, empty : partial = "slabs_partial" /\ empty = "slabs_empty"
  OBVIOUS
<1>5. /\ partial \in {"slabs_partial", "slabs_empty"} /\ empty \in {"slabs_partial", "slabs_empty"}
      /\ h.slub.caches[k][partial] = c.slabs_partial /\ h.slub.caches[k][empty] = c.slabs_empty
  BY <1>1, <1>4
<1>6. CASE c.slabs_partial # <<>>
  <2>1. r = ObjectFrom(h, k, Head(h.slub.caches[k][partial]))
    BY <1>1, <1>2, <1>5, <1>6 DEF kmem_cache_alloc
  <2>2. HeapGood(r, U) /\ r.slub.pages = h.slub.pages
    BY <1>5, <1>6, <2>1, HeadObjectGood
  <2>3. QED
    BY <1>2, <1>3, <2>2
<1>7. CASE c.slabs_partial = <<>> /\ c.slabs_empty # <<>>
  <2>1. r = ObjectFrom(h, k, Head(h.slub.caches[k][empty]))
    BY <1>1, <1>2, <1>5, <1>7 DEF kmem_cache_alloc
  <2>2. HeapGood(r, U) /\ r.slub.pages = h.slub.pages
    BY <1>5, <1>7, <2>1, HeadObjectGood
  <2>3. QED
    BY <1>2, <1>3, <2>2
<1>8. CASE c.slabs_partial = <<>> /\ c.slabs_empty = <<>>
  <2>1. PICK g : g = kmem_cache_grow(h, k)
    OBVIOUS
  <2>2. PICK V : V = (U \ h.slub.pages) \cup g.slub.pages
    OBVIOUS
  <2>3. HeapGood(g, V) /\ h.slub.pages \subseteq g.slub.pages /\ k \in DOMAIN g.slub.caches
    BY <2>1, <2>2, GrowGood
  <2>4. r = ObjectFromEmpty(g, k)
    BY <1>1, <1>2, <1>8, <2>1 DEF kmem_cache_alloc
  <2>5. g.slub.caches[k].slabs_empty = g.slub.caches[k][empty]
    BY <1>4
  <2>6. CASE g.slub.caches[k][empty] = <<>>
    <3>1. r = g
      BY <2>4, <2>5, <2>6 DEF ObjectFromEmpty
    <3>2. QED
      BY <1>2, <2>2, <2>3, <3>1
  <2>7. CASE g.slub.caches[k][empty] # <<>>
    <3>1. r = ObjectFrom(g, k, Head(g.slub.caches[k][empty]))
      BY <2>4, <2>5, <2>7 DEF ObjectFromEmpty
    <3>2. HeapGood(r, V) /\ r.slub.pages = g.slub.pages
      BY <1>5, <2>3, <2>7, <3>1, HeadObjectGood
    <3>3. QED
      BY <1>2, <2>2, <3>2
  <2>8. QED
    BY <2>6, <2>7
<1>9. QED
  BY <1>6, <1>7, <1>8

\* kmalloc's caches are numbered by the powers of two.
LEMMA IndexOfSize ==
    ASSUME NEW size \in Nat, size # 0, size <= Shift[KMALLOC_CACHES_COUNT - 1]
    PROVE  size_to_index(size) \in KmallocCaches
<1> DEFINE T == {i \in Nat : i \in KmallocCaches /\ Shift[i - 1] >= size}
<1>1. KMALLOC_CACHES_COUNT \in Nat \ {0}
  BY SlubAssumption
<1>2. KMALLOC_CACHES_COUNT \in T
  BY <1>1 DEF KmallocCaches
<1>3. PICK i \in T : \A j \in T : i <= j
  <2>1. T \subseteq Nat /\ T # {}
    BY <1>2
  <2> HIDE DEF T
  <2>2. QED
    BY <2>1, LeastNatural
<1>4. \A j \in 1 .. i - 1 : Shift[j - 1] < size
  <2>1. SUFFICES ASSUME NEW j \in 1 .. i - 1 PROVE Shift[j - 1] < size
    OBVIOUS
  <2>2. i \in Nat /\ i \in 1 .. KMALLOC_CACHES_COUNT
    BY <1>3 DEF KmallocCaches
  <2>3. j \in KmallocCaches /\ j \in Nat /\ j - 1 \in Nat /\ ~(i <= j)
    BY <1>1, <2>1, <2>2 DEF KmallocCaches
  <2>4. ~(Shift[j - 1] >= size)
    BY <1>3, <2>3
  <2>5. Shift[j - 1] \in Nat
    BY <2>3, ShiftFacts
  <2>6. QED
    BY <2>4, <2>5
<1>5. \E n \in KmallocCaches : Shift[n - 1] >= size /\ \A j \in 1 .. n - 1 : Shift[j - 1] < size
  BY <1>3, <1>4
<1>6. QED
  BY <1>5 DEF size_to_index

\* kmalloc, which may refuse.
LEMMA KmallocGood ==
    ASSUME NEW h, NEW U, HeapGood(h, U), NEW size \in Nat
    PROVE  LET r == kmalloc(h, size)
           IN  HeapGood(r, (U \ h.slub.pages) \cup r.slub.pages)
<1>1. (U \ h.slub.pages) \cup h.slub.pages = U
  BY DEF HeapGood
<1>2. PICK r : r = kmalloc(h, size)
  OBVIOUS
<1>3. CASE size = 0 \/ size > Shift[KMALLOC_CACHES_COUNT - 1]
  <2>1. r = h
    BY <1>2, <1>3 DEF kmalloc
  <2>2. QED
    BY <1>1, <1>2, <2>1
<1>4. CASE ~(size = 0 \/ size > Shift[KMALLOC_CACHES_COUNT - 1])
  <2>1. PICK k : k = size_to_index(size)
    OBVIOUS
  <2>2. Shift[KMALLOC_CACHES_COUNT - 1] \in Nat
    <3>1. KMALLOC_CACHES_COUNT - 1 \in Nat
      BY SlubAssumption
    <3>2. QED
      BY <3>1, ShiftFacts
  <2>3. k \in DOMAIN h.slub.caches
    <3>1. size # 0 /\ size <= Shift[KMALLOC_CACHES_COUNT - 1]
      BY <1>4, <2>2
    <3>2. QED
      BY <2>1, <3>1, IndexOfSize DEF HeapGood
  <2>4. r = kmem_cache_alloc(h, k)
    BY <1>2, <1>4, <2>1 DEF kmalloc
  <2>5. QED
    BY <1>2, <2>3, <2>4, CacheAllocGood
<1>5. QED
  BY <1>3, <1>4

\* Giving an object back.
LEMMA ObjectBackGood ==
    ASSUME NEW h, NEW U, HeapGood(h, U), NEW o \in DOMAIN h.slub.objs
    PROVE  LET r == kmem_cache_free(h, h.slub.objs[o], o)
           IN  /\ HeapGood(r, (U \ h.slub.pages) \cup r.slub.pages)
               /\ h.slub.slabs[obj_to_slab(o)].cache = h.slub.objs[o]
<1>1. PICK k : k = h.slub.objs[o]
  OBVIOUS
<1>2. PICK r : r = kmem_cache_free(h, k, o)
  OBVIOUS
<1>3. HeapOK(h.slub) /\ h.slub.pages \subseteq U
  BY DEF HeapGood
<1>4. /\ HeapOK(r.slub) /\ r.pmm = h.pmm /\ r.slub.pages = h.slub.pages
      /\ DOMAIN r.slub.caches = DOMAIN h.slub.caches
      /\ h.slub.slabs[obj_to_slab(o)].cache = k
  BY <1>1, <1>2, <1>3, CacheFreeOK
<1>5. HeapGood(r, U)
  BY <1>4 DEF HeapGood
<1>6. (U \ h.slub.pages) \cup r.slub.pages = U
  BY <1>3, <1>4
<1>7. QED
  BY <1>1, <1>2, <1>4, <1>5, <1>6

-----------------------------------------------------------------------------
(***************************************************************************)
(* Destroying a cache.                                                     *)
(***************************************************************************)

\* The allocator m after the pages of the list q have been freed one by one.
FreedAll(m, q) ==
    LET freed[i \in 0 .. Len(q)] == IF i = 0 THEN m ELSE FreePages(freed[i - 1], q[i], 1)
    IN  freed[Len(q)]

\* f holds the allocator after each of the first n pages.
FreedUpTo(f, n, m, q) ==
    /\ DOMAIN f = 0 .. n /\ f = [i \in 0 .. n |-> f[i]]
    /\ f[0] = m /\ \A i \in 1 .. n : f[i] = FreePages(f[i - 1], q[i], 1)

\* There is such an f.
LEMMA FreedExists ==
    ASSUME NEW m, NEW q, NEW L \in Nat
    PROVE  \E f : FreedUpTo(f, L, m, q)
<1> DEFINE T == {n \in Nat : \E f : FreedUpTo(f, n, m, q)}
<1>1. 0 \in T
  <2>1. FreedUpTo([i \in 0 .. 0 |-> m], 0, m, q)
    BY DEF FreedUpTo
  <2>2. QED
    BY <2>1
<1>2. ASSUME NEW n \in Nat, n \in T PROVE n + 1 \in T
  <2>1. PICK g : FreedUpTo(g, n, m, q)
    BY <1>2
  <2>2. PICK y : y = FreePages(g[n], q[n + 1], 1)
    OBVIOUS
  <2> DEFINE h == [i \in 0 .. n + 1 |-> IF i = n + 1 THEN y ELSE g[i]]
  <2>3. h[n + 1] = y /\ \A i \in 0 .. n : h[i] = g[i]
    <3>1. n + 1 \in 0 .. n + 1 /\ \A i \in 0 .. n : i \in 0 .. n + 1 /\ i # n + 1
      OBVIOUS
    <3>2. QED
      BY <3>1
  <2>4. DOMAIN h = 0 .. n + 1 /\ h = [i \in 0 .. n + 1 |-> h[i]]
    OBVIOUS
  <2> HIDE DEF h
  <2>5. h[0] = m
    <3>1. 0 \in 0 .. n
      OBVIOUS
    <3>2. QED
      BY <2>1, <2>3, <3>1 DEF FreedUpTo
  <2>6. ASSUME NEW i \in 1 .. n + 1 PROVE h[i] = FreePages(h[i - 1], q[i], 1)
    <3>1. CASE i = n + 1
      <4>1. i - 1 = n /\ n \in 0 .. n
        BY <3>1
      <4>2. QED
        BY <2>2, <2>3, <3>1, <4>1
    <3>2. CASE i # n + 1
      <4>1. i \in 1 .. n /\ i \in 0 .. n /\ i - 1 \in 0 .. n
        BY <3>2
      <4>2. QED
        BY <2>1, <2>3, <4>1 DEF FreedUpTo
    <3>3. QED
      BY <3>1, <3>2
  <2>7. FreedUpTo(h, n + 1, m, q)
    BY <2>4, <2>5, <2>6 DEF FreedUpTo
  <2>8. QED
    BY <2>7
<1> HIDE DEF T
<1>3. Nat \subseteq T
  BY <1>1, <1>2, InductionOverSets
<1>4. QED
  BY <1>3 DEF T

\* A single page in use can be freed.
LEMMA OnePageBackGood ==
    ASSUME NEW m, NEW U, Good(m, U), NPage - 1 \notin U, NEW p \in U
    PROVE  Good(FreePages(m, p, 1), U \ {p})
<1>1. p \in Page /\ 1 \in Nat \ {0}
  BY DEF Good, Shape
<1>2. p .. p + 1 - 1 = {p}
  BY <1>1 DEF Page
<1>3. p .. p + 1 - 1 \subseteq U
  BY <1>2
<1>4. Good(FreePages(m, p, 1), U \ p .. p + 1 - 1)
  BY <1>1, <1>3, FreeGood
<1>5. QED
  BY <1>2, <1>4

\* Freeing pages in use one by one, each once.
LEMMA FreedAllGood ==
    ASSUME NEW m, NEW U, Good(m, U), NPage - 1 \notin U, NEW q, NEW S, Lists(q, S),
           S \subseteq U
    PROVE  Good(FreedAll(m, q), U \ S)
<1>1. q \in Seq(Page) /\ IsInjective(q) /\ Range(q) = S
  BY DEF Lists
<1>2. PICK L : L = Len(q)
  OBVIOUS
<1>3. L \in Nat /\ DOMAIN q = 1 .. L
  BY <1>1, <1>2, LenProperties
<1> DEFINE StepOf(f) == [i \in 0 .. Len(q) |-> IF i = 0 THEN m ELSE FreePages(f[i - 1], q[i], 1)]
           freed == CHOOSE f : f = StepOf(f)
<1>4. FreedAll(m, q) = freed[L]
  BY <1>2 DEF FreedAll
<1>5. freed = StepOf(freed)
  <2>1. PICK f : FreedUpTo(f, L, m, q)
    BY <1>3, FreedExists
  <2>2. f = StepOf(f)
    <3>1. \A i \in 0 .. L : i # 0 => i \in 1 .. L
      OBVIOUS
    <3>2. \A i \in 0 .. L : f[i] = IF i = 0 THEN m ELSE FreePages(f[i - 1], q[i], 1)
      BY <2>1, <3>1 DEF FreedUpTo
    <3>3. f = [i \in 0 .. L |-> f[i]]
      BY <2>1 DEF FreedUpTo
    <3>4. QED
      BY <1>2, <3>2, <3>3
  <2> HIDE DEF StepOf
  <2>3. QED
    BY <2>2
<1> HIDE DEF freed
<1>6. freed[0] = m /\ \A i \in 1 .. L : freed[i] = FreePages(freed[i - 1], q[i], 1)
  <2>1. 0 \in 0 .. L /\ \A i \in 1 .. L : i \in 0 .. L /\ i # 0
    BY <1>3
  <2>2. QED
    BY <1>2, <1>5, <2>1
<1> HIDE DEF StepOf
<1> DEFINE Gone(n) == {q[j] : j \in 1 .. n}
           T == {n \in Nat : n <= L => Good(freed[n], U \ Gone(n))}
<1>7. 0 \in T
  <2>1. Gone(0) = {} /\ U \ {} = U
    OBVIOUS
  <2>2. Good(freed[0], U \ Gone(0))
    BY <1>6, <2>1
  <2>3. QED
    BY <2>2
<1>8. ASSUME NEW n \in Nat, n \in T PROVE n + 1 \in T
  <2>1. SUFFICES ASSUME n + 1 <= L PROVE Good(freed[n + 1], U \ Gone(n + 1))
    OBVIOUS
  <2>2. n <= L /\ n + 1 \in 1 .. L /\ (n + 1) - 1 = n
    BY <1>3, <2>1
  <2>3. PICK V : V = U \ Gone(n)
    OBVIOUS
  <2>4. Good(freed[n], V) /\ NPage - 1 \notin V
    BY <1>8, <2>2, <2>3
  <2>5. q[n + 1] \in V
    <3>1. q[n + 1] \in S
      BY <1>1, <1>3, <2>2 DEF Range
    <3>2. \A j \in 1 .. n : j \in 1 .. L /\ j # n + 1
      BY <1>3, <2>2
    <3>3. \A j \in 1 .. n : q[j] # q[n + 1]
      BY <1>1, <1>3, <2>2, <3>2 DEF IsInjective
    <3>4. QED
      BY <2>3, <3>1, <3>3
  <2>6. Good(FreePages(freed[n], q[n + 1], 1), V \ {q[n + 1]})
    BY <2>4, <2>5, OnePageBackGood
  <2>7. V \ {q[n + 1]} = U \ Gone(n + 1)
    <3>1. ASSUME NEW x PROVE x \in Gone(n + 1) <=> (x \in Gone(n) \/ x = q[n + 1])
      <4>1. \A j \in 1 .. n + 1 : j \in 1 .. n \/ j = n + 1
        OBVIOUS
      <4>2. n + 1 \in 1 .. n + 1 /\ \A j \in 1 .. n : j \in 1 .. n + 1
        OBVIOUS
      <4>3. QED
        BY <4>1, <4>2
    <3> HIDE DEF Gone
    <3>2. QED
      BY <2>3, <3>1
  <2>8. freed[n + 1] = FreePages(freed[n], q[n + 1], 1)
    BY <1>6, <2>2
  <2>9. QED
    BY <2>6, <2>7, <2>8
<1> HIDE DEF T
<1>9. L \in T
  BY <1>3, <1>7, <1>8, InductionOverSets
<1>10. Good(freed[L], U \ Gone(L))
  BY <1>3, <1>9 DEF T
<1>11. Gone(L) = S
  BY <1>1, <1>3 DEF Range
<1>12. QED
  BY <1>4, <1>10, <1>11

\* The pages of a cache without objects: its empty slabs and its own.
CachePages(c) == Append(c.slabs_empty, c.page)

\* The heap without that cache.
WithoutCache(s, k) ==
    [s EXCEPT !.caches = Restrict(@, DOMAIN @ \ {k}),
              !.slabs = Restrict(@, DOMAIN @ \ ToSet(s.caches[k].slabs_empty)),
              !.pages = @ \ ToSet(CachePages(s.caches[k]))]

\* Destroying a cache without objects keeps the heap as it should be: its slabs are
\* all on the empty list, and what is freed are their pages and its own, each once.
LEMMA WithoutCacheOK ==
    ASSUME NEW s, HeapOK(s), NEW k \in DOMAIN s.caches, s.caches[k].active_objs = 0
    PROVE  LET t == WithoutCache(s, k)
           IN  \E S : /\ Lists(CachePages(s.caches[k]), S) /\ S \subseteq s.pages
                      /\ HeapOK(t) /\ t.pages = s.pages \ S
                      /\ DOMAIN t.caches = DOMAIN s.caches \ {k}
<1>1. PICK c, t : c = s.caches[k] /\ t = WithoutCache(s, k)
  OBVIOUS
<1>2. /\ c \in CacheType /\ CacheOK(s, k) /\ c.page \in Page /\ c.page \in s.pages
      /\ c.page \notin DOMAIN s.slabs /\ IsFiniteSet(DOMAIN s.objs)
      /\ DOMAIN s.slabs \subseteq s.pages /\ s.pages \subseteq Page
      /\ DOMAIN s = {"caches", "slabs", "objs", "pages"}
  BY <1>1, HeapFacts DEF HeapOK
<1>3. HeldFrom(s, k) = {}
  <2>1. Cardinality(HeldFrom(s, k)) = 0
    BY <1>1, <1>2 DEF CacheOK
  <2>2. IsFiniteSet(HeldFrom(s, k))
    BY <1>2, FS_Subset DEF HeldFrom
  <2>3. QED
    BY <2>1, <2>2, FS_EmptySet
<1>4. ASSUME NEW p \in DOMAIN s.slabs, s.slabs[p].cache = k
      PROVE  HeldOn(s, p) = {} /\ s.slabs[p].inuse = 0
  <2>1. HeldOn(s, p) = {}
    <3>1. HeldOn(s, p) \subseteq HeldFrom(s, k)
      BY <1>4, HeapFacts DEF HeldFrom
    <3>2. QED
      BY <1>3, <3>1
  <2>2. s.slabs[p].inuse = Cardinality(HeldOn(s, p))
    <3>1. SlabOK(s, p)
      BY HeapFacts
    <3>2. QED
      BY <3>1 DEF SlabOK
  <2>3. QED
    BY <2>1, <2>2, FS_EmptySet
<1>5. PICK E : E = {p \in DOMAIN s.slabs : s.slabs[p].cache = k}
  OBVIOUS
<1>6. Lists(c.slabs_empty, E)
  <2>1. Lists(c.slabs_empty, OnList(s, k, "slabs_empty"))
    BY <1>1, <1>2 DEF CacheOK, SlabLists
  <2>2. OnList(s, k, "slabs_empty") = E
    BY <1>4, <1>5 DEF OnList, ListFor
  <2>3. QED
    BY <2>1, <2>2
<1>7. PICK S : S = E \cup {c.page}
  OBVIOUS
<1>8. Lists(CachePages(c), S) /\ S \subseteq s.pages
  <2>1. c.page \notin E
    BY <1>2, <1>5
  <2>2. Lists(Append(c.slabs_empty, c.page), E \cup {c.page})
    BY <1>2, <1>6, <2>1, LinkedFacts
  <2>3. QED
    BY <1>2, <1>5, <1>7, <2>2 DEF CachePages
<1>9. ToSet(c.slabs_empty) = E /\ ToSet(CachePages(c)) = S
  BY <1>6, <1>8 DEF Lists, ToSet, Range
<1>10. /\ DOMAIN t = {"caches", "slabs", "objs", "pages"}
       /\ t.caches = [j \in DOMAIN s.caches \ {k} |-> s.caches[j]]
       /\ t.slabs = [p \in DOMAIN s.slabs \ E |-> s.slabs[p]]
       /\ t.objs = s.objs /\ t.pages = s.pages \ S
  BY <1>1, <1>2, <1>9 DEF WithoutCache, Restrict
<1>11. /\ DOMAIN t.caches = DOMAIN s.caches \ {k} /\ DOMAIN t.slabs = DOMAIN s.slabs \ E
       /\ \A j \in DOMAIN t.caches : t.caches[j] = s.caches[j]
       /\ \A p \in DOMAIN t.slabs : t.slabs[p] = s.slabs[p]
  BY <1>10
<1>12. ASSUME NEW p \in DOMAIN t.slabs
       PROVE  SlabOK(t, p) /\ HeldOn(t, p) = HeldOn(s, p)
  <2>1. p \in DOMAIN s.slabs /\ s.slabs[p].cache # k
    BY <1>5, <1>11
  <2>2. SlabOK(s, p) /\ s.slabs[p].cache \in DOMAIN s.caches /\ t.slabs[p] = s.slabs[p]
    BY <1>11, <2>1, HeapFacts
  <2>3. /\ s.slabs[p].cache \in DOMAIN t.caches
        /\ t.caches[s.slabs[p].cache] = s.caches[s.slabs[p].cache]
    BY <1>11, <2>1, <2>2
  <2>4. HeldOn(t, p) = HeldOn(s, p)
    BY <1>10, <2>2, <2>3 DEF HeldOn
  <2>5. SlabOK(t, p)
    BY <1>10, <2>2, <2>3, <2>4, SlabKept
  <2>6. QED
    BY <2>4, <2>5
<1>13. ASSUME NEW j \in DOMAIN t.caches PROVE j \in Nat /\ CacheOK(t, j)
  <2>1. j \in Nat /\ CacheOK(s, j) /\ t.caches[j] = s.caches[j] /\ j # k
    BY <1>11, HeapFacts
  <2>2. \A name \in SlabLists : OnList(t, j, name) = OnList(s, j, name)
    BY <1>5, <1>11, <2>1 DEF OnList
  <2>3. HeldFrom(t, j) = HeldFrom(s, j)
    BY <1>10 DEF HeldFrom
  <2>4. QED
    BY <2>1, <2>2, <2>3, CacheKept
<1>14. ASSUME NEW o \in DOMAIN t.objs
       PROVE  obj_to_slab(o) \in DOMAIN t.slabs /\ o \in HeldOn(t, obj_to_slab(o))
  <2>1. /\ o \in DOMAIN s.objs /\ obj_to_slab(o) \in DOMAIN s.slabs
        /\ o \in HeldOn(s, obj_to_slab(o))
    BY <1>10, HeapFacts
  <2>2. obj_to_slab(o) \in DOMAIN t.slabs
    BY <1>4, <1>5, <1>11, <2>1
  <2>3. QED
    BY <1>12, <2>1, <2>2
<1>15. /\ t.pages \subseteq Page /\ DOMAIN t.slabs \subseteq t.pages /\ IsFiniteSet(DOMAIN t.objs)
       /\ \A j \in DOMAIN t.caches : t.caches[j].page \in t.pages \ DOMAIN t.slabs
       /\ \A i, j \in DOMAIN t.caches : t.caches[i].page = t.caches[j].page => i = j
       /\ \A p \in t.pages \ DOMAIN t.slabs : \E j \in DOMAIN t.caches : t.caches[j].page = p
  <2>1. /\ \A j \in DOMAIN s.caches : s.caches[j].page \in s.pages \ DOMAIN s.slabs
        /\ \A i, j \in DOMAIN s.caches : s.caches[i].page = s.caches[j].page => i = j
        /\ \A p \in s.pages \ DOMAIN s.slabs : \E j \in DOMAIN s.caches : s.caches[j].page = p
    BY DEF HeapOK
  <2>2. t.pages \subseteq Page /\ DOMAIN t.slabs \subseteq t.pages /\ IsFiniteSet(DOMAIN t.objs)
    BY <1>2, <1>7, <1>10, <1>11
  <2>3. ASSUME NEW j \in DOMAIN t.caches PROVE t.caches[j].page \in t.pages \ DOMAIN t.slabs
    <3>1. j \in DOMAIN s.caches /\ j # k /\ t.caches[j] = s.caches[j]
      BY <1>11
    <3>2. s.caches[j].page # c.page /\ s.caches[j].page \in s.pages \ DOMAIN s.slabs
      BY <1>1, <2>1, <3>1
    <3>3. QED
      BY <1>5, <1>7, <1>10, <1>11, <3>1, <3>2
  <2>4. \A i, j \in DOMAIN t.caches : t.caches[i].page = t.caches[j].page => i = j
    BY <1>11, <2>1
  <2>5. ASSUME NEW p \in t.pages \ DOMAIN t.slabs
        PROVE  \E j \in DOMAIN t.caches : t.caches[j].page = p
    <3>1. p \in s.pages \ DOMAIN s.slabs /\ p # c.page
      BY <1>7, <1>10, <1>11
    <3>2. PICK j \in DOMAIN s.caches : s.caches[j].page = p
      BY <2>1, <3>1
    <3>3. j # k
      BY <1>1, <3>1, <3>2
    <3>4. QED
      BY <1>11, <3>2, <3>3
  <2>6. QED
    BY <2>2, <2>3, <2>4, <2>5
<1>16. HeapOK(t)
  <2>1. \A p \in DOMAIN t.slabs : SlabOK(t, p)
    BY <1>12
  <2>2. \A j \in DOMAIN t.caches : j \in Nat /\ CacheOK(t, j)
    BY <1>13
  <2>3. \A o \in DOMAIN t.objs : obj_to_slab(o) \in DOMAIN t.slabs /\ o \in HeldOn(t, obj_to_slab(o))
    BY <1>14
  <2>4. QED
    BY <1>10, <1>15, <2>1, <2>2, <2>3 DEF HeapOK
<1>17. QED
  BY <1>1, <1>8, <1>10, <1>11, <1>16

\* Destroying a cache without objects, which is none of kmalloc's.
LEMMA DestroyGood ==
    ASSUME NEW h, NEW U, HeapGood(h, U), NPage - 1 \notin U, NEW k \in DOMAIN h.slub.caches,
           k \notin KmallocCaches, h.slub.caches[k].active_objs = 0
    PROVE  LET r == kmem_cache_destroy(h, k)
           IN  HeapGood(r, (U \ h.slub.pages) \cup r.slub.pages)
<1>1. PICK s, m : s = h.slub /\ m = h.pmm
  OBVIOUS
<1>2. /\ Good(m, U) /\ HeapOK(s) /\ s.pages \subseteq U /\ k \in DOMAIN s.caches
      /\ KmallocCaches \subseteq DOMAIN s.caches /\ s.caches[k].active_objs = 0
  BY <1>1 DEF HeapGood
<1>3. PICK r : r = kmem_cache_destroy(h, k)
  OBVIOUS
<1>4. PICK t : t = WithoutCache(s, k)
  OBVIOUS
<1>5. PICK q : q = CachePages(s.caches[k])
  OBVIOUS
<1>6. r = [pmm |-> FreedAll(m, q), slub |-> t]
  <2>1. kmem_cache_destroy(h, k) =
          [pmm  |-> FreedAll(h.pmm, CachePages(h.slub.caches[k])),
           slub |-> WithoutCache(h.slub, k)]
    BY DEF kmem_cache_destroy, FreedAll, WithoutCache, CachePages
  <2>2. QED
    BY <1>1, <1>3, <1>4, <1>5, <2>1
<1>7. PICK S : /\ Lists(q, S) /\ S \subseteq s.pages /\ HeapOK(t) /\ t.pages = s.pages \ S
               /\ DOMAIN t.caches = DOMAIN s.caches \ {k}
  BY <1>2, <1>4, <1>5, WithoutCacheOK
<1>8. S \subseteq U /\ t.pages \subseteq U \ S /\ (U \ s.pages) \cup t.pages = U \ S
  BY <1>2, <1>7
<1>9. Good(FreedAll(m, q), U \ S)
  BY <1>2, <1>7, <1>8, FreedAllGood
<1>10. r.pmm = FreedAll(m, q) /\ r.slub = t
  BY <1>6
<1>11. HeapGood(r, U \ S)
  BY <1>2, <1>7, <1>8, <1>9, <1>10 DEF HeapGood
<1>12. QED
  BY <1>1, <1>3, <1>8, <1>10, <1>11

-----------------------------------------------------------------------------
(***************************************************************************)
(* The caches that kmalloc_init makes, one page each.                      *)
(***************************************************************************)

\* The heap before its caches are made.
NoSlub == [caches |-> <<>>, slabs |-> <<>>, objs |-> <<>>, pages |-> {}]

NoHeap == [pmm |-> InitialPmm("best_fit_pmm_manager"), slub |-> NoSlub]

\* f holds the heap after each of the first n caches has been made.
BuiltUpTo(f, n) ==
    /\ DOMAIN f = 0 .. n /\ f = [i \in 0 .. n |-> f[i]]
    /\ f[0] = NoHeap /\ \A i \in 1 .. n : f[i] = kmem_cache_create(f[i - 1], i, Shift[i - 1])

\* There is such an f.
LEMMA BuiltExists ==
    ASSUME NEW L \in Nat
    PROVE  \E f : BuiltUpTo(f, L)
<1> DEFINE T == {n \in Nat : \E f : BuiltUpTo(f, n)}
<1>1. 0 \in T
  <2>1. BuiltUpTo([i \in 0 .. 0 |-> NoHeap], 0)
    BY DEF BuiltUpTo
  <2>2. QED
    BY <2>1
<1>2. ASSUME NEW n \in Nat, n \in T PROVE n + 1 \in T
  <2>1. PICK g : BuiltUpTo(g, n)
    BY <1>2
  <2>2. PICK y : y = kmem_cache_create(g[n], n + 1, Shift[n])
    OBVIOUS
  <2> DEFINE h == [i \in 0 .. n + 1 |-> IF i = n + 1 THEN y ELSE g[i]]
  <2>3. h[n + 1] = y /\ \A i \in 0 .. n : h[i] = g[i]
    <3>1. n + 1 \in 0 .. n + 1 /\ \A i \in 0 .. n : i \in 0 .. n + 1 /\ i # n + 1
      OBVIOUS
    <3>2. QED
      BY <3>1
  <2>4. DOMAIN h = 0 .. n + 1 /\ h = [i \in 0 .. n + 1 |-> h[i]]
    OBVIOUS
  <2> HIDE DEF h
  <2>5. h[0] = NoHeap
    <3>1. 0 \in 0 .. n
      OBVIOUS
    <3>2. QED
      BY <2>1, <2>3, <3>1 DEF BuiltUpTo
  <2>6. ASSUME NEW i \in 1 .. n + 1 PROVE h[i] = kmem_cache_create(h[i - 1], i, Shift[i - 1])
    <3>1. CASE i = n + 1
      <4>1. i - 1 = n /\ n \in 0 .. n
        BY <3>1
      <4>2. QED
        BY <2>2, <2>3, <3>1, <4>1
    <3>2. CASE i # n + 1
      <4>1. i \in 1 .. n /\ i \in 0 .. n /\ i - 1 \in 0 .. n
        BY <3>2
      <4>2. QED
        BY <2>1, <2>3, <4>1 DEF BuiltUpTo
    <3>3. QED
      BY <3>1, <3>2
  <2>7. BuiltUpTo(h, n + 1)
    BY <2>4, <2>5, <2>6 DEF BuiltUpTo
  <2>8. QED
    BY <2>7
<1> HIDE DEF T
<1>3. Nat \subseteq T
  BY <1>1, <1>2, InductionOverSets
<1>4. QED
  BY <1>3 DEF T

\* The heap h once the first i caches are made, in the first i pages of memory.
BuiltTo(h, i) ==
    /\ Good(h.pmm, h.slub.pages) /\ h.slub.pages = 0 .. i - 1 /\ h.pmm.PG_property = {i}
    /\ HeapOK(h.slub) /\ DOMAIN h.slub.caches = 1 .. i

\* When one page is taken from the only block, the one block left begins after it.
LEMMA OneBlockLeft ==
    ASSUME NEW m, NEW i \in Nat, i < NPage - 1, Good(m, 0 .. i - 1), m.PG_property = {i}
    PROVE  LET a == AllocPages(m, 1)
           IN  a.page = i /\ a.pmm.PG_property = {i + 1} /\ Good(a.pmm, 0 .. i)
<1> USE PageAllocAssumption
<1>1. PICK a : a = AllocPages(m, 1)
  OBVIOUS
<1>2. PICK U : U = 0 .. i - 1
  OBVIOUS
<1>3. a.page # NULL
  <2>1. i \in Page /\ 1 \in Nat \ {0} /\ i + 1 <= NPage /\ (i .. i + 1 - 1) \cap U = {}
    BY <1>2 DEF Page
  <2>2. QED
    BY <1>1, <1>2, <2>1, AllocServes
<1>4. /\ Good(a.pmm, U \cup a.page .. a.page + 1 - 1)
      /\ a.page \in m.PG_property /\ a.page \in Page /\ a.pmm = Forget(Take(m, a.page, 1))
  <2>1. 1 \in Nat \ {0} /\ Good(m, U) /\ AllocPages(m, 1).page # NULL
    BY <1>1, <1>2, <1>3
  <2>2. QED
    BY <1>1, <2>1, AllocGood
<1>5. a.page = i
  BY <1>4
<1>6. U \cup a.page .. a.page + 1 - 1 = 0 .. i
  BY <1>2, <1>5
<1>7. PICK b : b = a.pmm
  OBVIOUS
<1>8. Good(b, 0 .. i)
  BY <1>4, <1>6, <1>7
<1>9. b.PG_property \subseteq {i + 1}
  <2>1. m \in PmmType
    BY DEF Good, Shape
  <2>2. PICK k : k = Take(m, i, 1)
    OBVIOUS
  <2>3. k.PG_property \subseteq {i + 1} /\ DOMAIN k = DOMAIN m
    BY <2>1, <2>2 DEF Take, PmmType
  <2>4. "PG_property" \in DOMAIN k
    BY <2>1, <2>3 DEF PmmType
  <2>5. Forget(k).PG_property = k.PG_property
    BY <2>4 DEF Forget
  <2>6. QED
    BY <1>4, <1>5, <1>7, <2>2, <2>3, <2>5
<1>10. b.PG_property # {}
  <2>1. Covered(b.PG_property, b.property) = Page \ 0 .. i
    BY <1>8 DEF Good, Shape
  <2>2. NPage - 1 \in Page \ 0 .. i
    BY DEF Page
  <2>3. \E p \in b.PG_property : p <= NPage - 1 /\ NPage - 1 < p + b.property[p]
    BY <2>1, <2>2 DEF Covered
  <2>4. QED
    BY <2>3
<1>11. b.PG_property = {i + 1}
  BY <1>9, <1>10
<1>12. QED
  BY <1>1, <1>5, <1>7, <1>8, <1>11

\* No cache at all.
LEMMA NoHeapBuilt == BuiltTo(NoHeap, 0)
<1> USE PageAllocAssumption
<1>1. PICK s, m : s = NoSlub /\ m = InitialPmm("best_fit_pmm_manager")
  OBVIOUS
<1>2. NoHeap.pmm = m /\ NoHeap.slub = s
  BY <1>1 DEF NoHeap
<1>3. Good(m, {}) /\ m.PG_property = {0}
  <2>1. "best_fit_pmm_manager" \in Managers
    BY DEF Managers
  <2>2. m.PG_property = {0}
    BY <1>1 DEF InitialPmm
  <2>3. QED
    BY <1>1, <2>1, <2>2, InitialGood
<1>4. DOMAIN <<>> = {}
  OBVIOUS
<1>5. /\ DOMAIN s = {"caches", "slabs", "objs", "pages"} /\ s.pages = {}
      /\ DOMAIN s.caches = {} /\ DOMAIN s.slabs = {} /\ DOMAIN s.objs = {}
  BY <1>1, <1>4 DEF NoSlub
<1>6. HeapOK(s)
  BY <1>5, FS_EmptySet DEF HeapOK
<1>7. 0 .. 0 - 1 = {} /\ 1 .. 0 = {}
  OBVIOUS
<1>8. QED
  BY <1>2, <1>3, <1>5, <1>6, <1>7 DEF BuiltTo

\* One more cache.
LEMMA NextBuilt ==
    ASSUME NEW h, NEW i \in Nat, i < KMALLOC_CACHES_COUNT, KMALLOC_CACHES_COUNT < NPage, BuiltTo(h, i)
    PROVE  BuiltTo(kmem_cache_create(h, i + 1, Shift[i]), i + 1)
<1> USE PageAllocAssumption, SlubAssumption
<1>1. PICK m, U : m = h.pmm /\ U = h.slub.pages
  OBVIOUS
<1>2. PICK a : a = AllocPages(m, 1)
  OBVIOUS
<1>3. PICK size : size = Shift[i]
  OBVIOUS
<1>4. PICK r : r = kmem_cache_create(h, i + 1, size)
  OBVIOUS
<1>5. /\ Good(m, U) /\ U = 0 .. i - 1 /\ m.PG_property = {i} /\ HeapOK(h.slub)
      /\ DOMAIN h.slub.caches = 1 .. i
  BY <1>1 DEF BuiltTo
<1>6. a.page = i /\ a.pmm.PG_property = {i + 1} /\ a.page # NULL
  <2>1. Good(m, 0 .. i - 1) /\ i < NPage - 1
    BY <1>5
  <2>2. a.page = i /\ a.pmm.PG_property = {i + 1}
    BY <1>2, <1>5, <2>1, OneBlockLeft
  <2>3. QED
    BY <2>2 DEF NULL
<1>7. size \in Nat \ {0} /\ size < PGSIZE
  <2>1. KMALLOC_CACHES_COUNT - 1 \in Nat /\ i <= KMALLOC_CACHES_COUNT - 1
    OBVIOUS
  <2>2. Shift[i] <= Shift[KMALLOC_CACHES_COUNT - 1] /\ Shift[i] \in Nat \ {0}
        /\ Shift[KMALLOC_CACHES_COUNT - 1] \in Nat
    BY <2>1, ShiftFacts
  <2>3. QED
    BY <1>3, <2>2
<1>8. i + 1 \in Nat /\ i + 1 \notin DOMAIN h.slub.caches
  BY <1>5
<1>9. /\ Good(r.pmm, (U \ U) \cup r.slub.pages) /\ HeapOK(r.slub)
      /\ r.slub.pages = U \cup {a.page} /\ r.pmm = a.pmm
      /\ DOMAIN r.slub.caches = DOMAIN h.slub.caches \cup {i + 1}
  <2>1. h.slub.pages \subseteq U /\ Good(h.pmm, U) /\ HeapOK(h.slub)
    BY <1>1, <1>5
  <2>2. PICK k : k = i + 1
    OBVIOUS
  <2>3. k \in Nat /\ k \notin DOMAIN h.slub.caches
    BY <1>8, <2>2
  <2>4. r = kmem_cache_create(h, k, size) /\ a = AllocPages(h.pmm, 1)
    BY <1>1, <1>2, <1>4, <2>2
  <2>5. /\ Good(r.pmm, (U \ h.slub.pages) \cup r.slub.pages) /\ HeapOK(r.slub)
        /\ a.page # NULL => /\ r.slub.pages = h.slub.pages \cup {a.page} /\ r.pmm = a.pmm
                            /\ DOMAIN r.slub.caches = DOMAIN h.slub.caches \cup {k}
    BY ONLY <1>7, <2>1, <2>3, <2>4, CreateGood
  <2>6. QED
    BY <1>1, <1>6, <2>2, <2>5
<1>10. r.slub.pages = 0 .. (i + 1) - 1 /\ DOMAIN r.slub.caches = 1 .. i + 1
  BY <1>5, <1>6, <1>9
<1>11. Good(r.pmm, r.slub.pages)
  <2>1. (U \ U) \cup r.slub.pages = r.slub.pages
    OBVIOUS
  <2>2. QED
    BY <1>9, <2>1
<1>12. BuiltTo(r, i + 1)
  BY <1>6, <1>9, <1>10, <1>11 DEF BuiltTo
<1>13. QED
  BY <1>3, <1>4, <1>12

\* kmalloc_init makes all of kmalloc's caches.
LEMMA KmallocInitBuilt ==
    ASSUME KMALLOC_CACHES_COUNT < NPage
    PROVE  BuiltTo(kmalloc_init, KMALLOC_CACHES_COUNT)
<1> DEFINE StepOf(f) == [i \in 0 .. KMALLOC_CACHES_COUNT |->
                           IF i = 0 THEN NoHeap ELSE kmem_cache_create(f[i - 1], i, Shift[i - 1])]
           built == CHOOSE f : f = StepOf(f)
<1>1. kmalloc_init = built[KMALLOC_CACHES_COUNT]
  BY DEF kmalloc_init, NoHeap, NoSlub
<1>2. PICK L \in Nat : L = KMALLOC_CACHES_COUNT
  BY SlubAssumption
<1>3. built = StepOf(built)
  <2>1. PICK f : BuiltUpTo(f, L)
    BY BuiltExists
  <2>2. f = StepOf(f)
    <3>1. \A i \in 0 .. L : i # 0 => i \in 1 .. L
      OBVIOUS
    <3>2. \A i \in 0 .. L :
            f[i] = IF i = 0 THEN NoHeap ELSE kmem_cache_create(f[i - 1], i, Shift[i - 1])
      BY <2>1, <3>1 DEF BuiltUpTo
    <3>3. f = [i \in 0 .. L |-> f[i]]
      BY <2>1 DEF BuiltUpTo
    <3>4. QED
      BY <1>2, <3>2, <3>3
  <2> HIDE DEF StepOf
  <2>3. QED
    BY <2>2
<1> HIDE DEF built
<1>4. /\ built[0] = NoHeap
      /\ \A i \in 1 .. L : built[i] = kmem_cache_create(built[i - 1], i, Shift[i - 1])
  <2>1. 0 \in 0 .. L /\ \A i \in 1 .. L : i \in 0 .. L /\ i # 0
    OBVIOUS
  <2>2. QED
    BY <1>2, <1>3, <2>1
<1> HIDE DEF StepOf
<1> DEFINE T == {n \in Nat : n <= L => BuiltTo(built[n], n)}
<1>5. 0 \in T
  BY <1>4, NoHeapBuilt
<1>6. ASSUME NEW n \in Nat, n \in T PROVE n + 1 \in T
  <2>1. SUFFICES ASSUME n + 1 <= L PROVE BuiltTo(built[n + 1], n + 1)
    OBVIOUS
  <2>2. n < KMALLOC_CACHES_COUNT /\ n + 1 \in 1 .. L /\ (n + 1) - 1 = n /\ BuiltTo(built[n], n)
    BY <1>2, <1>6, <2>1
  <2>3. built[n + 1] = kmem_cache_create(built[n], n + 1, Shift[n])
    BY <1>4, <2>2
  <2>4. BuiltTo(kmem_cache_create(built[n], n + 1, Shift[n]), n + 1)
    BY <2>2, NextBuilt
  <2>5. QED
    BY <2>3, <2>4
<1> HIDE DEF T
<1>7. L \in T
  BY <1>5, <1>6, InductionOverSets
<1>8. BuiltTo(built[L], L)
  BY <1>7 DEF T
<1>9. QED
  BY <1>1, <1>2, <1>8

-----------------------------------------------------------------------------
(***************************************************************************)
(* The whole system.                                                       *)
(***************************************************************************)

\* lab8 has no such heap; lab2's is as it should be, and never has the last page.
SlubInv ==
    /\ lab \in {"lab8", "lab2"}
    /\ lab = "lab8" => slub = NoSlub
    /\ lab = "lab2" => HeapGood(Here, used) /\ NPage - 1 \notin used

\* The caches that kmalloc_init makes.
LEMMA InitSlubInv ==
    ASSUME Init
    PROVE  SlubInv
<1> USE KmallocAssumption
<1>1. lab \in {"lab8", "lab2"} /\ (lab = "lab8" => slub = NoSlub)
  BY DEF Init, NoSlub
<1>2. ASSUME lab = "lab2" PROVE HeapGood(Here, used) /\ NPage - 1 \notin used
  <2>1. PICK h : h = kmalloc_init
    OBVIOUS
  <2>2. pmm = h.pmm /\ slub = h.slub /\ used = h.slub.pages
    BY <1>2, <2>1 DEF Init
  <2>3. BuiltTo(h, KMALLOC_CACHES_COUNT)
    BY <2>1, KmallocInitBuilt
  <2>4. /\ Good(pmm, used) /\ used = 0 .. KMALLOC_CACHES_COUNT - 1 /\ HeapOK(slub)
        /\ DOMAIN slub.caches = KmallocCaches /\ slub.pages = used
    BY <2>2, <2>3 DEF BuiltTo, KmallocCaches
  <2>5. NPage - 1 \notin used
    BY <2>4, PageAllocAssumption, SlubAssumption
  <2>6. Here.pmm = pmm /\ Here.slub = slub
    BY DEF Here
  <2>7. QED
    BY <2>4, <2>5, <2>6 DEF HeapGood
<1>3. QED
  BY <1>1, <1>2 DEF SlubInv

\* What a call of the heap leaves is what lab2's part of SlubInv asks for.
LEMMA SlubStepInv ==
    ASSUME TopStaysFree, lab = "lab2", NEW r,
           HeapGood(r, (used \ slub.pages) \cup r.slub.pages), SlubStep(r)
    PROVE  SlubInv'
<1>1. /\ pmm' = r.pmm /\ slub' = r.slub /\ used' = (used \ slub.pages) \cup r.slub.pages
      /\ NPage - 1 \notin used' /\ lab' = "lab2"
  BY DEF SlubStep, TopKept
<1>2. Here'.pmm = r.pmm /\ Here'.slub = r.slub
  BY <1>1 DEF Here
<1>3. HeapGood(Here', used')
  BY <1>1, <1>2 DEF HeapGood
<1>4. QED
  BY <1>1, <1>3 DEF SlubInv

\* Other clients of the page allocator take and give back other pages.
LEMMA ClientSlubInv ==
    ASSUME TopStaysFree, SlubInv,
           \/ \E n \in 1 .. NPage : client_alloc_pages(n)
           \/ \E base \in Page : \E n \in 1 .. NPage - base : client_free_pages(base, n)
    PROVE  SlubInv'
<1> USE PageAllocAssumption
<1>1. lab' = lab /\ slub' = slub
  BY DEF client_alloc_pages, client_free_pages
<1>2. SUFFICES ASSUME lab = "lab2" PROVE SlubInv'
  BY <1>1 DEF SlubInv
<1>3. PICK m, U : m = pmm /\ U = used
  OBVIOUS
<1>4. /\ Good(m, U) /\ HeapOK(slub) /\ slub.pages \subseteq U
      /\ KmallocCaches \subseteq DOMAIN slub.caches /\ NPage - 1 \notin U
  BY <1>2, <1>3 DEF SlubInv, HeapGood, Here
<1>5. Good(pmm', used') /\ slub.pages \subseteq used' /\ NPage - 1 \notin used'
  <2>1. ASSUME NEW n \in 1 .. NPage, client_alloc_pages(n)
        PROVE  Good(pmm', used') /\ slub.pages \subseteq used' /\ NPage - 1 \notin used'
    <3>1. PICK a : /\ a = AllocPages(pmm, n) /\ a.page # NULL /\ pmm' = a.pmm
                   /\ used' = used \cup a.page .. a.page + n - 1
                   /\ TopKept
      BY <2>1 DEF client_alloc_pages, alloc_pages
    <3>2. n \in Nat \ {0} /\ a = AllocPages(m, n) /\ AllocPages(m, n).page # NULL
      BY <1>3, <3>1
    <3>3. Good(a.pmm, U \cup a.page .. a.page + n - 1)
      BY <1>4, <3>2, AllocGood
    <3>4. QED
      BY <1>3, <1>4, <3>1, <3>3 DEF TopKept
  <2>2. ASSUME NEW base \in Page, NEW n \in 1 .. NPage - base, client_free_pages(base, n)
        PROVE  Good(pmm', used') /\ slub.pages \subseteq used' /\ NPage - 1 \notin used'
    <3>1. /\ base .. base + n - 1 \subseteq U /\ pmm' = FreePages(m, base, n)
          /\ used' = U \ base .. base + n - 1 /\ (base .. base + n - 1) \cap HeapPages = {}
      BY <1>3, <2>2 DEF client_free_pages, free_pages
    <3>2. n \in Nat \ {0}
      BY DEF Page
    <3>3. Good(FreePages(m, base, n), U \ base .. base + n - 1)
      BY <1>4, <3>1, <3>2, FreeGood
    <3>4. slub.pages \subseteq used'
      BY <1>4, <3>1 DEF HeapPages
    <3>5. QED
      BY <1>4, <3>1, <3>3, <3>4
  <2>3. QED
    BY <2>1, <2>2
<1>6. Here'.pmm = pmm' /\ Here'.slub = slub
  BY <1>1 DEF Here
<1>7. HeapGood(Here', used')
  BY <1>4, <1>5, <1>6 DEF HeapGood
<1>8. QED
  BY <1>1, <1>2, <1>5, <1>7 DEF SlubInv

\* Every call keeps it.
LEMMA NextSlubInv ==
    ASSUME TopStaysFree, SlubInv, [Next]_vars
    PROVE  SlubInv'
<1> USE PageAllocAssumption, SlubAssumption, KmallocAssumption
<1>1. PICK h, U : h = Here /\ U = used
  OBVIOUS
<1>2. h.pmm = pmm /\ h.slub = slub
  BY <1>1 DEF Here
<1>3. lab = "lab2" => /\ HeapGood(h, U) /\ NPage - 1 \notin U
                      /\ HeapOK(slub) /\ KmallocCaches \subseteq DOMAIN slub.caches
  BY <1>1, <1>2 DEF SlubInv, HeapGood
<1>4. lab \in {"lab8", "lab2"} /\ (lab = "lab8" => slub = NoSlub)
  BY DEF SlubInv
<1>5. lab = "lab8" => DOMAIN slub.caches = {} /\ DOMAIN slub.objs = {}
  <2>1. DOMAIN <<>> = {}
    OBVIOUS
  <2>2. QED
    BY <1>4, <2>1 DEF NoSlub
<1>6. OwnCache \in Nat /\ OwnCache \notin KmallocCaches
  BY DEF OwnCache, KmallocCaches
<1>7. ASSUME NEW size \in Sizes, lab2_kmalloc(size) PROVE SlubInv'
  <2>1. PICK r : r = kmalloc(h, size) /\ SlubStep(r) /\ lab = "lab2"
    BY <1>1, <1>7 DEF lab2_kmalloc
  <2>2. HeapGood(r, (U \ h.slub.pages) \cup r.slub.pages)
    BY <1>3, <2>1, KmallocGood
  <2>3. QED
    BY <1>1, <1>2, <2>1, <2>2, SlubStepInv
<1>8. ASSUME NEW block \in DOMAIN slub.objs, lab2_kfree(block) PROVE SlubInv'
  <2>1. PICK r : r = slub_kfree(h, block) /\ SlubStep(r) /\ lab = "lab2"
    BY <1>1, <1>8 DEF lab2_kfree
  <2>2. block \in DOMAIN h.slub.objs
    BY <1>2
  <2>3. /\ HeapGood(kmem_cache_free(h, h.slub.objs[block], block),
                    (U \ h.slub.pages) \cup kmem_cache_free(h, h.slub.objs[block], block).slub.pages)
        /\ h.slub.slabs[obj_to_slab(block)].cache = h.slub.objs[block]
    BY <1>3, <2>1, <2>2, ObjectBackGood
  <2>4. r = kmem_cache_free(h, h.slub.objs[block], block)
    BY <2>1, <2>3 DEF slub_kfree
  <2>5. HeapGood(r, (U \ h.slub.pages) \cup r.slub.pages)
    BY <2>3, <2>4
  <2>6. QED
    BY <1>1, <1>2, <2>1, <2>5, SlubStepInv
<1>9. ASSUME NEW block \in DOMAIN slub.objs, own_cache_free(block) PROVE SlubInv'
  <2>1. PICK r : r = kmem_cache_free(h, OwnCache, block) /\ SlubStep(r)
    BY <1>1, <1>9 DEF own_cache_free
  <2>2. lab = "lab2"
    BY <1>4, <1>5
  <2>3. block \in DOMAIN h.slub.objs /\ h.slub.objs[block] = OwnCache
    BY <1>2, <1>9 DEF own_cache_free
  <2>4. HeapGood(kmem_cache_free(h, h.slub.objs[block], block),
                 (U \ h.slub.pages) \cup kmem_cache_free(h, h.slub.objs[block], block).slub.pages)
    BY <1>3, <2>2, <2>3, ObjectBackGood
  <2>5. HeapGood(r, (U \ h.slub.pages) \cup r.slub.pages)
    BY <2>1, <2>3, <2>4
  <2>6. QED
    BY <1>1, <1>2, <2>1, <2>2, <2>5, SlubStepInv
<1>10. CASE own_cache_create
  <2>1. PICK r : r = kmem_cache_create(h, OwnCache, 1) /\ SlubStep(r)
    BY <1>1, <1>10 DEF own_cache_create
  <2>2. lab = "lab2" /\ OwnCache \notin DOMAIN h.slub.caches
    BY <1>2, <1>10 DEF own_cache_create
  <2>3. PICK k, size : k = OwnCache /\ size = 1
    OBVIOUS
  <2>4. size \in Nat \ {0} /\ size < PGSIZE
    <3>1. KMALLOC_CACHES_COUNT - 1 \in Nat
      OBVIOUS
    <3>2. Shift[KMALLOC_CACHES_COUNT - 1] \in Nat \ {0}
      BY <3>1, ShiftFacts
    <3>3. QED
      BY <2>3, <3>2
  <2>5. /\ Good(h.pmm, U) /\ HeapOK(h.slub) /\ h.slub.pages \subseteq U
        /\ KmallocCaches \subseteq DOMAIN h.slub.caches
    BY <1>3, <2>2 DEF HeapGood
  <2>6. PICK a : a = AllocPages(h.pmm, 1)
    OBVIOUS
  <2>7. k \in Nat /\ k \notin DOMAIN h.slub.caches /\ r = kmem_cache_create(h, k, size)
    BY <1>6, <2>1, <2>2, <2>3
  <2>8. /\ Good(r.pmm, (U \ h.slub.pages) \cup r.slub.pages) /\ HeapOK(r.slub)
        /\ a.page = NULL => r = h
        /\ a.page # NULL => /\ r.slub.pages = h.slub.pages \cup {a.page} /\ r.pmm = a.pmm
                            /\ DOMAIN r.slub.caches = DOMAIN h.slub.caches \cup {k}
    BY ONLY <2>4, <2>5, <2>6, <2>7, CreateGood
  <2>9. KmallocCaches \subseteq DOMAIN r.slub.caches
    BY <2>5, <2>8
  <2>10. HeapGood(r, (U \ h.slub.pages) \cup r.slub.pages)
    BY <2>8, <2>9 DEF HeapGood
  <2>11. QED
    BY <1>1, <1>2, <2>1, <2>2, <2>10, SlubStepInv
<1>11. CASE own_cache_alloc
  <2>1. PICK r : r = kmem_cache_alloc(h, OwnCache) /\ SlubStep(r)
    BY <1>1, <1>11 DEF own_cache_alloc
  <2>2. lab = "lab2" /\ OwnCache \in DOMAIN h.slub.caches
    BY <1>2, <1>4, <1>5, <1>11 DEF own_cache_alloc
  <2>3. HeapGood(r, (U \ h.slub.pages) \cup r.slub.pages)
    BY <1>3, <2>1, <2>2, CacheAllocGood
  <2>4. QED
    BY <1>1, <1>2, <2>1, <2>2, <2>3, SlubStepInv
<1>12. CASE own_cache_destroy
  <2>1. PICK r : r = kmem_cache_destroy(h, OwnCache) /\ SlubStep(r)
    BY <1>1, <1>12 DEF own_cache_destroy
  <2>2. /\ lab = "lab2" /\ OwnCache \in DOMAIN h.slub.caches
        /\ h.slub.caches[OwnCache].active_objs = 0
    BY <1>2, <1>4, <1>5, <1>12 DEF own_cache_destroy
  <2>3. HeapGood(r, (U \ h.slub.pages) \cup r.slub.pages)
    BY <1>3, <1>6, <2>1, <2>2, DestroyGood
  <2>4. QED
    BY <1>1, <1>2, <2>1, <2>2, <2>3, SlubStepInv
<1>13. ASSUME lab = "lab8", lab' = lab, slub' = slub PROVE SlubInv'
  BY <1>4, <1>13 DEF SlubInv
<1>14. ASSUME NEW size \in Sizes, lab8_kmalloc(size) PROVE SlubInv'
  BY <1>13, <1>14 DEF lab8_kmalloc, SlobStep
<1>15. ASSUME NEW block \in DOMAIN slob.objs, lab8_kfree(block) PROVE SlubInv'
  BY <1>13, <1>15 DEF lab8_kfree, SlobStep
<1>16. CASE UNCHANGED vars
  <2>1. lab' = lab /\ pmm' = pmm /\ used' = used /\ slub' = slub
    BY <1>16 DEF vars
  <2>2. QED
    BY <2>1 DEF SlubInv, HeapGood, Here
<1>17. QED
  BY <1>7, <1>8, <1>9, <1>10, <1>11, <1>12, <1>14, <1>15, <1>16, ClientSlubInv DEF Next

\* What SlubInv says of the heap, in the words of SlabsExact.
LEMMA SlubInvExact ==
    ASSUME SlubInv
    PROVE  SlabsExact
<1>1. HeapOK(slub)
  <2>1. CASE lab = "lab2"
    BY <2>1 DEF SlubInv, HeapGood, Here
  <2>2. CASE lab = "lab8"
    <3>1. slub = NoHeap.slub
      BY <2>2 DEF SlubInv, NoHeap
    <3>2. QED
      BY <3>1, NoHeapBuilt DEF BuiltTo
  <2>3. QED
    BY <2>1, <2>2 DEF SlubInv
<1>2. QED
  BY <1>1, HeapOKExact

\* Whatever is allocated from the SLUB heap and freed, created and destroyed, and
\* whoever uses the page allocator beside it: every object of a slab is either held
\* by one client of the slab's cache or on the slab's freelist once, inuse and
\* active_objs count the former, each slab is on the one list its count says, and the
\* heap's pages are its slabs' and its caches'.  For any number of pages, caches and
\* objects, as long as the last page is never given away.
THEOREM SlabsAlwaysExact ==
    ASSUME TopStaysFree
    PROVE  Spec => []SlabsExact
<1>1. Init => SlubInv
  BY InitSlubInv
<1>2. SlubInv /\ [Next]_vars => SlubInv'
  BY NextSlubInv
<1>3. SlubInv => SlabsExact
  BY SlubInvExact
<1>4. QED
  BY <1>1, <1>2, <1>3, PTL DEF Spec

-----------------------------------------------------------------------------
(***************************************************************************)
(* The SLOB heap of lab8.  Its ring of free blocks first: the walk along   *)
(* it, and a block added to it or taken from it.                           *)
(***************************************************************************)

\* The address after the last page.
HeapTop == PageAddr(NPage)

\* f leads round the blocks F in address order, from the last back to arena.
FreeRing(F, f) ==
    /\ F \subseteq 0 .. HeapTop /\ arena \in F /\ DOMAIN f = F
    /\ \A c \in F : f[c] \in F
    /\ \A c, x \in F : c < x => c < f[c] /\ f[c] <= x
    /\ \A c \in F : (\A x \in F : x <= c) => f[c] = arena

\* HeapTop is a number.
LEMMA HeapTopType == HeapTop \in Nat
<1>1. NPage + 1 \in Nat /\ PGSIZE \in Nat
  BY PageAllocAssumption
<1>2. QED
  BY <1>1 DEF HeapTop, PageAddr

\* A set of addresses has a greatest one.
LEMMA GreatestAddress ==
    ASSUME NEW B \in Nat, NEW C, C \subseteq 0 .. B, C # {}
    PROVE  \E m \in C : \A c \in C : c <= m
<1>1. PICK D : D = {k \in Nat : \E c \in C : c + k = B}
  OBVIOUS
<1>2. D # {} /\ D \subseteq Nat
  <2>1. PICK c \in C : TRUE
    OBVIOUS
  <2>2. B - c \in Nat /\ c + (B - c) = B
    OBVIOUS
  <2>3. QED
    BY <1>1, <2>2
<1>3. PICK k \in D : \A j \in D : k <= j
  BY <1>2, LeastNatural
<1>4. PICK m \in C : m + k = B
  BY <1>1, <1>3
<1>5. ASSUME NEW c \in C PROVE c <= m
  <2>1. B - c \in Nat /\ c + (B - c) = B
    OBVIOUS
  <2>2. k <= B - c
    BY <1>1, <1>3, <2>1
  <2>3. QED
    BY <1>1, <1>4, <2>2
<1>6. QED
  BY <1>5

\* The free block below an address.
LEMMA BlockBelow ==
    ASSUME NEW F, NEW f, FreeRing(F, f), NEW b \in Nat, b > 0
    PROVE  \E c \in F : c < b /\ \A x \in F : x < b => x <= c
<1>1. PICK C : C = {x \in F : x < b}
  OBVIOUS
<1>2. C \subseteq 0 .. HeapTop /\ C # {}
  BY <1>1 DEF FreeRing, arena
<1>3. PICK c \in C : \A x \in C : x <= c
  BY <1>2, HeapTopType, GreatestAddress
<1>4. QED
  BY <1>1, <1>3

\* What holds of one free block and, with each, of the next, holds of all.
LEMMA AllAround ==
    ASSUME NEW F, NEW f, FreeRing(F, f), NEW C, C \subseteq F, C # {},
           \A c \in C : f[c] \in C
    PROVE  C = F
<1>1. F \subseteq Nat /\ F \subseteq 0 .. HeapTop
  BY DEF FreeRing
<1>2. PICK m \in C : \A c \in C : c <= m
  BY <1>1, HeapTopType, GreatestAddress
<1>3. arena \in C
  <2>1. f[m] \in C /\ f[m] <= m
    BY <1>2
  <2>2. ASSUME NEW x \in F PROVE x <= m
    <3>1. m \in F /\ m \in Nat /\ x \in Nat /\ f[m] \in Nat
      BY <1>1, <2>1
    <3>2. m < x => m < f[m]
      BY <3>1 DEF FreeRing
    <3>3. QED
      BY <2>1, <3>1, <3>2
  <2>3. QED
    BY <2>1, <2>2 DEF FreeRing
<1>4. SUFFICES ASSUME F \ C # {} PROVE FALSE
  OBVIOUS
<1>5. PICK x \in F \ C : \A y \in F \ C : x <= y
  <2>1. F \ C \subseteq Nat
    BY <1>1
  <2>2. QED
    BY <1>4, <2>1, LeastNatural
<1>6. x \in Nat /\ x > 0
  BY <1>1, <1>3 DEF arena
<1>7. PICK c \in F : c < x /\ \A y \in F : y < x => y <= c
  BY <1>6, BlockBelow
<1>8. c \in C
  BY <1>1, <1>5, <1>7
<1>9. f[c] = x
  <2>1. c < f[c] /\ f[c] <= x /\ f[c] \in F
    BY <1>7 DEF FreeRing
  <2>2. c \in Nat /\ x \in Nat /\ f[c] \in Nat
    BY <1>1, <1>6, <2>1
  <2>3. f[c] < x => f[c] <= c
    BY <1>7, <2>1
  <2>4. QED
    BY <2>1, <2>2, <2>3
<1>10. QED
  BY <1>8, <1>9

\* No two free blocks have the same next block, and every one is next to some block.
LEMMA NextIsOne ==
    ASSUME NEW F, NEW f, FreeRing(F, f)
    PROVE  /\ \A a, b \in F : f[a] = f[b] => a = b
           /\ \A x \in F : \E a \in F : f[a] = x
           /\ \A c \in F : f[c] # arena => c < f[c] /\ \A x \in F : c < x => f[c] <= x
           /\ \A c \in F : f[c] = c => c = arena
<1>1. F \subseteq Nat
  BY DEF FreeRing
<1>2. ASSUME NEW a \in F, NEW b \in F, f[a] = f[b], a < b PROVE FALSE
  <2>1. a < f[a] /\ f[a] <= b /\ f[a] \in F
    BY <1>2 DEF FreeRing
  <2>2. f[b] <= b
    BY <1>2, <2>1
  <2>3. ASSUME NEW x \in F PROVE x <= b
    <3>1. b \in Nat /\ x \in Nat /\ f[b] \in Nat
      BY <1>1, <1>2, <2>1
    <3>2. b < x => b < f[b]
      BY <3>1 DEF FreeRing
    <3>3. QED
      BY <2>2, <3>1, <3>2
  <2>4. f[b] = 0
    BY <2>3 DEF FreeRing, arena
  <2>5. QED
    BY <1>1, <1>2, <2>1, <2>4
<1>3. \A a, b \in F : f[a] = f[b] => a = b
  <2>1. ASSUME NEW a \in F, NEW b \in F, f[a] = f[b] PROVE a = b
    <3>1. ~(a < b) /\ ~(b < a)
      BY <1>2, <2>1
    <3>2. QED
      BY <1>1, <3>1
  <2>2. QED
    BY <2>1
<1>4. ASSUME NEW c \in F, f[c] # arena PROVE c < f[c] /\ \A x \in F : c < x => f[c] <= x
  <2>1. PICK x \in F : ~(x <= c)
    BY <1>4 DEF FreeRing
  <2>2. QED
    BY <1>1, <2>1 DEF FreeRing
<1>5. ASSUME NEW c \in F, f[c] = c PROVE c = arena
  BY <1>1, <1>4, <1>5
<1>6. ASSUME NEW x \in F PROVE \E a \in F : f[a] = x
  <2>1. PICK C : C = {f[a] : a \in F}
    OBVIOUS
  <2>2. C \subseteq F /\ C # {} /\ \A c \in C : f[c] \in C
    BY <2>1 DEF FreeRing
  <2>3. C = F
    BY <2>2, AllAround
  <2>4. QED
    BY <2>1, <2>3
<1>7. QED
  BY <1>3, <1>4, <1>5, <1>6


\* The list w visits the free blocks F along f, each once, and ends at cur.
RoundFrom(w, F, f, cur) ==
    /\ w \in Seq(F) /\ Len(w) = Cardinality(F) /\ Len(w) \in Nat \ {0}
    /\ w[1] = f[cur] /\ w[Len(w)] = cur
    /\ \A i \in 1 .. Len(w) - 1 : w[i + 1] = f[w[i]]
    /\ \A c \in F : \E i \in 1 .. Len(w) : w[i] = c
    /\ \A i, j \in 1 .. Len(w) : w[i] = w[j] => i = j

\* The loops of slob_alloc and slob_free go once round the ring.
LEMMA RingFromFacts ==
    ASSUME NEW h, NEW F, NEW f, F = DOMAIN h.next, f = h.next, FreeRing(F, f), NEW cur \in F
    PROVE  RoundFrom(RingFrom(h, cur), F, f, cur)
<1> DEFINE StepOf(g) == [i \in Nat |-> IF i = 0 THEN cur ELSE h.next[g[i - 1]]]
           at == CHOOSE g : g = StepOf(g)
           n == Cardinality(DOMAIN h.next)
           Ends(i) == (at[i] = cur \/ i = n) /\ \A j \in 1 .. i - 1 : at[j] # cur
           len == CHOOSE i \in 1 .. n : Ends(i)
<1>1. RingFrom(h, cur) = [i \in 1 .. len |-> at[i]]
  BY DEF RingFrom
<1>2. /\ F \subseteq Nat /\ arena \in F /\ \A c \in F : f[c] \in F
      /\ \A a, b \in F : f[a] = f[b] => a = b
  <2>1. \A a, b \in F : f[a] = f[b] => a = b
    BY NextIsOne
  <2>2. QED
    BY <2>1 DEF FreeRing
<1>3. at = StepOf(at)
  <2>1. PICK Stop, v, d, g : /\ Stop = {0} /\ v = [s \in Nat |-> cur]
                             /\ d = [s \in Nat |-> IF s = 0 THEN 0 ELSE s - 1]
                             /\ g = [s \in Nat |-> IF s \in F THEN f[s] ELSE 0]
    OBVIOUS
  <2>2. cur \in Nat /\ \A s \in F : f[s] \in Nat
    BY <1>2
  <2>3. /\ Stop \in SUBSET Nat /\ v \in [Nat -> Nat] /\ d \in [Nat -> Nat] /\ g \in [Nat -> Nat]
        /\ \A s \in Nat \ Stop : d[s] < s
    BY <2>1, <2>2
  <2>4. PICK a \in [Nat -> Nat] : Recursive(a, Stop, v, d, g)
    BY <2>3, RecursionExists
  <2>5. a[0] = cur /\ \A i \in Nat : i # 0 => a[i] = g[a[i - 1]]
    <3>1. \A s \in Nat : a[s] = IF s \in Stop THEN v[s] ELSE g[a[d[s]]]
      BY <2>4 DEF Recursive
    <3>2. QED
      BY <2>1, <3>1
  <2>6. PICK T : T = {i \in Nat : a[i] \in F}
    OBVIOUS
  <2>7. \A i \in Nat : i \in T => i + 1 \in T
    <3>1. ASSUME NEW i \in Nat, a[i] \in F PROVE a[i + 1] \in F
      <4>1. i + 1 \in Nat /\ i + 1 # 0 /\ (i + 1) - 1 = i
        OBVIOUS
      <4>2. a[i + 1] = g[a[i]] /\ a[i] \in Nat
        BY <1>2, <2>5, <3>1, <4>1
      <4>3. QED
        BY <1>2, <2>1, <3>1, <4>2
    <3>2. QED
      BY <2>6, <3>1
  <2>8. \A i \in Nat : a[i] \in F
    <3>1. 0 \in T
      BY <2>5, <2>6
    <3>2. Nat \subseteq T
      BY <2>7, <3>1, InductionOverSets
    <3>3. QED
      BY <2>6, <3>2
  <2>9. \A i \in Nat : a[i] = IF i = 0 THEN cur ELSE h.next[a[i - 1]]
    <3>1. ASSUME NEW i \in Nat, i # 0 PROVE a[i] = f[a[i - 1]]
      <4>1. i - 1 \in Nat
        BY <3>1
      <4>2. a[i] = g[a[i - 1]] /\ a[i - 1] \in F /\ a[i - 1] \in Nat
        BY <1>2, <2>5, <2>8, <3>1, <4>1
      <4>3. QED
        BY <2>1, <4>2
    <3>2. QED
      BY <2>5, <3>1
  <2>10. a = StepOf(a)
    BY <2>9
  <2> HIDE DEF StepOf
  <2>11. QED
    BY <2>10
<1> HIDE DEF at
<1>4. at[0] = cur /\ \A i \in Nat : at[i + 1] = f[at[i]]
  <2>1. \A i \in Nat : i + 1 \in Nat /\ i + 1 # 0 /\ (i + 1) - 1 = i
    OBVIOUS
  <2>2. \A i \in Nat : at[i] = IF i = 0 THEN cur ELSE h.next[at[i - 1]]
    BY <1>3
  <2> HIDE DEF StepOf
  <2>3. QED
    BY <2>1, <2>2
<1> HIDE DEF StepOf
<1>5. \A i \in Nat : at[i] \in F
  <2>1. PICK T : T = {i \in Nat : at[i] \in F}
    OBVIOUS
  <2>2. 0 \in T /\ \A i \in Nat : i \in T => i + 1 \in T
    BY <1>2, <1>4, <2>1
  <2>3. Nat \subseteq T
    BY <2>2, InductionOverSets
  <2>4. QED
    BY <2>1, <2>3
\* The first time the walk is back at cur.
<1>6. PICK L \in Nat : L # 0 /\ at[L] = cur /\ \A j \in 1 .. L - 1 : at[j] # cur
  <2>1. PICK R : R = {at[i] : i \in Nat}
    OBVIOUS
  <2>2. R \subseteq F /\ R # {} /\ \A c \in R : f[c] \in R
    <3>1. \A i \in Nat : i + 1 \in Nat /\ at[i + 1] = f[at[i]]
      BY <1>4
    <3>2. QED
      BY <1>5, <2>1, <3>1
  <2>3. R = F
    BY <2>2, AllAround
  <2>4. PICK c \in F : f[c] = cur
    BY NextIsOne
  <2>5. PICK i \in Nat : at[i] = c
    BY <2>1, <2>3
  <2>6. PICK D : D = {k \in Nat : k # 0 /\ at[k] = cur}
    OBVIOUS
  <2>7. i + 1 \in D
    BY <1>4, <2>4, <2>5, <2>6
  <2>8. PICK k \in D : \A j \in D : k <= j
    <3>1. D \subseteq Nat /\ D # {}
      BY <2>6, <2>7
    <3>2. QED
      BY <3>1, LeastNatural
  <2>9. k \in Nat /\ k # 0 /\ at[k] = cur
    BY <2>6, <2>8
  <2>10. ASSUME NEW j \in 1 .. k - 1 PROVE at[j] # cur
    <3>1. j \in Nat /\ j # 0 /\ ~(k <= j)
      BY <2>9
    <3>2. QED
      BY <2>6, <2>8, <3>1
  <2>11. QED
    BY <2>9, <2>10
<1>7. \A c \in F : \E i \in 1 .. L : at[i] = c
  <2>1. PICK C : C = {at[i] : i \in 1 .. L}
    OBVIOUS
  <2>2. C \subseteq F /\ C # {}
    <3>1. 1 \in 1 .. L /\ \A i \in 1 .. L : i \in Nat
      BY <1>6
    <3>2. QED
      BY <1>5, <2>1, <3>1
  <2>3. ASSUME NEW i \in 1 .. L PROVE f[at[i]] \in C
    <3>1. i \in Nat /\ at[i + 1] = f[at[i]]
      BY <1>4
    <3>2. CASE i = L
      <4>1. at[0 + 1] = f[at[0]] /\ 0 + 1 = 1 /\ 1 \in 1 .. L
        BY <1>4, <1>6
      <4>2. f[at[i]] = at[1]
        BY <1>4, <1>6, <3>2, <4>1
      <4>3. QED
        BY <2>1, <4>1, <4>2
    <3>3. CASE i # L
      <4>1. i + 1 \in 1 .. L
        BY <3>3
      <4>2. QED
        BY <2>1, <3>1, <4>1
    <3>4. QED
      BY <3>2, <3>3
  <2>4. C = F
    <3>1. \A c \in C : f[c] \in C
      BY <2>1, <2>3
    <3>2. QED
      BY <2>2, <3>1, AllAround
  <2>5. QED
    BY <2>1, <2>4
<1>8. \A i \in Nat : \A d \in 1 .. L - 1 : at[i] # at[i + d]
  <2>1. PICK T : T = {i \in Nat : \A d \in 1 .. L - 1 : at[i] # at[i + d]}
    OBVIOUS
  <2>2. 0 \in T
    <3>1. \A d \in 1 .. L - 1 : 0 + d = d /\ at[d] # cur
      BY <1>6
    <3>2. QED
      BY <1>4, <2>1, <3>1
  <2>3. ASSUME NEW i \in Nat, i \in T PROVE i + 1 \in T
    <3>1. ASSUME NEW d \in 1 .. L - 1 PROVE at[i + 1] # at[(i + 1) + d]
      <4>1. i + d \in Nat /\ (i + 1) + d = (i + d) + 1
        OBVIOUS
      <4>2. at[i + 1] = f[at[i]] /\ at[(i + d) + 1] = f[at[i + d]]
        BY <1>4, <4>1
      <4>3. at[i] # at[i + d] /\ at[i] \in F /\ at[i + d] \in F
        BY <1>5, <2>1, <2>3, <3>1, <4>1
      <4>4. QED
        BY <1>2, <4>1, <4>2, <4>3
    <3>2. QED
      BY <2>1, <3>1
  <2>4. Nat \subseteq T
    BY <2>2, <2>3, InductionOverSets
  <2>5. QED
    BY <2>1, <2>4
<1>9. \A i, j \in 1 .. L : at[i] = at[j] => i = j
  <2>1. ASSUME NEW i \in 1 .. L, NEW j \in 1 .. L, i < j PROVE at[i] # at[j]
    <3>1. j - i \in 1 .. L - 1 /\ i + (j - i) = j /\ i \in Nat
      BY <2>1
    <3>2. QED
      BY <1>8, <3>1
  <2>2. QED
    <3>1. \A i, j \in 1 .. L : i = j \/ i < j \/ j < i
      OBVIOUS
    <3>2. QED
      BY <2>1, <3>1
<1> DEFINE w == [i \in 1 .. L |-> at[i]]
<1>10. w \in Seq(F) /\ Len(w) = L /\ \A i \in 1 .. L : w[i] = at[i]
  <2>1. \A i \in 1 .. L : at[i] \in F
    BY <1>5
  <2>2. w \in [1 .. L -> F]
    BY <2>1
  <2>3. w \in Seq(F)
    BY <2>2, SeqDef
  <2>4. DOMAIN w = 1 .. L
    OBVIOUS
  <2> HIDE DEF w
  <2>5. Len(w) = L
    BY <2>3, <2>4, LenProperties, <1>6
  <2>6. QED
    BY <2>3, <2>5 DEF w
<1>11. Cardinality(F) = L
  <2>1. w \in Bijection(1 .. L, F)
    <3>1. w \in [1 .. L -> F]
      BY <1>5
    <3>2. \A c \in F : \E i \in 1 .. L : w[i] = c
      BY <1>7
    <3>3. \A i, j \in 1 .. L : w[i] = w[j] => i = j
      BY <1>9
    <3> HIDE DEF w
    <3>4. QED
      BY <3>1, <3>2, <3>3 DEF Bijection, Injection, Surjection, IsInjective
  <2>2. QED
    BY <2>1, FS_CountingElements DEF ExistsBijection
<1>12. len = L
  <2>1. n = L /\ L \in 1 .. n
    BY <1>6, <1>11
  <2>2. Ends(L)
    BY <1>6
  <2>3. ASSUME NEW i \in 1 .. n, Ends(i) PROVE i = L
    <3>1. CASE at[i] = cur
      <4>1. ~(i \in 1 .. L - 1)
        BY <1>6, <3>1
      <4>2. QED
        BY <2>1, <4>1
    <3>2. CASE i = n
      BY <2>1, <3>2
    <3>3. QED
      BY <2>3, <3>1, <3>2
  <2> HIDE DEF Ends, n
  <2>4. Ends(len) /\ len \in 1 .. n
    BY <2>1, <2>2
  <2>5. QED
    BY <2>3, <2>4
<1>13. RingFrom(h, cur) = w
  BY <1>1, <1>12
<1> HIDE DEF w
<1>14. /\ w[1] = f[cur] /\ w[L] = cur
       /\ \A i \in 1 .. L - 1 : w[i + 1] = f[w[i]]
  <2>1. 1 \in 1 .. L /\ L \in 1 .. L /\ at[0 + 1] = f[at[0]] /\ 0 + 1 = 1
    BY <1>4, <1>6
  <2>2. \A i \in 1 .. L - 1 : i \in 1 .. L /\ i + 1 \in 1 .. L /\ at[i + 1] = f[at[i]]
    BY <1>4
  <2>3. QED
    BY <1>4, <1>6, <1>10, <2>1, <2>2
<1>15. \A c \in F : \E i \in 1 .. L : w[i] = c
  <2>1. ASSUME NEW c \in F PROVE \E i \in 1 .. L : w[i] = c
    <3>1. PICK i \in 1 .. L : at[i] = c
      BY <1>7
    <3>2. QED
      BY <1>10, <3>1
  <2>2. QED
    BY <2>1
<1>16. \A i, j \in 1 .. L : w[i] = w[j] => i = j
  BY <1>9, <1>10
<1>17. RoundFrom(w, F, f, cur)
  BY <1>6, <1>10, <1>11, <1>14, <1>15, <1>16 DEF RoundFrom
<1>18. QED
  BY <1>13, <1>17

\* A block that is linked after the one below it makes a ring with the others.
LEMMA RingWith ==
    ASSUME NEW F, NEW f, FreeRing(F, f), NEW b \in 0 .. HeapTop, b \notin F,
           NEW cur \in F, cur < b, \A x \in F : x < b => x <= cur,
           NEW g, DOMAIN g = F \cup {b}, g[cur] = b, g[b] = f[cur],
           \A c \in F \ {cur} : g[c] = f[c]
    PROVE  FreeRing(F \cup {b}, g)
<1> USE HeapTopType
<1>1. F \subseteq 0 .. HeapTop /\ F \subseteq Nat /\ b \in Nat /\ arena \in F
  BY DEF FreeRing
<1>2. PICK R : R = F \cup {b}
  OBVIOUS
<1>3. \A c \in R : g[c] \in R
  BY <1>2 DEF FreeRing
<1>4. ASSUME NEW c \in F, NEW x \in F, c < x PROVE c < f[c] /\ f[c] <= x /\ f[c] \in Nat
  BY <1>1, <1>4 DEF FreeRing
<1>5. ASSUME NEW c \in R, NEW x \in R, c < x PROVE c < g[c] /\ g[c] <= x
  <2>1. c \in Nat /\ x \in Nat
    BY <1>1, <1>2
  <2>2. CASE c = cur
    <3>1. ~(x < b)
      <4>1. x < b => x \in F
        BY <1>1, <1>2
      <4>2. QED
        BY <1>1, <1>5, <2>1, <2>2, <4>1
    <3>2. QED
      BY <1>1, <2>1, <2>2, <3>1
  <2>3. CASE c = b
    <3>1. x \in F /\ cur < x
      BY <1>1, <1>2, <1>5, <2>1, <2>3
    <3>2. cur < f[cur] /\ f[cur] <= x /\ f[cur] \in F
      BY <1>4, <3>1 DEF FreeRing
    <3>3. f[cur] \in Nat /\ (f[cur] < b => f[cur] <= cur) /\ f[cur] # b
      BY <1>1, <3>2
    <3>4. QED
      BY <1>1, <2>3, <3>2, <3>3
  <2>4. CASE c # cur /\ c # b
    <3>1. c \in F /\ g[c] = f[c]
      BY <1>2, <2>4
    <3>2. CASE x \in F
      BY <1>4, <1>5, <3>1, <3>2
    <3>3. CASE x = b
      <4>1. c < cur /\ cur \in Nat
        BY <1>1, <1>5, <2>1, <2>4, <3>1, <3>3
      <4>2. c < f[c] /\ f[c] <= cur /\ f[c] \in Nat
        BY <1>4, <3>1, <4>1
      <4>3. QED
        BY <1>1, <2>1, <3>1, <3>3, <4>1, <4>2
    <3>4. QED
      BY <1>2, <3>2, <3>3
  <2>5. QED
    BY <2>2, <2>3, <2>4
<1>6. ASSUME NEW c \in R, \A x \in R : x <= c PROVE g[c] = arena
  <2>1. c # cur
    <3>1. b <= c
      BY <1>2, <1>6
    <3>2. QED
      BY <1>1, <3>1
  <2>2. CASE c = b
    <3>1. \A x \in F : x <= cur
      <4>1. ASSUME NEW x \in F PROVE x <= cur
        <5>1. x <= b /\ x # b /\ x \in Nat
          BY <1>1, <1>2, <1>6, <2>2
        <5>2. QED
          BY <1>1, <5>1
      <4>2. QED
        BY <4>1
    <3>2. QED
      BY <2>2, <3>1 DEF FreeRing
  <2>3. CASE c # b
    <3>1. c \in F /\ g[c] = f[c] /\ \A x \in F : x <= c
      BY <1>2, <1>6, <2>1, <2>3
    <3>2. QED
      BY <3>1 DEF FreeRing
  <2>4. QED
    BY <2>2, <2>3
<1>7. FreeRing(R, g)
  BY <1>1, <1>2, <1>3, <1>5, <1>6 DEF FreeRing
<1>8. QED
  BY <1>2, <1>7

\* A block that is unlinked behind prev leaves a ring of the others.
LEMMA RingWithout ==
    ASSUME NEW F, NEW f, FreeRing(F, f), NEW prev \in F, NEW b, b = f[prev], b # arena,
           NEW g, DOMAIN g = F \ {b}, g[prev] = f[b],
           \A c \in F \ {b, prev} : g[c] = f[c]
    PROVE  FreeRing(F \ {b}, g) /\ prev < b /\ b \in F /\ \A x \in F : prev < x => b <= x
<1> USE HeapTopType
<1>1. F \subseteq 0 .. HeapTop /\ F \subseteq Nat /\ arena \in F /\ b \in F
  BY DEF FreeRing
<1>2. prev < b /\ \A x \in F : prev < x => b <= x
  BY NextIsOne
<1>3. PICK R : R = F \ {b}
  OBVIOUS
<1>4. f[b] # b
  BY <1>1, NextIsOne
<1>5. \A c \in R : g[c] \in R
  <2>1. ASSUME NEW c \in R PROVE g[c] \in R
    <3>1. CASE c = prev
      BY <1>1, <1>3, <1>4, <3>1 DEF FreeRing
    <3>2. CASE c # prev
      <4>1. g[c] = f[c] /\ c \in F /\ f[c] \in F
        BY <1>3, <3>2 DEF FreeRing
      <4>2. f[c] # b
        BY <3>2, <4>1, NextIsOne
      <4>3. QED
        BY <1>3, <4>1, <4>2
    <3>3. QED
      BY <3>1, <3>2
  <2>2. QED
    BY <2>1
<1>6. ASSUME NEW c \in F, NEW x \in F, c < x PROVE c < f[c] /\ f[c] <= x /\ f[c] \in Nat
  BY <1>1, <1>6 DEF FreeRing
<1>7. ASSUME NEW c \in R, NEW x \in R, c < x PROVE c < g[c] /\ g[c] <= x
  <2>1. c \in F /\ x \in F /\ x # b /\ c # b
    BY <1>3
  <2>2. CASE c = prev
    <3>1. b < x /\ prev \in Nat /\ b \in Nat /\ x \in Nat
      BY <1>1, <1>2, <1>7, <2>1, <2>2
    <3>2. b < f[b] /\ f[b] <= x /\ f[b] \in Nat
      BY <1>1, <1>6, <2>1, <3>1
    <3>3. QED
      BY <1>2, <2>2, <3>1, <3>2
  <2>3. CASE c # prev
    BY <1>6, <1>7, <2>1, <2>3
  <2>4. QED
    BY <2>2, <2>3
<1>8. ASSUME NEW c \in R, \A x \in R : x <= c PROVE g[c] = arena
  <2>1. c \in F /\ c # b /\ prev \in R /\ prev <= c
    BY <1>1, <1>2, <1>3, <1>8
  <2>2. CASE c = prev
    <3>1. ASSUME NEW x \in F PROVE x <= b
      <4>1. CASE x = b
        BY <1>1, <4>1
      <4>2. CASE x # b
        <5>1. x <= prev /\ x \in Nat /\ prev \in Nat /\ b \in Nat
          BY <1>1, <1>3, <1>8, <2>2, <4>2
        <5>2. QED
          BY <1>2, <5>1
      <4>3. QED
        BY <4>1, <4>2
    <3>2. f[b] = arena
      BY <1>1, <3>1 DEF FreeRing
    <3>3. QED
      BY <2>2, <3>2
  <2>3. CASE c # prev
    <3>1. b <= c
      BY <1>1, <1>2, <2>1, <2>3
    <3>2. \A x \in F : x <= c
      BY <1>3, <1>8, <3>1
    <3>3. QED
      BY <2>1, <2>3, <3>2 DEF FreeRing
  <2>4. QED
    BY <2>2, <2>3
<1>9. FreeRing(R, g)
  <2>1. R \subseteq 0 .. HeapTop /\ arena \in R /\ DOMAIN g = R
    BY <1>1, <1>3
  <2>2. QED
    BY <1>5, <1>7, <1>8, <2>1 DEF FreeRing
<1>10. QED
  BY <1>1, <1>2, <1>3, <1>9

\* Two tables with the same entries are the same ring.
LEMMA RingSame ==
    ASSUME NEW F, NEW f, FreeRing(F, f), NEW g, DOMAIN g = F, \A c \in F : g[c] = f[c]
    PROVE  FreeRing(F, g)
BY DEF FreeRing

-----------------------------------------------------------------------------
(***************************************************************************)
(* The pages of the heap are divided into blocks.  T has the length of     *)
(* each of them, free or held, at its address.                             *)
(***************************************************************************)

\* The blocks do not overlap, and lie within memory, which is above arena.
Tiled(T) ==
    /\ DOMAIN T \subseteq Nat
    /\ \A s \in DOMAIN T : s >= PGSIZE /\ T[s] \in Nat \ {0} /\ s + T[s] <= HeapTop
    /\ \A s, t \in DOMAIN T : s < t => s + T[s] <= t

\* What the blocks cover.
CoverOf(T) == {a \in Nat : \E s \in DOMAIN T : s <= a /\ a < s + T[s]}

\* Block q, which follows block p, is made part of it.
Merged(T, p, q) == [s \in DOMAIN T \ {q} |-> IF s = p THEN T[p] + T[q] ELSE T[s]]

\* Block p is cut after n units.
Cut(T, p, n) ==
    [s \in DOMAIN T \cup {p + n} |->
       IF s = p THEN n ELSE IF s = p + n THEN T[p] - n ELSE T[s]]

\* Merging two blocks changes nothing else.
LEMMA MergedTiled ==
    ASSUME NEW T, Tiled(T), NEW p \in DOMAIN T, NEW q \in DOMAIN T, p + T[p] = q
    PROVE  /\ Tiled(Merged(T, p, q)) /\ CoverOf(Merged(T, p, q)) = CoverOf(T)
           /\ DOMAIN Merged(T, p, q) = DOMAIN T \ {q} /\ p \in DOMAIN T \ {q}
           /\ Merged(T, p, q)[p] = T[p] + T[q]
           /\ \A s \in DOMAIN T \ {p, q} : Merged(T, p, q)[s] = T[s]
<1> USE HeapTopType
<1>1. PICK M : M = Merged(T, p, q)
  OBVIOUS
<1>2. /\ DOMAIN T \subseteq Nat /\ \A s \in DOMAIN T : T[s] \in Nat /\ T[s] > 0
      /\ \A s, t \in DOMAIN T : s < t => s + T[s] <= t
  BY DEF Tiled
<1>3. p \in Nat /\ q \in Nat /\ T[p] \in Nat /\ T[q] \in Nat /\ T[p] > 0 /\ T[q] > 0 /\ p < q
  <2>1. p \in Nat /\ q \in Nat /\ T[p] \in Nat /\ T[q] \in Nat /\ T[p] > 0 /\ T[q] > 0
    BY <1>2
  <2>2. QED
    BY <2>1
<1>4. /\ DOMAIN M = DOMAIN T \ {q} /\ p \in DOMAIN M /\ M[p] = T[p] + T[q]
      /\ \A s \in DOMAIN M : s # p => M[s] = T[s]
  BY <1>1, <1>3 DEF Merged
<1>5. ASSUME NEW s \in DOMAIN M, NEW t \in DOMAIN M, s < t PROVE s + M[s] <= t
  <2>1. s \in DOMAIN T /\ t \in DOMAIN T /\ t # q /\ s \in Nat /\ t \in Nat /\ s + T[s] <= t
    BY <1>2, <1>4, <1>5
  <2>2. CASE s = p
    <3>1. q < t
      BY <1>3, <2>1, <2>2
    <3>2. q + T[q] <= t
      BY <1>2, <2>1, <3>1
    <3>3. QED
      BY <1>3, <1>4, <2>1, <2>2, <3>2
  <2>3. CASE s # p
    BY <1>4, <2>1, <2>3
  <2>4. QED
    BY <2>2, <2>3
<1>6. Tiled(M)
  <2>1. ASSUME NEW s \in DOMAIN M
        PROVE  s >= PGSIZE /\ M[s] \in Nat \ {0} /\ s + M[s] <= HeapTop
    <3>1. s \in DOMAIN T /\ s >= PGSIZE /\ s + T[s] <= HeapTop /\ q + T[q] <= HeapTop
      BY <1>4 DEF Tiled
    <3>2. CASE s = p
      BY <1>3, <1>4, <3>1, <3>2
    <3>3. CASE s # p
      BY <1>2, <1>4, <3>1, <3>3
    <3>4. QED
      BY <3>2, <3>3
  <2>2. DOMAIN M \subseteq Nat
    BY <1>2, <1>4
  <2>3. QED
    BY <1>5, <2>1, <2>2 DEF Tiled
<1>7. CoverOf(M) = CoverOf(T)
  <2>1. ASSUME NEW a \in Nat, NEW s \in DOMAIN M, s <= a, a < s + M[s]
        PROVE  \E t \in DOMAIN T : t <= a /\ a < t + T[t]
    <3>1. CASE s = p
      <4>1. (p <= a /\ a < p + T[p]) \/ (q <= a /\ a < q + T[q])
        BY <1>3, <1>4, <2>1, <3>1
      <4>2. QED
        BY <4>1
    <3>2. CASE s # p
      BY <1>4, <2>1, <3>2
    <3>3. QED
      BY <3>1, <3>2
  <2>2. ASSUME NEW a \in Nat, NEW s \in DOMAIN T, s <= a, a < s + T[s]
        PROVE  \E t \in DOMAIN M : t <= a /\ a < t + M[t]
    <3>1. CASE s = p \/ s = q
      <4>1. p <= a /\ a < p + M[p]
        BY <1>3, <1>4, <2>2, <3>1
      <4>2. QED
        BY <1>4, <4>1
    <3>2. CASE s # p /\ s # q
      BY <1>4, <2>2, <3>2
    <3>3. QED
      BY <3>1, <3>2
  <2>3. QED
    BY <2>1, <2>2 DEF CoverOf
<1>8. QED
  BY <1>1, <1>4, <1>6, <1>7

\* Cutting a block in two changes nothing else.
LEMMA CutTiled ==
    ASSUME NEW T, Tiled(T), NEW p \in DOMAIN T, NEW n \in Nat \ {0}, n < T[p]
    PROVE  /\ Tiled(Cut(T, p, n)) /\ CoverOf(Cut(T, p, n)) = CoverOf(T)
           /\ DOMAIN Cut(T, p, n) = DOMAIN T \cup {p + n} /\ p + n \notin DOMAIN T
           /\ Cut(T, p, n)[p] = n /\ Cut(T, p, n)[p + n] = T[p] - n
           /\ \A s \in DOMAIN T \ {p} : Cut(T, p, n)[s] = T[s]
<1> USE HeapTopType
<1>1. PICK M : M = Cut(T, p, n)
  OBVIOUS
<1>2. /\ DOMAIN T \subseteq Nat /\ \A s \in DOMAIN T : T[s] \in Nat /\ T[s] > 0 /\ s + T[s] <= HeapTop
      /\ \A s, t \in DOMAIN T : s < t => s + T[s] <= t
      /\ \A s \in DOMAIN T : s >= PGSIZE
  BY DEF Tiled
<1>3. PICK q : q = p + n
  OBVIOUS
<1>4. p \in Nat /\ q \in Nat /\ T[p] \in Nat /\ p < q /\ q < p + T[p]
  BY <1>2, <1>3
<1>5. ASSUME NEW s \in DOMAIN T PROVE (s < q => s <= p) /\ (q <= s => p + T[p] <= s) /\ s # q
  <2>1. s \in Nat /\ (p < s => p + T[p] <= s)
    BY <1>2
  <2>2. QED
    BY <1>4, <2>1
<1>6. /\ DOMAIN M = DOMAIN T \cup {q} /\ M[p] = n /\ M[q] = T[p] - n
      /\ \A s \in DOMAIN T \ {p} : M[s] = T[s]
  <2>1. M = [s \in DOMAIN T \cup {q} |->
               IF s = p THEN n ELSE IF s = q THEN T[p] - n ELSE T[s]]
    BY <1>1, <1>3 DEF Cut
  <2>2. q # p /\ q \notin DOMAIN T
    BY <1>4, <1>5
  <2>3. QED
    BY <2>1, <2>2
<1>7. ASSUME NEW s \in DOMAIN M
      PROVE  s \in Nat /\ s >= PGSIZE /\ M[s] \in Nat \ {0} /\ s + M[s] <= HeapTop
  <2>1. p >= PGSIZE /\ p + T[p] <= HeapTop /\ PGSIZE \in Nat
    BY <1>2, PageAllocAssumption
  <2>2. CASE s = p
    BY <1>4, <1>6, <2>1, <2>2
  <2>3. CASE s = q
    <3>1. M[s] \in Nat /\ M[s] > 0 /\ q + M[s] <= HeapTop
      <4>1. M[s] = T[p] - n /\ q + M[s] = p + T[p]
        BY <1>3, <1>4, <1>6, <2>3
      <4>2. QED
        BY <1>3, <1>4, <2>1, <4>1
    <3>2. QED
      BY <1>4, <2>1, <2>3, <3>1
  <2>4. CASE s # p /\ s # q
    BY <1>2, <1>6, <2>4
  <2>5. QED
    BY <2>2, <2>3, <2>4
<1>8. ASSUME NEW s \in DOMAIN M, NEW t \in DOMAIN M, s < t PROVE s + M[s] <= t
  <2>1. s \in Nat /\ t \in Nat
    BY <1>7
  <2>2. CASE s = p
    <3>1. t = q \/ (t \in DOMAIN T /\ p + T[p] <= t)
      BY <1>2, <1>6, <1>8, <2>2
    <3>2. s + M[s] = q
      BY <1>3, <1>6, <2>2
    <3>3. QED
      BY <1>4, <2>1, <3>1, <3>2
  <2>3. CASE s = q
    <3>1. t \in DOMAIN T /\ q <= t
      BY <1>6, <1>8, <2>1, <2>3
    <3>2. p + T[p] <= t
      BY <1>5, <3>1
    <3>3. s + M[s] = p + T[p]
      BY <1>3, <1>4, <1>6, <2>3
    <3>4. QED
      BY <3>2, <3>3
  <2>4. CASE s # p /\ s # q
    <3>1. s \in DOMAIN T /\ M[s] = T[s]
      BY <1>6, <2>4
    <3>2. CASE t = q
      <4>1. s < p
        BY <1>4, <1>5, <1>8, <2>1, <2>4, <3>1, <3>2
      <4>2. s + T[s] <= p
        BY <1>2, <3>1, <4>1
      <4>3. T[s] \in Nat
        BY <1>2, <3>1
      <4>4. QED
        BY <1>4, <2>1, <3>1, <3>2, <4>2, <4>3
    <3>3. CASE t # q
      BY <1>2, <1>6, <1>8, <3>1, <3>3
    <3>4. QED
      BY <3>2, <3>3
  <2>5. QED
    BY <2>2, <2>3, <2>4
<1>9. Tiled(M)
  <2>1. DOMAIN M \subseteq Nat
    BY <1>7
  <2>2. QED
    BY <1>7, <1>8, <2>1 DEF Tiled
<1>10. CoverOf(M) = CoverOf(T)
  <2>1. ASSUME NEW a \in Nat, NEW s \in DOMAIN M, s <= a, a < s + M[s]
        PROVE  \E t \in DOMAIN T : t <= a /\ a < t + T[t]
    <3>1. CASE s = p \/ s = q
      <4>1. s + M[s] <= p + T[p] /\ p <= s
        <5>1. CASE s = p
          BY <1>3, <1>4, <1>6, <5>1
        <5>2. CASE s = q
          BY <1>3, <1>4, <1>6, <5>2
        <5>3. QED
          BY <3>1, <5>1, <5>2
      <4>2. s \in Nat /\ M[s] \in Nat
        BY <1>7
      <4>3. p <= a /\ a < p + T[p]
        BY <1>4, <2>1, <4>1, <4>2
      <4>4. QED
        BY <4>3
    <3>2. CASE s # p /\ s # q
      BY <1>6, <2>1, <3>2
    <3>3. QED
      BY <3>1, <3>2
  <2>2. ASSUME NEW a \in Nat, NEW s \in DOMAIN T, s <= a, a < s + T[s]
        PROVE  \E t \in DOMAIN M : t <= a /\ a < t + M[t]
    <3>1. CASE s = p
      <4>1. (p <= a /\ a < p + M[p]) \/ (q <= a /\ a < q + M[q])
        BY <1>3, <1>4, <1>6, <2>2, <3>1
      <4>2. QED
        BY <1>6, <4>1
    <3>2. CASE s # p
      BY <1>6, <2>2, <3>2
    <3>3. QED
      BY <3>1, <3>2
  <2>3. QED
    BY <2>1, <2>2 DEF CoverOf
<1>11. QED
  BY <1>1, <1>3, <1>5, <1>6, <1>9, <1>10

-----------------------------------------------------------------------------
(***************************************************************************)
(* slob_free: a block is linked into the ring and merged.                   *)
(***************************************************************************)
\* The heap h has the blocks T: the free ones are in the ring and no two of them
\* touch; units holds the lengths of these and of clients' blocks.
Partition(h, T) ==
    /\ DOMAIN h = {"units", "next", "slobfree", "bigblocks", "objs", "pages"}
    /\ Tiled(T)
    /\ FreeRing(DOMAIN h.next, h.next) /\ h.slobfree \in DOMAIN h.next
    /\ DOMAIN h.next \subseteq DOMAIN h.units /\ h.units[arena] = 1
    /\ \A s \in DOMAIN h.units \ {arena} : s \in DOMAIN T /\ h.units[s] = T[s]
    /\ \A c, x \in DOMAIN h.next : c < x => c + h.units[c] < x

\* The blocks that are not free, and those of them that units knows.
HeldBlocks(h, T) == DOMAIN T \ DOMAIN h.next

SizedBlocks(h) == DOMAIN h.units \ DOMAIN h.next

\* k is a heap with the other fields of h.
SameRest(h, k) == k.bigblocks = h.bigblocks /\ k.objs = h.objs /\ k.pages = h.pages

\* Block b of the heap h is free in the heap k, whose blocks are T2.
IsFreed(h, T, b, k, T2) ==
    /\ Partition(k, T2) /\ CoverOf(T2) = CoverOf(T)
    /\ HeldBlocks(k, T2) = HeldBlocks(h, T) \ {b}
    /\ \A s \in HeldBlocks(k, T2) : T2[s] = T[s]
    /\ SizedBlocks(k) = SizedBlocks(h) \ {b}
    /\ SameRest(h, k)
    /\ \E c \in DOMAIN k.next : k.units[c] >= T[b]

\* What Linked computes.
LEMMA LinkedFields ==
    ASSUME NEW h, DOMAIN h = {"units", "next", "slobfree", "bigblocks", "objs", "pages"},
           NEW b, NEW cur, NEW u, NEW f, u = h.units, f = h.next, b \in DOMAIN u,
           cur \in DOMAIN f, DOMAIN f \subseteq DOMAIN u, b \notin DOMAIN f, f[cur] \in DOMAIN f,
           NEW k, k = [Linked(h, b, cur) EXCEPT !.slobfree = cur]
    PROVE  LET up    == f[cur]
               high  == b + u[b] = up
               low   == cur + u[cur] = b
               gone  == (IF high THEN {up} ELSE {}) \cup (IF low THEN {b} ELSE {})
               into  == IF low THEN cur ELSE b
               after == IF high THEN f[up] ELSE up
               size  == u[b] + (IF high THEN u[up] ELSE 0)
           IN  /\ DOMAIN k = {"units", "next", "slobfree", "bigblocks", "objs", "pages"}
               /\ SameRest(h, k) /\ k.slobfree = cur
               /\ DOMAIN k.units = DOMAIN u \ gone
               /\ DOMAIN k.next = (DOMAIN f \cup {b}) \ gone
               /\ \A s \in DOMAIN k.units :
                    k.units[s] = IF s = into THEN size + (IF low THEN u[cur] ELSE 0) ELSE u[s]
               /\ \A c \in DOMAIN k.next :
                    k.next[c] = IF c = into THEN after ELSE IF c = cur THEN b ELSE f[c]
<1> DEFINE up    == f[cur]
           high  == b + u[b] = up
           low   == cur + u[cur] = b
           size  == u[b] + (IF high THEN u[up] ELSE 0)
           after == IF high THEN f[up] ELSE up
           gone  == (IF high THEN {up} ELSE {}) \cup (IF low THEN {b} ELSE {})
           into  == IF low THEN cur ELSE b
           units == [u EXCEPT ![into] = size + (IF low THEN @ ELSE 0)]
           next  == With(IF low THEN f ELSE [f EXCEPT ![cur] = b], into, after)
<1>1. Linked(h, b, cur) = [h EXCEPT !.units = Restrict(units, DOMAIN units \ gone),
                                    !.next = Restrict(next, DOMAIN next \ gone)]
  BY DEF Linked
<1>2. into \in DOMAIN u /\ into \in DOMAIN f \cup {b}
  OBVIOUS
<1>3. DOMAIN units = DOMAIN u /\ DOMAIN next = DOMAIN f \cup {into}
  BY DEF With
<1>4. (DOMAIN f \cup {into}) \ gone = (DOMAIN f \cup {b}) \ gone
  OBVIOUS
<1> HIDE DEF high, low
<1>5. ASSUME NEW s \in DOMAIN u
      PROVE  units[s] = IF s = into THEN size + (IF low THEN u[cur] ELSE 0) ELSE u[s]
  BY <1>2
<1>6. ASSUME NEW c \in (DOMAIN f \cup {b}) \ gone
      PROVE  next[c] = IF c = into THEN after ELSE IF c = cur THEN b ELSE f[c]
  <2>1. c \in DOMAIN f \cup {into}
    BY <1>4
  <2>2. CASE low
    BY <2>1, <2>2 DEF With
  <2>3. CASE ~low
    BY <2>1, <2>3 DEF With
  <2>4. QED
    BY <2>2, <2>3
<1>7. PICK U, N : U = Restrict(units, DOMAIN units \ gone) /\ N = Restrict(next, DOMAIN next \ gone)
  OBVIOUS
<1>8. /\ DOMAIN U = DOMAIN u \ gone /\ \A s \in DOMAIN U : U[s] = units[s]
      /\ DOMAIN N = (DOMAIN f \cup {b}) \ gone /\ \A c \in DOMAIN N : N[c] = next[c]
  <2> HIDE DEF gone, units, next, into
  <2>1. QED
    BY <1>3, <1>4, <1>7 DEF Restrict
<1> HIDE DEF units, next
<1>9. k = [[h EXCEPT !.units = U, !.next = N] EXCEPT !.slobfree = cur]
  BY <1>1, <1>7
<1>10. /\ DOMAIN k = {"units", "next", "slobfree", "bigblocks", "objs", "pages"}
       /\ SameRest(h, k) /\ k.slobfree = cur /\ k.units = U /\ k.next = N
  BY <1>9 DEF SameRest
<1>11. \A s \in DOMAIN U : U[s] = IF s = into THEN size + (IF low THEN u[cur] ELSE 0) ELSE u[s]
  BY <1>5, <1>8
<1>12. \A c \in DOMAIN N : N[c] = IF c = into THEN after ELSE IF c = cur THEN b ELSE f[c]
  BY <1>6, <1>8
<1>13. QED
  BY <1>8, <1>10, <1>11, <1>12 DEF high, low

\* A block that is not free is linked after the free block below it, and merged with
\* its neighbours where they touch: what was free stays free, no two free blocks
\* touch, and the other blocks are as they were.
LEMMA LinkedGood ==
    ASSUME NEW h, NEW T, Partition(h, T), NEW b \in DOMAIN T, b \notin DOMAIN h.next,
           b \in DOMAIN h.units,
           NEW cur \in DOMAIN h.next, cur < b, \A x \in DOMAIN h.next : x < b => x <= cur,
           NEW k, k = [Linked(h, b, cur) EXCEPT !.slobfree = cur]
    PROVE  \E T2 : IsFreed(h, T, b, k, T2)
<1> USE HeapTopType
<1>1. PICK F, f, u : F = DOMAIN h.next /\ f = h.next /\ u = h.units
  OBVIOUS
<1>2. PICK up : up = f[cur]
  OBVIOUS
<1> DEFINE high  == b + u[b] = up
           low   == cur + u[cur] = b
           gone  == (IF high THEN {up} ELSE {}) \cup (IF low THEN {b} ELSE {})
           into  == IF low THEN cur ELSE b
           after == IF high THEN f[up] ELSE up
           size  == u[b] + (IF high THEN u[up] ELSE 0)
           total == size + (IF low THEN u[cur] ELSE 0)
<1>3. /\ Tiled(T) /\ FreeRing(F, f) /\ h.slobfree \in F /\ F \subseteq DOMAIN u /\ u[arena] = 1
      /\ \A s \in DOMAIN u \ {arena} : s \in DOMAIN T /\ u[s] = T[s]
      /\ \A c, x \in F : c < x => c + u[c] < x
      /\ DOMAIN h = {"units", "next", "slobfree", "bigblocks", "objs", "pages"}
  BY <1>1 DEF Partition
<1>4. /\ F \subseteq Nat /\ arena \in F /\ \A c \in F : f[c] \in F
      /\ DOMAIN f = F /\ cur \in F /\ up \in F /\ b \notin F /\ b \in DOMAIN u
  BY <1>1, <1>2, <1>3 DEF FreeRing
<1>5. /\ DOMAIN T \subseteq Nat /\ \A s \in DOMAIN T : T[s] \in Nat /\ T[s] > 0 /\ s > 2 /\ s + T[s] <= HeapTop
      /\ \A s, t \in DOMAIN T : s < t => s + T[s] <= t
  <2>1. PGSIZE \in Nat /\ PGSIZE > 2
    BY PageAllocAssumption, SlobAssumption DEF BigblockUnits
  <2>2. QED
    BY <1>3, <2>1 DEF Tiled
<1>6. /\ \A s \in DOMAIN u : u[s] \in Nat /\ u[s] > 0
      /\ b \in Nat /\ u[b] = T[b] /\ b > 2 /\ b # arena /\ cur \in Nat /\ up \in Nat
      /\ u[cur] \in Nat /\ u[up] \in Nat /\ u[b] \in Nat /\ u[b] > 0
  <2>1. \A s \in DOMAIN u : u[s] \in Nat /\ u[s] > 0
    BY <1>3, <1>5
  <2>2. b \in Nat /\ b > 2
    BY <1>5
  <2>3. b # arena
    BY <2>2 DEF arena
  <2>4. QED
    BY <1>3, <1>4, <2>1, <2>2, <2>3
<1>7. /\ DOMAIN k = {"units", "next", "slobfree", "bigblocks", "objs", "pages"}
      /\ SameRest(h, k) /\ k.slobfree = cur
      /\ DOMAIN k.units = DOMAIN u \ gone
      /\ DOMAIN k.next = (F \cup {b}) \ gone
      /\ \A s \in DOMAIN k.units : k.units[s] = IF s = into THEN total ELSE u[s]
      /\ \A c \in DOMAIN k.next :
           k.next[c] = IF c = into THEN after ELSE IF c = cur THEN b ELSE f[c]
  BY <1>1, <1>2, <1>3, <1>4, LinkedFields
<1>8. high => up # arena /\ up \in DOMAIN T /\ up # b /\ u[up] = T[up] /\ up # cur /\ b < up
  <2>1. ASSUME high PROVE b < up /\ up # 0
    BY <1>6, <2>1
  <2>2. ASSUME high PROVE up # arena /\ up # b /\ up # cur
    BY <1>6, <2>1, <2>2 DEF arena
  <2>3. QED
    BY <1>3, <1>4, <2>1, <2>2
<1>9. low => cur # arena /\ cur \in DOMAIN T /\ u[cur] = T[cur]
  <2>1. ASSUME low PROVE cur # arena
    <3>1. ASSUME cur = 0 PROVE FALSE
      <4>1. u[cur] = 1
        BY <1>3, <3>1 DEF arena
      <4>2. QED
        BY <1>6, <2>1, <3>1, <4>1
    <3>2. QED
      BY <3>1 DEF arena
  <2>2. QED
    BY <1>3, <1>4, <2>1
\* The ring.
<1>10. PICK g1 : g1 = [c \in F \cup {b} |-> IF c = cur THEN b ELSE IF c = b THEN up ELSE f[c]]
  OBVIOUS
<1>11. FreeRing(F \cup {b}, g1)
  <2>1. b \in 0 .. HeapTop
    BY <1>5, <1>6
  <2>2. /\ DOMAIN g1 = F \cup {b} /\ g1[cur] = b /\ g1[b] = f[cur]
        /\ \A c \in F \ {cur} : g1[c] = f[c]
    BY <1>2, <1>4, <1>10
  <2>3. \A x \in F : x < b => x <= cur
    BY <1>1
  <2>4. QED
    BY <1>3, <1>4, <2>1, <2>2, <2>3, RingWith
<1>12. PICK F2 : F2 = (F \cup {b}) \ (IF high THEN {up} ELSE {})
  OBVIOUS
<1>13. PICK g2 : g2 = [c \in F2 |-> IF c = cur THEN b ELSE IF c = b THEN after ELSE f[c]]
  OBVIOUS
<1>14. b \in F2 /\ cur \in F2
  BY <1>4, <1>8, <1>12
<1>15. FreeRing(F2, g2)
  <2>1. CASE high
    <3>1. F2 = (F \cup {b}) \ {up} /\ after = f[up]
      BY <1>12, <2>1
    <3>2. up = g1[b] /\ g1[up] = f[up] /\ up # arena
      BY <1>4, <1>8, <1>10, <2>1
    <3>3. /\ DOMAIN g2 = (F \cup {b}) \ {up} /\ g2[b] = g1[up]
          /\ \A c \in (F \cup {b}) \ {up, b} : g2[c] = g1[c]
      BY <1>4, <1>10, <1>13, <1>14, <3>1, <3>2
    <3>4. b \in F \cup {b}
      OBVIOUS
    <3>5. FreeRing((F \cup {b}) \ {up}, g2)
      BY ONLY <1>11, <3>2, <3>3, <3>4, RingWithout
    <3>6. QED
      BY <3>1, <3>5
  <2>2. CASE ~high
    <3>1. F2 = F \cup {b} /\ after = up
      BY <1>12, <2>2
    <3>2. DOMAIN g2 = F \cup {b} /\ \A c \in F \cup {b} : g2[c] = g1[c]
      BY <1>10, <1>13, <3>1
    <3>3. QED
      BY <1>11, <3>1, <3>2, RingSame
  <2>3. QED
    BY <2>1, <2>2
<1>16. FreeRing(DOMAIN k.next, k.next)
  <2>1. CASE low
    <3>1. DOMAIN k.next = F2 \ {b} /\ into = cur
      BY <1>7, <1>12, <2>1
    <3>2. /\ g2[cur] = b /\ g2[b] = after /\ b # arena
          /\ cur \in F2 \ {b}
      BY <1>4, <1>6, <1>13, <1>14
    <3>3. k.next[cur] = g2[b] /\ \A c \in F2 \ {b, cur} : k.next[c] = g2[c]
      BY <1>7, <1>13, <3>1, <3>2
    <3>4. PICK g3 : g3 = k.next
      OBVIOUS
    <3>5. b = g2[cur] /\ DOMAIN g3 = F2 \ {b} /\ g3[cur] = g2[b] /\ \A c \in F2 \ {b, cur} : g3[c] = g2[c]
      BY <3>1, <3>2, <3>3, <3>4
    <3>6. cur \in F2 /\ b # arena
      BY <1>6, <1>14
    <3>7. FreeRing(F2 \ {b}, g3)
      BY ONLY <1>15, <3>5, <3>6, RingWithout
    <3>8. QED
      BY <3>1, <3>4, <3>7
  <2>2. CASE ~low
    <3>1. DOMAIN k.next = F2 /\ into = b
      BY <1>7, <1>12, <2>2
    <3>2. \A c \in F2 : k.next[c] = g2[c]
      BY <1>4, <1>7, <1>13, <3>1
    <3>3. QED
      BY <1>15, <3>1, <3>2, RingSame
  <2>3. QED
    BY <2>1, <2>2
\* The blocks.
<1>17. PICK T1 : /\ Tiled(T1) /\ CoverOf(T1) = CoverOf(T)
                 /\ DOMAIN T1 = DOMAIN T \ (IF high THEN {up} ELSE {})
                 /\ T1[b] = size /\ \A s \in DOMAIN T1 \ {b} : T1[s] = T[s]
  <2>1. CASE high
    <3>1. b + T[b] = up /\ up \in DOMAIN T
      BY <1>6, <1>8, <2>1
    <3>2. PICK M : M = Merged(T, b, up)
      OBVIOUS
    <3>3. /\ Tiled(M) /\ CoverOf(M) = CoverOf(T) /\ DOMAIN M = DOMAIN T \ {up}
          /\ M[b] = T[b] + T[up] /\ \A s \in DOMAIN T \ {b, up} : M[s] = T[s]
      <4>1. Tiled(T) /\ b \in DOMAIN T
        BY <1>3
      <4>2. QED
        BY ONLY <3>1, <3>2, <4>1, MergedTiled
    <3>4. size = T[b] + T[up]
      BY <1>6, <1>8, <2>1
    <3>5. QED
      BY <2>1, <3>3, <3>4
  <2>2. CASE ~high
    <3>1. size = T[b]
      BY <1>6, <2>2
    <3>2. QED
      BY <1>3, <2>2, <3>1
  <2>3. QED
    BY <2>1, <2>2
<1>18. b \in DOMAIN T1 /\ size \in Nat /\ size >= T[b] /\ total \in Nat /\ total >= T[b]
  <2>1. T[b] \in Nat /\ u[b] = T[b] /\ u[up] \in Nat /\ u[cur] \in Nat
    BY <1>5, <1>6
  <2>2. size \in Nat /\ size >= T[b]
    BY <2>1
  <2> HIDE DEF size
  <2>3. total \in Nat /\ total >= T[b]
    BY <2>1, <2>2
  <2>4. b \in DOMAIN T1
    BY <1>8, <1>17
  <2>5. QED
    BY <2>2, <2>3, <2>4
<1>19. PICK T2 : /\ Tiled(T2) /\ CoverOf(T2) = CoverOf(T) /\ DOMAIN T2 = DOMAIN T \ gone
                 /\ T2[into] = total /\ \A s \in DOMAIN T2 \ {into} : T2[s] = T[s]
  <2>1. CASE low
    <3>1. cur \in DOMAIN T1 /\ T1[cur] = T[cur] /\ cur + T1[cur] = b
      BY <1>4, <1>8, <1>9, <1>17, <2>1
    <3>2. PICK M : M = Merged(T1, cur, b)
      OBVIOUS
    <3>3. /\ Tiled(M) /\ CoverOf(M) = CoverOf(T1) /\ DOMAIN M = DOMAIN T1 \ {b}
          /\ M[cur] = T1[cur] + T1[b] /\ \A s \in DOMAIN T1 \ {b, cur} : M[s] = T1[s]
      BY <1>17, <1>18, <3>1, <3>2, MergedTiled
    <3>4. total = T1[cur] + T1[b] /\ into = cur
      <4>1. T1[b] = size /\ T1[cur] = u[cur]
        BY <1>9, <1>17, <2>1, <3>1
      <4> HIDE DEF size
      <4>2. QED
        BY <1>6, <1>18, <2>1, <4>1
    <3>5. \A s \in DOMAIN M \ {cur} : M[s] = T[s]
      BY <1>17, <3>3
    <3>6. DOMAIN M = DOMAIN T \ gone
      BY <1>17, <2>1, <3>3
    <3>7. QED
      BY <1>17, <3>3, <3>4, <3>5, <3>6
  <2>2. CASE ~low
    <3>1. total = size /\ into = b
      <4> HIDE DEF size
      <4>1. QED
        BY <1>18, <2>2
    <3>2. DOMAIN T1 = DOMAIN T \ gone
      BY <1>17, <2>2
    <3>3. QED
      BY <1>17, <3>1, <3>2
  <2>3. QED
    BY <2>1, <2>2
<1>20. \A s \in DOMAIN k.units \ {arena} : s \in DOMAIN T2 /\ k.units[s] = T2[s]
  <2>1. ASSUME NEW s \in DOMAIN k.units \ {arena} PROVE s \in DOMAIN T2 /\ k.units[s] = T2[s]
    <3>1. s \in DOMAIN u \ gone /\ s \in DOMAIN T /\ u[s] = T[s]
      BY <1>3, <1>7, <2>1
    <3>2. s \in DOMAIN T2
      BY <1>19, <3>1
    <3>3. CASE s = into
      BY <1>7, <1>19, <2>1, <3>2, <3>3
    <3>4. CASE s # into
      BY <1>7, <1>19, <2>1, <3>1, <3>2, <3>4
    <3>5. QED
      BY <3>2, <3>3, <3>4
  <2>2. QED
    BY <2>1
<1>21. /\ DOMAIN k.next \subseteq DOMAIN k.units /\ k.units[arena] = 1 /\ k.slobfree \in DOMAIN k.next
       /\ into \in DOMAIN k.next /\ arena # into
  <2>1. DOMAIN k.next \subseteq DOMAIN k.units
    BY <1>3, <1>4, <1>7
  <2>2. arena \notin gone /\ cur \notin gone /\ into \notin gone /\ arena # into
    BY <1>4, <1>6, <1>8, <1>9
  <2>3. arena \in DOMAIN k.units /\ k.slobfree \in DOMAIN k.next /\ into \in DOMAIN k.next
    BY <1>3, <1>4, <1>7, <2>2
  <2>4. QED
    BY <1>3, <1>7, <2>1, <2>2, <2>3
<1>22. ASSUME NEW c \in DOMAIN k.next, NEW x \in DOMAIN k.next, c < x
       PROVE  c + k.units[c] < x
  <2>1. c \in F \cup {b} /\ x \in F \cup {b} /\ c \notin gone /\ x \notin gone /\ c \in Nat /\ x \in Nat
    BY <1>4, <1>6, <1>7
  <2>2. x # arena /\ x \in DOMAIN T2
    <3>1. x # arena
      BY <1>22, <2>1 DEF arena
    <3>2. QED
      BY <1>20, <1>21, <3>1
  <2>3. CASE c = arena
    <3>1. x > 2 /\ k.units[c] = 1
      BY <1>5, <1>19, <1>21, <2>2, <2>3
    <3>2. QED
      BY <2>1, <2>3, <3>1 DEF arena
  <2>4. CASE c # arena
    <3>1. c \in DOMAIN T2 /\ k.units[c] = T2[c] /\ T2[c] \in Nat /\ c + T2[c] <= x
      BY <1>19, <1>20, <1>21, <1>22, <2>2, <2>4 DEF Tiled
    <3>2. SUFFICES ASSUME c + T2[c] = x PROVE FALSE
      BY <2>1, <3>1
    <3>3. CASE c # into
      <4>1. c \in F /\ T2[c] = u[c]
        <5>1. c # b
          BY <2>1, <3>3
        <5>2. QED
          BY <1>3, <1>4, <1>19, <2>1, <2>4, <3>1, <3>3, <5>1
      <4>2. CASE x \in F
        BY <1>3, <1>22, <2>1, <3>1, <3>2, <4>1, <4>2
      <4>3. CASE x = b
        <5>1. ~low
          BY <2>1, <4>3
        <5>2. c # cur
          BY <3>2, <4>1, <4>3, <5>1
        <5>3. c < cur
          BY <1>1, <1>6, <1>22, <2>1, <4>1, <4>3, <5>2
        <5>4. c + u[c] < cur
          BY <1>3, <1>4, <4>1, <5>3
        <5>5. QED
          BY <1>6, <2>1, <3>1, <3>2, <4>1, <4>3, <5>4
      <4>4. QED
        BY <2>1, <4>2, <4>3
    <3>4. CASE c = into
      <4>1. x = into + total
        BY <1>19, <3>2, <3>4
      <4>2. x = b + size
        <5> HIDE DEF size
        <5>1. CASE low
          BY <1>6, <1>18, <4>1, <5>1
        <5>2. CASE ~low
          BY <1>6, <1>18, <4>1, <5>2
        <5>3. QED
          BY <5>1, <5>2
      <4>3. x > b
        <5> HIDE DEF size
        <5>1. T[b] \in Nat /\ T[b] > 0
          BY <1>5
        <5>2. QED
          BY <1>6, <1>18, <4>2, <5>1
      <4>4. x \in F
        BY <1>6, <2>1, <4>3
      <4>5. CASE high
        <5>1. x = up + u[up]
          BY <1>6, <4>2, <4>5
        <5>2. up < x /\ u[up] > 0
          BY <1>3, <1>4, <1>6, <5>1
        <5>3. up + u[up] < x
          BY <1>3, <1>4, <4>4, <5>2
        <5>4. QED
          BY <1>6, <5>1, <5>3
      <4>6. CASE ~high
        <5>1. x = b + u[b]
          BY <1>6, <4>2, <4>6
        <5>2. cur < x
          BY <1>6, <2>1, <4>3
        <5>3. cur < up /\ up <= x
          BY <1>2, <1>3, <1>4, <4>4, <5>2 DEF FreeRing
        <5>4. b < up
          <6>1. ~(up < b)
            BY <1>1, <1>4, <1>6, <5>3
          <6>2. QED
            BY <1>4, <1>6, <6>1
        <5>5. up \in DOMAIN T
          BY <1>3, <1>4, <1>6, <5>3 DEF arena
        <5>6. b + T[b] <= up
          BY <1>5, <5>4, <5>5
        <5>7. up = x
          BY <1>5, <1>6, <2>1, <5>1, <5>3, <5>6
        <5>8. QED
          BY <4>6, <5>1, <5>7
      <4>7. QED
        BY <4>5, <4>6
    <3>5. QED
      BY <3>3, <3>4
  <2>5. QED
    BY <2>3, <2>4
<1>23. Partition(k, T2)
  BY <1>7, <1>16, <1>19, <1>20, <1>21, <1>22 DEF Partition
<1>24. /\ (DOMAIN T \ gone) \ ((F \cup {b}) \ gone) = (DOMAIN T \ F) \ {b}
       /\ (DOMAIN u \ gone) \ ((F \cup {b}) \ gone) = (DOMAIN u \ F) \ {b}
  BY <1>4
<1>29. into # b => into \in F
  BY <1>4
<1> HIDE DEF gone, into, total
<1>25. /\ HeldBlocks(k, T2) = HeldBlocks(h, T) \ {b}
       /\ SizedBlocks(k) = SizedBlocks(h) \ {b}
  BY <1>1, <1>7, <1>19, <1>24 DEF HeldBlocks, SizedBlocks
<1>26. \A s \in HeldBlocks(k, T2) : T2[s] = T[s]
  <2>1. ASSUME NEW s \in HeldBlocks(k, T2) PROVE T2[s] = T[s]
    <3>1. s \in DOMAIN T2 /\ s \notin F /\ s # b
      BY <1>1, <1>25, <2>1 DEF HeldBlocks
    <3>2. s # into
      BY <1>29, <3>1
    <3>3. QED
      BY <1>19, <3>1, <3>2
  <2>2. QED
    BY <2>1
<1>27. \E c \in DOMAIN k.next : k.units[c] >= T[b]
  <2>1. k.units[into] = T2[into]
    BY <1>20, <1>21
  <2>2. QED
    BY <1>18, <1>19, <1>21, <2>1
<1>28. QED
  BY <1>7, <1>19, <1>23, <1>25, <1>26, <1>27 DEF IsFreed

\* slob_free stops at the free block below b, wherever slobfree stands.
LEMMA FitsFound ==
    ASSUME NEW h, NEW F, NEW f, F = DOMAIN h.next, f = h.next, FreeRing(F, f), h.slobfree \in F,
           NEW b \in Nat, b > 0, b \notin F,
           NEW cur, cur = FirstIn(<<h.slobfree>> \o RingFrom(h, h.slobfree),
                                  {c \in DOMAIN h.next : Fits(h, b, c)})
    PROVE  cur \in F /\ cur < b /\ \A x \in F : x < b => x <= cur
<1>1. F \subseteq Nat /\ arena \in F /\ \A c \in F : f[c] \in F
  BY DEF FreeRing
<1>2. PICK S : S = {c \in DOMAIN h.next : Fits(h, b, c)}
  OBVIOUS
<1>3. \E c \in F : c \in S
  <2>1. PICK c \in F : c < b /\ \A x \in F : x < b => x <= c
    BY BlockBelow
  <2>2. c \in Nat /\ f[c] \in Nat /\ f[c] \in F
    BY <1>1
  <2>3. Fits(h, b, c)
    <3>1. CASE f[c] <= c
      BY <2>1, <2>2, <3>1 DEF Fits
    <3>2. CASE ~(f[c] <= c)
      <4>1. f[c] # b /\ ~(f[c] < b)
        BY <2>1, <2>2, <3>2
      <4>2. QED
        BY <2>1, <2>2, <4>1 DEF Fits
    <3>3. QED
      BY <3>1, <3>2
  <2>4. QED
    BY <1>2, <2>3
<1>4. PICK w : w = RingFrom(h, h.slobfree)
  OBVIOUS
<1>5. RoundFrom(w, F, f, h.slobfree)
  BY <1>4, RingFromFacts
<1>6. PICK q : q = <<h.slobfree>> \o w
  OBVIOUS
<1>7. q \in Seq(F) /\ Len(q) \in Nat /\ \A c \in F : \E i \in 1 .. Len(q) : q[i] = c
  <2>1. <<h.slobfree>> \in Seq(F) /\ Len(<<h.slobfree>>) = 1 /\ w \in Seq(F) /\ Len(w) \in Nat
    <3>1. w \in Seq(F) /\ Len(w) \in Nat
      BY <1>5 DEF RoundFrom
    <3>2. PICK e \in F : e = h.slobfree
      OBVIOUS
    <3>3. <<e>> = [i \in 1 .. 1 |-> e]
      OBVIOUS
    <3>5. <<e>> \in Seq(F) /\ Len(<<e>>) = 1
      BY <3>3, FunctionIsSeq
    <3>4. QED
      BY <3>1, <3>2, <3>5
  <2>2. /\ q \in Seq(F) /\ Len(q) = 1 + Len(w)
        /\ \A i \in 1 .. Len(q) : q[i] = IF i <= 1 THEN <<h.slobfree>>[i] ELSE w[i - 1]
    BY <1>6, <2>1, ConcatProperties
  <2>3. ASSUME NEW c \in F PROVE \E i \in 1 .. Len(q) : q[i] = c
    <3>1. PICK i \in 1 .. Len(w) : w[i] = c
      BY <1>5 DEF RoundFrom
    <3>2. i + 1 \in 1 .. Len(q) /\ ~(i + 1 <= 1) /\ (i + 1) - 1 = i
      BY <2>1, <2>2
    <3>3. q[i + 1] = c
      BY <2>2, <3>1, <3>2
    <3>4. QED
      BY <3>2, <3>3
  <2>4. QED
    BY <2>1, <2>2, <2>3
<1>8. cur \in S
  <2>1. PICK at : at = {i \in DOMAIN q : q[i] \in S}
    OBVIOUS
  <2>2. DOMAIN q = 1 .. Len(q)
    BY <1>7, LenProperties
  <2>3. at # {} /\ at \subseteq Nat
    BY <1>3, <1>7, <2>1, <2>2
  <2>4. FirstIn(q, S) = q[Min(at)]
    BY <2>1, <2>3 DEF FirstIn
  <2>5. \E i \in at : \A j \in at : i <= j
    BY <2>3, LeastNatural
  <2>6. Min(at) \in at
    BY <2>5 DEF Min
  <2>7. QED
    BY <1>2, <1>4, <1>6, <2>1, <2>4, <2>6
<1>9. cur \in F /\ Fits(h, b, cur)
  BY <1>2, <1>8
<1>10. cur \in Nat /\ f[cur] \in Nat /\ arena = 0
  BY <1>1, <1>9 DEF arena
<1>11. CASE b > cur /\ b < f[cur]
  <2>1. ASSUME NEW x \in F, x < b PROVE x <= cur
    <3>1. cur < x => f[cur] <= x
      BY <1>9 DEF FreeRing
    <3>2. x \in Nat
      BY <1>1
    <3>3. QED
      BY <1>10, <1>11, <2>1, <3>1, <3>2
  <2>2. QED
    BY <1>9, <1>10, <1>11, <2>1
<1>12. CASE cur >= f[cur] /\ (b > cur \/ b < f[cur])
  <2>1. ASSUME NEW x \in F PROVE x <= cur
    <3>1. cur < x => cur < f[cur]
      BY <1>9 DEF FreeRing
    <3>2. x \in Nat
      BY <1>1
    <3>3. QED
      BY <1>10, <1>12, <3>1, <3>2
  <2>2. f[cur] = 0
    BY <1>9, <1>10, <2>1 DEF FreeRing
  <2>3. b > cur
    BY <1>10, <1>12, <2>2
  <2>4. QED
    BY <1>9, <1>10, <2>1, <2>3
<1>13. QED
  BY <1>9, <1>11, <1>12 DEF Fits

\* slob_free of a block that is not free.
LEMMA SlobFreeGood ==
    ASSUME NEW h, NEW T, Partition(h, T), NEW b \in DOMAIN T, b \notin DOMAIN h.next,
           NEW size \in Nat, size # 0 => T[b] = size, size = 0 => b \in DOMAIN h.units
    PROVE  \E T2 : IsFreed(h, T, b, slob_free(h, b, size), T2)
<1>1. PICK g : g = IF size = 0 THEN h ELSE [h EXCEPT !.units = With(@, b, size)]
  OBVIOUS
<1>2. DOMAIN h = {"units", "next", "slobfree", "bigblocks", "objs", "pages"}
  BY DEF Partition
<1>3. /\ DOMAIN g = {"units", "next", "slobfree", "bigblocks", "objs", "pages"}
      /\ g.next = h.next /\ g.slobfree = h.slobfree /\ SameRest(h, g)
      /\ DOMAIN g.units = DOMAIN h.units \cup {b}
      /\ \A s \in DOMAIN h.units \ {b} : g.units[s] = h.units[s]
      /\ size # 0 => g.units[b] = size
      /\ size = 0 => g.units[b] = h.units[b]
  <2>1. CASE size = 0
    BY <1>1, <1>2, <2>1 DEF SameRest
  <2>2. CASE size # 0
    <3>1. g = [h EXCEPT !.units = With(h.units, b, size)]
      BY <1>1, <2>2
    <3>2. /\ DOMAIN g = {"units", "next", "slobfree", "bigblocks", "objs", "pages"}
          /\ g.next = h.next /\ g.slobfree = h.slobfree /\ SameRest(h, g)
          /\ g.units = With(h.units, b, size)
      BY <1>2, <3>1 DEF SameRest
    <3>3. QED
      BY <2>2, <3>2 DEF With
  <2>3. QED
    BY <2>1, <2>2
<1>4. /\ Tiled(T) /\ FreeRing(DOMAIN h.next, h.next) /\ h.slobfree \in DOMAIN h.next
      /\ DOMAIN h.next \subseteq DOMAIN h.units /\ h.units[arena] = 1
      /\ \A s \in DOMAIN h.units \ {arena} : s \in DOMAIN T /\ h.units[s] = T[s]
      /\ \A c, x \in DOMAIN h.next : c < x => c + h.units[c] < x
      /\ arena \in DOMAIN h.next
  BY DEF Partition, FreeRing
<1>5. b \in Nat /\ b > 0 /\ b # arena
  <2>1. PGSIZE \in Nat /\ PGSIZE > 2
    BY PageAllocAssumption, SlobAssumption DEF BigblockUnits
  <2>2. b \in Nat /\ b >= PGSIZE
    BY <1>4 DEF Tiled
  <2>3. QED
    BY <2>1, <2>2 DEF arena
<1>6. Partition(g, T)
  <2>1. ASSUME NEW s \in DOMAIN g.units \ {arena} PROVE s \in DOMAIN T /\ g.units[s] = T[s]
    <3>1. CASE s = b
      BY <1>3, <1>4, <1>5, <3>1
    <3>2. CASE s # b
      BY <1>3, <1>4, <2>1, <3>2
    <3>3. QED
      BY <3>1, <3>2
  <2>2. \A c \in DOMAIN h.next : g.units[c] = h.units[c]
    BY <1>3, <1>4
  <2>3. QED
    BY <1>3, <1>4, <2>1, <2>2 DEF Partition
<1>7. PICK cur : cur = FirstIn(<<h.slobfree>> \o RingFrom(h, h.slobfree),
                               {c \in DOMAIN h.next : Fits(h, b, c)})
  OBVIOUS
<1>8. cur \in DOMAIN h.next /\ cur < b /\ \A x \in DOMAIN h.next : x < b => x <= cur
  <2>1. PICK F, f : F = DOMAIN h.next /\ f = h.next
    OBVIOUS
  <2>2. FreeRing(F, f) /\ h.slobfree \in F /\ b \notin F
    BY <1>4, <2>1
  <2>3. cur \in F /\ cur < b /\ \A x \in F : x < b => x <= cur
    BY ONLY <1>5, <1>7, <2>1, <2>2, FitsFound
  <2>4. QED
    BY <2>1, <2>3
<1>9. PICK k : k = [Linked(g, b, cur) EXCEPT !.slobfree = cur]
  OBVIOUS
<1>10. slob_free(h, b, size) = k
  BY <1>1, <1>7, <1>9 DEF slob_free
<1>11. PICK T2 : IsFreed(g, T, b, k, T2)
  <2>1. b \notin DOMAIN g.next /\ b \in DOMAIN g.units /\ cur \in DOMAIN g.next
        /\ \A x \in DOMAIN g.next : x < b => x <= cur
    BY <1>3, <1>8
  <2>2. QED
    BY <1>6, <1>8, <1>9, <2>1, LinkedGood
<1>12. HeldBlocks(g, T) = HeldBlocks(h, T) /\ SizedBlocks(g) \ {b} = SizedBlocks(h) \ {b}
  BY <1>3 DEF HeldBlocks, SizedBlocks
<1>13. SameRest(h, k)
  BY <1>3, <1>11 DEF IsFreed, SameRest
<1>14. IsFreed(h, T, b, k, T2)
  BY <1>11, <1>12, <1>13 DEF IsFreed
<1>15. QED
  BY <1>10, <1>14

-----------------------------------------------------------------------------
(***************************************************************************)
(* slob_alloc: units are taken from the front of a free block.              *)
(***************************************************************************)
\* The n units at p are held in the heap k, whose blocks are T2, and were free in h.
IsTaken(h, T, p, n, k, T2) ==
    /\ Partition(k, T2) /\ CoverOf(T2) = CoverOf(T)
    /\ p \in DOMAIN T \ HeldBlocks(h, T) /\ p \in DOMAIN T2 /\ T2[p] = n /\ n <= T[p]
    /\ HeldBlocks(k, T2) = HeldBlocks(h, T) \cup {p}
    /\ \A s \in HeldBlocks(h, T) : T2[s] = T[s]
    /\ SizedBlocks(k) = SizedBlocks(h) \cup {p}
    /\ SameRest(h, k)

\* The n units at cur, which follows prev in the ring, may be cut off.
CanCarve(h, u, f, prev, cur, n, rest) ==
    /\ DOMAIN h = {"units", "next", "slobfree", "bigblocks", "objs", "pages"}
    /\ u = h.units /\ f = h.next /\ prev \in DOMAIN f /\ cur \in DOMAIN f \cap DOMAIN u
    /\ prev # cur /\ n \in Nat /\ rest = cur + n /\ rest # cur /\ (u[cur] # n => rest # prev)

\* The heap k when they are: a smaller block is left in the ring, or none.
Carved(h, u, f, prev, cur, n, rest, k) ==
    /\ DOMAIN k = {"units", "next", "slobfree", "bigblocks", "objs", "pages"}
    /\ SameRest(h, k) /\ k.slobfree = prev
    /\ DOMAIN k.units = DOMAIN u \cup (IF u[cur] = n THEN {} ELSE {rest})
    /\ DOMAIN k.next = (DOMAIN f \cup (IF u[cur] = n THEN {} ELSE {rest})) \ {cur}
    /\ k.units[cur] = n /\ (u[cur] # n => k.units[rest] = u[cur] - n)
    /\ \A s \in DOMAIN u \ {cur, rest} : k.units[s] = u[s]
    /\ u[cur] = n /\ rest \in DOMAIN u => k.units[rest] = u[rest]
    /\ k.next[prev] = (IF u[cur] = n THEN f[cur] ELSE rest)
    /\ u[cur] # n => k.next[rest] = f[cur]
    /\ \A c \in DOMAIN f \ {cur, prev, rest} : k.next[c] = f[c]
    /\ u[cur] = n /\ rest \in DOMAIN f \ {prev} => k.next[rest] = f[rest]

\* What Carve computes.
LEMMA CarveFields ==
    ASSUME NEW h, NEW u, NEW f, NEW prev, NEW cur, NEW n, NEW rest,
           CanCarve(h, u, f, prev, cur, n, rest), NEW k, k = Carve(h, prev, cur, n)
    PROVE  Carved(h, u, f, prev, cur, n, rest, k)
<1> DEFINE whole == u[cur] = n
           link  == [f EXCEPT ![prev] = IF whole THEN f[cur] ELSE rest]
           next  == IF whole THEN link ELSE With(link, rest, f[cur])
           units == IF whole THEN u ELSE With(u, rest, u[cur] - n)
<1>0. /\ DOMAIN h = {"units", "next", "slobfree", "bigblocks", "objs", "pages"}
      /\ u = h.units /\ f = h.next /\ prev \in DOMAIN f /\ cur \in DOMAIN f /\ cur \in DOMAIN u
      /\ prev # cur /\ n \in Nat /\ rest = cur + n /\ rest # cur /\ (u[cur] # n => rest # prev)
  BY DEF CanCarve
<1>1. PICK U, N : U = [units EXCEPT ![cur] = n] /\ N = Restrict(next, DOMAIN next \ {cur})
  OBVIOUS
<1>2. k = [h EXCEPT !.units = U, !.next = N, !.slobfree = prev]
  BY <1>0, <1>1 DEF Carve
<1>3. /\ DOMAIN k = {"units", "next", "slobfree", "bigblocks", "objs", "pages"}
      /\ SameRest(h, k) /\ k.slobfree = prev /\ k.units = U /\ k.next = N
  BY <1>0, <1>2 DEF SameRest
<1>4. DOMAIN N = DOMAIN next \ {cur} /\ \A c \in DOMAIN N : N[c] = next[c]
  <2> HIDE DEF next
  <2>1. QED
    BY <1>1 DEF Restrict
<1>5. CASE whole
  <2>1. U = [u EXCEPT ![cur] = n] /\ next = [f EXCEPT ![prev] = f[cur]]
    BY <1>0, <1>1, <1>5
  <2>2. DOMAIN U = DOMAIN u /\ U[cur] = n /\ \A s \in DOMAIN u \ {cur} : U[s] = u[s]
    BY <1>0, <2>1
  <2>3. DOMAIN N = DOMAIN f \ {cur} /\ N[prev] = f[cur] /\ \A c \in DOMAIN f \ {cur, prev} : N[c] = f[c]
    BY <1>0, <1>4, <2>1
  <2>4. QED
    BY <1>0, <1>3, <1>5, <2>2, <2>3 DEF Carved
<1>6. CASE ~whole
  <2>1. units = With(u, rest, u[cur] - n) /\ next = With([f EXCEPT ![prev] = rest], rest, f[cur])
    BY <1>0, <1>6
  <2>2. DOMAIN units = DOMAIN u \cup {rest} /\ units[rest] = u[cur] - n
        /\ \A s \in DOMAIN u \ {rest} : units[s] = u[s]
    BY <1>0, <2>1 DEF With
  <2>3. /\ DOMAIN next = DOMAIN f \cup {rest} /\ next[rest] = f[cur] /\ next[prev] = rest
        /\ \A c \in DOMAIN f \ {prev, rest} : next[c] = f[c]
    BY <1>0, <1>6, <2>1 DEF With
  <2> HIDE DEF units, next
  <2>4. /\ DOMAIN U = DOMAIN u \cup {rest} /\ U[cur] = n /\ U[rest] = u[cur] - n
        /\ \A s \in DOMAIN u \ {cur, rest} : U[s] = u[s]
    BY <1>0, <1>1, <2>2
  <2>5. QED
    BY <1>0, <1>3, <1>4, <1>6, <2>3, <2>4 DEF Carved
<1>7. QED
  BY <1>5, <1>6

\* The front of the free block after prev, if that is large enough, is taken: the
\* rest stays free, in its place, and the other blocks are as they were.
LEMMA CarveGood ==
    ASSUME NEW h, NEW T, Partition(h, T), NEW prev \in DOMAIN h.next, NEW cur,
           cur = h.next[prev], NEW n \in Nat, n >= 2, h.units[cur] >= n,
           NEW k, k = Carve(h, prev, cur, n)
    PROVE  \E T2 : IsTaken(h, T, cur, n, k, T2)
<1> USE HeapTopType
<1>1. PICK F, f, u : F = DOMAIN h.next /\ f = h.next /\ u = h.units
  OBVIOUS
<1>2. PICK rest : rest = cur + n
  OBVIOUS
<1>3. /\ Tiled(T) /\ FreeRing(F, f) /\ h.slobfree \in F /\ F \subseteq DOMAIN u /\ u[arena] = 1
      /\ \A s \in DOMAIN u \ {arena} : s \in DOMAIN T /\ u[s] = T[s]
      /\ \A c, x \in F : c < x => c + u[c] < x
      /\ DOMAIN h = {"units", "next", "slobfree", "bigblocks", "objs", "pages"}
  BY <1>1 DEF Partition
<1>4. /\ F \subseteq Nat /\ arena \in F /\ \A c \in F : f[c] \in F
      /\ DOMAIN f = F /\ cur \in F /\ prev \in F /\ cur = f[prev]
  BY <1>1, <1>3 DEF FreeRing
<1>5. /\ DOMAIN T \subseteq Nat /\ \A s \in DOMAIN T : T[s] \in Nat /\ T[s] > 0 /\ s > 2 /\ s + T[s] <= HeapTop
      /\ \A s, t \in DOMAIN T : s < t => s + T[s] <= t
  <2>1. PGSIZE \in Nat /\ PGSIZE > 2
    BY PageAllocAssumption, SlobAssumption DEF BigblockUnits
  <2>2. QED
    BY <1>3, <2>1 DEF Tiled
<1>6. /\ cur # arena /\ cur \in DOMAIN T /\ u[cur] = T[cur] /\ cur \in Nat /\ T[cur] \in Nat
      /\ T[cur] >= n /\ cur + T[cur] <= HeapTop
  <2>1. cur # arena
    BY <1>1, <1>3
  <2>2. cur \in DOMAIN T /\ u[cur] = T[cur]
    BY <1>3, <1>4, <2>1
  <2>3. QED
    BY <1>1, <1>5, <2>1, <2>2
<1>7. /\ prev < cur /\ prev # cur /\ \A x \in F : prev < x => cur <= x
      /\ prev \in Nat /\ rest \in Nat /\ cur < rest /\ rest # cur /\ rest # prev
  <2>1. prev < cur /\ \A x \in F : prev < x => cur <= x
    BY <1>3, <1>4, <1>6, NextIsOne
  <2>2. cur \in Nat /\ prev \in Nat /\ n \in Nat /\ n >= 2
    BY <1>4, <1>6
  <2>3. rest \in Nat /\ cur < rest
    BY ONLY <1>2, <2>2
  <2>4. rest # cur /\ rest # prev /\ prev # cur
    BY ONLY <2>1, <2>2, <2>3
  <2>5. QED
    BY <2>1, <2>2, <2>3, <2>4
<1>8. /\ DOMAIN k = {"units", "next", "slobfree", "bigblocks", "objs", "pages"}
      /\ SameRest(h, k) /\ k.slobfree = prev
      /\ DOMAIN k.units = DOMAIN u \cup (IF u[cur] = n THEN {} ELSE {rest})
      /\ DOMAIN k.next = (F \cup (IF u[cur] = n THEN {} ELSE {rest})) \ {cur}
      /\ k.units[cur] = n /\ (u[cur] # n => k.units[rest] = u[cur] - n)
      /\ \A s \in DOMAIN u \ {cur, rest} : k.units[s] = u[s]
      /\ u[cur] = n /\ rest \in DOMAIN u => k.units[rest] = u[rest]
      /\ k.next[prev] = (IF u[cur] = n THEN f[cur] ELSE rest)
      /\ u[cur] # n => k.next[rest] = f[cur]
      /\ \A c \in F \ {cur, prev, rest} : k.next[c] = f[c]
      /\ u[cur] = n /\ rest \in F \ {prev} => k.next[rest] = f[rest]
  <2>1. prev \in DOMAIN f /\ cur \in DOMAIN f /\ cur \in DOMAIN u /\ u = h.units /\ f = h.next
        /\ DOMAIN f = F /\ DOMAIN h = {"units", "next", "slobfree", "bigblocks", "objs", "pages"}
    BY <1>1, <1>3, <1>4
  <2>2. prev # cur /\ n \in Nat /\ rest = cur + n /\ rest # cur /\ rest # prev
    BY <1>2, <1>7
  <2>3. CanCarve(h, u, f, prev, cur, n, rest)
    BY ONLY <2>1, <2>2 DEF CanCarve
  <2>4. k = Carve(h, prev, cur, n)
    OBVIOUS
  <2>5. Carved(h, u, f, prev, cur, n, rest, k)
    BY ONLY <2>3, <2>4, CarveFields
  <2>6. DOMAIN f = F
    BY <2>1
  <2>7. QED
    BY ONLY <2>5, <2>6 DEF Carved
<1>9. ASSUME NEW x \in DOMAIN T, cur < x PROVE cur + T[cur] <= x /\ x \in Nat
  BY <1>5, <1>6, <1>9
<1>10. CASE u[cur] = n
  <2>1. /\ DOMAIN k.units = DOMAIN u /\ DOMAIN k.next = F \ {cur}
        /\ \A s \in DOMAIN u : k.units[s] = u[s]
        /\ k.next[prev] = f[cur] /\ \A c \in F \ {cur, prev} : k.next[c] = f[c]
    BY <1>8, <1>10
  <2>2. PICK g : g = k.next
    OBVIOUS
  <2>3. FreeRing(F \ {cur}, g)
    <3>1. DOMAIN g = F \ {cur} /\ g[prev] = f[cur] /\ \A c \in F \ {cur, prev} : g[c] = f[c]
      BY <2>1, <2>2
    <3>2. QED
      BY ONLY <1>3, <1>4, <1>6, <3>1, RingWithout
  <2>4. Partition(k, T)
    <3>1. FreeRing(DOMAIN k.next, k.next) /\ k.slobfree \in DOMAIN k.next
      BY <1>4, <1>7, <1>8, <2>1, <2>2, <2>3
    <3>2. DOMAIN k.next \subseteq DOMAIN k.units /\ k.units[arena] = 1
      BY <1>3, <1>4, <2>1
    <3>3. \A s \in DOMAIN k.units \ {arena} : s \in DOMAIN T /\ k.units[s] = T[s]
      BY <1>3, <2>1
    <3>4. \A c, x \in DOMAIN k.next : c < x => c + k.units[c] < x
      BY <1>3, <2>1
    <3>5. QED
      BY <1>3, <1>8, <3>1, <3>2, <3>3, <3>4 DEF Partition
  <2>5. /\ HeldBlocks(k, T) = HeldBlocks(h, T) \cup {cur}
        /\ SizedBlocks(k) = SizedBlocks(h) \cup {cur}
        /\ cur \in DOMAIN T \ HeldBlocks(h, T)
    BY <1>1, <1>3, <1>4, <1>6, <2>1 DEF HeldBlocks, SizedBlocks
  <2>6. T[cur] = n
    BY <1>6, <1>10
  <2>7. IsTaken(h, T, cur, n, k, T)
    BY <1>6, <1>8, <2>4, <2>5, <2>6 DEF IsTaken
  <2>8. QED
    BY <2>7
<1>11. CASE u[cur] # n
  <2>1. PICK T2 : T2 = Cut(T, cur, n)
    OBVIOUS
  <2>2. n < T[cur] /\ n \in Nat \ {0}
    BY <1>6, <1>11
  <2>3. /\ Tiled(T2) /\ CoverOf(T2) = CoverOf(T)
        /\ DOMAIN T2 = DOMAIN T \cup {rest} /\ rest \notin DOMAIN T
        /\ T2[cur] = n /\ T2[rest] = T[cur] - n
        /\ \A s \in DOMAIN T \ {cur} : T2[s] = T[s]
    <3>1. Tiled(T) /\ cur \in DOMAIN T
      BY <1>3, <1>6
    <3>2. QED
      BY ONLY <1>2, <2>1, <2>2, <3>1, CutTiled
  <2>4. rest # arena /\ rest \notin F /\ rest \notin DOMAIN u
    <3>1. rest # arena
      BY <1>7, <1>6 DEF arena
    <3>2. QED
      BY <1>3, <2>3, <3>1
  <2>5. /\ DOMAIN k.units = DOMAIN u \cup {rest} /\ DOMAIN k.next = (F \ {cur}) \cup {rest}
        /\ k.units[cur] = n /\ k.units[rest] = T[cur] - n
        /\ \A s \in DOMAIN u \ {cur} : k.units[s] = u[s]
        /\ k.next[prev] = rest /\ k.next[rest] = f[cur]
        /\ \A c \in F \ {cur, prev} : k.next[c] = f[c]
    BY <1>6, <1>7, <1>8, <1>11, <2>4
  <2>6. PICK g1 : g1 = [c \in F \ {cur} |-> IF c = prev THEN f[cur] ELSE f[c]]
    OBVIOUS
  <2>7. FreeRing(F \ {cur}, g1)
    <3>1. DOMAIN g1 = F \ {cur} /\ g1[prev] = f[cur] /\ \A c \in F \ {cur, prev} : g1[c] = f[c]
      BY <1>4, <1>7, <2>6
    <3>2. QED
      BY ONLY <1>3, <1>4, <1>6, <3>1, RingWithout
  <2>8. PICK g, R : g = k.next /\ R = F \ {cur}
    OBVIOUS
  <2>9. FreeRing(R \cup {rest}, g)
    <3>1. rest \in 0 .. HeapTop
      BY <1>2, <1>6, <1>7, <2>2
    <3>2. ASSUME NEW x \in R, x < rest PROVE x <= prev
      <4>1. x \in F /\ x # cur /\ x \in Nat
        BY <1>4, <2>8
      <4>2. ASSUME cur < x PROVE FALSE
        <5>1. x # arena
          BY <1>6, <4>1, <4>2 DEF arena
        <5>2. x \in DOMAIN T
          BY <1>3, <4>1, <5>1
        <5>3. cur + T[cur] <= x
          BY <1>9, <4>2, <5>2
        <5>4. QED
          BY <1>2, <1>6, <1>7, <2>2, <3>2, <4>1, <5>3
      <4>3. QED
        BY <1>6, <1>7, <4>1, <4>2
    <3>3. /\ prev \in R /\ prev < rest /\ rest \notin R
          /\ DOMAIN g = R \cup {rest} /\ g[prev] = rest /\ g[rest] = g1[prev]
          /\ \A c \in R \ {prev} : g[c] = g1[c]
      <4>1. prev \in R /\ prev < rest /\ rest \notin R /\ rest # prev
        BY <1>4, <1>6, <1>7, <2>4, <2>8
      <4>2. DOMAIN g = R \cup {rest} /\ g[prev] = rest /\ g[rest] = f[cur]
        BY <2>5, <2>8
      <4>3. g1[prev] = f[cur] /\ \A c \in R \ {prev} : g1[c] = f[c]
        BY <2>6, <2>8, <4>1
      <4>4. \A c \in R \ {prev} : g[c] = f[c]
        BY <2>5, <2>8
      <4>5. QED
        BY <4>1, <4>2, <4>3, <4>4
    <3>4. FreeRing(R, g1)
      BY <2>7, <2>8
    <3>5. QED
      BY ONLY <3>1, <3>2, <3>3, <3>4, RingWith
  <2>10. Partition(k, T2)
    <3>1. FreeRing(DOMAIN k.next, k.next) /\ k.slobfree \in DOMAIN k.next
      BY <1>4, <1>7, <1>8, <2>5, <2>8, <2>9
    <3>2. DOMAIN k.next \subseteq DOMAIN k.units /\ k.units[arena] = 1
      BY <1>3, <1>4, <1>6, <2>5
    <3>3. ASSUME NEW s \in DOMAIN k.units \ {arena} PROVE s \in DOMAIN T2 /\ k.units[s] = T2[s]
      <4>1. CASE s = rest
        BY <2>3, <2>5, <4>1
      <4>2. CASE s = cur
        BY <1>6, <2>3, <2>5, <4>2
      <4>3. CASE s # rest /\ s # cur
        <5>1. s \in DOMAIN u \ {arena} /\ k.units[s] = u[s]
          BY <2>5, <3>3, <4>3
        <5>2. QED
          BY <1>3, <2>3, <4>3, <5>1
      <4>4. QED
        BY <4>1, <4>2, <4>3
    <3>4. ASSUME NEW c \in DOMAIN k.next, NEW x \in DOMAIN k.next, c < x
          PROVE  c + k.units[c] < x
      <4>1. c \in Nat /\ x \in Nat /\ c # cur /\ x # cur
        BY <1>4, <1>7, <2>5
      <4>2. CASE c = rest
        <5>1. x \in F /\ cur < x
          BY <1>6, <1>7, <2>5, <3>4, <4>1, <4>2
        <5>2. cur + u[cur] < x
          BY <1>3, <1>4, <5>1
        <5>3. QED
          BY <1>2, <1>6, <2>5, <4>1, <4>2, <5>2
      <4>3. CASE c # rest
        <5>1. c \in F /\ k.units[c] = u[c]
          BY <1>3, <2>5, <4>1, <4>3
        <5>2. CASE x # rest
          BY <1>3, <2>5, <3>4, <5>1, <5>2
        <5>3. CASE x = rest
          <6>1. c < cur
            <7>1. ASSUME cur < c PROVE FALSE
              <8>1. c # arena
                BY <1>6, <4>1, <7>1 DEF arena
              <8>2. c \in DOMAIN T
                BY <1>3, <5>1, <8>1
              <8>3. cur + T[cur] <= c
                BY <1>9, <7>1, <8>2
              <8>4. QED
                BY <1>2, <1>6, <1>7, <2>2, <3>4, <4>1, <5>3, <8>3
            <7>2. QED
              BY <1>6, <4>1, <7>1
          <6>2. c + u[c] < cur
            BY <1>3, <1>4, <5>1, <6>1
          <6>3. u[c] \in Nat
            BY <1>3, <1>5, <5>1
          <6>4. QED
            BY <1>6, <1>7, <4>1, <5>1, <5>3, <6>2, <6>3
        <5>4. QED
          BY <5>2, <5>3
      <4>4. QED
        BY <4>2, <4>3
    <3>5. QED
      BY <1>8, <2>3, <3>1, <3>2, <3>3, <3>4 DEF Partition
  <2>11. /\ HeldBlocks(k, T2) = HeldBlocks(h, T) \cup {cur}
         /\ SizedBlocks(k) = SizedBlocks(h) \cup {cur}
         /\ cur \in DOMAIN T \ HeldBlocks(h, T)
    BY <1>1, <1>3, <1>4, <1>6, <1>7, <2>3, <2>4, <2>5 DEF HeldBlocks, SizedBlocks
  <2>12. \A s \in HeldBlocks(h, T) : T2[s] = T[s]
    BY <1>1, <1>4, <2>3 DEF HeldBlocks
  <2>13. IsTaken(h, T, cur, n, k, T2)
    BY <1>6, <1>8, <2>2, <2>3, <2>10, <2>11, <2>12 DEF IsTaken
  <2>14. QED
    BY <2>13
<1>12. QED
  BY <1>10, <1>11

\* The search of slob_alloc comes round to slobfree only if no free block is large
\* enough; otherwise it gives the block before one that is.
LEMMA FirstFitFacts ==
    ASSUME NEW h, NEW F, NEW f, F = DOMAIN h.next, f = h.next, FreeRing(F, f), h.slobfree \in F,
           NEW n, NEW p, p = FirstFit(h, n)
    PROVE  /\ p = NULL => \A c \in F : ~(h.units[c] >= n)
           /\ p # NULL => p \in F /\ h.units[f[p]] >= n
<1>1. PICK w : w = RingFrom(h, h.slobfree)
  OBVIOUS
<1>2. RoundFrom(w, F, f, h.slobfree)
  BY <1>1, RingFromFacts
<1>3. PICK L \in Nat \ {0} : L = Len(w)
  BY <1>2 DEF RoundFrom
<1>4. /\ w \in Seq(F) /\ DOMAIN w = 1 .. L /\ w[1] = f[h.slobfree]
      /\ \A i \in 1 .. L - 1 : w[i + 1] = f[w[i]]
      /\ \A c \in F : \E i \in 1 .. L : w[i] = c
      /\ \A i \in 1 .. L : w[i] \in F
  <2>1. w \in Seq(F) /\ w[1] = f[h.slobfree] /\ \A c \in F : \E i \in 1 .. L : w[i] = c
    BY <1>2, <1>3 DEF RoundFrom
  <2>2. \A i \in 1 .. L - 1 : w[i + 1] = f[w[i]]
    BY <1>2, <1>3 DEF RoundFrom
  <2>3. DOMAIN w = 1 .. L /\ \A i \in 1 .. L : w[i] \in F
    BY <1>3, <2>1, LenProperties, ElementOfSeq
  <2>4. QED
    BY <2>1, <2>2, <2>3
<1>5. PICK fit : fit = {i \in DOMAIN w : h.units[w[i]] >= n}
  OBVIOUS
<1>6. PICK i : i = CHOOSE k \in fit : \A j \in fit : k <= j
  OBVIOUS
<1>7. p = IF fit = {} THEN NULL ELSE IF i = 1 THEN h.slobfree ELSE w[i - 1]
  BY <1>1, <1>5, <1>6 DEF FirstFit
<1>8. F \subseteq Nat
  BY DEF FreeRing
<1>9. CASE fit = {}
  <2>1. \A c \in F : ~(h.units[c] >= n)
    BY <1>4, <1>5, <1>9
  <2>2. QED
    BY <1>7, <1>9, <2>1
<1>10. CASE fit # {}
  <2>1. i \in fit
    <3>1. fit \subseteq Nat
      BY <1>4, <1>5
    <3>2. \E k \in fit : \A j \in fit : k <= j
      BY <1>10, <3>1, LeastNatural
    <3>3. QED
      BY <1>6, <3>2
  <2>2. i \in 1 .. L /\ h.units[w[i]] >= n
    BY <1>4, <1>5, <2>1
  <2>3. p \in F /\ f[p] = w[i]
    <3>1. CASE i = 1
      BY <1>4, <1>7, <1>10, <3>1
    <3>2. CASE i # 1
      <4>1. i - 1 \in 1 .. L - 1 /\ i - 1 \in 1 .. L /\ (i - 1) + 1 = i
        BY <2>2, <3>2
      <4>2. w[(i - 1) + 1] = f[w[i - 1]] /\ w[i - 1] \in F
        BY <1>4, <4>1
      <4>3. QED
        BY <1>7, <1>10, <3>2, <4>1, <4>2
    <3>3. QED
      BY <3>1, <3>2
  <2>4. p # NULL
    BY <1>8, <2>3 DEF NULL
  <2>5. QED
    BY <2>2, <2>3, <2>4
<1>11. QED
  BY <1>9, <1>10

-----------------------------------------------------------------------------
\* The units of the pages P.
AreaOf(P) == {a \in Nat : \E p \in P : PageAddr(p) <= a /\ a < PageAddr(p) + PGSIZE}

\* The units of k pages from base on are those from its address on.
LEMMA RunOfPages ==
    ASSUME NEW base \in Nat, NEW k \in Nat
    PROVE  /\ PageAddr(base) \in Nat /\ PageAddr(base) >= PGSIZE /\ PGSIZE * k \in Nat
           /\ AreaOf(base .. base + k - 1) =
                {a \in Nat : PageAddr(base) <= a /\ a < PageAddr(base) + PGSIZE * k}
<1> USE PageAllocAssumption
<1>1. PICK N \in Nat : N = PGSIZE /\ N > 0
  OBVIOUS
<1>2. PICK B : B = PageAddr(base)
  OBVIOUS
<1>3. B = (base + 1) * N /\ B \in Nat /\ B >= N /\ N * k \in Nat
  <2>1. B = (base + 1) * N /\ 1 <= base + 1 /\ base + 1 \in Nat
    BY <1>1, <1>2 DEF PageAddr
  <2>2. 1 * N <= (base + 1) * N /\ (base + 1) * N \in Nat
    BY <1>1, <2>1, ProductMonotone
  <2>3. QED
    BY <1>1, <2>1, <2>2
<1>4. ASSUME NEW i \in Nat PROVE PageAddr(base + i) = B + N * i /\ N * i \in Nat
  <2>1. PageAddr(base + i) = ((base + i) + 1) * N
    BY <1>1 DEF PageAddr
  <2>2. ((base + i) + 1) * N = (base + 1) * N + N * i
    BY <1>1
  <2>3. QED
    BY <1>1, <1>3, <2>1, <2>2
<1>5. ASSUME NEW a \in Nat, NEW p \in base .. base + k - 1, PageAddr(p) <= a, a < PageAddr(p) + N
      PROVE  B <= a /\ a < B + N * k
  <2>1. PICK i \in Nat : p = base + i /\ i + 1 <= k
    <3>1. p - base \in Nat /\ p = base + (p - base) /\ (p - base) + 1 <= k
      OBVIOUS
    <3>2. QED
      BY <3>1
  <2>2. PageAddr(p) = B + N * i /\ N * i \in Nat
    BY <1>4, <2>1
  <2>3. (i + 1) * N <= k * N /\ (i + 1) * N = N * i + N /\ k * N = N * k
    <3>1. (i + 1) * N <= k * N
      BY <1>1, <2>1, ProductMonotone
    <3>2. QED
      BY <1>1, <3>1
  <2>4. QED
    BY <1>1, <1>3, <1>5, <2>2, <2>3
<1>6. ASSUME NEW a \in Nat, B <= a, a < B + N * k
      PROVE  \E p \in base .. base + k - 1 : PageAddr(p) <= a /\ a < PageAddr(p) + N
  <2>1. PICK d \in Nat : a = B + d /\ d < N * k
    <3>1. a - B \in Nat /\ a = B + (a - B) /\ a - B < N * k
      BY <1>3, <1>6
    <3>2. QED
      BY <3>1
  <2>2. PICK i \in Nat, r \in 0 .. N - 1 : d = N * i + r
    <3>1. d \div N \in Nat /\ d % N \in 0 .. N - 1 /\ d = N * (d \div N) + (d % N)
      BY <1>1
    <3>2. QED
      BY <3>1
  <2>3. i < k
    <3>1. ASSUME k <= i PROVE FALSE
      <4>1. k * N <= i * N /\ k * N = N * k /\ i * N = N * i
        <5>1. k * N <= i * N
          BY <1>1, <3>1, ProductMonotone
        <5>2. QED
          BY <1>1, <5>1
      <4>2. N * i \in Nat /\ r \in Nat
        BY <1>1
      <4>3. QED
        BY <1>3, <2>1, <2>2, <4>1, <4>2
    <3>2. QED
      BY <3>1
  <2>4. base + i \in base .. base + k - 1
    BY <2>3
  <2>5. PageAddr(base + i) = B + N * i /\ N * i \in Nat
    BY <1>4
  <2>6. PageAddr(base + i) <= a /\ a < PageAddr(base + i) + N
    BY <1>1, <1>3, <2>1, <2>2, <2>5
  <2>7. QED
    BY <2>4, <2>6
<1>7. AreaOf(base .. base + k - 1) = {a \in Nat : B <= a /\ a < B + N * k}
  BY <1>1, <1>5, <1>6 DEF AreaOf
<1>8. QED
  BY <1>1, <1>2, <1>3, <1>7

\* Different pages have different units.
LEMMA AreaFacts ==
    ASSUME NEW P, NEW Q, P \subseteq Nat, Q \subseteq Nat
    PROVE  /\ AreaOf(P \cup Q) = AreaOf(P) \cup AreaOf(Q)
           /\ P \cap Q = {} => AreaOf(P) \cap AreaOf(Q) = {}
           /\ AreaOf(P \ Q) = AreaOf(P) \ AreaOf(Q)
<1> USE PageAllocAssumption
<1>1. AreaOf(P \cup Q) = AreaOf(P) \cup AreaOf(Q)
  BY DEF AreaOf
<1>2. ASSUME NEW p \in Nat, NEW q \in Nat, NEW a \in Nat,
             PageAddr(p) <= a, a < PageAddr(p) + PGSIZE,
             PageAddr(q) <= a, a < PageAddr(q) + PGSIZE
      PROVE  p = q
  <2>1. ASSUME NEW i \in Nat, NEW j \in Nat, i < j PROVE PageAddr(i) + PGSIZE <= PageAddr(j)
    <3>1. i + 1 + 1 <= j + 1 /\ i + 1 + 1 \in Nat /\ j + 1 \in Nat
      BY <2>1
    <3>2. (i + 1 + 1) * PGSIZE <= (j + 1) * PGSIZE
      BY <3>1, ProductMonotone
    <3>3. (i + 1 + 1) * PGSIZE = (i + 1) * PGSIZE + PGSIZE
      OBVIOUS
    <3>4. QED
      BY <3>2, <3>3 DEF PageAddr
  <2>2. PageAddr(p) \in Nat /\ PageAddr(q) \in Nat
    BY RunOfPages
  <2>3. ~(p < q) /\ ~(q < p)
    <3>1. PGSIZE \in Nat
      OBVIOUS
    <3>2. p < q => PageAddr(p) + PGSIZE <= PageAddr(q)
      BY <2>1
    <3>3. q < p => PageAddr(q) + PGSIZE <= PageAddr(p)
      BY <2>1
    <3>4. QED
      BY <1>2, <2>2, <3>1, <3>2, <3>3
  <2>4. QED
    BY <2>3
<1>3. ASSUME NEW a \in AreaOf(P), a \in AreaOf(Q) PROVE \E p \in P \cap Q : TRUE
  BY <1>2, <1>3 DEF AreaOf
<1>4. ASSUME NEW a \in AreaOf(P \ Q) PROVE a \in AreaOf(P) \ AreaOf(Q)
  <2>1. PICK p \in P \ Q : PageAddr(p) <= a /\ a < PageAddr(p) + PGSIZE
    BY <1>4 DEF AreaOf
  <2>2. a \in Nat /\ a \in AreaOf(P)
    BY <1>4 DEF AreaOf
  <2>3. ASSUME a \in AreaOf(Q) PROVE FALSE
    <3>1. PICK q \in Q : PageAddr(q) <= a /\ a < PageAddr(q) + PGSIZE
      BY <2>3 DEF AreaOf
    <3>2. p = q
      BY <1>2, <2>1, <2>2, <3>1
    <3>3. QED
      BY <3>2
  <2>4. QED
    BY <2>2, <2>3
<1>5. ASSUME NEW a \in AreaOf(P), a \notin AreaOf(Q) PROVE a \in AreaOf(P \ Q)
  BY <1>5 DEF AreaOf
<1>6. QED
  BY <1>1, <1>3, <1>4, <1>5

-----------------------------------------------------------------------------
(***************************************************************************)
(* Pages that the heap gets from the page allocator and gives back to it.   *)
(***************************************************************************)
\* The L units at B are memory in which no block of T lies.
ClearOf(T, B, L) ==
    /\ B \in Nat /\ L \in Nat \ {0} /\ B >= PGSIZE /\ B + L <= HeapTop
    /\ \A a \in CoverOf(T) : ~(B <= a /\ a < B + L)

\* M has the block of L units at B beside the blocks of T.
HasTile(T, B, L, M) ==
    /\ Tiled(M) /\ B \notin DOMAIN T /\ DOMAIN M = DOMAIN T \cup {B} /\ M[B] = L
    /\ \A s \in DOMAIN T : M[s] = T[s]
    /\ CoverOf(M) = CoverOf(T) \cup {a \in Nat : B <= a /\ a < B + L}

\* A block that begins where no other one lies is added.
LEMMA TileAdded ==
    ASSUME NEW T, Tiled(T), NEW B, NEW L, ClearOf(T, B, L)
    PROVE  HasTile(T, B, L, With(T, B, L))
<1> DEFINE M == With(T, B, L)
<1>0. /\ B \in Nat /\ L \in Nat \ {0} /\ B >= PGSIZE /\ B + L <= HeapTop
      /\ \A a \in CoverOf(T) : ~(B <= a /\ a < B + L)
  BY DEF ClearOf
<1>1. /\ DOMAIN T \subseteq Nat
      /\ \A s \in DOMAIN T : T[s] \in Nat /\ T[s] > 0 /\ s >= PGSIZE /\ s + T[s] <= HeapTop
      /\ \A s, t \in DOMAIN T : s < t => s + T[s] <= t
  BY DEF Tiled
<1>2. ASSUME NEW s \in DOMAIN T PROVE s + T[s] <= B \/ B + L <= s
  <2>1. s \in Nat /\ T[s] \in Nat /\ T[s] > 0
    BY <1>1
  <2>2. s \in CoverOf(T)
    BY <2>1 DEF CoverOf
  <2>3. s < B => (s + T[s] <= B \/ B \in CoverOf(T))
    BY <1>0, <2>1 DEF CoverOf
  <2>4. QED
    BY <1>0, <2>1, <2>2, <2>3
<1>3. B \notin DOMAIN T
  BY <1>0, <1>1, <1>2
<1>4. DOMAIN M = DOMAIN T \cup {B} /\ M[B] = L /\ \A s \in DOMAIN T : M[s] = T[s]
  BY <1>3 DEF With
<1> HIDE DEF M
<1>5. Tiled(M)
  <2>1. ASSUME NEW s \in DOMAIN M, NEW t \in DOMAIN M, s < t PROVE s + M[s] <= t
    <3>1. CASE s \in DOMAIN T /\ t \in DOMAIN T
      BY <1>1, <1>4, <2>1, <3>1
    <3>2. CASE s = B /\ t \in DOMAIN T
      <4>1. t \in Nat /\ T[t] \in Nat /\ M[s] = L
        BY <1>1, <1>4, <3>2
      <4>2. QED
        BY <1>0, <1>2, <2>1, <3>2, <4>1
    <3>3. CASE t = B /\ s \in DOMAIN T
      <4>1. s \in Nat /\ T[s] \in Nat /\ M[s] = T[s]
        BY <1>1, <1>4, <3>3
      <4>2. QED
        BY <1>0, <1>2, <2>1, <3>3, <4>1
    <3>4. QED
      BY <1>0, <1>4, <2>1, <3>1, <3>2, <3>3
  <2>2. ASSUME NEW s \in DOMAIN M
        PROVE  s \in Nat /\ s >= PGSIZE /\ M[s] \in Nat \ {0} /\ s + M[s] <= HeapTop
    <3>1. CASE s = B
      BY <1>0, <1>4, <3>1
    <3>2. CASE s # B
      BY <1>1, <1>4, <3>2
    <3>3. QED
      BY <3>1, <3>2
  <2>3. DOMAIN M \subseteq Nat
    BY <2>2
  <2>4. QED
    BY <2>1, <2>2, <2>3 DEF Tiled
<1>6. CoverOf(M) = CoverOf(T) \cup {a \in Nat : B <= a /\ a < B + L}
  BY <1>0, <1>4 DEF CoverOf
<1>7. HasTile(T, B, L, M)
  BY <1>3, <1>4, <1>5, <1>6 DEF HasTile
<1>8. QED
  BY <1>7 DEF M

\* A block is taken out of the division.
LEMMA TileRemoved ==
    ASSUME NEW T, Tiled(T), NEW B \in DOMAIN T,
           NEW M, M = [s \in DOMAIN T \ {B} |-> T[s]]
    PROVE  /\ Tiled(M) /\ DOMAIN M = DOMAIN T \ {B} /\ \A s \in DOMAIN M : M[s] = T[s]
           /\ CoverOf(M) = CoverOf(T) \ {a \in Nat : B <= a /\ a < B + T[B]}
<1>1. DOMAIN M = DOMAIN T \ {B} /\ \A s \in DOMAIN M : M[s] = T[s]
  OBVIOUS
<1>2. /\ DOMAIN T \subseteq Nat /\ \A s \in DOMAIN T : T[s] \in Nat
      /\ \A s, t \in DOMAIN T : s < t => s + T[s] <= t
  BY DEF Tiled
<1>3. Tiled(M)
  BY <1>1 DEF Tiled
<1>4. ASSUME NEW s \in DOMAIN M PROVE s + M[s] <= B \/ B + T[B] <= s
  <2>1. s \in DOMAIN T /\ s # B /\ M[s] = T[s] /\ s \in Nat /\ B \in Nat
    BY <1>1, <1>2
  <2>2. QED
    BY <1>2, <2>1
<1>5. ASSUME NEW a \in Nat, NEW s \in DOMAIN M, s <= a, a < s + M[s]
      PROVE  ~(B <= a /\ a < B + T[B])
  <2>1. s \in Nat /\ M[s] \in Nat /\ B \in Nat /\ T[B] \in Nat
    BY <1>1, <1>2
  <2>2. QED
    BY <1>4, <1>5, <2>1
<1>6. ASSUME NEW a \in Nat, NEW s \in DOMAIN T, s <= a, a < s + T[s], ~(B <= a /\ a < B + T[B])
      PROVE  s \in DOMAIN M /\ a < s + M[s]
  BY <1>1, <1>6
<1>7. ASSUME NEW a \in CoverOf(M) PROVE a \in CoverOf(T) /\ a \notin {x \in Nat : B <= x /\ x < B + T[B]}
  <2>1. PICK s \in DOMAIN M : a \in Nat /\ s <= a /\ a < s + M[s]
    BY <1>7 DEF CoverOf
  <2>2. a \in CoverOf(T)
    BY <1>1, <2>1 DEF CoverOf
  <2>3. QED
    BY <1>5, <2>1, <2>2
<1>8. ASSUME NEW a \in CoverOf(T), a \notin {x \in Nat : B <= x /\ x < B + T[B]} PROVE a \in CoverOf(M)
  <2>1. PICK s \in DOMAIN T : a \in Nat /\ s <= a /\ a < s + T[s]
    BY <1>8 DEF CoverOf
  <2>2. s \in DOMAIN M /\ a < s + M[s]
    BY <1>6, <1>8, <2>1
  <2>3. QED
    BY <2>1, <2>2 DEF CoverOf
<1>9. QED
  BY <1>1, <1>3, <1>7, <1>8

\* The k pages from base on are none of P.
FreshRun(P, base, k) ==
    /\ P \subseteq Page /\ base \in Page /\ k \in Nat \ {0}
    /\ base .. base + k - 1 \subseteq Page /\ (base .. base + k - 1) \cap P = {}

\* M has the k pages from base on, as one block, beside the blocks T of the pages P.
HasPages(T, P, base, k, M) ==
    /\ Tiled(M) /\ CoverOf(M) = AreaOf(P \cup base .. base + k - 1)
    /\ PageAddr(base) \notin DOMAIN T /\ DOMAIN M = DOMAIN T \cup {PageAddr(base)}
    /\ M[PageAddr(base)] = PGSIZE * k /\ \A s \in DOMAIN T : M[s] = T[s]

\* Pages that are not the heap's, as one block.
LEMMA PagesAdded ==
    ASSUME NEW T, Tiled(T), NEW P, CoverOf(T) = AreaOf(P), NEW base, NEW k, FreshRun(P, base, k)
    PROVE  HasPages(T, P, base, k, With(T, PageAddr(base), PGSIZE * k))
<1> USE PageAllocAssumption
<1>0. /\ P \subseteq Page /\ base \in Page /\ k \in Nat \ {0}
      /\ base .. base + k - 1 \subseteq Page /\ (base .. base + k - 1) \cap P = {}
  BY DEF FreshRun
<1>m. PICK M : M = With(T, PageAddr(base), PGSIZE * k)
  OBVIOUS
<1>1. PICK B, L : B = PageAddr(base) /\ L = PGSIZE * k
  OBVIOUS
<1>2. base \in Nat /\ P \subseteq Nat /\ base .. base + k - 1 \subseteq Nat
  BY <1>0 DEF Page
<1>3. /\ B \in Nat /\ B >= PGSIZE /\ L \in Nat
      /\ AreaOf(base .. base + k - 1) = {a \in Nat : B <= a /\ a < B + L}
  BY <1>0, <1>1, <1>2, RunOfPages
<1>4. L # 0
  <2>1. 1 <= k /\ 1 \in Nat /\ PGSIZE \in Nat
    BY <1>0
  <2>2. 1 * PGSIZE <= k * PGSIZE
    BY <1>0, <2>1, ProductMonotone
  <2>3. QED
    BY <1>0, <1>1, <2>1, <2>2
<1>5. B + L <= HeapTop
  <2>1. base + k <= NPage /\ base + k \in Nat
    <3>1. base + k - 1 \in base .. base + k - 1
      BY <1>0, <1>2
    <3>2. base + k - 1 \in Page
      BY <1>0, <3>1
    <3>3. QED
      BY <1>0, <1>2, <3>2 DEF Page
  <2>2. (base + k + 1) * PGSIZE <= (NPage + 1) * PGSIZE
    <3>1. base + k + 1 <= NPage + 1 /\ base + k + 1 \in Nat /\ NPage + 1 \in Nat /\ PGSIZE \in Nat
      BY <2>1
    <3>2. QED
      BY <3>1, ProductMonotone
  <2>3. (base + k + 1) * PGSIZE = (base + 1) * PGSIZE + PGSIZE * k
    BY <1>0, <1>2
  <2>4. QED
    BY <1>1, <2>2, <2>3 DEF HeapTop, PageAddr
<1>6. \A a \in CoverOf(T) : ~(B <= a /\ a < B + L)
  <2>1. AreaOf(P) \cap AreaOf(base .. base + k - 1) = {}
    <3>1. P \cap (base .. base + k - 1) = {}
      BY <1>0
    <3>2. QED
      BY <1>2, <3>1, AreaFacts
  <2>2. \A a \in CoverOf(T) : a \in Nat
    BY DEF CoverOf
  <2>3. QED
    BY <1>3, <2>1, <2>2
<1>7. M = With(T, B, L) /\ L \in Nat \ {0}
  BY <1>m, <1>1, <1>3, <1>4
<1>8. /\ Tiled(M) /\ B \notin DOMAIN T /\ DOMAIN M = DOMAIN T \cup {B} /\ M[B] = L
      /\ \A s \in DOMAIN T : M[s] = T[s]
      /\ CoverOf(M) = CoverOf(T) \cup {a \in Nat : B <= a /\ a < B + L}
  <2>1. Tiled(T) /\ B \in Nat /\ B >= PGSIZE /\ B + L <= HeapTop /\ L \in Nat \ {0}
    BY <1>3, <1>5, <1>7
  <2>2. ClearOf(T, B, L)
    BY <2>1, <1>6 DEF ClearOf
  <2>3. HasTile(T, B, L, M)
    BY <1>7, <2>2, TileAdded
  <2>4. QED
    BY <2>3 DEF HasTile
<1>9. CoverOf(M) = AreaOf(P \cup base .. base + k - 1)
  <2>1. PICK Q : Q = base .. base + k - 1
    OBVIOUS
  <2>2. AreaOf(P \cup Q) = AreaOf(P) \cup AreaOf(Q)
    BY <1>2, <2>1, AreaFacts
  <2>3. CoverOf(M) = AreaOf(P) \cup AreaOf(Q)
    BY <1>3, <1>8, <2>1
  <2>4. QED
    BY <2>1, <2>2, <2>3
<1>10. QED
  BY <1>m, <1>1, <1>8, <1>9 DEF HasPages

\* The blocks T of the heap h fill its pages, which are U's.
HeapFilled(h, T, U) ==
    Partition(h, T) /\ CoverOf(T) = AreaOf(h.pages) /\ h.pages \subseteq U /\ U \subseteq Page

\* The heap with a page more has a free block as large as a page.
LEMMA GrownGood ==
    ASSUME NEW h, NEW T, NEW U, HeapFilled(h, T, U), NEW page \in Page \ U,
           NEW k, k = Grown(h, page)
    PROVE  \E T2 : /\ HeapFilled(k, T2, U \cup {page}) /\ k.pages = h.pages \cup {page}
                   /\ HeldBlocks(k, T2) = HeldBlocks(h, T)
                   /\ \A s \in HeldBlocks(h, T) : T2[s] = T[s]
                   /\ SizedBlocks(k) = SizedBlocks(h)
                   /\ k.bigblocks = h.bigblocks /\ k.objs = h.objs
                   /\ \E c \in DOMAIN k.next : k.units[c] >= PGSIZE
<1> USE PageAllocAssumption
<1>1. PICK g, B : g = [h EXCEPT !.pages = @ \cup {page}] /\ B = PageAddr(page)
  OBVIOUS
<1>2. PICK M : M = With(T, B, PGSIZE * 1)
  OBVIOUS
<1>3. /\ Partition(h, T) /\ CoverOf(T) = AreaOf(h.pages) /\ h.pages \subseteq Page
      /\ page \notin h.pages /\ page \in Page /\ page \in Nat /\ h.pages \subseteq U /\ U \subseteq Page
  <2>1. Partition(h, T) /\ CoverOf(T) = AreaOf(h.pages) /\ h.pages \subseteq U /\ U \subseteq Page
    BY DEF HeapFilled
  <2>2. page \in Nat
    BY DEF Page
  <2>3. QED
    BY <2>1, <2>2
<1>4. page .. page + 1 - 1 = {page} /\ 1 \in Nat \ {0}
  BY <1>3
<1>5. Tiled(T)
  BY <1>3 DEF Partition
<1>6. /\ Tiled(M) /\ CoverOf(M) = AreaOf(h.pages \cup {page})
      /\ B \notin DOMAIN T /\ DOMAIN M = DOMAIN T \cup {B}
      /\ M[B] = PGSIZE * 1 /\ \A s \in DOMAIN T : M[s] = T[s]
  <2>1. page .. page + 1 - 1 \subseteq Page /\ (page .. page + 1 - 1) \cap h.pages = {}
    BY <1>3, <1>4
  <2>2. PICK P : P = h.pages
    OBVIOUS
  <2>3. P \subseteq Page /\ CoverOf(T) = AreaOf(P) /\ (page .. page + 1 - 1) \cap P = {}
    BY <1>3, <2>1, <2>2
  <2>4. /\ Tiled(M) /\ CoverOf(M) = AreaOf(P \cup page .. page + 1 - 1)
        /\ PageAddr(page) \notin DOMAIN T /\ DOMAIN M = DOMAIN T \cup {PageAddr(page)}
        /\ M[PageAddr(page)] = PGSIZE * 1 /\ \A s \in DOMAIN T : M[s] = T[s]
    <3>1. 1 \in Nat \ {0} /\ page \in Page /\ page .. page + 1 - 1 \subseteq Page
      BY <1>3, <1>4, <2>1
    <3>2. M = With(T, PageAddr(page), PGSIZE * 1)
      BY <1>1, <1>2
    <3>3. FreshRun(P, page, 1)
      BY <2>3, <3>1 DEF FreshRun
    <3>4. HasPages(T, P, page, 1, M)
      BY <1>5, <2>3, <3>2, <3>3, PagesAdded
    <3>5. QED
      BY <3>4 DEF HasPages
  <2>5. QED
    BY <1>1, <1>4, <2>2, <2>4
<1>7. M[B] = PGSIZE /\ B # arena /\ B \in Nat
  <2>1. B \in Nat /\ B >= PGSIZE /\ PGSIZE \in Nat
    BY <1>1, <1>3, RunOfPages
  <2>2. QED
    BY <1>6, <2>1 DEF arena
<1>8. /\ DOMAIN g = {"units", "next", "slobfree", "bigblocks", "objs", "pages"}
      /\ g.units = h.units /\ g.next = h.next /\ g.slobfree = h.slobfree
      /\ g.bigblocks = h.bigblocks /\ g.objs = h.objs /\ g.pages = h.pages \cup {page}
  BY <1>1, <1>3 DEF Partition
<1>9. /\ DOMAIN h.next \ {arena} \subseteq DOMAIN T /\ DOMAIN h.units \ {arena} \subseteq DOMAIN T
  BY <1>3 DEF Partition
<1>10. Partition(g, M)
  BY <1>3, <1>6, <1>8 DEF Partition
<1>11. B \notin DOMAIN g.next /\ B \notin DOMAIN g.units /\ B \in DOMAIN M
  BY <1>6, <1>7, <1>8, <1>9
<1>12. k = slob_free(g, B, PGSIZE)
  BY <1>1 DEF Grown
<1>13. PICK T2 : IsFreed(g, M, B, k, T2)
  BY <1>7, <1>10, <1>11, <1>12, SlobFreeGood
<1>14. HeldBlocks(g, M) \ {B} = HeldBlocks(h, T) /\ SizedBlocks(g) \ {B} = SizedBlocks(h)
  BY <1>6, <1>8, <1>11 DEF HeldBlocks, SizedBlocks
<1>15. /\ Partition(k, T2) /\ CoverOf(T2) = CoverOf(M)
       /\ HeldBlocks(k, T2) = HeldBlocks(h, T) /\ SizedBlocks(k) = SizedBlocks(h)
       /\ \A s \in HeldBlocks(h, T) : T2[s] = M[s]
       /\ SameRest(g, k)
       /\ \E c \in DOMAIN k.next : k.units[c] >= PGSIZE
  BY <1>7, <1>13, <1>14 DEF IsFreed
<1>16. \A s \in HeldBlocks(h, T) : T2[s] = T[s]
  BY <1>6, <1>15 DEF HeldBlocks
<1>17. k.bigblocks = h.bigblocks /\ k.objs = h.objs /\ k.pages = h.pages \cup {page}
  BY <1>8, <1>15 DEF SameRest
<1>18. HeapFilled(k, T2, U \cup {page})
  BY <1>3, <1>6, <1>15, <1>17 DEF HeapFilled
<1>19. QED
  BY <1>15, <1>16, <1>17, <1>18

\* The n units at p are held in the heap k, whose blocks are T2, and were not held
\* in h; k may have more pages.
Obtained(h, T, p, n, k, T2) ==
    /\ HeapFilled(k, T2, k.pages) /\ h.pages \subseteq k.pages
    /\ p \in DOMAIN T2 /\ T2[p] = n /\ p \notin HeldBlocks(h, T)
    /\ HeldBlocks(k, T2) = HeldBlocks(h, T) \cup {p}
    /\ \A s \in HeldBlocks(h, T) : T2[s] = T[s]
    /\ SizedBlocks(k) = SizedBlocks(h) \cup {p}
    /\ k.bigblocks = h.bigblocks /\ k.objs = h.objs

\* The heap as it was, for a request that could not be met.
Refused(m, h, r) == r = [ptr |-> NULL, pmm |-> m, slob |-> h]

\* r.ptr, of n units, is taken from the free blocks of h.
Taken(m, h, T, n, r) ==
    /\ r = [ptr |-> r.ptr, pmm |-> m, slob |-> r.slob] /\ r.ptr # NULL
    /\ r.slob.pages = h.pages
    /\ \E T2 : Obtained(h, T, r.ptr, n, r.slob, T2)

\* Units taken from a free block that is large enough.
LEMMA TakeFitGood ==
    ASSUME NEW m, NEW h, NEW T, HeapFilled(h, T, h.pages), NEW n \in Nat, n >= 2,
           NEW p, p = FirstFit(h, n), p # NULL
    PROVE  Taken(m, h, T, n, TakeFit(m, h, n, p))
<1>0. PICK r : r = TakeFit(m, h, n, p)
  OBVIOUS
<1>1. PICK F, f, cur, k : F = DOMAIN h.next /\ f = h.next /\ cur = f[p] /\ k = Carve(h, p, cur, n)
  OBVIOUS
<1>2. /\ Partition(h, T) /\ CoverOf(T) = AreaOf(h.pages) /\ h.pages \subseteq Page
  BY DEF HeapFilled
<1>3. FreeRing(F, f) /\ h.slobfree \in F
  BY <1>1, <1>2 DEF Partition
<1>4. p \in F /\ h.units[cur] >= n
  BY <1>1, <1>3, FirstFitFacts
<1>5. \E T2 : IsTaken(h, T, cur, n, k, T2)
  BY <1>1, <1>2, <1>4, CarveGood
<1>6. PICK T2 : IsTaken(h, T, cur, n, k, T2)
  BY <1>5
<1>7. k.pages = h.pages /\ Partition(k, T2) /\ CoverOf(T2) = CoverOf(T)
  BY <1>6 DEF IsTaken, SameRest
<1>8. HeapFilled(k, T2, k.pages)
  BY <1>2, <1>7 DEF HeapFilled
<1>9. Obtained(h, T, cur, n, k, T2)
  BY <1>6, <1>7, <1>8 DEF Obtained, IsTaken, SameRest
<1>10. r = [ptr |-> cur, pmm |-> m, slob |-> k]
  BY <1>0, <1>1 DEF TakeFit
<1>11. cur # NULL
  BY <1>1, <1>3, <1>4 DEF FreeRing, NULL
<1>12. QED
  BY <1>0, <1>7, <1>9, <1>10, <1>11 DEF Taken

\* slob_alloc gives units that nobody held and changes nothing else, or refuses.
LEMMA SlobAllocGood ==
    ASSUME NEW m, NEW h, NEW T, NEW U, HeapFilled(h, T, h.pages), h.pages \subseteq U, U \subseteq Page,
           Good(m, U), NEW n \in Nat, n >= 2, n <= PGSIZE,
           NEW r, r = slob_alloc(m, h, n)
    PROVE  \/ Refused(m, h, r)
           \/ /\ r = [ptr |-> r.ptr, pmm |-> r.pmm, slob |-> r.slob] /\ r.ptr # NULL
              /\ Good(r.pmm, U \cup r.slob.pages) /\ U \cup r.slob.pages \subseteq Page
              /\ \E T2 : Obtained(h, T, r.ptr, n, r.slob, T2)
<1> USE PageAllocAssumption
<1>1. PICK p : p = FirstFit(h, n)
  OBVIOUS
<1>2. CASE p # NULL
  <2>1. r = TakeFit(m, h, n, p)
    BY <1>1, <1>2 DEF slob_alloc
  <2>2. /\ r = [ptr |-> r.ptr, pmm |-> m, slob |-> r.slob] /\ r.ptr # NULL
        /\ r.slob.pages = h.pages
        /\ \E T2 : Obtained(h, T, r.ptr, n, r.slob, T2)
    <3>1. Taken(m, h, T, n, TakeFit(m, h, n, p))
      BY <1>1, <1>2, TakeFitGood
    <3>2. QED
      BY <2>1, <3>1 DEF Taken
  <2>3. r.pmm = m
    BY <2>2
  <2>4. U \cup r.slob.pages = U
    BY <2>2
  <2>5. QED
    BY <2>2, <2>3, <2>4
<1>3. CASE p = NULL
  <2>1. PICK a : a = AllocPages(m, 1)
    OBVIOUS
  <2>2. r = GrowAndTake(m, h, n, a)
    BY <1>1, <1>3, <2>1 DEF slob_alloc
  <2>3. CASE a.page = NULL
    BY <2>2, <2>3 DEF GrowAndTake, Refused
  <2>4. CASE a.page # NULL
    <3>1. PICK page : page = a.page
      OBVIOUS
    <3>2. Good(a.pmm, U \cup page .. page + 1 - 1) /\ page \in Page /\ page .. page + 1 - 1 \subseteq Page \ U
      <4>1. 1 \in Nat \ {0} /\ AllocPages(m, 1).page # NULL
        BY <2>1, <2>4
      <4>2. /\ Good(AllocPages(m, 1).pmm, U \cup AllocPages(m, 1).page .. AllocPages(m, 1).page + 1 - 1)
            /\ AllocPages(m, 1).page .. AllocPages(m, 1).page + 1 - 1 \subseteq Page \ U
            /\ AllocPages(m, 1).page \in Page
        BY <4>1, AllocGood
      <4>3. QED
        BY <2>1, <3>1, <4>2
    <3>3. page .. page + 1 - 1 = {page}
      BY <3>2 DEF Page
    <3>4. page \in Page \ U /\ Good(a.pmm, U \cup {page})
      BY <3>2, <3>3
    <3>5. PICK g : g = Grown(h, page)
      OBVIOUS
    <3>6. PICK V : V = h.pages
      OBVIOUS
    <3>7. PICK T1 : /\ HeapFilled(g, T1, V \cup {page}) /\ g.pages = h.pages \cup {page}
                    /\ HeldBlocks(g, T1) = HeldBlocks(h, T)
                    /\ \A s \in HeldBlocks(h, T) : T1[s] = T[s]
                    /\ SizedBlocks(g) = SizedBlocks(h)
                    /\ g.bigblocks = h.bigblocks /\ g.objs = h.objs
                    /\ \E c \in DOMAIN g.next : g.units[c] >= PGSIZE
      <4>1. HeapFilled(h, T, V) /\ page \in Page \ V
        BY <3>4, <3>6
      <4>2. QED
        BY <3>5, <4>1, GrownGood
    <3>8. HeapFilled(g, T1, g.pages)
      BY <3>6, <3>7
    <3>9. PICK q : q = FirstFit(g, n)
      OBVIOUS
    <3>10. q # NULL
      <4>1. PICK F, f : F = DOMAIN g.next /\ f = g.next
        OBVIOUS
      <4>2. FreeRing(F, f) /\ g.slobfree \in F /\ F \subseteq DOMAIN g.units
        BY <3>8, <4>1 DEF HeapFilled, Partition
      <4>3. PICK c \in F : g.units[c] >= PGSIZE
        BY <3>7, <4>1
      <4>4. PICK v : v = g.units[c]
        OBVIOUS
      <4>5. v \in Nat
        <5>1. CASE c = arena
          BY <3>8, <4>4, <5>1 DEF HeapFilled, Partition
        <5>2. CASE c # arena
          BY <3>8, <4>2, <4>4, <5>2 DEF HeapFilled, Partition, Tiled
        <5>3. QED
          BY <5>1, <5>2
      <4>6. v >= n
        BY <4>3, <4>4, <4>5
      <4>7. g.units[c] >= n
        BY <4>4, <4>6
      <4>8. q = NULL => ~(g.units[c] >= n)
        BY <3>9, <4>1, <4>2, FirstFitFacts
      <4>9. QED
        BY <4>7, <4>8
    <3>11. r = TakeFit(a.pmm, g, n, q)
      BY <2>2, <2>4, <3>1, <3>5, <3>9 DEF GrowAndTake
    <3>12. /\ r = [ptr |-> r.ptr, pmm |-> a.pmm, slob |-> r.slob] /\ r.ptr # NULL
           /\ r.slob.pages = g.pages
           /\ \E T2 : Obtained(g, T1, r.ptr, n, r.slob, T2)
      <4>1. Taken(a.pmm, g, T1, n, TakeFit(a.pmm, g, n, q))
        BY <3>8, <3>9, <3>10, TakeFitGood
      <4>2. QED
        BY <3>11, <4>1 DEF Taken
    <3>13. PICK T2 : Obtained(g, T1, r.ptr, n, r.slob, T2)
      BY <3>12
    <3>14. Obtained(h, T, r.ptr, n, r.slob, T2)
      <4>1. /\ HeapFilled(r.slob, T2, r.slob.pages) /\ g.pages \subseteq r.slob.pages
            /\ r.ptr \in DOMAIN T2 /\ T2[r.ptr] = n /\ r.ptr \notin HeldBlocks(h, T)
            /\ HeldBlocks(r.slob, T2) = HeldBlocks(h, T) \cup {r.ptr}
            /\ \A s \in HeldBlocks(h, T) : T2[s] = T1[s]
            /\ SizedBlocks(r.slob) = SizedBlocks(h) \cup {r.ptr}
            /\ r.slob.bigblocks = g.bigblocks /\ r.slob.objs = g.objs
        BY <3>7, <3>13 DEF Obtained
      <4>2. /\ h.pages \subseteq r.slob.pages /\ \A s \in HeldBlocks(h, T) : T2[s] = T[s]
            /\ r.slob.bigblocks = h.bigblocks /\ r.slob.objs = h.objs
        BY <3>7, <4>1
      <4>3. QED
        BY <4>1, <4>2 DEF Obtained
    <3>15. r.pmm = a.pmm
      BY <3>12
    <3>16. U \cup r.slob.pages = U \cup {page}
      BY <3>7, <3>12
    <3>17. QED
      BY <3>4, <3>12, <3>14, <3>15, <3>16
  <2>5. QED
    BY <2>3, <2>4
<1>4. QED
  BY <1>2, <1>3

-----------------------------------------------------------------------------
(***************************************************************************)
(* What the blocks that are not free are used for.                         *)
(***************************************************************************)
PagesOf(L) == {x.pages : x \in L}

NodesOf(L) == {x.bb : x \in L}

\* What clients hold behind a header.
Small(L, O) == DOMAIN O \ PagesOf(L)

HeadersOf(L, O) == {b - 1 : b \in Small(L, O)}

\* The big block x has blocks of its own for its pages and its node.
BigUse(O, T, x) ==
    /\ x.order \in Nat /\ \E p \in Nat : x.pages = PageAddr(p)
    /\ x.pages \in DOMAIN O /\ O[x.pages] <= PGSIZE * Shift[x.order]
    /\ T[x.pages] = PGSIZE * Shift[x.order] /\ T[x.bb] = BigblockUnits

\* The blocks H of T are those of the big blocks L and those of the clients' other
\* blocks O, which are the blocks Z.
Uses(L, O, T, H, Z) ==
    /\ \A x \in L : BigUse(O, T, x)
    /\ \A x, y \in L : x # y => x.pages # y.pages /\ x.bb # y.bb
    /\ \A b \in Small(L, O) : b \in Nat \ {0} /\ O[b] \in Nat \ {0} /\ T[b - 1] = O[b] + 1
    /\ Z = HeadersOf(L, O) /\ H = Z \cup (PagesOf(L) \cup NodesOf(L))
    /\ Z \cap PagesOf(L) = {} /\ Z \cap NodesOf(L) = {} /\ PagesOf(L) \cap NodesOf(L) = {}

\* Only the lengths of the blocks in use matter.
LEMMA UsesKept ==
    ASSUME NEW L, NEW O, NEW T, NEW H, NEW Z, Uses(L, O, T, H, Z),
           NEW T2, \A s \in H : T2[s] = T[s]
    PROVE  Uses(L, O, T2, H, Z)
<1>1. ASSUME NEW x \in L PROVE BigUse(O, T2, x)
  <2>1. x.pages \in H /\ x.bb \in H /\ BigUse(O, T, x)
    BY DEF Uses, PagesOf, NodesOf
  <2>2. T2[x.pages] = T[x.pages] /\ T2[x.bb] = T[x.bb]
    BY <2>1
  <2>3. QED
    BY <2>1, <2>2 DEF BigUse
<1>2. ASSUME NEW b \in Small(L, O) PROVE T2[b - 1] = T[b - 1]
  BY DEF Uses, HeadersOf
<1>3. QED
  BY <1>1, <1>2 DEF Uses

\* A client gets a block behind a header.
LEMMA UsesSmall ==
    ASSUME NEW L, NEW O, NEW T, NEW H, NEW Z, Uses(L, O, T, H, Z), NEW T2,
           \A s \in H : T2[s] = T[s], NEW p \in Nat, p \notin H, NEW size \in Nat \ {0},
           T2[p] = size + 1, p + 1 \notin DOMAIN O
    PROVE  Uses(L, With(O, p + 1, size), T2, H \cup {p}, Z \cup {p})
<1>1. PICK q \in Nat \ {0} : q = p + 1 /\ q - 1 = p
  OBVIOUS
<1>2. PICK O2 : O2 = With(O, q, size)
  OBVIOUS
<1>3. q \notin DOMAIN O
  BY <1>1
<1>4. DOMAIN O2 = DOMAIN O \cup {q} /\ O2[q] = size /\ \A b \in DOMAIN O : O2[b] = O[b]
  BY <1>2, <1>3 DEF With
<1>5. Uses(L, O, T2, H, Z)
  BY UsesKept
<1>6. q \notin PagesOf(L)
  BY <1>3, <1>5 DEF Uses, BigUse, PagesOf
<1>7. Small(L, O2) = Small(L, O) \cup {q}
  BY <1>4, <1>6 DEF Small
<1>8. HeadersOf(L, O2) = HeadersOf(L, O) \cup {p}
  BY <1>1, <1>7 DEF HeadersOf
<1>9. ASSUME NEW x \in L PROVE BigUse(O2, T2, x)
  BY <1>4, <1>5 DEF Uses, BigUse
<1>10. ASSUME NEW b \in Small(L, O2)
       PROVE  b \in Nat \ {0} /\ O2[b] \in Nat \ {0} /\ T2[b - 1] = O2[b] + 1
  <2>1. CASE b = q
    BY <1>1, <1>4, <2>1
  <2>2. CASE b # q
    <3>1. b \in Small(L, O) /\ O2[b] = O[b]
      BY <1>4, <1>7, <1>10, <2>2 DEF Small
    <3>2. QED
      BY <1>5, <3>1 DEF Uses
  <2>3. QED
    BY <2>1, <2>2
<1>11. /\ \A x, y \in L : x # y => x.pages # y.pages /\ x.bb # y.bb
       /\ Z = HeadersOf(L, O) /\ H = Z \cup (PagesOf(L) \cup NodesOf(L))
       /\ Z \cap PagesOf(L) = {} /\ Z \cap NodesOf(L) = {} /\ PagesOf(L) \cap NodesOf(L) = {}
  BY <1>5 DEF Uses
<1>12. Uses(L, O2, T2, H \cup {p}, Z \cup {p})
  BY <1>8, <1>9, <1>10, <1>11 DEF Uses
<1>13. QED
  BY <1>1, <1>2, <1>12

\* A client gives it back.
LEMMA UsesWithoutSmall ==
    ASSUME NEW L, NEW O, NEW T, NEW H, NEW Z, Uses(L, O, T, H, Z), NEW b \in Small(L, O),
           NEW O2, O2 = Restrict(O, DOMAIN O \ {b})
    PROVE  /\ Uses(L, O2, T, H \ {b - 1}, Z \ {b - 1})
           /\ b - 1 \in H /\ b - 1 \in Z
<1>1. DOMAIN O2 = DOMAIN O \ {b} /\ \A a \in DOMAIN O \ {b} : O2[a] = O[a]
  BY DEF Restrict
<1>2. /\ \A x \in L : BigUse(O, T, x)
      /\ \A x, y \in L : x # y => x.pages # y.pages /\ x.bb # y.bb
      /\ \A a \in Small(L, O) : a \in Nat \ {0} /\ O[a] \in Nat \ {0} /\ T[a - 1] = O[a] + 1
      /\ Z = HeadersOf(L, O) /\ H = Z \cup (PagesOf(L) \cup NodesOf(L))
      /\ Z \cap PagesOf(L) = {} /\ Z \cap NodesOf(L) = {} /\ PagesOf(L) \cap NodesOf(L) = {}
  BY DEF Uses
<1>3. b \notin PagesOf(L) /\ b \in Nat \ {0}
  BY <1>2 DEF Small
<1>4. Small(L, O2) = Small(L, O) \ {b}
  BY <1>1 DEF Small
<1>5. HeadersOf(L, O2) = Z \ {b - 1}
  <2>1. \A a \in Small(L, O) : a - 1 = b - 1 => a = b
    BY <1>2, <1>3
  <2>2. QED
    BY <1>2, <1>4, <2>1 DEF HeadersOf
<1>6. b - 1 \in Z
  BY <1>2 DEF HeadersOf
<1>7. ASSUME NEW x \in L PROVE BigUse(O2, T, x)
  <2>1. x.pages # b
    BY <1>3 DEF PagesOf
  <2>2. QED
    BY <1>1, <1>2, <2>1 DEF BigUse
<1>8. \A a \in Small(L, O2) : a \in Nat \ {0} /\ O2[a] \in Nat \ {0} /\ T[a - 1] = O2[a] + 1
  BY <1>1, <1>2, <1>4 DEF Small
<1>9. H \ {b - 1} = (Z \ {b - 1}) \cup (PagesOf(L) \cup NodesOf(L))
  BY <1>2, <1>6
<1>10. QED
  BY <1>2, <1>5, <1>6, <1>7, <1>8, <1>9 DEF Uses

\* A client gets a big block.
LEMMA UsesBig ==
    ASSUME NEW L, NEW O, NEW T, NEW H, NEW Z, Uses(L, O, T, H, Z), NEW T2,
           \A s \in H : T2[s] = T[s], NEW x, x.bb \notin H, x.pages \notin H, x.pages # x.bb,
           x.pages \notin DOMAIN O, NEW O2, NEW size, O2 = With(O, x.pages, size), BigUse(O2, T2, x)
    PROVE  Uses(L \cup {x}, O2, T2, H \cup {x.bb, x.pages}, Z)
<1>1. PICK B, C, K : B = x.pages /\ C = x.bb /\ K = L \cup {x}
  OBVIOUS
<1>2. DOMAIN O2 = DOMAIN O \cup {B} /\ \A b \in DOMAIN O : O2[b] = O[b]
  BY <1>1 DEF With
<1>3. Uses(L, O, T2, H, Z)
  BY UsesKept
<1>4. /\ \A y \in L : BigUse(O, T2, y)
      /\ \A y, z \in L : y # z => y.pages # z.pages /\ y.bb # z.bb
      /\ \A a \in Small(L, O) : a \in Nat \ {0} /\ O[a] \in Nat \ {0} /\ T2[a - 1] = O[a] + 1
      /\ Z = HeadersOf(L, O) /\ H = Z \cup (PagesOf(L) \cup NodesOf(L))
      /\ Z \cap PagesOf(L) = {} /\ Z \cap NodesOf(L) = {} /\ PagesOf(L) \cap NodesOf(L) = {}
  BY <1>3 DEF Uses
<1>5. PagesOf(K) = PagesOf(L) \cup {B} /\ NodesOf(K) = NodesOf(L) \cup {C}
  BY <1>1 DEF PagesOf, NodesOf
<1>6. Small(K, O2) = Small(L, O)
  BY <1>1, <1>2, <1>5 DEF Small
<1>7. HeadersOf(K, O2) = Z
  BY <1>4, <1>6 DEF HeadersOf
<1>8. ASSUME NEW y \in K PROVE BigUse(O2, T2, y)
  <2>1. CASE y = x
    BY <2>1
  <2>2. CASE y \in L
    BY <1>2, <1>4, <2>2 DEF BigUse
  <2>3. QED
    BY <1>1, <1>8, <2>1, <2>2
<1>9. B \notin H /\ C \notin H /\ B # C
  BY <1>1
<1>10. \A y \in L : y.pages # B /\ y.bb # C
  BY <1>4, <1>9 DEF PagesOf, NodesOf
<1>11. \A y, z \in K : y # z => y.pages # z.pages /\ y.bb # z.bb
  BY <1>1, <1>4, <1>10
<1>12. \A a \in Small(K, O2) : a \in Nat \ {0} /\ O2[a] \in Nat \ {0} /\ T2[a - 1] = O2[a] + 1
  BY <1>2, <1>4, <1>6 DEF Small
<1>13. H \cup {C, B} = Z \cup (PagesOf(K) \cup NodesOf(K))
  BY <1>4, <1>5
<1>14. Z \cap PagesOf(K) = {} /\ Z \cap NodesOf(K) = {} /\ PagesOf(K) \cap NodesOf(K) = {}
  BY <1>4, <1>5, <1>9
<1>15. Uses(K, O2, T2, H \cup {C, B}, Z)
  BY <1>7, <1>8, <1>11, <1>12, <1>13, <1>14 DEF Uses
<1>16. QED
  BY <1>1, <1>15

\* A client gives one back.
LEMMA UsesWithoutBig ==
    ASSUME NEW L, NEW O, NEW T, NEW H, NEW Z, Uses(L, O, T, H, Z), NEW x \in L,
           NEW O2, O2 = Restrict(O, DOMAIN O \ {x.pages})
    PROVE  /\ Uses(L \ {x}, O2, T, H \ {x.bb, x.pages}, Z)
           /\ x.bb \in H /\ x.pages \in H /\ x.bb # x.pages /\ x.bb \notin Z /\ x.pages \notin Z
<1>1. PICK B, C, K : B = x.pages /\ C = x.bb /\ K = L \ {x}
  OBVIOUS
<1>2. DOMAIN O2 = DOMAIN O \ {B} /\ \A b \in DOMAIN O \ {B} : O2[b] = O[b]
  BY <1>1 DEF Restrict
<1>3. /\ \A y \in L : BigUse(O, T, y)
      /\ \A y, z \in L : y # z => y.pages # z.pages /\ y.bb # z.bb
      /\ \A a \in Small(L, O) : a \in Nat \ {0} /\ O[a] \in Nat \ {0} /\ T[a - 1] = O[a] + 1
      /\ Z = HeadersOf(L, O) /\ H = Z \cup (PagesOf(L) \cup NodesOf(L))
      /\ Z \cap PagesOf(L) = {} /\ Z \cap NodesOf(L) = {} /\ PagesOf(L) \cap NodesOf(L) = {}
  BY DEF Uses
<1>4. PagesOf(K) = PagesOf(L) \ {B} /\ NodesOf(K) = NodesOf(L) \ {C}
  BY <1>1, <1>3 DEF PagesOf, NodesOf
<1>5. B \in PagesOf(L) /\ C \in NodesOf(L)
  BY <1>1 DEF PagesOf, NodesOf
<1>6. Small(K, O2) = Small(L, O)
  BY <1>2, <1>4, <1>5 DEF Small
<1>7. HeadersOf(K, O2) = Z
  BY <1>3, <1>6 DEF HeadersOf
<1>8. ASSUME NEW y \in K PROVE BigUse(O2, T, y)
  <2>1. y.pages # B /\ y \in L
    BY <1>1, <1>3
  <2>2. QED
    BY <1>2, <1>3, <2>1 DEF BigUse
<1>9. \A a \in Small(K, O2) : a \in Nat \ {0} /\ O2[a] \in Nat \ {0} /\ T[a - 1] = O2[a] + 1
  BY <1>2, <1>3, <1>5, <1>6 DEF Small
<1>10. H \ {C, B} = Z \cup (PagesOf(K) \cup NodesOf(K))
  BY <1>3, <1>4, <1>5
<1>11. Z \cap PagesOf(K) = {} /\ Z \cap NodesOf(K) = {} /\ PagesOf(K) \cap NodesOf(K) = {}
  BY <1>3, <1>4
<1>12. \A y, z \in K : y # z => y.pages # z.pages /\ y.bb # z.bb
  BY <1>1, <1>3
<1>13. Uses(K, O2, T, H \ {C, B}, Z)
  BY <1>7, <1>8, <1>9, <1>10, <1>11, <1>12 DEF Uses
<1>14. C \in H /\ B \in H /\ C # B /\ C \notin Z /\ B \notin Z
  BY <1>3, <1>5
<1>15. QED
  BY <1>1, <1>13, <1>14

-----------------------------------------------------------------------------
(***************************************************************************)
(* The list of big blocks, and the pages of one.                            *)
(***************************************************************************)
\* The list l names nothing twice.
OnceEach(l) == l \in Seq(Range(l)) /\ IsInjective(l)

\* A list of elements of R is one of any set in which its elements are.
LEMMA SeqWithin ==
    ASSUME NEW S, NEW l \in Seq(S), NEW R, Range(l) \subseteq R
    PROVE  l \in Seq(R)
<1>1. Len(l) \in Nat /\ l = [i \in 1 .. Len(l) |-> l[i]] /\ DOMAIN l = 1 .. Len(l)
  BY LenProperties
<1>2. \A i \in 1 .. Len(l) : l[i] \in R
  BY <1>1 DEF Range
<1>3. l \in [1 .. Len(l) -> R]
  BY <1>1, <1>2
<1>4. QED
  BY <1>1, <1>3, FunctionIsSeq

\* A new element at the head of the list.
LEMMA OnceEachPut ==
    ASSUME NEW l, OnceEach(l), NEW x, x \notin ToSet(l)
    PROVE  OnceEach(<<x>> \o l) /\ ToSet(<<x>> \o l) = ToSet(l) \cup {x}
<1>1. PICK R : R = Range(l) \cup {x}
  OBVIOUS
<1>2. ToSet(l) = Range(l) /\ ToSet(<<x>> \o l) = Range(<<x>> \o l)
  BY DEF ToSet, Range
<1>3. l \in Seq(R) /\ x \in R /\ IsInjective(l) /\ x \notin Range(l)
  BY <1>1, <1>2, SeqWithin DEF OnceEach
<1>4. <<x>> \o l \in Seq(R) /\ Range(<<x>> \o l) = Range(l) \cup {x} /\ IsInjective(<<x>> \o l)
  BY <1>3, PutFirstFacts
<1>5. QED
  BY <1>1, <1>2, <1>4 DEF OnceEach

\* An element taken out of the list.
LEMMA OnceEachRemove ==
    ASSUME NEW l, OnceEach(l), NEW x \in ToSet(l)
    PROVE  LET k == RemoveAt(l, CHOOSE i \in DOMAIN l : l[i] = x)
           IN  OnceEach(k) /\ ToSet(k) = ToSet(l) \ {x}
<1>1. PICK i : i = CHOOSE j \in DOMAIN l : l[j] = x
  OBVIOUS
<1>2. PICK R, k : R = Range(l) /\ k = RemoveAt(l, i)
  OBVIOUS
<1>3. l \in Seq(R) /\ IsInjective(l)
  BY <1>2 DEF OnceEach
<1>4. DOMAIN l = 1 .. Len(l)
  BY <1>3, LenProperties
<1>5. i \in 1 .. Len(l) /\ l[i] = x
  <2>1. \E j \in DOMAIN l : l[j] = x
    BY DEF ToSet
  <2>2. QED
    BY <1>1, <1>4, <2>1
<1>6. k \in Seq(R) /\ Range(k) = Range(l) \ {x} /\ IsInjective(k)
  BY <1>2, <1>3, <1>5, RemoveAtFacts
<1>7. k \in Seq(Range(k))
  BY <1>6, SeqWithin
<1>8. ToSet(l) = Range(l) /\ ToSet(k) = Range(k)
  BY DEF ToSet, Range
<1>9. QED
  BY <1>1, <1>2, <1>6, <1>7, <1>8 DEF OnceEach

\* A list that names nothing twice is as long as the set of its elements is large.
LEMMA OnceEachCount ==
    ASSUME NEW l, OnceEach(l)
    PROVE  IsFiniteSet(ToSet(l)) /\ Cardinality(ToSet(l)) = Len(l) /\ Len(l) \in Nat
<1>1. PICK n, R : n = Len(l) /\ R = Range(l)
  OBVIOUS
<1>2. l \in Seq(R) /\ IsInjective(l) /\ ToSet(l) = R
  BY <1>1 DEF OnceEach, ToSet, Range
<1>3. n \in Nat /\ DOMAIN l = 1 .. n /\ l \in [1 .. n -> R]
  BY <1>1, <1>2, LenProperties, ElementOfSeq
<1>4. l \in Bijection(1 .. n, R)
  BY <1>1, <1>2, <1>3 DEF Bijection, Injection, Surjection, IsInjective, Range
<1>5. IsFiniteSet(1 .. n) /\ Cardinality(1 .. n) = n
  BY <1>3, FS_Interval
<1>6. IsFiniteSet(R) /\ Cardinality(R) = n
  <2>1. ExistsBijection(1 .. n, R)
    BY <1>4 DEF ExistsBijection
  <2>2. QED
    BY <1>5, <2>1, FS_Bijection
<1>7. QED
  BY <1>1, <1>2, <1>3, <1>6

\* A page and its address.
LEMMA AddressOfPage ==
    ASSUME NEW p \in Nat
    PROVE  AddrPage(PageAddr(p)) = p /\ PageAddr(p) % PGSIZE = 0
<1> USE PageAllocAssumption
<1>1. PICK N \in Nat \ {0} : N = PGSIZE
  OBVIOUS
<1>2. PICK a \in Nat : a = (p + 1) * N
  OBVIOUS
<1>3. a \div N = p + 1
  BY <1>2, DivUnique
<1>4. a % N = 0
  <2>1. a = N * (a \div N) + (a % N) /\ a % N \in Nat
    BY <1>2
  <2>2. N * (p + 1) = (p + 1) * N
    OBVIOUS
  <2>3. QED
    BY <1>2, <1>3, <2>1, <2>2
<1>5. PageAddr(p) = a
  BY <1>1, <1>2 DEF PageAddr
<1>6. QED
  BY <1>1, <1>3, <1>4, <1>5 DEF AddrPage

\* The pages of a block are the heap's.
LEMMA RunWithin ==
    ASSUME NEW T, Tiled(T), NEW P, P \subseteq Nat, CoverOf(T) = AreaOf(P), NEW base \in Nat,
           NEW k \in Nat \ {0}, PageAddr(base) \in DOMAIN T, T[PageAddr(base)] = PGSIZE * k
    PROVE  base .. base + k - 1 \subseteq P
<1> USE PageAllocAssumption
<1>1. PICK B, Q : B = PageAddr(base) /\ Q = base .. base + k - 1
  OBVIOUS
<1>2. /\ B \in Nat /\ PGSIZE * k \in Nat
      /\ AreaOf(Q) = {a \in Nat : B <= a /\ a < B + PGSIZE * k}
  BY <1>1, RunOfPages
<1>3. AreaOf(Q) \subseteq CoverOf(T)
  BY <1>1, <1>2 DEF CoverOf
<1>4. Q \subseteq Nat
  BY <1>1
<1>5. AreaOf(Q \ P) = AreaOf(Q) \ AreaOf(P)
  BY <1>4, AreaFacts
<1>6. AreaOf(Q \ P) = {}
  BY <1>3, <1>5
<1>7. ASSUME NEW q \in Q \ P PROVE FALSE
  <2>1. q \in Nat
    BY <1>4
  <2>2. PageAddr(q) \in Nat /\ PGSIZE \in Nat /\ PGSIZE > 0
    BY <2>1, RunOfPages
  <2>3. PageAddr(q) \in AreaOf(Q \ P)
    BY <2>2 DEF AreaOf
  <2>4. QED
    BY <1>6, <2>3
<1>8. QED
  BY <1>1, <1>7

\* find_order counts halvings.
LEMMA FindOrderType ==
    ASSUME NEW size \in Nat
    PROVE  find_order(size) \in Nat
<1> USE PageAllocAssumption
<1> DEFINE StepOf(h) == [s \in Nat |-> IF s > PGSIZE THEN 1 + h[s \div 2] ELSE 0]
           order == CHOOSE h : h = StepOf(h)
           Stop == {s \in Nat : ~(s > PGSIZE)}
           v == [s \in Nat |-> 0]
           d == [s \in Nat |-> s \div 2]
           g == [s \in Nat |-> 1 + s]
<1>1. find_order(size) = order[size]
  BY DEF find_order
<1>2. \E f \in [Nat -> Nat] : Recursive(f, Stop, v, d, g)
  <2>1. Stop \in SUBSET Nat /\ v \in [Nat -> Nat] /\ d \in [Nat -> Nat] /\ g \in [Nat -> Nat]
    OBVIOUS
  <2>2. ASSUME NEW s \in Nat \ Stop PROVE d[s] < s
    <3>1. s > 0
      OBVIOUS
    <3>2. s \div 2 < s
      BY <3>1
    <3>3. QED
      BY <3>2
  <2> HIDE DEF Stop, v, d, g
  <2>3. QED
    BY <2>1, <2>2, RecursionExists
<1>3. PICK f \in [Nat -> Nat] : \A s \in Nat : f[s] = IF s \in Stop THEN v[s] ELSE g[f[d[s]]]
  BY <1>2 DEF Recursive
<1>4. f = StepOf(f)
  <2>1. ASSUME NEW s \in Nat PROVE f[s] = IF s > PGSIZE THEN 1 + f[s \div 2] ELSE 0
    <3>1. CASE s > PGSIZE
      <4>1. s \div 2 \in Nat /\ f[s \div 2] \in Nat
        OBVIOUS
      <4>2. f[s] = g[f[s \div 2]]
        BY <1>3, <3>1
      <4>3. QED
        BY <3>1, <4>1, <4>2
    <3>2. CASE ~(s > PGSIZE)
      BY <1>3, <3>2
    <3>3. QED
      BY <3>1, <3>2
  <2>2. QED
    BY <2>1
<1>5. order = StepOf(order)
  BY <1>4
<1> HIDE DEF order
<1>6. order \in [Nat -> Nat]
  <2>1. PICK e : e = order
    OBVIOUS
  <2>2. \A s \in Nat : e[s] = IF s > PGSIZE THEN 1 + e[s \div 2] ELSE 0
    BY <1>5, <2>1
  <2>3. DOMAIN e = Nat /\ e = [s \in Nat |-> e[s]]
    BY <1>5, <2>1
  <2>4. PICK A : A = {s \in Nat : e[s] \notin Nat}
    OBVIOUS
  <2>5. ASSUME A # {} PROVE FALSE
    <3>1. A \subseteq Nat
      BY <2>4
    <3>2. PICK s \in A : \A t \in A : s <= t
      BY <2>5, <3>1, LeastNatural
    <3>3. s \in Nat /\ e[s] \notin Nat
      BY <2>4
    <3>4. s > PGSIZE /\ e[s] = 1 + e[s \div 2]
      BY <2>2, <3>3
    <3>5. s \div 2 \in Nat /\ s \div 2 < s
      BY <3>3, <3>4
    <3>6. s \div 2 \notin A
      BY <3>2, <3>3, <3>5
    <3>7. e[s \div 2] \in Nat
      BY <2>4, <3>5, <3>6
    <3>8. QED
      BY <3>3, <3>4, <3>7
  <2>6. QED
    BY <2>1, <2>3, <2>4, <2>5
<1>7. QED
  BY <1>1, <1>6

-----------------------------------------------------------------------------
(***************************************************************************)
(* kmalloc and kfree keep every block free or in one use.                   *)
(***************************************************************************)
\* A heap whose blocks T fill its pages, each free or in use once.
SlobOK(h, T) ==
    /\ HeapFilled(h, T, h.pages) /\ OnceEach(h.bigblocks)
    /\ Uses(ToSet(h.bigblocks), h.objs, T, HeldBlocks(h, T), SizedBlocks(h))

\* The allocator m and the heap h beside which others own pages, U in all.
SlobGood(m, h, U) == Good(m, U) /\ h.pages \subseteq U /\ U \subseteq Page /\ \E T : SlobOK(h, T)

\* The fields of a heap.
SlobFields == {"units", "next", "slobfree", "bigblocks", "objs", "pages"}

\* What is free depends on the ring and the lengths only.
LEMMA SameRing ==
    ASSUME NEW h, NEW T, Partition(h, T), NEW k, DOMAIN k = SlobFields,
           k.units = h.units, k.next = h.next, k.slobfree = h.slobfree
    PROVE  /\ Partition(k, T) /\ HeldBlocks(k, T) = HeldBlocks(h, T)
           /\ SizedBlocks(k) = SizedBlocks(h)
BY DEF Partition, HeldBlocks, SizedBlocks, SlobFields

\* What was not in use at p is not in use at p + 1 either, for a block of two units or more.
LEMMA NotInside ==
    ASSUME NEW L, NEW O, NEW T, NEW H, NEW Z, Uses(L, O, T, H, Z), NEW T2, Tiled(T2),
           H \subseteq DOMAIN T2, NEW p \in DOMAIN T2, p \notin H, T2[p] >= 2
    PROVE  p + 1 \notin DOMAIN O
<1>1. p \in Nat /\ T2[p] \in Nat
  BY DEF Tiled
<1>2. ASSUME p + 1 \in PagesOf(L) PROVE FALSE
  <2>1. p + 1 \in DOMAIN T2 /\ p < p + 1
    BY <1>1, <1>2 DEF Uses
  <2>2. p + T2[p] <= p + 1
    BY <2>1 DEF Tiled
  <2>3. QED
    BY <1>1, <2>2
<1>3. ASSUME p + 1 \in Small(L, O) PROVE FALSE
  <2>1. (p + 1) - 1 \in Z
    BY <1>3 DEF Uses, HeadersOf
  <2>2. (p + 1) - 1 = p
    BY <1>1
  <2>3. QED
    BY <2>1, <2>2 DEF Uses
<1>4. QED
  BY <1>2, <1>3 DEF Small

\* A block of a client, or none.
LEMMA SmallBlockGood ==
    ASSUME NEW m, NEW h, NEW U, SlobGood(m, h, U), NEW size \in Nat \ {0}, size + 1 <= PGSIZE,
           NEW r, r = SmallBlock(slob_alloc(m, h, size + 1), size)
    PROVE  SlobGood(r.pmm, r.slob, U \cup r.slob.pages) /\ h.pages \subseteq r.slob.pages
<1>1. PICK T : SlobOK(h, T)
  BY DEF SlobGood
<1>2. PICK n \in Nat : n = size + 1 /\ n >= 2 /\ n <= PGSIZE
  OBVIOUS
<1>3. PICK q : q = slob_alloc(m, h, n)
  OBVIOUS
<1>4. r = SmallBlock(q, size)
  BY <1>2, <1>3
<1>5. /\ Good(m, U) /\ h.pages \subseteq U /\ U \subseteq Page /\ HeapFilled(h, T, h.pages)
      /\ OnceEach(h.bigblocks)
      /\ Uses(ToSet(h.bigblocks), h.objs, T, HeldBlocks(h, T), SizedBlocks(h))
  BY <1>1 DEF SlobGood, SlobOK
<1>6. \/ Refused(m, h, q)
      \/ /\ q = [ptr |-> q.ptr, pmm |-> q.pmm, slob |-> q.slob] /\ q.ptr # NULL
         /\ Good(q.pmm, U \cup q.slob.pages) /\ U \cup q.slob.pages \subseteq Page
         /\ \E T2 : Obtained(h, T, q.ptr, n, q.slob, T2)
  BY <1>2, <1>3, <1>5, SlobAllocGood
<1>7. CASE Refused(m, h, q)
  <2>1. r = q /\ q.pmm = m /\ q.slob = h
    BY <1>4, <1>7 DEF Refused, SmallBlock
  <2>2. U \cup h.pages = U
    BY <1>5
  <2>3. QED
    BY <2>1, <2>2
<1>8. CASE /\ q = [ptr |-> q.ptr, pmm |-> q.pmm, slob |-> q.slob] /\ q.ptr # NULL
           /\ Good(q.pmm, U \cup q.slob.pages) /\ U \cup q.slob.pages \subseteq Page
           /\ \E T2 : Obtained(h, T, q.ptr, n, q.slob, T2)
  <2>1. PICK p, k, T2 : p = q.ptr /\ k = q.slob /\ Obtained(h, T, p, n, k, T2)
    BY <1>8
  <2>2. PICK O2, k2 : O2 = With(k.objs, p + 1, size) /\ k2 = [k EXCEPT !.objs = O2]
    OBVIOUS
  <2>3. /\ HeapFilled(k, T2, k.pages) /\ h.pages \subseteq k.pages
        /\ p \in DOMAIN T2 /\ T2[p] = n /\ p \notin HeldBlocks(h, T)
        /\ HeldBlocks(k, T2) = HeldBlocks(h, T) \cup {p}
        /\ \A s \in HeldBlocks(h, T) : T2[s] = T[s]
        /\ SizedBlocks(k) = SizedBlocks(h) \cup {p}
        /\ k.bigblocks = h.bigblocks /\ k.objs = h.objs
    BY <2>1 DEF Obtained
  <2>4. Partition(k, T2) /\ Tiled(T2) /\ DOMAIN k = SlobFields
    BY <2>3 DEF HeapFilled, Partition, SlobFields
  <2>5. p \in Nat /\ HeldBlocks(h, T) \subseteq DOMAIN T2 /\ T2[p] >= 2
    BY <1>2, <2>3, <2>4 DEF Tiled, HeldBlocks
  <2>6. r.pmm = q.pmm /\ r.slob = k2
    BY <1>4, <1>8, <2>1, <2>2 DEF SmallBlock
  <2>7. /\ DOMAIN k2 = SlobFields /\ k2.units = k.units /\ k2.next = k.next /\ k2.slobfree = k.slobfree
        /\ k2.pages = k.pages /\ k2.bigblocks = h.bigblocks /\ k2.objs = With(h.objs, p + 1, size)
    BY <2>2, <2>3, <2>4 DEF SlobFields
  <2>8. Partition(k2, T2) /\ HeldBlocks(k2, T2) = HeldBlocks(k, T2) /\ SizedBlocks(k2) = SizedBlocks(k)
    BY <2>4, <2>7, SameRing
  <2>9. HeapFilled(k2, T2, k2.pages)
    BY <2>3, <2>7, <2>8 DEF HeapFilled
  <2>10. PICK L, O, H, Z : L = ToSet(h.bigblocks) /\ O = h.objs /\ H = HeldBlocks(h, T) /\ Z = SizedBlocks(h)
    OBVIOUS
  <2>11. /\ Uses(L, O, T, H, Z) /\ H \subseteq DOMAIN T2 /\ p \notin H /\ \A s \in H : T2[s] = T[s]
         /\ T2[p] = size + 1
    BY <1>2, <1>5, <2>3, <2>5, <2>10
  <2>12. p + 1 \notin DOMAIN O
    BY <2>3, <2>4, <2>5, <2>11, NotInside
  <2>13. Uses(L, With(O, p + 1, size), T2, H \cup {p}, Z \cup {p})
    BY <2>5, <2>11, <2>12, UsesSmall
  <2>14. SlobOK(k2, T2)
    BY <1>5, <2>3, <2>7, <2>8, <2>9, <2>10, <2>13 DEF SlobOK
  <2>15. QED
    BY <1>8, <2>1, <2>3, <2>6, <2>7, <2>14 DEF SlobGood
<1>9. QED
  BY <1>6, <1>7, <1>8

\* Pages that are not the heap's begin no block of a client.
LEMMA NotHeld ==
    ASSUME NEW L, NEW O, NEW T, NEW H, NEW Z, Uses(L, O, T, H, Z), NEW T2, Tiled(T2),
           H \subseteq DOMAIN T2, \A s \in H : T2[s] = T[s], NEW B \in Nat, B \notin CoverOf(T2)
    PROVE  B \notin DOMAIN O
<1>1. ASSUME B \in PagesOf(L) PROVE FALSE
  <2>1. B \in DOMAIN T2 /\ T2[B] \in Nat /\ T2[B] > 0
    BY <1>1 DEF Uses, Tiled
  <2>2. QED
    BY <2>1 DEF CoverOf
<1>2. ASSUME B \in Small(L, O) PROVE FALSE
  <2>1. B - 1 \in Z /\ O[B] \in Nat \ {0} /\ T[B - 1] = O[B] + 1
    BY <1>2 DEF Uses, HeadersOf
  <2>2. B - 1 \in H
    BY <2>1 DEF Uses
  <2>3. B - 1 \in DOMAIN T2 /\ B - 1 \in Nat /\ T2[B - 1] = O[B] + 1
    BY <2>1, <2>2 DEF Tiled
  <2>4. B - 1 <= B /\ B < (B - 1) + T2[B - 1]
    BY <2>1, <2>3
  <2>5. QED
    BY <2>3, <2>4 DEF CoverOf
<1>3. QED
  BY <1>1, <1>2 DEF Small

\* The node p, just obtained, is given back: the heap h0 with more pages, perhaps.
LEMMA NodeGivenBack ==
    ASSUME NEW h, NEW T, SlobOK(h, T), NEW p, NEW k, NEW T2, Obtained(h, T, p, BigblockUnits, k, T2),
           NEW g, g = slob_free(k, p, BigblockUnits)
    PROVE  g.pages = k.pages /\ \E T3 : SlobOK(g, T3)
<1>1. /\ HeapFilled(k, T2, k.pages) /\ p \in DOMAIN T2 /\ T2[p] = BigblockUnits
      /\ p \notin HeldBlocks(h, T) /\ HeldBlocks(k, T2) = HeldBlocks(h, T) \cup {p}
      /\ \A s \in HeldBlocks(h, T) : T2[s] = T[s]
      /\ SizedBlocks(k) = SizedBlocks(h) \cup {p}
      /\ k.bigblocks = h.bigblocks /\ k.objs = h.objs
  BY DEF Obtained
<1>2. Partition(k, T2) /\ p \notin DOMAIN k.next
  BY <1>1 DEF HeapFilled, HeldBlocks
<1>3. PICK n : n = BigblockUnits
  OBVIOUS
<1>4. n \in Nat /\ n # 0 /\ T2[p] = n
  BY <1>1, <1>3 DEF BigblockUnits
<1>5. \E T3 : IsFreed(k, T2, p, slob_free(k, p, n), T3)
  BY <1>1, <1>2, <1>4, SlobFreeGood
<1>6. PICK T3 : IsFreed(k, T2, p, g, T3)
  BY <1>3, <1>5
<1>7. PICK L, O, H, Z : L = ToSet(h.bigblocks) /\ O = h.objs /\ H = HeldBlocks(h, T) /\ Z = SizedBlocks(h)
  OBVIOUS
<1>8. Uses(L, O, T, H, Z)
  BY <1>7 DEF SlobOK
<1>9. p \notin Z
  BY <1>1, <1>7, <1>8 DEF Uses
<1>10. /\ Partition(g, T3) /\ CoverOf(T3) = CoverOf(T2)
       /\ HeldBlocks(g, T3) = H /\ SizedBlocks(g) = Z
       /\ \A s \in H : T3[s] = T2[s]
       /\ g.bigblocks = h.bigblocks /\ g.objs = h.objs /\ g.pages = k.pages
  BY <1>1, <1>6, <1>7, <1>9 DEF IsFreed, SameRest
<1>11. HeapFilled(g, T3, g.pages)
  BY <1>1, <1>10 DEF HeapFilled
<1>12. \A s \in H : T3[s] = T[s]
  BY <1>1, <1>7, <1>10
<1>13. Uses(L, O, T3, H, Z)
  BY <1>8, <1>12, UsesKept
<1>14. SlobOK(g, T3)
  BY <1>7, <1>10, <1>11, <1>13 DEF SlobOK
<1>15. QED
  BY <1>10, <1>14

\* The heap with the pages base .. base + Shift[order] - 1 on the list of big blocks,
\* for a client that asked for size units; p is the node.
Entered(k, p, size, order, base) ==
    [k EXCEPT !.units = Restrict(@, DOMAIN @ \ {p}),
              !.bigblocks = <<[bb |-> p, order |-> order, pages |-> PageAddr(base)]>> \o @,
              !.pages = @ \cup base .. base + Shift[order] - 1,
              !.objs = With(@, PageAddr(base), size)]

\* The pages and their node are in use.
LEMMA EnteredGood ==
    ASSUME NEW h, NEW T, SlobOK(h, T), NEW p, NEW k, NEW T2, Obtained(h, T, p, BigblockUnits, k, T2),
           NEW order \in Nat, NEW n, n = Shift[order], NEW size \in Nat, size <= PGSIZE * Shift[order],
           NEW base, FreshRun(k.pages, base, n), NEW g, g = Entered(k, p, size, order, base)
    PROVE  g.pages = k.pages \cup base .. base + n - 1 /\ \E T3 : SlobOK(g, T3)
<1> USE PageAllocAssumption
<1>1. /\ HeapFilled(k, T2, k.pages) /\ p \in DOMAIN T2 /\ T2[p] = BigblockUnits
      /\ p \notin HeldBlocks(h, T) /\ HeldBlocks(k, T2) = HeldBlocks(h, T) \cup {p}
      /\ \A s \in HeldBlocks(h, T) : T2[s] = T[s]
      /\ SizedBlocks(k) = SizedBlocks(h) \cup {p}
      /\ k.bigblocks = h.bigblocks /\ k.objs = h.objs
  BY DEF Obtained
<1>2. /\ Partition(k, T2) /\ Tiled(T2) /\ DOMAIN k = SlobFields /\ CoverOf(T2) = AreaOf(k.pages)
      /\ k.pages \subseteq Page
  BY <1>1 DEF HeapFilled, Partition, SlobFields
<1>3. PICK B, T3, P : B = PageAddr(base) /\ T3 = With(T2, B, PGSIZE * n) /\ P = k.pages
  OBVIOUS
<1>4. HasPages(T2, P, base, n, T3)
  BY <1>2, <1>3, PagesAdded
<1>5. /\ Tiled(T3) /\ CoverOf(T3) = AreaOf(P \cup base .. base + n - 1)
      /\ B \notin DOMAIN T2 /\ DOMAIN T3 = DOMAIN T2 \cup {B}
      /\ T3[B] = PGSIZE * n /\ \A s \in DOMAIN T2 : T3[s] = T2[s]
  BY <1>3, <1>4 DEF HasPages
<1>6. base \in Nat /\ n \in Nat \ {0} /\ base .. base + n - 1 \subseteq Page /\ (base .. base + n - 1) \cap P = {}
  BY <1>3 DEF FreshRun, Page
<1>7. B \in Nat /\ B # arena /\ B \notin CoverOf(T2)
  <2>1. /\ B \in Nat /\ B >= PGSIZE /\ PGSIZE * n \in Nat
        /\ AreaOf(base .. base + n - 1) = {a \in Nat : B <= a /\ a < B + PGSIZE * n}
    <3>1. base \in Nat /\ n \in Nat
      BY <1>6
    <3>2. /\ PageAddr(base) \in Nat /\ PageAddr(base) >= PGSIZE /\ PGSIZE * n \in Nat
          /\ AreaOf(base .. base + n - 1) =
               {a \in Nat : PageAddr(base) <= a /\ a < PageAddr(base) + PGSIZE * n}
      BY ONLY <3>1, RunOfPages
    <3>3. QED
      BY <1>3, <3>2
  <2>2. PGSIZE * n # 0
    BY <1>5 DEF Tiled
  <2>3. B \in AreaOf(base .. base + n - 1)
    BY <2>1, <2>2
  <2>4. PICK Q : Q = base .. base + n - 1
    OBVIOUS
  <2>5. Q \subseteq Nat /\ P \subseteq Nat /\ Q \cap P = {}
    BY <1>2, <1>3, <1>6, <2>4 DEF Page
  <2>6. AreaOf(Q) \cap AreaOf(P) = {}
    BY <2>5, AreaFacts
  <2>7. B # arena
    BY <2>1 DEF arena
  <2>8. QED
    BY <1>2, <1>3, <2>1, <2>3, <2>4, <2>6, <2>7
<1>8. PICK x : x = [bb |-> p, order |-> order, pages |-> B]
  OBVIOUS
<1>9. /\ DOMAIN g = SlobFields /\ g.next = k.next /\ g.slobfree = k.slobfree
      /\ g.units = Restrict(k.units, DOMAIN k.units \ {p})
      /\ g.bigblocks = <<x>> \o h.bigblocks /\ g.pages = P \cup base .. base + n - 1
      /\ g.objs = With(h.objs, B, size)
  BY <1>1, <1>2, <1>3, <1>8 DEF Entered, SlobFields
<1>10. DOMAIN g.units = DOMAIN k.units \ {p} /\ \A s \in DOMAIN g.units : g.units[s] = k.units[s]
  BY <1>9 DEF Restrict
<1>11. p \notin DOMAIN k.next /\ p # arena /\ p # B
  <2>1. p \in HeldBlocks(k, T2)
    BY <1>1
  <2>2. p \notin DOMAIN k.next
    BY <2>1 DEF HeldBlocks
  <2>3. QED
    BY <1>1, <1>2, <1>5, <2>2 DEF Partition, FreeRing
<1>12. Partition(g, T3)
  <2>1. /\ FreeRing(DOMAIN k.next, k.next) /\ k.slobfree \in DOMAIN k.next
        /\ DOMAIN k.next \subseteq DOMAIN k.units /\ k.units[arena] = 1
        /\ \A s \in DOMAIN k.units \ {arena} : s \in DOMAIN T2 /\ k.units[s] = T2[s]
        /\ \A c, y \in DOMAIN k.next : c < y => c + k.units[c] < y
    BY <1>2 DEF Partition
  <2>2. DOMAIN g.next \subseteq DOMAIN g.units /\ arena \in DOMAIN g.next
    BY <1>9, <1>10, <1>11, <2>1 DEF FreeRing
  <2>3. g.units[arena] = 1
    BY <1>10, <2>1, <2>2
  <2>4. \A s \in DOMAIN g.units \ {arena} : s \in DOMAIN T3 /\ g.units[s] = T3[s]
    BY <1>5, <1>10, <2>1
  <2>5. ASSUME NEW c \in DOMAIN g.next, NEW y \in DOMAIN g.next, c < y
        PROVE  c + g.units[c] < y
    <3>1. g.units[c] = k.units[c]
      BY <1>10, <2>2
    <3>2. c + k.units[c] < y
      BY <1>9, <2>1, <2>5
    <3>3. QED
      BY <3>1, <3>2
  <2>6. FreeRing(DOMAIN g.next, g.next) /\ g.slobfree \in DOMAIN g.next
    BY <1>9, <2>1
  <2>7. QED
    BY <1>5, <1>9, <2>2, <2>3, <2>4, <2>5, <2>6 DEF Partition, SlobFields
<1>13. HeapFilled(g, T3, g.pages)
  BY <1>2, <1>3, <1>5, <1>6, <1>9, <1>12 DEF HeapFilled
<1>14. PICK L, O, H, Z : L = ToSet(h.bigblocks) /\ O = h.objs /\ H = HeldBlocks(h, T) /\ Z = SizedBlocks(h)
  OBVIOUS
<1>15. Uses(L, O, T, H, Z) /\ OnceEach(h.bigblocks)
  BY <1>14 DEF SlobOK
<1>16. p \notin Z /\ p \notin H
  BY <1>1, <1>14, <1>15 DEF Uses
<1>17. B \notin DOMAIN k.next
  BY <1>2, <1>5, <1>7 DEF Partition
<1>18. H \subseteq DOMAIN T2 /\ B \notin H
  BY <1>1, <1>5, <1>14 DEF HeldBlocks
<1>19. HeldBlocks(g, T3) = H \cup {p, B} /\ SizedBlocks(g) = Z
  <2>1. HeldBlocks(g, T3) = HeldBlocks(k, T2) \cup {B}
    BY <1>5, <1>9, <1>17 DEF HeldBlocks
  <2>2. SizedBlocks(g) = SizedBlocks(k) \ {p}
    BY <1>9, <1>10 DEF SizedBlocks
  <2>3. QED
    BY <1>1, <1>14, <1>16, <2>1, <2>2
<1>20. \A s \in H : T3[s] = T[s]
  BY <1>1, <1>5, <1>14, <1>18
<1>21. B \notin DOMAIN O
  <2>1. \A s \in H : T2[s] = T[s]
    BY <1>1, <1>14
  <2>2. QED
    BY <1>2, <1>7, <1>15, <1>18, <2>1, NotHeld
<1>22. PICK O2 : O2 = With(O, x.pages, size)
  OBVIOUS
<1>23. BigUse(O2, T3, x)
  <2>1. x.bb = p /\ x.order = order /\ x.pages = B
    BY <1>8
  <2>2. B \in DOMAIN O2 /\ O2[B] = size
    BY <1>22, <2>1 DEF With
  <2>3. \E q \in Nat : B = PageAddr(q)
    BY <1>3, <1>6
  <2>4. T3[B] = PGSIZE * Shift[order] /\ T3[p] = BigblockUnits
    BY <1>1, <1>5
  <2>5. QED
    BY <2>1, <2>2, <2>3, <2>4 DEF BigUse
<1>24. x.bb = p /\ x.pages = B
  BY <1>8
<1>25. Uses(L \cup {x}, O2, T3, H \cup {x.bb, x.pages}, Z)
  <2>1. x.bb \notin H /\ x.pages \notin H /\ x.pages # x.bb /\ x.pages \notin DOMAIN O
    BY <1>11, <1>16, <1>18, <1>21, <1>24
  <2>2. QED
    BY <1>15, <1>20, <1>22, <1>23, <2>1, UsesBig
<1>26. x \notin L
  <2>1. ASSUME x \in L PROVE FALSE
    <3>1. x.bb \in H
      BY <1>15, <2>1 DEF Uses, NodesOf
    <3>2. QED
      BY <1>16, <1>24, <3>1
  <2>2. QED
    BY <2>1
<1>27. OnceEach(g.bigblocks) /\ ToSet(g.bigblocks) = L \cup {x}
  BY <1>9, <1>14, <1>15, <1>26, OnceEachPut
<1>28. O2 = g.objs
  BY <1>9, <1>14, <1>22, <1>24
<1>29. SlobOK(g, T3)
  BY <1>13, <1>19, <1>24, <1>25, <1>27, <1>28 DEF SlobOK
<1>30. QED
  BY <1>3, <1>9, <1>29

\* find_order finds enough pages.
RoundsUp(size) == size <= PGSIZE * Shift[find_order(size)]

\* Pages of its own for a client, or none.
LEMMA BigBlockGood ==
    ASSUME NEW m, NEW h, NEW U, SlobGood(m, h, U), NEW size \in Nat, RoundsUp(size),
           NEW r, r = BigBlock(slob_alloc(m, h, BigblockUnits), size)
    PROVE  SlobGood(r.pmm, r.slob, U \cup r.slob.pages) /\ h.pages \subseteq r.slob.pages
<1> USE PageAllocAssumption, SlobAssumption
<1>1. PICK T : SlobOK(h, T)
  BY DEF SlobGood
<1>2. PICK w : w = BigblockUnits
  OBVIOUS
<1>3. w \in Nat /\ w >= 2 /\ w <= PGSIZE
  BY <1>2 DEF BigblockUnits
<1>4. PICK q : q = slob_alloc(m, h, w)
  OBVIOUS
<1>5. r = BigBlock(q, size)
  BY <1>2, <1>4
<1>6. /\ Good(m, U) /\ h.pages \subseteq U /\ U \subseteq Page /\ HeapFilled(h, T, h.pages)
  BY <1>1 DEF SlobGood, SlobOK
<1>7. \/ Refused(m, h, q)
      \/ /\ q = [ptr |-> q.ptr, pmm |-> q.pmm, slob |-> q.slob] /\ q.ptr # NULL
         /\ Good(q.pmm, U \cup q.slob.pages) /\ U \cup q.slob.pages \subseteq Page
         /\ \E T2 : Obtained(h, T, q.ptr, w, q.slob, T2)
  BY <1>3, <1>4, <1>6, SlobAllocGood
<1>8. CASE Refused(m, h, q)
  <2>1. r = q /\ q.pmm = m /\ q.slob = h
    BY <1>5, <1>8 DEF Refused, BigBlock
  <2>2. U \cup h.pages = U
    BY <1>6
  <2>3. QED
    BY <2>1, <2>2
<1>9. CASE /\ q = [ptr |-> q.ptr, pmm |-> q.pmm, slob |-> q.slob] /\ q.ptr # NULL
           /\ Good(q.pmm, U \cup q.slob.pages) /\ U \cup q.slob.pages \subseteq Page
           /\ \E T2 : Obtained(h, T, q.ptr, w, q.slob, T2)
  <2>1. PICK p, k, T2 : p = q.ptr /\ k = q.slob /\ Obtained(h, T, p, BigblockUnits, k, T2)
    BY <1>2, <1>9
  <2>2. h.pages \subseteq k.pages /\ k.pages \subseteq Page
    BY <2>1 DEF Obtained, HeapFilled
  <2>3. PICK order, n, V : order = find_order(size) /\ n = Shift[order] /\ V = U \cup k.pages
    OBVIOUS
  <2>4. order \in Nat /\ n \in Nat \ {0} /\ size <= PGSIZE * Shift[order]
    BY <2>3, FindOrderType, ShiftFacts DEF RoundsUp
  <2>5. PICK a : a = AllocPages(q.pmm, n)
    OBVIOUS
  <2>6. r = BigPages(q, size, order, a)
    BY <1>5, <1>9, <2>3, <2>5 DEF BigBlock
  <2>7. Good(q.pmm, V) /\ V \subseteq Page
    BY <1>9, <2>1, <2>3
  <2>8. CASE a.page = NULL
    <3>1. PICK g : g = slob_free(k, p, BigblockUnits)
      OBVIOUS
    <3>2. r = [q EXCEPT !.ptr = NULL, !.slob = g]
      BY <2>1, <2>6, <2>8, <3>1 DEF BigPages
    <3>3. r.pmm = q.pmm /\ r.slob = g
      BY <1>9, <3>2
    <3>4. g.pages = k.pages /\ \E T3 : SlobOK(g, T3)
      BY <1>1, <2>1, <3>1, NodeGivenBack
    <3>5. QED
      BY <2>2, <2>3, <2>7, <3>3, <3>4 DEF SlobGood
  <2>9. CASE a.page # NULL
    <3>1. PICK base, run : base = a.page /\ run = base .. base + n - 1
      OBVIOUS
    <3>2. /\ Good(a.pmm, V \cup run) /\ run \subseteq Page \ V /\ base \in Page
      <4>1. PICK c : c = q.pmm
        OBVIOUS
      <4>2. Good(c, V) /\ n \in Nat \ {0} /\ AllocPages(c, n).page # NULL
        BY <2>4, <2>5, <2>7, <2>9, <4>1
      <4>3. /\ Good(AllocPages(c, n).pmm, V \cup AllocPages(c, n).page .. AllocPages(c, n).page + n - 1)
            /\ AllocPages(c, n).page .. AllocPages(c, n).page + n - 1 \subseteq Page \ V
            /\ AllocPages(c, n).page \in Page
        BY <4>2, AllocGood
      <4>4. QED
        BY <2>5, <3>1, <4>1, <4>3
    <3>3. FreshRun(k.pages, base, n)
      BY <2>2, <2>3, <2>4, <3>1, <3>2 DEF FreshRun
    <3>4. PICK g : g = Entered(k, p, size, order, base)
      OBVIOUS
    <3>5. r.pmm = a.pmm /\ r.slob = g
      BY <2>1, <2>6, <2>9, <3>1, <3>4 DEF BigPages, Entered
    <3>6. g.pages = k.pages \cup base .. base + n - 1 /\ \E T3 : SlobOK(g, T3)
      BY <1>1, <2>1, <2>3, <2>4, <3>3, <3>4, EnteredGood
    <3>7. U \cup g.pages = V \cup run /\ h.pages \subseteq g.pages /\ V \cup run \subseteq Page
      BY <2>2, <2>3, <2>7, <3>1, <3>2, <3>6
    <3>8. g.pages \subseteq U \cup g.pages
      OBVIOUS
    <3>9. QED
      BY <3>2, <3>5, <3>6, <3>7, <3>8 DEF SlobGood
  <2>10. QED
    BY <2>8, <2>9
<1>10. QED
  BY <1>7, <1>8, <1>9

\* kmalloc keeps the heap as it should be, for sizes that find_order gets right.
LEMMA SlobKmallocGood ==
    ASSUME NEW m, NEW h, NEW U, SlobGood(m, h, U), NEW size \in Nat, Servable(size),
           size >= PGSIZE - 1 => RoundsUp(size), NEW r, r = __kmalloc(m, h, size)
    PROVE  SlobGood(r.pmm, r.slob, U \cup r.slob.pages) /\ h.pages \subseteq r.slob.pages
<1> USE PageAllocAssumption
<1>1. CASE size < PGSIZE - 1
  <2>1. r = SmallBlock(slob_alloc(m, h, size + 1), size)
    BY <1>1 DEF __kmalloc
  <2>2. size \in Nat \ {0} /\ size + 1 <= PGSIZE
    BY <1>1 DEF Servable
  <2>3. QED
    BY <2>1, <2>2, SmallBlockGood
<1>2. CASE ~(size < PGSIZE - 1)
  <2>1. r = BigBlock(slob_alloc(m, h, BigblockUnits), size)
    BY <1>2 DEF __kmalloc
  <2>2. RoundsUp(size)
    BY <1>2
  <2>3. QED
    BY <2>1, <2>2, BigBlockGood
<1>3. QED
  BY <1>1, <1>2

\* The block of a client and its header are free again.
LEMMA SmallFreeGood ==
    ASSUME NEW h, NEW T, SlobOK(h, T), NEW block \in Small(ToSet(h.bigblocks), h.objs),
           NEW g, g = slob_free([h EXCEPT !.objs = Restrict(@, DOMAIN @ \ {block})], block - 1, 0)
    PROVE  g.pages = h.pages /\ \E T2 : SlobOK(g, T2)
<1>1. PICK L, O, H, Z : L = ToSet(h.bigblocks) /\ O = h.objs /\ H = HeldBlocks(h, T) /\ Z = SizedBlocks(h)
  OBVIOUS
<1>2. HeapFilled(h, T, h.pages) /\ Uses(L, O, T, H, Z) /\ OnceEach(h.bigblocks)
  BY <1>1 DEF SlobOK
<1>3. PICK O2 : O2 = Restrict(O, DOMAIN O \ {block})
  OBVIOUS
<1>4. PICK b : b = block - 1
  OBVIOUS
<1>5. Uses(L, O2, T, H \ {b}, Z \ {b}) /\ b \in H /\ b \in Z
  <2>1. block \in Small(L, O)
    BY <1>1
  <2>2. QED
    BY <1>2, <1>3, <1>4, <2>1, UsesWithoutSmall
<1>6. PICK k : k = [h EXCEPT !.objs = O2]
  OBVIOUS
<1>7. Partition(h, T) /\ DOMAIN h = SlobFields /\ CoverOf(T) = AreaOf(h.pages) /\ h.pages \subseteq Page
  BY <1>2 DEF HeapFilled, Partition, SlobFields
<1>8. /\ DOMAIN k = SlobFields /\ k.units = h.units /\ k.next = h.next /\ k.slobfree = h.slobfree
      /\ k.bigblocks = h.bigblocks /\ k.pages = h.pages /\ k.objs = O2
  BY <1>6, <1>7 DEF SlobFields
<1>9. Partition(k, T) /\ HeldBlocks(k, T) = H /\ SizedBlocks(k) = Z
  BY <1>1, <1>7, <1>8, SameRing
<1>10. b \in DOMAIN T /\ b \notin DOMAIN k.next /\ b \in DOMAIN k.units
  BY <1>5, <1>9 DEF HeldBlocks, SizedBlocks
<1>11. PICK z \in Nat : z = 0
  OBVIOUS
<1>12. \E T2 : IsFreed(k, T, b, slob_free(k, b, z), T2)
  BY <1>9, <1>10, <1>11, SlobFreeGood
<1>13. g = slob_free(k, b, z)
  BY <1>1, <1>3, <1>4, <1>6, <1>11
<1>14. PICK T2 : IsFreed(k, T, b, g, T2)
  BY <1>12, <1>13
<1>15. /\ Partition(g, T2) /\ CoverOf(T2) = CoverOf(T)
       /\ HeldBlocks(g, T2) = H \ {b} /\ SizedBlocks(g) = Z \ {b}
       /\ \A s \in H \ {b} : T2[s] = T[s]
       /\ g.bigblocks = h.bigblocks /\ g.objs = O2 /\ g.pages = h.pages
  BY <1>8, <1>9, <1>14 DEF IsFreed, SameRest
<1>16. HeapFilled(g, T2, g.pages)
  BY <1>7, <1>15 DEF HeapFilled
<1>17. Uses(L, O2, T2, H \ {b}, Z \ {b})
  <2>1. PICK H2, Z2 : H2 = H \ {b} /\ Z2 = Z \ {b}
    OBVIOUS
  <2>2. Uses(L, O2, T, H2, Z2) /\ \A s \in H2 : T2[s] = T[s]
    BY <1>5, <1>15, <2>1
  <2>3. Uses(L, O2, T2, H2, Z2)
    BY <2>2, UsesKept
  <2>4. QED
    BY <2>1, <2>3
<1>18. SlobOK(g, T2)
  BY <1>1, <1>2, <1>15, <1>16, <1>17 DEF SlobOK
<1>19. QED
  BY <1>15, <1>18

\* The pages of a big block are the page allocator's again, and its node is free.
LEMMA BigFreeGood ==
    ASSUME NEW m, NEW h, NEW U, NEW T, SlobOK(h, T), Good(m, U), h.pages \subseteq U, U \subseteq Page,
           NPage - 1 \notin U, NEW x \in ToSet(h.bigblocks),
           NEW r, r = FreeBig(m, [h EXCEPT !.objs = Restrict(@, DOMAIN @ \ {x.pages})], x.pages, x)
    PROVE  /\ SlobGood(r.pmm, r.slob, (U \ h.pages) \cup r.slob.pages)
           /\ r.slob.pages \subseteq h.pages
<1> USE PageAllocAssumption
<1>1. PICK L, O, H, Z : L = ToSet(h.bigblocks) /\ O = h.objs /\ H = HeldBlocks(h, T) /\ Z = SizedBlocks(h)
  OBVIOUS
<1>2. HeapFilled(h, T, h.pages) /\ Uses(L, O, T, H, Z) /\ OnceEach(h.bigblocks) /\ x \in L
  BY <1>1 DEF SlobOK
<1>3. PICK O2, B, C, K : O2 = Restrict(O, DOMAIN O \ {x.pages}) /\ B = x.pages /\ C = x.bb /\ K = L \ {x}
  OBVIOUS
<1>4. /\ Uses(K, O2, T, H \ {C, B}, Z)
      /\ C \in H /\ B \in H /\ C # B /\ C \notin Z /\ B \notin Z
  <2>1. /\ Uses(L \ {x}, O2, T, H \ {x.bb, x.pages}, Z)
        /\ x.bb \in H /\ x.pages \in H /\ x.bb # x.pages /\ x.bb \notin Z /\ x.pages \notin Z
    BY <1>2, <1>3, UsesWithoutBig
  <2>2. QED
    BY <1>3, <2>1
<1>5. BigUse(O, T, x)
  BY <1>2 DEF Uses
<1>6. PICK p \in Nat : B = PageAddr(p)
  BY <1>3, <1>5 DEF BigUse
<1>7. PICK n : n = Shift[x.order]
  OBVIOUS
<1>8. n \in Nat \ {0} /\ T[B] = PGSIZE * n /\ T[C] = BigblockUnits
  <2>1. x.order \in Nat /\ T[B] = PGSIZE * n /\ T[C] = BigblockUnits
    BY <1>3, <1>5, <1>7 DEF BigUse
  <2>2. QED
    BY <1>7, <2>1, ShiftFacts
<1>9. /\ Partition(h, T) /\ Tiled(T) /\ DOMAIN h = SlobFields /\ CoverOf(T) = AreaOf(h.pages)
      /\ h.pages \subseteq Page
  BY <1>2 DEF HeapFilled, Partition, SlobFields
<1>10. PICK P, run : P = h.pages /\ run = p .. p + n - 1
  OBVIOUS
<1>11. P \subseteq Nat /\ run \subseteq Nat
  BY <1>9, <1>10 DEF Page
<1>12. B \in DOMAIN T
  BY <1>1, <1>4 DEF HeldBlocks
<1>13. run \subseteq P
  <2>1. Tiled(T) /\ CoverOf(T) = AreaOf(P) /\ PageAddr(p) \in DOMAIN T /\ T[PageAddr(p)] = PGSIZE * n
    BY <1>6, <1>8, <1>9, <1>10, <1>12
  <2>2. p .. p + n - 1 \subseteq P
    BY <1>8, <1>11, <2>1, RunWithin
  <2>3. QED
    BY <1>10, <2>2
<1>14. p \in Page
  <2>1. p \in run
    BY <1>8, <1>10
  <2>2. QED
    BY <1>9, <1>10, <1>13, <2>1
<1>15. Good(FreePages(m, p, n), U \ run)
  <2>1. p .. p + n - 1 \subseteq U
    BY <1>10, <1>13
  <2>2. Good(FreePages(m, p, n), U \ p .. p + n - 1)
    BY <1>8, <1>14, <2>1, FreeGood
  <2>3. QED
    BY <1>10, <2>2
<1>16. AddrPage(B) = p
  BY <1>6, AddressOfPage
<1>17. PICK k : k = [h EXCEPT !.objs = O2]
  OBVIOUS
<1>18. /\ DOMAIN k = SlobFields /\ k.units = h.units /\ k.next = h.next /\ k.slobfree = h.slobfree
       /\ k.bigblocks = h.bigblocks /\ k.pages = P /\ k.objs = O2
  BY <1>9, <1>10, <1>17 DEF SlobFields
<1>19. PICK l : l = RemoveAt(k.bigblocks, CHOOSE i \in DOMAIN k.bigblocks : k.bigblocks[i] = x)
  OBVIOUS
<1>20. OnceEach(l) /\ ToSet(l) = K
  BY <1>1, <1>2, <1>3, <1>18, <1>19, OnceEachRemove
<1>21. PICK e : e = [k EXCEPT !.bigblocks = l, !.pages = P \ run]
  OBVIOUS
<1>22. /\ DOMAIN e = SlobFields /\ e.units = h.units /\ e.next = h.next /\ e.slobfree = h.slobfree
       /\ e.bigblocks = l /\ e.pages = P \ run /\ e.objs = O2
  BY <1>18, <1>21 DEF SlobFields
<1>23. r.pmm = FreePages(m, p, n) /\ r.slob = slob_free(e, C, BigblockUnits)
  <2>1. r = FreeBig(m, k, B, x)
    BY <1>1, <1>3, <1>17
  <2>2. QED
    BY <1>3, <1>7, <1>10, <1>16, <1>18, <1>19, <1>21, <2>1 DEF FreeBig
<1>24. PICK M : M = [s \in DOMAIN T \ {B} |-> T[s]]
  OBVIOUS
<1>25. /\ Tiled(M) /\ DOMAIN M = DOMAIN T \ {B} /\ \A s \in DOMAIN M : M[s] = T[s]
       /\ CoverOf(M) = CoverOf(T) \ {a \in Nat : B <= a /\ a < B + T[B]}
  BY <1>9, <1>12, <1>24, TileRemoved
<1>26. CoverOf(M) = AreaOf(P \ run)
  <2>1. AreaOf(p .. p + n - 1) = {a \in Nat : PageAddr(p) <= a /\ a < PageAddr(p) + PGSIZE * n}
    BY <1>8, RunOfPages
  <2>2. AreaOf(run) = {a \in Nat : B <= a /\ a < B + T[B]}
    BY <1>6, <1>8, <1>10, <2>1
  <2>3. AreaOf(P \ run) = AreaOf(P) \ AreaOf(run)
    BY <1>11, AreaFacts
  <2>4. QED
    BY <1>9, <1>10, <1>25, <2>2, <2>3
<1>27. B \notin DOMAIN h.next /\ B \notin DOMAIN h.units /\ C \notin DOMAIN h.next /\ C \notin DOMAIN h.units
  BY <1>1, <1>4 DEF HeldBlocks, SizedBlocks
<1>28. Partition(e, M)
  <2>1. \A s \in DOMAIN h.units \ {arena} : s \in DOMAIN M /\ h.units[s] = M[s]
    BY <1>9, <1>25, <1>27 DEF Partition
  <2>2. QED
    BY <1>9, <1>22, <1>25, <2>1 DEF Partition, SlobFields
<1>29. HeldBlocks(e, M) = H \ {B} /\ SizedBlocks(e) = Z
  BY <1>1, <1>22, <1>25 DEF HeldBlocks, SizedBlocks
<1>30. C \in DOMAIN M /\ C \notin DOMAIN e.next /\ M[C] = BigblockUnits
  BY <1>1, <1>4, <1>8, <1>22, <1>25, <1>27 DEF HeldBlocks
<1>31. \E T2 : IsFreed(e, M, C, r.slob, T2)
  <2>1. PICK w : w = BigblockUnits
    OBVIOUS
  <2>2. w \in Nat /\ w # 0 /\ M[C] = w
    BY <1>30, <2>1 DEF BigblockUnits
  <2>3. \E T2 : IsFreed(e, M, C, slob_free(e, C, w), T2)
    BY <1>28, <1>30, <2>2, SlobFreeGood
  <2>4. QED
    BY <1>23, <2>1, <2>3
<1>32. PICK g, T2 : g = r.slob /\ IsFreed(e, M, C, g, T2)
  BY <1>31
<1>33. /\ Partition(g, T2) /\ CoverOf(T2) = CoverOf(M)
       /\ HeldBlocks(g, T2) = H \ {C, B} /\ SizedBlocks(g) = Z
       /\ \A s \in H \ {C, B} : T2[s] = M[s]
       /\ g.bigblocks = l /\ g.objs = O2 /\ g.pages = P \ run
  BY <1>4, <1>22, <1>29, <1>32 DEF IsFreed, SameRest
<1>34. HeapFilled(g, T2, g.pages)
  BY <1>9, <1>10, <1>26, <1>33 DEF HeapFilled
<1>35. \A s \in H \ {C, B} : T2[s] = T[s]
  BY <1>1, <1>25, <1>33 DEF HeldBlocks
<1>36. Uses(K, O2, T2, H \ {C, B}, Z)
  <2>1. PICK H2 : H2 = H \ {C, B}
    OBVIOUS
  <2>2. Uses(K, O2, T, H2, Z) /\ \A s \in H2 : T2[s] = T[s]
    BY <1>4, <1>35, <2>1
  <2>3. Uses(K, O2, T2, H2, Z)
    BY <2>2, UsesKept
  <2>4. QED
    BY <2>1, <2>3
<1>37. SlobOK(g, T2)
  BY <1>20, <1>33, <1>34, <1>36 DEF SlobOK
<1>38. (U \ h.pages) \cup g.pages = U \ run /\ g.pages \subseteq h.pages
  BY <1>10, <1>13, <1>33
<1>39. QED
  BY <1>15, <1>23, <1>32, <1>37, <1>38 DEF SlobGood

\* kfree keeps the heap as it should be.
LEMMA SlobKfreeGood ==
    ASSUME NEW m, NEW h, NEW U, SlobGood(m, h, U), NPage - 1 \notin U, NEW block \in DOMAIN h.objs,
           NEW r, r = kfree(m, h, block)
    PROVE  /\ SlobGood(r.pmm, r.slob, (U \ h.pages) \cup r.slob.pages)
           /\ r.slob.pages \subseteq h.pages
<1>1. PICK T : SlobOK(h, T)
  BY DEF SlobGood
<1>2. Good(m, U) /\ h.pages \subseteq U /\ U \subseteq Page
  BY DEF SlobGood
<1>3. PICK L, O : L = ToSet(h.bigblocks) /\ O = h.objs
  OBVIOUS
<1>4. Uses(L, O, T, HeldBlocks(h, T), SizedBlocks(h))
  BY <1>1, <1>3 DEF SlobOK
<1>5. PICK big, k : /\ big = {x \in L : x.pages = block}
                    /\ k = [h EXCEPT !.objs = Restrict(@, DOMAIN @ \ {block})]
  OBVIOUS
<1>6. CASE big # {}
  <2>1. PICK x : x = CHOOSE y \in big : TRUE
    OBVIOUS
  <2>2. x \in L /\ x.pages = block
    BY <1>5, <1>6, <2>1
  <2>3. block % PGSIZE = 0
    <3>1. PICK p \in Nat : block = PageAddr(p)
      BY <1>4, <2>2 DEF Uses, BigUse
    <3>2. QED
      BY <3>1, AddressOfPage
  <2>4. r = FreeBig(m, k, x.pages, x)
    BY <1>3, <1>5, <1>6, <2>1, <2>2, <2>3 DEF kfree
  <2>5. QED
    BY <1>1, <1>2, <1>3, <1>5, <2>2, <2>4, BigFreeGood
<1>7. CASE big = {}
  <2>1. block \in Small(L, O)
    BY <1>3, <1>5, <1>7 DEF Small, PagesOf
  <2>2. r = [pmm |-> m, slob |-> slob_free(k, block - 1, 0)]
    BY <1>3, <1>5, <1>7 DEF kfree
  <2>3. PICK g : g = slob_free(k, block - 1, 0)
    OBVIOUS
  <2>4. g.pages = h.pages /\ \E T2 : SlobOK(g, T2)
    BY <1>1, <1>3, <1>5, <2>1, <2>3, SmallFreeGood
  <2>5. r.pmm = m /\ r.slob = g /\ (U \ h.pages) \cup g.pages = U
    BY <1>2, <2>2, <2>3, <2>4
  <2>6. QED
    BY <1>2, <2>4, <2>5 DEF SlobGood
<1>8. QED
  BY <1>6, <1>7

-----------------------------------------------------------------------------
(***************************************************************************)
(* The blocks, as SlobExact speaks of them.                                 *)
(***************************************************************************)
\* What lies at one block.
LEMMA SpanIs ==
    ASSUME NEW T, Tiled(T), NEW s \in DOMAIN T
    PROVE  /\ Span(s, T[s]) = {a \in Nat : s <= a /\ a < s + T[s]}
           /\ s \in Span(s, T[s])
<1>1. s \in Nat /\ T[s] \in Nat /\ T[s] > 0
  BY DEF Tiled
<1>2. PICK n \in Nat : n = T[s] /\ n > 0
  BY <1>1
<1>3. s .. s + n - 1 = {a \in Nat : s <= a /\ a < s + n} /\ s \in s .. s + n - 1
  BY <1>1, <1>2
<1>4. QED
  BY <1>2, <1>3 DEF Span

\* The blocks, as sets of units.
Spans(T) == {Span(s, T[s]) : s \in DOMAIN T}

\* There are as many as blocks, and they are disjoint.
LEMMA SpansOf ==
    ASSUME NEW T, Tiled(T)
    PROVE  /\ UNION Spans(T) = CoverOf(T) /\ \A s, t \in Spans(T) : s = t \/ s \cap t = {}
           /\ IsFiniteSet(DOMAIN T) /\ Cardinality(Spans(T)) = Cardinality(DOMAIN T)
<1>0. PICK S : S = {Span(s, T[s]) : s \in DOMAIN T} /\ S = Spans(T)
  BY DEF Spans
<1>1. DOMAIN T \subseteq Nat /\ \A s \in DOMAIN T : T[s] \in Nat /\ T[s] > 0 /\ s + T[s] <= HeapTop
  BY DEF Tiled
<1>2. UNION S = CoverOf(T)
  <2>1. ASSUME NEW a \in UNION S PROVE a \in CoverOf(T)
    <3>1. PICK s \in DOMAIN T : a \in Span(s, T[s])
      BY <1>0, <2>1
    <3>2. QED
      BY <3>1, SpanIs DEF CoverOf
  <2>2. ASSUME NEW a \in CoverOf(T) PROVE a \in UNION S
    <3>1. PICK s \in DOMAIN T : a \in Nat /\ s <= a /\ a < s + T[s]
      BY <2>2 DEF CoverOf
    <3>2. a \in Span(s, T[s])
      BY <3>1, SpanIs
    <3>3. QED
      BY <1>0, <3>2
  <2>3. QED
    BY <2>1, <2>2
<1>3. ASSUME NEW s \in DOMAIN T, NEW t \in DOMAIN T, s # t
      PROVE  Span(s, T[s]) \cap Span(t, T[t]) = {}
  <2>1. s \in Nat /\ t \in Nat /\ T[s] \in Nat /\ T[t] \in Nat
    BY <1>1
  <2>2. s + T[s] <= t \/ t + T[t] <= s
    BY <1>3, <2>1 DEF Tiled
  <2>3. /\ Span(s, T[s]) = {a \in Nat : s <= a /\ a < s + T[s]}
        /\ Span(t, T[t]) = {a \in Nat : t <= a /\ a < t + T[t]}
    BY SpanIs
  <2>4. ASSUME NEW a \in Nat, s <= a, a < s + T[s], t <= a, a < t + T[t] PROVE FALSE
    BY <2>1, <2>2, <2>4
  <2>5. QED
    BY <2>3, <2>4
<1>4. IsFiniteSet(DOMAIN T)
  <2>1. PICK top \in Nat : top = HeapTop
    BY HeapTopType
  <2>2. ASSUME NEW s \in DOMAIN T PROVE s \in 0 .. top
    <3>1. s \in Nat /\ T[s] \in Nat /\ s + T[s] <= top
      BY <1>1, <2>1
    <3>2. QED
      BY <2>1, <3>1
  <2>3. IsFiniteSet(0 .. top)
    BY <2>1, FS_Interval
  <2>4. DOMAIN T \in SUBSET (0 .. top)
    BY <2>2
  <2>5. QED
    BY <2>3, <2>4, FS_Subset
<1>5. PICK D : D = DOMAIN T
  OBVIOUS
<1>6. PICK f : f = [s \in D |-> Span(s, T[s])]
  OBVIOUS
<1>7. f \in Bijection(D, S)
  <2>1. \A s, t \in D : f[s] = f[t] => s = t
    BY <1>3, <1>5, <1>6, SpanIs
  <2>2. f \in [D -> S] /\ \A y \in S : \E s \in D : f[s] = y
    BY <1>0, <1>5, <1>6
  <2>3. QED
    BY <2>1, <2>2 DEF Bijection, Injection, Surjection, IsInjective
<1>8. Cardinality(S) = Cardinality(D)
  <2>1. ExistsBijection(D, S)
    BY <1>7 DEF ExistsBijection
  <2>2. QED
    BY <1>4, <1>5, <2>1, FS_Bijection
<1>9. \A s, t \in S : s = t \/ s \cap t = {}
  BY <1>0, <1>3
<1>10. QED
  BY <1>0, <1>2, <1>4, <1>5, <1>8, <1>9

\* There is one run of pages and one node for each element of the list.
LEMMA BigCounts ==
    ASSUME NEW L, IsFiniteSet(L), \A x, y \in L : x # y => x.pages # y.pages /\ x.bb # y.bb
    PROVE  /\ IsFiniteSet(PagesOf(L)) /\ Cardinality(PagesOf(L)) = Cardinality(L)
           /\ IsFiniteSet(NodesOf(L)) /\ Cardinality(NodesOf(L)) = Cardinality(L)
<1>1. PICK f, g : f = [x \in L |-> x.pages] /\ g = [x \in L |-> x.bb]
  OBVIOUS
<1>2. f \in Bijection(L, PagesOf(L))
  BY <1>1 DEF Bijection, Injection, Surjection, IsInjective, PagesOf
<1>3. g \in Bijection(L, NodesOf(L))
  BY <1>1 DEF Bijection, Injection, Surjection, IsInjective, NodesOf
<1>4. ExistsBijection(L, PagesOf(L)) /\ ExistsBijection(L, NodesOf(L))
  BY <1>2, <1>3 DEF ExistsBijection
<1>5. QED
  BY <1>4, FS_Bijection

\* The ring from arena round, ascending, with gaps.
LEMMA RingAscends ==
    ASSUME NEW h, NEW T, Partition(h, T), NEW w, w = RingFrom(h, arena)
    PROVE  /\ ToSet(w) = DOMAIN h.next /\ Last(w) = arena
           /\ \A i \in 1 .. Len(w) - 2 : w[i] + h.units[w[i]] < w[i + 1]
<1>1. PICK F, f : F = DOMAIN h.next /\ f = h.next
  OBVIOUS
<1>2. FreeRing(F, f) /\ \A c, x \in F : c < x => c + h.units[c] < x
  BY <1>1 DEF Partition
<1>3. arena \in F
  BY <1>2 DEF FreeRing
<1>4. RoundFrom(w, F, f, arena)
  BY <1>1, <1>2, <1>3, RingFromFacts
<1>5. PICK n \in Nat \ {0} : n = Len(w)
  BY <1>4 DEF RoundFrom
<1>6. /\ w \in Seq(F) /\ w[n] = arena /\ \A i \in 1 .. n - 1 : w[i + 1] = f[w[i]]
      /\ \A c \in F : \E i \in 1 .. n : w[i] = c
      /\ \A i, j \in 1 .. n : w[i] = w[j] => i = j
  BY <1>4, <1>5 DEF RoundFrom
<1>7. DOMAIN w = 1 .. n /\ \A i \in 1 .. n : w[i] \in F
  BY <1>5, <1>6, LenProperties, ElementOfSeq
<1>8. ToSet(w) = F
  BY <1>6, <1>7 DEF ToSet
<1>9. Last(w) = arena
  BY <1>5, <1>6 DEF Last
<1>10. ASSUME NEW i \in 1 .. n - 2 PROVE w[i] + h.units[w[i]] < w[i + 1]
  <2>1. i \in 1 .. n - 1 /\ i \in 1 .. n /\ i + 1 \in 1 .. n /\ n \in 1 .. n /\ i + 1 # n
    BY <1>10
  <2>2. PICK c, x : c = w[i] /\ x = w[i + 1]
    OBVIOUS
  <2>3. c \in F /\ x \in F /\ x = f[c] /\ x # arena
    BY <1>6, <1>7, <2>1, <2>2
  <2>4. c < x
    <3>1. ~(\A y \in F : y <= c)
      BY <1>2, <2>3 DEF FreeRing
    <3>2. PICK y \in F : ~(y <= c)
      BY <3>1
    <3>3. c < y
      BY <1>2, <2>3, <3>2 DEF FreeRing
    <3>4. QED
      BY <1>2, <2>3, <3>2, <3>3 DEF FreeRing
  <2>5. c + h.units[c] < x
    BY <1>2, <2>3, <2>4
  <2>6. QED
    BY <2>2, <2>5
<1>11. QED
  BY <1>1, <1>5, <1>8, <1>9, <1>10

\* What SlobOK says of the heap, in the words of SlobExact.
LEMMA SlobOKExact ==
    ASSUME NEW T, SlobOK(slob, T)
    PROVE  SlobExact
<1> USE PageAllocAssumption
<1>1. PICK h, F, L, O, H, Z : /\ h = slob /\ F = DOMAIN h.next /\ L = ToSet(h.bigblocks)
                              /\ O = h.objs /\ H = HeldBlocks(h, T) /\ Z = SizedBlocks(h)
  OBVIOUS
<1>2. HeapFilled(h, T, h.pages) /\ OnceEach(h.bigblocks) /\ Uses(L, O, T, H, Z)
  BY <1>1 DEF SlobOK
<1>3. /\ Partition(h, T) /\ Tiled(T) /\ CoverOf(T) = AreaOf(h.pages) /\ h.pages \subseteq Page
  BY <1>2 DEF HeapFilled, Partition
<1>4. /\ FreeRing(F, h.next) /\ h.slobfree \in F /\ F \subseteq DOMAIN h.units
      /\ \A s \in DOMAIN h.units \ {arena} : s \in DOMAIN T /\ h.units[s] = T[s]
  BY <1>1, <1>3 DEF Partition
<1>5. arena \in F /\ arena \notin DOMAIN T
  <2>1. arena \in F
    BY <1>4 DEF FreeRing
  <2>2. \A s \in DOMAIN T : s >= PGSIZE /\ s \in Nat
    BY <1>3 DEF Tiled
  <2>3. QED
    BY <2>1, <2>2 DEF arena
<1>6. /\ \A x \in L : BigUse(O, T, x)
      /\ \A x, y \in L : x # y => x.pages # y.pages /\ x.bb # y.bb
      /\ \A b \in Small(L, O) : b \in Nat \ {0} /\ O[b] \in Nat \ {0} /\ T[b - 1] = O[b] + 1
      /\ Z = HeadersOf(L, O) /\ H = Z \cup (PagesOf(L) \cup NodesOf(L))
      /\ Z \cap PagesOf(L) = {} /\ Z \cap NodesOf(L) = {} /\ PagesOf(L) \cap NodesOf(L) = {}
  BY <1>2 DEF Uses
<1>7. FreeBlocks = F /\ BigStarts = PagesOf(L) /\ SmallHeaders = Z
  BY <1>1, <1>6 DEF FreeBlocks, BigStarts, SmallHeaders, PagesOf, HeadersOf, Small
<1>8. /\ H = DOMAIN T \ F /\ Z = DOMAIN h.units \ F /\ F \ {arena} \subseteq DOMAIN T
      /\ Z \subseteq DOMAIN T
  BY <1>1, <1>4, <1>5 DEF HeldBlocks, SizedBlocks
<1>9. DOMAIN T = (PagesOf(L) \cup NodesOf(L)) \cup (Z \cup (F \ {arena}))
  BY <1>5, <1>6, <1>8
<1>10. PICK S : S = {Span(s, T[s]) : s \in DOMAIN T} /\ S = Spans(T)
  BY DEF Spans
<1>11. Pieces = S
  <2>1. \A x \in L : BigSpan(x) = Span(x.pages, T[x.pages]) /\ Span(x.bb, BigblockUnits) = Span(x.bb, T[x.bb])
    BY <1>6 DEF BigUse, BigSpan
  <2>2. \A b \in Z \cup (F \ {arena}) : h.units[b] = T[b]
    BY <1>4, <1>5, <1>8
  <2>3. Pieces = {Span(x.pages, T[x.pages]) : x \in L} \cup {Span(x.bb, T[x.bb]) : x \in L}
                   \cup {Span(b, T[b]) : b \in Z \cup (F \ {arena})}
    <3>1. Pieces = {BigSpan(x) : x \in L} \cup {Span(x.bb, BigblockUnits) : x \in L}
                     \cup {Span(b, h.units[b]) : b \in Z \cup (F \ {arena})}
      BY <1>1, <1>7 DEF Pieces
    <3>2. QED
      BY <2>1, <2>2, <3>1
  <2>4. /\ {Span(x.pages, T[x.pages]) : x \in L} = {Span(s, T[s]) : s \in PagesOf(L)}
        /\ {Span(x.bb, T[x.bb]) : x \in L} = {Span(s, T[s]) : s \in NodesOf(L)}
    BY DEF PagesOf, NodesOf
  <2>5. QED
    BY <1>9, <1>10, <2>3, <2>4
<1>12. /\ UNION S = CoverOf(T) /\ \A s, t \in S : s = t \/ s \cap t = {}
       /\ IsFiniteSet(DOMAIN T) /\ Cardinality(S) = Cardinality(DOMAIN T)
  BY <1>3, <1>10, SpansOf
<1>13. UNION {Span(PageAddr(p), PGSIZE) : p \in h.pages} = AreaOf(h.pages)
  <2>1. ASSUME NEW p \in h.pages
        PROVE  Span(PageAddr(p), PGSIZE) = {a \in Nat : PageAddr(p) <= a /\ a < PageAddr(p) + PGSIZE}
    <3>1. PICK B \in Nat : B = PageAddr(p)
      <4>1. p \in Nat
        BY <1>3 DEF Page
      <4>2. QED
        BY <4>1, RunOfPages
    <3>2. B .. B + PGSIZE - 1 = {a \in Nat : B <= a /\ a < B + PGSIZE}
      OBVIOUS
    <3>3. QED
      BY <3>1, <3>2 DEF Span
  <2>2. QED
    BY <2>1 DEF AreaOf
<1>14. Cardinality(S) = 2 * Len(h.bigblocks) + Cardinality(Z \cup F) - 1
  <2>1. PICK A, B, C : A = PagesOf(L) /\ B = NodesOf(L) /\ C = Z \cup (F \ {arena})
    OBVIOUS
  <2>2. PICK n \in Nat : n = Len(h.bigblocks) /\ IsFiniteSet(L) /\ Cardinality(L) = n
    BY <1>1, <1>2, OnceEachCount
  <2>3. IsFiniteSet(A) /\ Cardinality(A) = n /\ IsFiniteSet(B) /\ Cardinality(B) = n
    BY <1>6, <2>1, <2>2, BigCounts
  <2>4. A \cap B = {} /\ (A \cup B) \cap C = {} /\ DOMAIN T = (A \cup B) \cup C
    BY <1>6, <1>8, <1>9, <2>1
  <2>5. IsFiniteSet(C)
    <3>1. C \in SUBSET DOMAIN T
      BY <2>4
    <3>2. QED
      BY <1>12, <3>1, FS_Subset
  <2>6. IsFiniteSet({}) /\ Cardinality({}) = 0
    BY FS_EmptySet
  <2>7. IsFiniteSet(A \cup B) /\ Cardinality(A \cup B) = n + n
    <3>1. Cardinality(A \cup B) = Cardinality(A) + Cardinality(B) - Cardinality(A \cap B) /\ IsFiniteSet(A \cup B)
      BY <2>3, FS_Union
    <3>2. Cardinality(A \cap B) = 0
      BY <2>4, <2>6
    <3>3. QED
      BY <2>3, <3>1, <3>2
  <2>8. PICK c \in Nat : c = Cardinality(C)
    BY <2>5, FS_CardinalityType
  <2>9. Cardinality(DOMAIN T) = n + n + c
    <3>1. Cardinality((A \cup B) \cup C) = Cardinality(A \cup B) + Cardinality(C) - Cardinality((A \cup B) \cap C)
      BY <2>5, <2>7, FS_Union
    <3>2. Cardinality((A \cup B) \cap C) = 0 /\ Cardinality((A \cup B) \cup C) = Cardinality(DOMAIN T)
      BY <2>4, <2>6
    <3>3. QED
      BY <2>7, <2>8, <3>1, <3>2
  <2>10. Cardinality(Z \cup F) = c + 1
    <3>1. Z \cup F = C \cup {arena} /\ arena \notin C
      BY <1>5, <1>8, <2>1
    <3>2. Cardinality(C \cup {arena}) = Cardinality(C) + 1
      BY <2>5, <3>1, FS_AddElement
    <3>3. QED
      BY <2>8, <3>1, <3>2
  <2>11. QED
    BY <1>12, <2>2, <2>9, <2>10
<1>15. \A b \in DOMAIN O \ PagesOf(L) : h.units[b - 1] = O[b] + 1
  <2>1. ASSUME NEW b \in DOMAIN O \ PagesOf(L) PROVE h.units[b - 1] = O[b] + 1
    <3>1. b \in Small(L, O)
      BY DEF Small
    <3>2. b - 1 \in Z /\ T[b - 1] = O[b] + 1
      BY <1>6, <3>1 DEF HeadersOf
    <3>3. h.units[b - 1] = T[b - 1]
      BY <1>4, <1>5, <1>8, <3>2
    <3>4. QED
      BY <3>2, <3>3
  <2>2. QED
    BY <2>1
<1>16. \A x \in L : O[x.pages] <= PGSIZE * Shift[x.order]
  BY <1>6 DEF BigUse
<1>17. PICK w : w = RingFrom(h, arena)
  OBVIOUS
<1>18. /\ ToSet(w) = F /\ Last(w) = arena
       /\ \A i \in 1 .. Len(w) - 2 : w[i] + h.units[w[i]] < w[i + 1]
  BY <1>1, <1>3, <1>17, RingAscends
<1>19. Z \cap F = {} /\ DOMAIN h.units = Z \cup F
  BY <1>4, <1>8
<1>20. /\ UNION Pieces = UNION {Span(PageAddr(p), PGSIZE) : p \in slob.pages}
       /\ \A s, t \in Pieces : s = t \/ s \cap t = {}
       /\ Cardinality(Pieces) = 2 * Len(slob.bigblocks) + Cardinality(SmallHeaders \cup FreeBlocks) - 1
       /\ SmallHeaders \cap FreeBlocks = {}
       /\ DOMAIN slob.units = SmallHeaders \cup FreeBlocks
  BY <1>1, <1>3, <1>7, <1>11, <1>12, <1>13, <1>14, <1>19
<1>21. /\ \A b \in DOMAIN slob.objs \ BigStarts : slob.units[b - 1] = slob.objs[b] + 1
       /\ \A x \in ToSet(slob.bigblocks) : slob.objs[x.pages] <= PGSIZE * Shift[x.order]
       /\ slob.slobfree \in FreeBlocks
  BY <1>1, <1>4, <1>7, <1>15, <1>16
<1>22. LET ring == RingFrom(slob, arena)
       IN  /\ ToSet(ring) = FreeBlocks
           /\ \A i \in 1 .. Len(ring) - 2 : ring[i] + slob.units[ring[i]] < ring[i + 1]
           /\ Last(ring) = arena
  BY <1>1, <1>7, <1>17, <1>18
<1>23. QED
  BY <1>20, <1>21, <1>22 DEF SlobExact

\* Nothing but arena is in the heap at first.
LEMMA InitialSlobOK == SlobOK(InitialSlob, <<>>)
<1> USE PageAllocAssumption
<1>1. PICK h, T : h = InitialSlob /\ T = <<>>
  OBVIOUS
<1>2. /\ DOMAIN h = {"units", "next", "slobfree", "bigblocks", "objs", "pages"}
      /\ h.units = [b \in {arena} |-> 1] /\ h.next = [b \in {arena} |-> arena] /\ h.slobfree = arena
      /\ h.bigblocks = <<>> /\ h.objs = <<>> /\ h.pages = {}
  BY <1>1 DEF InitialSlob
<1>3. DOMAIN T = {}
  BY <1>1
<1>4. Tiled(T) /\ CoverOf(T) = {}
  BY <1>3 DEF Tiled, CoverOf
<1>5. AreaOf(h.pages) = {} /\ h.pages \subseteq Page
  BY <1>2 DEF AreaOf
<1>6. DOMAIN h.next = {arena} /\ DOMAIN h.units = {arena} /\ h.units[arena] = 1
  BY <1>2
<1>7. FreeRing(DOMAIN h.next, h.next)
  <2>1. arena \in 0 .. HeapTop
    BY HeapTopType DEF arena
  <2>2. \A c \in {arena} : h.next[c] = arena
    BY <1>2
  <2>3. \A c, x \in {arena} : ~(c < x)
    BY DEF arena
  <2>4. QED
    BY <1>6, <2>1, <2>2, <2>3 DEF FreeRing
<1>8. \A c, x \in {arena} : ~(c < x)
  BY DEF arena
<1>9. Partition(h, T)
  BY <1>2, <1>4, <1>6, <1>7, <1>8 DEF Partition
<1>10. HeldBlocks(h, T) = {} /\ SizedBlocks(h) = {}
  BY <1>3, <1>6 DEF HeldBlocks, SizedBlocks
<1>11. ToSet(h.bigblocks) = {} /\ OnceEach(h.bigblocks)
  <2>1. <<>> \in Seq({}) /\ DOMAIN <<>> = {}
    OBVIOUS
  <2>2. QED
    BY <1>2, <2>1 DEF OnceEach, ToSet, Range, IsInjective
<1>12. Uses({}, h.objs, T, {}, {})
  <2>1. PagesOf({}) = {} /\ NodesOf({}) = {}
    BY DEF PagesOf, NodesOf
  <2>2. Small({}, h.objs) = {}
    BY <1>2 DEF Small
  <2>3. HeadersOf({}, h.objs) = {}
    BY <2>2 DEF HeadersOf
  <2>4. QED
    BY <2>1, <2>2, <2>3 DEF Uses
<1>13. HeapFilled(h, T, h.pages)
  BY <1>4, <1>5, <1>9 DEF HeapFilled
<1>14. QED
  BY <1>1, <1>10, <1>11, <1>12, <1>13 DEF SlobOK

-----------------------------------------------------------------------------
(***************************************************************************)
(* The whole system.                                                        *)
(***************************************************************************)
\* find_order rounds no size down that kmalloc is asked for.
SizesRoundUp == \A size \in Sizes : size >= PGSIZE - 1 => RoundsUp(size)

\* lab8's heap is as it should be, and the last page is never given away; lab2 has
\* no such heap, and SlubInv holds of its own.
HeapsInv ==
    /\ SlubInv
    /\ lab = "lab8" => SlobGood(pmm, slob, used) /\ NPage - 1 \notin used
    /\ lab = "lab2" => slob = InitialSlob

\* The heaps at first.
LEMMA InitHeapsInv ==
    ASSUME Init
    PROVE  HeapsInv
<1> USE PageAllocAssumption
<1>1. SlubInv
  BY InitSlubInv
<1>2. slob = InitialSlob
  BY DEF Init
<1>3. ASSUME lab = "lab8" PROVE SlobGood(pmm, slob, used) /\ NPage - 1 \notin used
  <2>1. pmm = InitialPmm("default_pmm_manager") /\ used = {}
    BY <1>3 DEF Init
  <2>2. Good(pmm, used)
    BY <2>1, InitialGood DEF Managers
  <2>3. \E T : SlobOK(slob, T)
    BY <1>2, InitialSlobOK
  <2>4. slob.pages \subseteq used
    BY <1>2 DEF InitialSlob
  <2>5. QED
    BY <2>1, <2>2, <2>3, <2>4 DEF SlobGood
<1>4. QED
  BY <1>1, <1>2, <1>3 DEF HeapsInv

\* Other clients of the page allocator take and give back other pages.
LEMMA ClientHeapsInv ==
    ASSUME TopStaysFree, HeapsInv, lab = "lab8",
           \/ \E n \in 1 .. NPage : client_alloc_pages(n)
           \/ \E base \in Page : \E n \in 1 .. NPage - base : client_free_pages(base, n)
    PROVE  SlobGood(pmm', slob', used') /\ NPage - 1 \notin used'
<1> USE PageAllocAssumption
<1>1. slob' = slob
  BY DEF client_alloc_pages, client_free_pages
<1>2. PICK m, U : m = pmm /\ U = used
  OBVIOUS
<1>3. /\ Good(m, U) /\ slob.pages \subseteq U /\ U \subseteq Page /\ NPage - 1 \notin U
      /\ \E T : SlobOK(slob, T)
  BY <1>2 DEF HeapsInv, SlobGood
<1>4. /\ Good(pmm', used') /\ slob.pages \subseteq used' /\ used' \subseteq Page
      /\ NPage - 1 \notin used'
  <2>1. ASSUME NEW n \in 1 .. NPage, client_alloc_pages(n)
        PROVE  /\ Good(pmm', used') /\ slob.pages \subseteq used' /\ used' \subseteq Page
               /\ NPage - 1 \notin used'
    <3>1. PICK a : /\ a = AllocPages(pmm, n) /\ a.page # NULL /\ pmm' = a.pmm
                   /\ used' = used \cup a.page .. a.page + n - 1
                   /\ TopKept
      BY <2>1 DEF client_alloc_pages, alloc_pages
    <3>2. n \in Nat \ {0} /\ a = AllocPages(m, n) /\ AllocPages(m, n).page # NULL
      BY <1>2, <3>1
    <3>3. /\ Good(a.pmm, U \cup a.page .. a.page + n - 1)
          /\ a.page .. a.page + n - 1 \subseteq Page \ U
      BY <1>3, <3>2, AllocGood
    <3>4. QED
      BY <1>2, <1>3, <3>1, <3>3 DEF TopKept
  <2>2. ASSUME NEW base \in Page, NEW n \in 1 .. NPage - base, client_free_pages(base, n)
        PROVE  /\ Good(pmm', used') /\ slob.pages \subseteq used' /\ used' \subseteq Page
               /\ NPage - 1 \notin used'
    <3>1. /\ base .. base + n - 1 \subseteq U /\ pmm' = FreePages(m, base, n)
          /\ used' = U \ base .. base + n - 1 /\ (base .. base + n - 1) \cap HeapPages = {}
      BY <1>2, <2>2 DEF client_free_pages, free_pages
    <3>2. n \in Nat \ {0}
      BY DEF Page
    <3>3. Good(FreePages(m, base, n), U \ base .. base + n - 1)
      BY <1>3, <3>1, <3>2, FreeGood
    <3>4. slob.pages \subseteq used'
      BY <1>3, <3>1 DEF HeapPages
    <3>5. QED
      BY <1>3, <3>1, <3>3, <3>4
  <2>3. QED
    BY <2>1, <2>2
<1>5. QED
  BY <1>1, <1>3, <1>4 DEF SlobGood

\* Calls of lab2's heap are made in lab2 and leave lab8's alone.
LEMMA SlubCallsApart ==
    ASSUME SlubInv,
           \/ \E size \in Sizes : lab2_kmalloc(size)
           \/ \E block \in DOMAIN slub.objs : lab2_kfree(block) \/ own_cache_free(block)
           \/ own_cache_create \/ own_cache_alloc \/ own_cache_destroy
    PROVE  lab = "lab2" /\ lab' = lab /\ slob' = slob
<1>1. lab \in {"lab8", "lab2"} /\ (lab = "lab8" => slub = NoSlub)
  BY DEF SlubInv
<1>2. lab = "lab8" => DOMAIN slub.caches = {} /\ DOMAIN slub.objs = {}
  <2>1. DOMAIN <<>> = {}
    OBVIOUS
  <2>2. QED
    BY <1>1, <2>1 DEF NoSlub
<1>3. \E r : SlubStep(r)
  BY DEF lab2_kmalloc, lab2_kfree, own_cache_free, own_cache_create, own_cache_alloc,
         own_cache_destroy
<1>4. lab' = lab /\ slob' = slob
  BY <1>3 DEF SlubStep
<1>5. lab = "lab2"
  BY <1>1, <1>2 DEF lab2_kmalloc, lab2_kfree, own_cache_create, own_cache_alloc,
                    own_cache_destroy
<1>6. QED
  BY <1>4, <1>5

\* Every call keeps it.
LEMMA NextHeapsInv ==
    ASSUME TopStaysFree, SizesRoundUp, HeapsInv, [Next]_vars
    PROVE  HeapsInv'
<1> USE KmallocAssumption
<1>1. SlubInv'
  BY NextSlubInv DEF HeapsInv
<1>2. SlubInv
  BY DEF HeapsInv
<1>3. PICK m, h, U : m = pmm /\ h = slob /\ U = used
  OBVIOUS
<1>4. lab = "lab8" => SlobGood(m, h, U) /\ NPage - 1 \notin U
  BY <1>3 DEF HeapsInv
<1>5. CASE \/ \E size \in Sizes : lab2_kmalloc(size)
           \/ \E block \in DOMAIN slub.objs : lab2_kfree(block) \/ own_cache_free(block)
           \/ own_cache_create \/ own_cache_alloc \/ own_cache_destroy
  <2>1. lab = "lab2" /\ lab' = lab /\ slob' = slob
    BY <1>2, <1>5, SlubCallsApart
  <2>2. QED
    BY <1>1, <2>1 DEF HeapsInv
<1>6. CASE \/ \E n \in 1 .. NPage : client_alloc_pages(n)
           \/ \E base \in Page : \E n \in 1 .. NPage - base : client_free_pages(base, n)
  <2>1. lab' = lab /\ slob' = slob
    BY <1>6 DEF client_alloc_pages, client_free_pages
  <2>2. lab = "lab8" => SlobGood(pmm', slob', used') /\ NPage - 1 \notin used'
    BY <1>6, ClientHeapsInv
  <2>3. QED
    BY <1>1, <2>1, <2>2 DEF HeapsInv
<1>7. ASSUME NEW size \in Sizes, lab8_kmalloc(size) PROVE HeapsInv'
  <2>1. PICK r : r = __kmalloc(m, h, size) /\ SlobStep(r) /\ lab = "lab8" /\ Servable(size)
    BY <1>3, <1>7 DEF lab8_kmalloc
  <2>2. /\ pmm' = r.pmm /\ slob' = r.slob /\ used' = (U \ h.pages) \cup r.slob.pages
        /\ NPage - 1 \notin used' /\ lab' = lab
    BY <1>3, <2>1 DEF SlobStep, TopKept
  <2>3. size \in Nat /\ (size >= PGSIZE - 1 => RoundsUp(size))
    BY DEF SizesRoundUp
  <2>4. SlobGood(r.pmm, r.slob, U \cup r.slob.pages) /\ h.pages \subseteq r.slob.pages
    BY <1>4, <2>1, <2>3, SlobKmallocGood
  <2>5. used' = U \cup r.slob.pages
    BY <2>2, <2>4
  <2>6. SlobGood(pmm', slob', used')
    BY <2>2, <2>4, <2>5
  <2>7. QED
    BY <1>1, <2>1, <2>2, <2>6 DEF HeapsInv
<1>8. ASSUME NEW block \in DOMAIN slob.objs, lab8_kfree(block) PROVE HeapsInv'
  <2>1. PICK r : r = kfree(m, h, block) /\ SlobStep(r) /\ lab = "lab8"
    BY <1>3, <1>8 DEF lab8_kfree
  <2>2. /\ pmm' = r.pmm /\ slob' = r.slob /\ used' = (U \ h.pages) \cup r.slob.pages
        /\ NPage - 1 \notin used' /\ lab' = lab
    BY <1>3, <2>1 DEF SlobStep, TopKept
  <2>3. block \in DOMAIN h.objs
    BY <1>3
  <2>4. SlobGood(r.pmm, r.slob, (U \ h.pages) \cup r.slob.pages)
    BY <1>4, <2>1, <2>3, SlobKfreeGood
  <2>5. SlobGood(pmm', slob', used')
    BY <2>2, <2>4
  <2>6. QED
    BY <1>1, <2>1, <2>2, <2>5 DEF HeapsInv
<1>9. CASE UNCHANGED vars
  <2>1. lab' = lab /\ pmm' = pmm /\ used' = used /\ slob' = slob
    BY <1>9 DEF vars
  <2>2. QED
    BY <1>1, <2>1 DEF HeapsInv
<1>10. QED
  BY <1>5, <1>6, <1>7, <1>8, <1>9 DEF Next

\* What HeapsInv says of lab8's heap and of the pages.
LEMMA HeapsInvExact ==
    ASSUME HeapsInv
    PROVE  SlobExact /\ FreeListExact /\ ContiguousServed
<1>1. lab \in {"lab8", "lab2"}
  BY DEF HeapsInv, SlubInv
<1>2. \E T : SlobOK(slob, T)
  <2>1. CASE lab = "lab8"
    BY <2>1 DEF HeapsInv, SlobGood
  <2>2. CASE lab = "lab2"
    BY <2>2, InitialSlobOK DEF HeapsInv
  <2>3. QED
    BY <1>1, <2>1, <2>2
<1>3. PageInv
  <2>1. CASE lab = "lab8"
    BY <2>1 DEF HeapsInv, SlobGood, PageInv
  <2>2. CASE lab = "lab2"
    BY <2>2 DEF HeapsInv, SlubInv, HeapGood, Here, PageInv
  <2>3. QED
    BY <1>1, <2>1, <2>2
<1>4. QED
  BY <1>2, <1>3, SlobOKExact, PageInvExact, PageInvServes

\* Whatever is asked of kmalloc and given back to kfree, and whoever uses the page
\* allocator beside them: every unit of the heap's pages is in one big block, one
\* bigblock_t, one client's block or one free block; the ring reaches every free block
\* once, ascending; no two free blocks touch.  For any number of pages, size of a page
\* and sizes asked for, as long as the last page is never given away and find_order
\* rounds none of the sizes down.
THEOREM SlobAlwaysExact ==
    ASSUME TopStaysFree, SizesRoundUp
    PROVE  Spec => []SlobExact
<1>1. Init => HeapsInv
  BY InitHeapsInv
<1>2. HeapsInv /\ [Next]_vars => HeapsInv'
  BY NextHeapsInv
<1>3. HeapsInv => SlobExact
  BY HeapsInvExact
<1>4. QED
  BY <1>1, <1>2, <1>3, PTL DEF Spec

\* Under the heaps, and with other clients beside them, the page allocator stays exact
\* and serves whatever it has room for.
THEOREM PagesExactUnderHeaps ==
    ASSUME TopStaysFree, SizesRoundUp
    PROVE  Spec => [](FreeListExact /\ ContiguousServed)
<1>1. Init => HeapsInv
  BY InitHeapsInv
<1>2. HeapsInv /\ [Next]_vars => HeapsInv'
  BY NextHeapsInv
<1>3. HeapsInv => FreeListExact /\ ContiguousServed
  BY HeapsInvExact
<1>4. QED
  BY <1>1, <1>2, <1>3, PTL DEF Spec
=============================================================================
