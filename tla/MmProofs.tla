------------------------------ MODULE MmProofs ------------------------------
(***************************************************************************)
(* Address spaces, for any number of pages, size of page tables, programs  *)
(* and processes.                                                          *)
(*                                                                         *)
(* The tables of the address spaces that exist have three levels, which    *)
(* Level computes from the roots.  Owned says that no page is referred to  *)
(* twice from them: it keeps the levels apart, so that a change to one     *)
(* table is a change to one address space, below one entry.  Every         *)
(* function of pmm.c is a lemma from Owned to Owned.                       *)
(***************************************************************************)
EXTENDS Mm, WellFoundedInduction, FiniteSetTheorems, SequenceTheorems, TLAPS

VPage == 0 .. NVirtual - 1

\* What the entries of the tables in T refer to.
Level(E, T) == {q \in Page : \E t \in T : \E i \in Index : E[t][i] = q}

Dirs(E, R) == Level(E, R)

Leaves(E, R) == Level(E, Level(E, R))

\* The tables of the address spaces with roots R, and the pages of their memory.
Live(E, R) == R \cup Dirs(E, R) \cup Leaves(E, R)

Mapped(E, R) == Level(E, Leaves(E, R))

MemType ==
    [free : SUBSET Page, ref : [Page -> 0 .. 2], entry : [Page -> [Index -> 0 .. NPages]],
     cell : [Page -> [Offset -> Value]]]

\* Each page that a table refers to has no other referrer, is no root and not free,
\* and page_ref says so.
OneReferrer(m, R) ==
    \A t \in Live(m.entry, R) : \A i \in Index :
      m.entry[t][i] # 0 =>
        /\ m.entry[t][i] \notin m.free /\ m.entry[t][i] \notin R
        /\ m.ref[m.entry[t][i]] = 1
        /\ \A u \in Live(m.entry, R) : \A j \in Index :
             m.entry[u][j] = m.entry[t][i] => u = t /\ j = i

\* Free pages and tables hold nothing of anybody's memory.
Owned(m, R) ==
    /\ m \in MemType /\ R \subseteq Page /\ R \cap m.free = {}
    /\ OneReferrer(m, R)
    /\ \A q \in m.free : m.ref[q] = 0 /\ m.cell[q] = Fresh
    /\ \A t \in Live(m.entry, R) : m.cell[t] = Fresh

-----------------------------------------------------------------------------
\* Arithmetic.

\* Every set of natural numbers that is not empty has a least member.
LEMMA LeastNatural ==
    ASSUME NEW T, T \subseteq Nat, T # {}
    PROVE  \E n \in T : \A m \in T : n <= m
<1>1. PICK n \in T : \A m \in T : <<m, n>> \notin OpToRel(<, Nat)
  BY WFMin, NatLessThanWellFounded
<1>2. \A m \in T : ~(m < n)
  BY <1>1 DEF OpToRel
<1>3. QED
  BY <1>2

\* The page that alloc_page takes is one of the free ones.
LEMMA MinIsMember ==
    ASSUME NEW S, S \subseteq Nat, S # {}
    PROVE  Min(S) \in S /\ \A x \in S : Min(S) <= x
<1>1. \E x \in S : \A y \in S : x <= y
  BY LeastNatural
<1>2. QED
  BY <1>1 DEF Min

\* Quotient and remainder.
LEMMA DivFacts ==
    ASSUME NEW a \in Nat, NEW n \in Nat \ {0}
    PROVE  /\ a \div n \in Nat /\ a % n \in 0 .. n - 1
           /\ a = n * (a \div n) + (a % n)
<1>1. a \div n \in Int /\ a \div n >= 0 /\ a % n \in 0 .. n - 1
  OBVIOUS
<1>2. a = n * (a \div n) + (a % n)
  OBVIOUS
<1>3. QED
  BY <1>1, <1>2

\* They are the only numbers with that property.
LEMMA DivUnique ==
    ASSUME NEW n \in Nat \ {0}, NEW q \in Nat, NEW r \in 0 .. n - 1
    PROVE  (n * q + r) \div n = q /\ (n * q + r) % n = r /\ n * q + r \in Nat
<1>1. ASSUME NEW a \in Nat, a = n * q + r PROVE a \div n = q /\ a % n = r
  BY <1>1
<1>2. n * q + r \in Nat
  OBVIOUS
<1>3. QED
  BY <1>1, <1>2

\* A quotient is as small as its dividend is.
LEMMA DivBelow ==
    ASSUME NEW a \in Nat, NEW n \in Nat \ {0}, NEW b \in Nat, a < n * b
    PROVE  a \div n \in 0 .. b - 1
<1> DEFINE q == a \div n
<1>1. q \in Nat /\ n * q <= a
  BY DivFacts
<1> HIDE DEF q
<1>2. SUFFICES ASSUME q >= b PROVE FALSE
  BY <1>1 DEF q
<1>3. n * q >= n * b
  BY <1>1, <1>2
<1>4. QED
  BY <1>1, <1>3

\* The number of virtual pages.
LEMMA NVirtualFacts ==
    /\ NPTEENTRY * NPTEENTRY \in Nat \ {0} /\ NVirtual \in Nat \ {0}
    /\ NVirtual = NPTEENTRY * NPTEENTRY * NPTEENTRY
    /\ NVirtual = (NPTEENTRY * NPTEENTRY) * NPTEENTRY
    /\ USTACKTOP = NVirtual * PGSIZE /\ USTACKTOP \in Nat
BY MmAssumption DEF NVirtual, USTACKTOP

\* A virtual page number is three indices.
LEMMA IndexFacts ==
    ASSUME NEW v \in VPage
    PROVE  /\ PDX1(v) \in Index /\ PDX0(v) \in Index /\ PTX(v) \in Index
           /\ v = NPTEENTRY * (v \div NPTEENTRY) + PTX(v)
           /\ v \div NPTEENTRY = NPTEENTRY * PDX1(v) + PDX0(v)
<1> DEFINE N == NPTEENTRY
<1>1. N \in Nat \ {0} /\ v \in Nat /\ v < (N * N) * N /\ N * N \in Nat \ {0}
  BY MmAssumption, NVirtualFacts DEF VPage
<1> HIDE DEF N
<1>2. v \div (N * N) \in 0 .. N - 1
  BY <1>1, DivBelow
<1> DEFINE q == v \div N
           s == v % N
           b == q \div N
           r == q % N
<1>3. q \in Nat /\ s \in 0 .. N - 1 /\ v = N * q + s
  BY <1>1, DivFacts
<1>4. b \in Nat /\ r \in 0 .. N - 1 /\ q = N * b + r
  <2> HIDE DEF q
  <2>1. QED
    BY <1>1, <1>3, DivFacts
<1>5. b = v \div (N * N)
  <2> HIDE DEF b, r, s, q
  <2>1. v = N * (N * b + r) + s
    BY <1>3, <1>4
  <2>2. N * (N * b + r) = (N * N) * b + N * r
    BY <1>1, <1>4
  <2>3. N * r + s \in 0 .. N * N - 1
    <3>1. N * r <= N * (N - 1) /\ N * r \in Nat
      BY <1>1, <1>4
    <3>2. N * (N - 1) = N * N - N
      BY <1>1
    <3>3. QED
      BY <1>1, <1>3, <3>1, <3>2
  <2>4. v = (N * N) * b + (N * r + s)
    BY <1>1, <1>3, <1>4, <2>1, <2>2, <2>3
  <2>5. QED
    BY <1>1, <1>4, <2>3, <2>4, DivUnique
<1>6. PDX1(v) = b /\ PDX0(v) = r /\ PTX(v) = s
  BY <1>5 DEF PDX1, PDX0, PTX, N
<1> HIDE DEF q, b, r, s
<1>7. v \div NPTEENTRY = q
  BY DEF q, N
<1>8. QED
  BY <1>2, <1>3, <1>4, <1>5, <1>6, <1>7 DEF Index, N

\* The indices determine the page number.
LEMMA IndexUnique ==
    ASSUME NEW v \in VPage, NEW w \in VPage,
           PDX1(v) = PDX1(w), PDX0(v) = PDX0(w), PTX(v) = PTX(w)
    PROVE  v = w
BY IndexFacts

-----------------------------------------------------------------------------
\* The levels.

\* The levels are apart from one another, and no page of them is free.
Apart(m, R) ==
    LET E == m.entry
    IN  /\ R \subseteq Page /\ Dirs(E, R) \subseteq Page /\ Leaves(E, R) \subseteq Page
        /\ Mapped(E, R) \subseteq Page /\ Live(E, R) \subseteq Page
        /\ R \cap Dirs(E, R) = {} /\ R \cap Leaves(E, R) = {} /\ R \cap Mapped(E, R) = {}
        /\ Dirs(E, R) \cap Leaves(E, R) = {} /\ Dirs(E, R) \cap Mapped(E, R) = {}
        /\ Leaves(E, R) \cap Mapped(E, R) = {}
        /\ (Live(E, R) \cup Mapped(E, R)) \cap m.free = {}

\* Types of the parts of memory.
LEMMA MemFacts ==
    ASSUME NEW m \in MemType
    PROVE  /\ m.free \subseteq Page /\ m.ref \in [Page -> 0 .. 2]
           /\ m.entry \in [Page -> [Index -> 0 .. NPages]]
           /\ m.cell \in [Page -> [Offset -> Value]]
           /\ m = [free |-> m.free, ref |-> m.ref, entry |-> m.entry, cell |-> m.cell]
           /\ \A t \in Page : \A i \in Index : m.entry[t][i] \in {0} \cup Page
<1>1. /\ m.free \subseteq Page /\ m.ref \in [Page -> 0 .. 2]
      /\ m.entry \in [Page -> [Index -> 0 .. NPages]]
      /\ m.cell \in [Page -> [Offset -> Value]]
      /\ m = [free |-> m.free, ref |-> m.ref, entry |-> m.entry, cell |-> m.cell]
  BY DEF MemType
<1>2. \A x \in 0 .. NPages : x \in {0} \cup Page
  BY MmAssumption DEF Page
<1>3. \A t \in Page : \A i \in Index : m.entry[t][i] \in 0 .. NPages
  BY <1>1
<1>4. QED
  BY <1>1, <1>2, <1>3

\* What a table refers to is on the next level.
LEMMA LevelHas ==
    ASSUME NEW m \in MemType, NEW T \in SUBSET Page, NEW t \in T, NEW i \in Index,
           m.entry[t][i] # 0
    PROVE  m.entry[t][i] \in Level(m.entry, T)
<1>1. m.entry[t][i] \in Page
  BY MemFacts
<1>2. QED
  BY <1>1 DEF Level

\* With one referrer each, no page is on two levels.
LEMMA LevelsApart ==
    ASSUME NEW m, NEW R, Owned(m, R)
    PROVE  Apart(m, R)
<1> DEFINE E == m.entry
           D == Dirs(E, R)
           L == Leaves(E, R)
           P == Mapped(E, R)
<1>1. m \in MemType /\ R \subseteq Page /\ R \cap m.free = {} /\ OneReferrer(m, R)
  BY DEF Owned
<1>2. /\ \A x \in D : \E t \in R : \E i \in Index : E[t][i] = x
      /\ \A x \in L : \E t \in D : \E i \in Index : E[t][i] = x
      /\ \A x \in P : \E t \in L : \E i \in Index : E[t][i] = x
      /\ D \subseteq Page /\ L \subseteq Page /\ P \subseteq Page
      /\ Live(E, R) = R \cup D \cup L
  BY DEF Dirs, Leaves, Mapped, Level, Live
<1>3. \A x \in Page : x # 0
  BY MmAssumption DEF Page
<1> DEFINE V == R \cup D \cup L
<1>4. \A t \in V : \A i \in Index : E[t][i] \in Page =>
        /\ E[t][i] \notin m.free /\ E[t][i] \notin R
        /\ \A u \in V : \A j \in Index : E[u][j] = E[t][i] => u = t
  BY <1>1, <1>2, <1>3 DEF OneReferrer
<1> HIDE DEF E, D, L, P
<1>5. R \cap D = {} /\ R \cap L = {} /\ R \cap P = {}
  BY <1>2, <1>4
<1>6. D \cap L = {}
  BY <1>2, <1>4, <1>5
<1>7. D \cap P = {} /\ L \cap P = {}
  BY <1>2, <1>4, <1>5, <1>6
<1>8. (V \cup P) \cap m.free = {}
  BY <1>1, <1>2, <1>4
<1>9. QED
  BY <1>1, <1>2, <1>5, <1>6, <1>7, <1>8 DEF Apart, E, D, L, P

\* The tables that the processor visits for virtual page v.
Path(m, R, d, v) ==
    LET E  == m.entry
        pd == E[d][PDX1(v)]
        t  == TableOf(m, d, v)
        q  == get_page(m, d, v)
    IN  /\ pd # 0 => pd \in Dirs(E, R) /\ t = E[pd][PDX0(v)]
        /\ pd = 0 => t = 0
        /\ t # 0 => pd # 0 /\ t \in Leaves(E, R) /\ q = E[t][PTX(v)]
        /\ t = 0 => q = 0
        /\ q # 0 => t # 0 /\ q \in Mapped(E, R)

\* A walk through the tables goes down the levels, up to the first invalid entry.
LEMMA PathFacts ==
    ASSUME NEW m \in MemType, NEW R \in SUBSET Page, NEW d \in R, NEW v \in VPage
    PROVE  Path(m, R, d, v)
<1> DEFINE E == m.entry
           pd == E[d][PDX1(v)]
           t == TableOf(m, d, v)
           q == get_page(m, d, v)
<1>1. PDX1(v) \in Index /\ PDX0(v) \in Index /\ PTX(v) \in Index
  BY IndexFacts
<1>2. d # 0 /\ d \in Page
  BY MmAssumption DEF Page
<1>3. t = IF pd = 0 THEN 0 ELSE E[pd][PDX0(v)]
  BY <1>2 DEF TableOf, Follow
<1>4. q = IF t = 0 THEN 0 ELSE E[t][PTX(v)]
  BY DEF get_page, Follow
<1>5. pd # 0 => pd \in Dirs(E, R)
  BY <1>1, LevelHas DEF Dirs
<1>6. t # 0 => pd # 0 /\ t \in Leaves(E, R)
  <2>1. Dirs(E, R) \in SUBSET Page
    BY DEF Dirs, Level
  <2>2. QED
    BY <1>1, <1>3, <1>5, <2>1, LevelHas DEF Leaves, Dirs
<1>7. q # 0 => t # 0 /\ q \in Mapped(E, R)
  <2>1. Leaves(E, R) \in SUBSET Page
    BY DEF Leaves, Level
  <2>2. QED
    BY <1>1, <1>4, <1>6, <2>1, LevelHas DEF Mapped
<1> HIDE DEF E, pd, t, q
<1>8. QED
  BY <1>3, <1>4, <1>5, <1>6, <1>7 DEF Path, E, pd, t, q

\* Two paths that meet are the same.
LEMMA PathUnique ==
    ASSUME NEW m, NEW R, Owned(m, R), NEW d \in R, NEW e \in R, NEW v \in VPage, NEW w \in VPage
    PROVE  /\ m.entry[d][PDX1(v)] # 0 /\ m.entry[e][PDX1(w)] = m.entry[d][PDX1(v)] =>
                d = e /\ PDX1(v) = PDX1(w)
           /\ TableOf(m, d, v) # 0 /\ TableOf(m, e, w) = TableOf(m, d, v) =>
                d = e /\ PDX1(v) = PDX1(w) /\ PDX0(v) = PDX0(w)
           /\ get_page(m, d, v) # 0 /\ get_page(m, e, w) = get_page(m, d, v) =>
                d = e /\ v = w
<1> DEFINE E == m.entry
           V == Live(E, R)
<1>1. /\ PDX1(v) \in Index /\ PDX0(v) \in Index /\ PTX(v) \in Index
      /\ PDX1(w) \in Index /\ PDX0(w) \in Index /\ PTX(w) \in Index
  BY IndexFacts
<1>2. Path(m, R, d, v) /\ Path(m, R, e, w)
  BY PathFacts DEF Owned
<1>3. \A t \in V : \A i \in Index : E[t][i] # 0 =>
        \A u \in V : \A j \in Index : E[u][j] = E[t][i] => u = t /\ j = i
  BY DEF Owned, OneReferrer
<1>4. R \subseteq V /\ Dirs(E, R) \subseteq V /\ Leaves(E, R) \subseteq V
  BY DEF Live
<1>5. ASSUME E[d][PDX1(v)] # 0, E[e][PDX1(w)] = E[d][PDX1(v)]
      PROVE  d = e /\ PDX1(v) = PDX1(w)
  BY <1>1, <1>3, <1>4, <1>5
<1>6. ASSUME TableOf(m, d, v) # 0, TableOf(m, e, w) = TableOf(m, d, v)
      PROVE  d = e /\ PDX1(v) = PDX1(w) /\ PDX0(v) = PDX0(w)
  <2> DEFINE a == E[d][PDX1(v)]
             b == E[e][PDX1(w)]
  <2>1. /\ a # 0 /\ a \in V /\ TableOf(m, d, v) = E[a][PDX0(v)]
        /\ b # 0 /\ b \in V /\ TableOf(m, e, w) = E[b][PDX0(w)]
    BY <1>2, <1>4, <1>6 DEF Path
  <2> HIDE DEF a, b, E, V
  <2>2. a = b /\ PDX0(v) = PDX0(w)
    BY <1>1, <1>3, <1>6, <2>1
  <2>3. QED
    BY <1>5, <2>1, <2>2 DEF a, b
<1>7. ASSUME get_page(m, d, v) # 0, get_page(m, e, w) = get_page(m, d, v)
      PROVE  d = e /\ v = w
  <2> DEFINE a == TableOf(m, d, v)
             b == TableOf(m, e, w)
  <2>1. /\ a # 0 /\ a \in V /\ get_page(m, d, v) = E[a][PTX(v)]
        /\ b # 0 /\ b \in V /\ get_page(m, e, w) = E[b][PTX(w)]
    BY <1>2, <1>4, <1>7 DEF Path
  <2> HIDE DEF a, b, E, V
  <2>2. a = b /\ PTX(v) = PTX(w)
    BY <1>1, <1>3, <1>7, <2>1
  <2>3. d = e /\ PDX1(v) = PDX1(w) /\ PDX0(v) = PDX0(w)
    BY <1>6, <2>1, <2>2 DEF a, b
  <2>4. QED
    BY <2>2, <2>3, IndexUnique
<1>8. QED
  BY <1>5, <1>6, <1>7

-----------------------------------------------------------------------------
\* Changes of memory.

\* The address space of d is as it was.
Kept(m, m2, d) ==
    \A v \in VPage :
      /\ get_page(m2, d, v) = get_page(m, d, v)
      /\ get_page(m, d, v) # 0 => m2.cell[get_page(m, d, v)] = m.cell[get_page(m, d, v)]

\* Entries are cleared and roots dropped: what is left is still referred to, and
\* what has become free is not.
Shrunk(m, R, m2, R2) ==
    LET E == m2.entry
    IN  /\ m2 \in MemType /\ R2 \subseteq R /\ R2 \cap m2.free = {}
        /\ \A t \in Live(m.entry, R) : \A i \in Index : E[t][i] \in {0, m.entry[t][i]}
        /\ \A t \in Live(E, R2) : \A i \in Index :
             E[t][i] # 0 => E[t][i] \notin m2.free /\ m2.ref[E[t][i]] = 1
        /\ \A q \in m2.free : m2.ref[q] = 0 /\ m2.cell[q] = Fresh
        /\ \A t \in Live(E, R2) : m2.cell[t] = Fresh

LevelsBelow(m, R, m2, R2) ==
    /\ Dirs(m2.entry, R2) \subseteq Dirs(m.entry, R)
    /\ Leaves(m2.entry, R2) \subseteq Leaves(m.entry, R)
    /\ Mapped(m2.entry, R2) \subseteq Mapped(m.entry, R)
    /\ Live(m2.entry, R2) \subseteq Live(m.entry, R)

\* Fewer entries, fewer pages on the next level.
LEMMA LevelMono ==
    ASSUME NEW E, NEW E2, NEW T, NEW T2, T2 \subseteq T,
           \A t \in T : \A i \in Index : E2[t][i] \in {0, E[t][i]}
    PROVE  Level(E2, T2) \subseteq Level(E, T)
<1>1. \A x \in Page : x # 0
  BY MmAssumption DEF Page
<1>2. QED
  BY <1>1 DEF Level

\* So it is on every level.
LEMMA LevelsMono ==
    ASSUME NEW m, NEW m2, NEW R, NEW R2, R2 \subseteq R,
           \A t \in Live(m.entry, R) : \A i \in Index : m2.entry[t][i] \in {0, m.entry[t][i]}
    PROVE  LevelsBelow(m, R, m2, R2)
<1> DEFINE E == m.entry
           E2 == m2.entry
<1>1. \A t \in R \cup Dirs(E, R) \cup Leaves(E, R) : \A i \in Index : E2[t][i] \in {0, E[t][i]}
  BY DEF Live
<1> HIDE DEF E, E2
<1>2. Dirs(E2, R2) \subseteq Dirs(E, R)
  BY <1>1, LevelMono DEF Dirs
<1>3. Leaves(E2, R2) \subseteq Leaves(E, R)
  BY <1>1, <1>2, LevelMono DEF Dirs, Leaves
<1>4. Mapped(E2, R2) \subseteq Mapped(E, R)
  BY <1>1, <1>3, LevelMono DEF Mapped
<1>5. QED
  BY <1>2, <1>3, <1>4 DEF LevelsBelow, Live, E, E2

\* Clearing entries and dropping roots keeps a page from having two owners.
LEMMA Shrink ==
    ASSUME NEW m, NEW R, NEW m2, NEW R2, Owned(m, R), Shrunk(m, R, m2, R2)
    PROVE  Owned(m2, R2) /\ LevelsBelow(m, R, m2, R2)
<1> DEFINE E == m.entry
           E2 == m2.entry
<1>1. /\ R2 \subseteq R /\ \A t \in Live(E, R) : \A i \in Index : E2[t][i] \in {0, E[t][i]}
      /\ \A t \in Live(E2, R2) : \A i \in Index :
             E2[t][i] # 0 => E2[t][i] \notin m2.free /\ m2.ref[E2[t][i]] = 1
      /\ m2 \in MemType /\ R2 \cap m2.free = {}
      /\ \A q \in m2.free : m2.ref[q] = 0 /\ m2.cell[q] = Fresh
      /\ \A t \in Live(E2, R2) : m2.cell[t] = Fresh
  BY DEF Shrunk
<1>2. LevelsBelow(m, R, m2, R2)
  BY <1>1, LevelsMono
<1>3. Live(E2, R2) \subseteq Live(E, R)
  BY <1>2 DEF LevelsBelow
<1>4. R \subseteq Page /\ OneReferrer(m, R)
  BY DEF Owned
<1>5. OneReferrer(m2, R2)
  <2> SUFFICES ASSUME NEW t \in Live(E2, R2), NEW i \in Index, E2[t][i] # 0
      PROVE  /\ E2[t][i] \notin m2.free /\ E2[t][i] \notin R2
             /\ m2.ref[E2[t][i]] = 1
             /\ \A u \in Live(E2, R2) : \A j \in Index :
                  E2[u][j] = E2[t][i] => u = t /\ j = i
    BY DEF OneReferrer
  <2>1. E2[t][i] = E[t][i] /\ t \in Live(E, R)
    BY <1>1, <1>3
  <2>2. \A u \in Live(E2, R2) : \A j \in Index :
          E2[u][j] = E2[t][i] => u \in Live(E, R) /\ E[u][j] = E[t][i]
    BY <1>1, <1>3, <2>1
  <2> HIDE DEF E, E2
  <2>3. /\ E[t][i] \notin R
        /\ \A u \in Live(E, R) : \A j \in Index : E[u][j] = E[t][i] => u = t /\ j = i
    BY <1>4, <2>1 DEF OneReferrer, E
  <2>4. QED
    BY <1>1, <2>1, <2>2, <2>3
<1>6. QED
  BY <1>1, <1>2, <1>4, <1>5 DEF Owned

\* What unchanged tables refer to.
LEMMA LevelSame ==
    ASSUME NEW E, NEW E2, NEW T, \A t \in T : \A i \in Index : E2[t][i] = E[t][i]
    PROVE  Level(E2, T) = Level(E, T)
BY DEF Level

\* What more tables refer to.
LEMMA LevelUnion ==
    ASSUME NEW E, NEW S, NEW T
    PROVE  Level(E, S \cup T) = Level(E, S) \cup Level(E, T)
BY DEF Level

\* A table that has no entries refers to nothing.
LEMMA LevelEmpty ==
    ASSUME NEW E, NEW q, \A i \in Index : E[q][i] = 0
    PROVE  Level(E, {q}) = {}
<1>1. \A x \in Page : x # 0
  BY MmAssumption DEF Page
<1>2. QED
  BY <1>1 DEF Level

\* Page q is entry i of table t of T, where there was none.
Added(E, E2, T, t, i, q) ==
    /\ t \in T /\ i \in Index /\ q \in Page /\ E[t][i] = 0 /\ E2[t][i] = q
    /\ \A u \in T : \A j \in Index : u # t \/ j # i => E2[u][j] = E[u][j]

\* One more entry, one more page on the next level.
LEMMA LevelAdd ==
    ASSUME NEW E, NEW E2, NEW T, NEW t, NEW i, NEW q, Added(E, E2, T, t, i, q)
    PROVE  Level(E2, T) = Level(E, T) \cup {q}
<1>0. /\ t \in T /\ i \in Index /\ q \in Page /\ E[t][i] = 0 /\ E2[t][i] = q
      /\ \A u \in T : \A j \in Index : u # t \/ j # i => E2[u][j] = E[u][j]
  BY DEF Added
<1>1. \A x \in Page : x # 0
  BY MmAssumption DEF Page
<1>2. Level(E2, T) \subseteq Level(E, T) \cup {q}
  BY <1>0 DEF Level
<1>3. Level(E, T) \subseteq Level(E2, T)
  BY <1>0, <1>1 DEF Level
<1>4. q \in Level(E2, T)
  BY <1>0 DEF Level
<1>5. QED
  BY <1>2, <1>3, <1>4

\* Page q, which no table refers to, becomes entry i of table t.
Grown(m, R, m2, t, i, q) ==
    /\ m2 \in MemType /\ t \in Live(m.entry, R) /\ i \in Index /\ q \in Page
    /\ q \notin Live(m.entry, R) \cup Mapped(m.entry, R)
    /\ m.entry[t][i] = 0 /\ m2.entry[t][i] = q
    /\ \A u \in Live(m.entry, R) : \A j \in Index :
         u # t \/ j # i => m2.entry[u][j] = m.entry[u][j]
    /\ t \notin Leaves(m.entry, R) =>
         (\A j \in Index : m2.entry[q][j] = 0) /\ m2.cell[q] = Fresh
    /\ m2.free = m.free \ {q} /\ m2.ref[q] = 1
    /\ \A p \in Page \ {q} : m2.ref[p] = m.ref[p] /\ m2.cell[p] = m.cell[p]

LevelsAbove(m, R, m2, t, q) ==
    LET E  == m.entry
        E2 == m2.entry
        more(c) == IF c THEN {q} ELSE {}
    IN  /\ Dirs(E2, R) = Dirs(E, R) \cup more(t \in R)
        /\ Leaves(E2, R) = Leaves(E, R) \cup more(t \in Dirs(E, R))
        /\ Mapped(E2, R) = Mapped(E, R) \cup more(t \in Leaves(E, R))
        /\ Live(E2, R) = Live(E, R) \cup more(t \notin Leaves(E, R))

\* The page is on the level below that of the table, the other levels are as before.
LEMMA GrownLevels ==
    ASSUME NEW m, NEW R, NEW m2, NEW t, NEW i, NEW q,
           Owned(m, R), Grown(m, R, m2, t, i, q)
    PROVE  LevelsAbove(m, R, m2, t, q)
<1> DEFINE E == m.entry
           E2 == m2.entry
           D == Dirs(E, R)
           L == Leaves(E, R)
<1>1. /\ t \in R \cup D \cup L /\ i \in Index /\ q \in Page /\ E[t][i] = 0 /\ E2[t][i] = q
      /\ \A u \in R \cup D \cup L : \A j \in Index : u # t \/ j # i => E2[u][j] = E[u][j]
      /\ t \notin L => \A j \in Index : E2[q][j] = 0
  BY DEF Grown, Live
<1>2. R \cap D = {} /\ R \cap L = {} /\ D \cap L = {}
  BY LevelsApart DEF Apart
<1>3. /\ D = Level(E, R) /\ Dirs(E2, R) = Level(E2, R)
      /\ L = Level(E, D) /\ Leaves(E2, R) = Level(E2, Dirs(E2, R))
      /\ Mapped(E, R) = Level(E, L) /\ Mapped(E2, R) = Level(E2, Leaves(E2, R))
      /\ Live(E, R) = R \cup D \cup L /\ Live(E2, R) = R \cup Dirs(E2, R) \cup Leaves(E2, R)
  BY DEF Dirs, Leaves, Mapped, Live
<1> HIDE DEF E, E2, D, L
<1>4. i \in Index /\ q \in Page /\ E[t][i] = 0 /\ E2[t][i] = q
  BY <1>1
<1>5. CASE t \in R
  <2>1. t \notin D /\ t \notin L
    BY <1>2, <1>5
  <2>2. Level(E2, R) = Level(E, R) \cup {q}
    <3>1. Added(E, E2, R, t, i, q)
      BY <1>1, <1>4, <1>5 DEF Added
    <3>2. QED
      BY <3>1, LevelAdd
  <2>3. Level(E2, D) = Level(E, D) /\ Level(E2, L) = Level(E, L)
    BY <1>1, <2>1, LevelSame
  <2>4. Level(E2, {q}) = {}
    BY <1>1, <2>1, LevelEmpty
  <2>5. Dirs(E2, R) = D \cup {q}
    BY <1>3, <2>2
  <2>6. Leaves(E2, R) = L
    <3>1. Level(E2, D \cup {q}) = Level(E2, D) \cup Level(E2, {q})
      BY LevelUnion
    <3>2. QED
      BY <1>3, <2>3, <2>4, <2>5, <3>1
  <2>7. Mapped(E2, R) = Mapped(E, R)
    BY <1>3, <2>3, <2>6
  <2>8. QED
    BY <1>3, <1>5, <2>1, <2>5, <2>6, <2>7 DEF LevelsAbove, E, E2, D, L
<1>6. CASE t \in D
  <2>1. t \notin R /\ t \notin L
    BY <1>2, <1>6
  <2>2. Level(E2, D) = Level(E, D) \cup {q}
    <3>1. Added(E, E2, D, t, i, q)
      BY <1>1, <1>4, <1>6 DEF Added
    <3>2. QED
      BY <3>1, LevelAdd
  <2>3. Level(E2, R) = Level(E, R) /\ Level(E2, L) = Level(E, L)
    BY <1>1, <2>1, LevelSame
  <2>4. Level(E2, {q}) = {}
    BY <1>1, <2>1, LevelEmpty
  <2>5. Dirs(E2, R) = D
    BY <1>3, <2>3
  <2>6. Leaves(E2, R) = L \cup {q}
    BY <1>3, <2>2, <2>5
  <2>7. Mapped(E2, R) = Mapped(E, R)
    <3>1. Level(E2, L \cup {q}) = Level(E2, L) \cup Level(E2, {q})
      BY LevelUnion
    <3>2. QED
      BY <1>3, <2>3, <2>4, <2>6, <3>1
  <2>8. QED
    BY <1>3, <1>6, <2>1, <2>5, <2>6, <2>7 DEF LevelsAbove, E, E2, D, L
<1>7. CASE t \in L
  <2>1. t \notin R /\ t \notin D
    BY <1>2, <1>7
  <2>2. Level(E2, L) = Level(E, L) \cup {q}
    <3>1. Added(E, E2, L, t, i, q)
      BY <1>1, <1>4, <1>7 DEF Added
    <3>2. QED
      BY <3>1, LevelAdd
  <2>3. Level(E2, R) = Level(E, R) /\ Level(E2, D) = Level(E, D)
    BY <1>1, <2>1, LevelSame
  <2>4. Dirs(E2, R) = D
    BY <1>3, <2>3
  <2>5. Leaves(E2, R) = L
    BY <1>3, <2>3, <2>4
  <2>6. Mapped(E2, R) = Mapped(E, R) \cup {q}
    BY <1>3, <2>2, <2>5
  <2>7. QED
    BY <1>3, <1>7, <2>1, <2>4, <2>5, <2>6 DEF LevelsAbove, E, E2, D, L
<1>8. QED
  BY <1>1, <1>5, <1>6, <1>7

\* No page gets a second owner.
LEMMA Grow ==
    ASSUME NEW m, NEW R, NEW m2, NEW t, NEW i, NEW q,
           Owned(m, R), Grown(m, R, m2, t, i, q)
    PROVE  Owned(m2, R)
<1> DEFINE E == m.entry
           E2 == m2.entry
           V == Live(E, R)
           V2 == Live(E2, R)
<1>1. /\ m2 \in MemType /\ t \in V /\ i \in Index /\ q \in Page /\ E2[t][i] = q
      /\ q \notin V \cup Mapped(E, R)
      /\ \A u \in V : \A j \in Index : u # t \/ j # i => E2[u][j] = E[u][j]
      /\ m2.free = m.free \ {q} /\ m2.ref[q] = 1
      /\ \A p \in Page \ {q} : m2.ref[p] = m.ref[p] /\ m2.cell[p] = m.cell[p]
      /\ t \notin Leaves(E, R) => (\A j \in Index : E2[q][j] = 0) /\ m2.cell[q] = Fresh
  BY DEF Grown
<1>2. /\ R \subseteq Page /\ R \cap m.free = {} /\ OneReferrer(m, R)
      /\ \A p \in m.free : m.ref[p] = 0 /\ m.cell[p] = Fresh
      /\ \A u \in V : m.cell[u] = Fresh
      /\ m \in MemType
  BY DEF Owned
<1>3. V \subseteq Page /\ R \subseteq V /\ m.free \subseteq Page
  BY <1>2, LevelsApart, MemFacts DEF Apart, Live
<1>4. V2 = V \cup (IF t \notin Leaves(E, R) THEN {q} ELSE {})
  BY GrownLevels DEF LevelsAbove
<1>5. \A u \in V : \A j \in Index : E[u][j] # 0 => E[u][j] \in Page /\ E[u][j] # q
  <2>1. \A u \in V : \A j \in Index : E[u][j] # 0 => E[u][j] \in Page
    BY <1>2, <1>3, MemFacts
  <2>2. ASSUME NEW u \in V, NEW j \in Index, E[u][j] = q PROVE FALSE
    <3>1. CASE u \in R
      BY <1>1, <2>2, <3>1 DEF Live, Dirs, Level
    <3>2. CASE u \in Dirs(E, R)
      BY <1>1, <2>2, <3>2 DEF Live, Leaves, Dirs, Level
    <3>3. CASE u \in Leaves(E, R)
      BY <1>1, <2>2, <3>3 DEF Mapped, Level
    <3>4. QED
      BY <3>1, <3>2, <3>3 DEF Live
  <2>3. QED
    BY <2>1, <2>2
<1>6. \A u \in V2 : \A j \in Index : E2[u][j] # 0 => u \in V
  BY <1>1, <1>4
<1>7. OneReferrer(m2, R)
  <2> SUFFICES ASSUME NEW u \in V2, NEW j \in Index, E2[u][j] # 0
      PROVE  /\ E2[u][j] \notin m2.free /\ E2[u][j] \notin R
             /\ m2.ref[E2[u][j]] = 1
             /\ \A w \in V2 : \A l \in Index :
                  E2[w][l] = E2[u][j] => w = u /\ l = j
    BY DEF OneReferrer
  <2>1. u \in V /\ \A w \in V2 : \A l \in Index : E2[w][l] = E2[u][j] => w \in V
    BY <1>6
  <2>2. CASE u = t /\ j = i
    <3>1. E2[u][j] = q
      BY <1>1, <2>2
    <3>2. ASSUME NEW w \in V, NEW l \in Index, E2[w][l] = q PROVE w = t /\ l = i
      <4>1. q # 0
        BY <1>1, MmAssumption DEF Page
      <4> HIDE DEF E, E2, V, V2
      <4>2. QED
        BY <1>1, <1>5, <3>2, <4>1
    <3> HIDE DEF E, E2, V, V2
    <3>3. QED
      BY <1>1, <1>3, <2>1, <2>2, <3>1, <3>2
  <2>3. CASE ~(u = t /\ j = i)
    <3>1. E2[u][j] = E[u][j] /\ E[u][j] # q /\ E[u][j] \in Page
      BY <1>1, <1>5, <2>1, <2>3
    <3>2. /\ E[u][j] \notin m.free /\ E[u][j] \notin R /\ m.ref[E[u][j]] = 1
          /\ \A w \in V : \A l \in Index : E[w][l] = E[u][j] => w = u /\ l = j
      BY <1>2, <2>1, <3>1 DEF OneReferrer
    <3>3. \A w \in V : \A l \in Index : E2[w][l] = E[u][j] => E[w][l] = E[u][j]
      BY <1>1, <3>1
    <3> HIDE DEF E, E2, V, V2
    <3>4. QED
      BY <1>1, <2>1, <3>1, <3>2, <3>3
  <2>4. QED
    BY <2>2, <2>3
<1>8. \A u \in V2 : m2.cell[u] = Fresh
  BY <1>1, <1>2, <1>3, <1>4
<1>9. \A p \in m2.free : m2.ref[p] = 0 /\ m2.cell[p] = Fresh
  BY <1>1, <1>2, <1>3
<1>10. QED
  BY <1>1, <1>2, <1>7, <1>8, <1>9 DEF Owned

\* The walks through the tables, with the new entry.
PathsGrown(m, R, m2, t, i, q) ==
    \A d \in R : \A v \in VPage :
      LET E == m.entry
      IN  /\ TableOf(m2, d, v) = IF t \in Dirs(E, R) /\ E[d][PDX1(v)] = t /\ PDX0(v) = i
                                   THEN q ELSE TableOf(m, d, v)
          /\ get_page(m2, d, v) = IF t \in Leaves(E, R) /\ TableOf(m, d, v) = t /\ PTX(v) = i
                                    THEN q ELSE get_page(m, d, v)
          /\ m2.entry[d][PDX1(v)] = IF d = t /\ PDX1(v) = i THEN q ELSE E[d][PDX1(v)]
          /\ get_page(m, d, v) # 0 => m2.cell[get_page(m, d, v)] = m.cell[get_page(m, d, v)]

\* Only walks through that entry change.
LEMMA GrowPaths ==
    ASSUME NEW m, NEW R, NEW m2, NEW t, NEW i, NEW q,
           Owned(m, R), Grown(m, R, m2, t, i, q)
    PROVE  PathsGrown(m, R, m2, t, i, q)
<1> DEFINE E == m.entry
           E2 == m2.entry
           V == Live(E, R)
<1>1. /\ m2 \in MemType /\ t \in V /\ i \in Index /\ q \in Page /\ E2[t][i] = q /\ E[t][i] = 0
      /\ q \notin V \cup Mapped(E, R)
      /\ \A u \in V : \A j \in Index : u # t \/ j # i => E2[u][j] = E[u][j]
      /\ \A p \in Page \ {q} : m2.cell[p] = m.cell[p]
      /\ t \notin Leaves(E, R) => \A j \in Index : E2[q][j] = 0
  BY DEF Grown
<1>2. Apart(m, R)
  BY LevelsApart
<1>3. /\ V = R \cup Dirs(E, R) \cup Leaves(E, R) /\ R \cap Dirs(E, R) = {}
      /\ R \cap Leaves(E, R) = {} /\ Dirs(E, R) \cap Leaves(E, R) = {}
      /\ Mapped(E, R) \subseteq Page /\ R \subseteq Page
  BY <1>2 DEF Apart, Live
<1> SUFFICES ASSUME NEW d \in R, NEW v \in VPage
    PROVE  /\ TableOf(m2, d, v) = IF t \in Dirs(E, R) /\ E[d][PDX1(v)] = t /\ PDX0(v) = i
                                   THEN q ELSE TableOf(m, d, v)
           /\ get_page(m2, d, v) = IF t \in Leaves(E, R) /\ TableOf(m, d, v) = t /\ PTX(v) = i
                                    THEN q ELSE get_page(m, d, v)
           /\ E2[d][PDX1(v)] = IF d = t /\ PDX1(v) = i THEN q ELSE E[d][PDX1(v)]
           /\ get_page(m, d, v) # 0 => m2.cell[get_page(m, d, v)] = m.cell[get_page(m, d, v)]
  BY DEF PathsGrown
<1>4. PDX1(v) \in Index /\ PDX0(v) \in Index /\ PTX(v) \in Index
  BY IndexFacts
<1>5. Path(m, R, d, v)
  BY PathFacts DEF Owned
<1> DEFINE a == E[d][PDX1(v)]
           b == TableOf(m, d, v)
           x == get_page(m, d, v)
           a2 == E2[d][PDX1(v)]
           b2 == TableOf(m2, d, v)
           x2 == get_page(m2, d, v)
<1>6. /\ a # 0 => a \in Dirs(E, R) /\ b = E[a][PDX0(v)]
      /\ a = 0 => b = 0
      /\ b # 0 => b \in Leaves(E, R) /\ x = E[b][PTX(v)]
      /\ b = 0 => x = 0
      /\ x # 0 => x \in Mapped(E, R)
  BY <1>5 DEF Path
<1>7. b2 = (IF a2 = 0 THEN 0 ELSE E2[a2][PDX0(v)]) /\ x2 = IF b2 = 0 THEN 0 ELSE E2[b2][PTX(v)]
  <2>1. d # 0
    BY <1>3, MmAssumption DEF Page
  <2>2. QED
    BY <2>1 DEF TableOf, get_page, Follow
<1>8. q # 0
  BY <1>1, MmAssumption DEF Page
<1> HIDE DEF E, E2, V, a, b, x, b2, x2
<1>9. a2 = IF d = t /\ PDX1(v) = i THEN q ELSE a
  BY <1>1, <1>3, <1>4 DEF a
<1>10. b2 = IF t \in Dirs(E, R) /\ a = t /\ PDX0(v) = i THEN q ELSE b
  <2>1. CASE d = t /\ PDX1(v) = i
    <3>1. a = 0 /\ b = 0 /\ b2 = 0
      BY <1>1, <1>3, <1>4, <1>6, <1>7, <1>8, <1>9, <2>1 DEF a
    <3>2. QED
      BY <1>3, <2>1, <3>1
  <2>2. CASE ~(d = t /\ PDX1(v) = i)
    <3>1. a2 = a
      BY <1>9, <2>2
    <3>2. CASE a = 0
      BY <1>1, <1>3, <1>6, <1>7, <3>1, <3>2, MmAssumption DEF Dirs, Level, Page
    <3>3. CASE a # 0
      <4> HIDE DEF a2
      <4>1. QED
      BY <1>1, <1>3, <1>4, <1>6, <1>7, <3>1, <3>3
    <3>4. QED
      BY <3>2, <3>3
  <2>3. QED
    BY <2>1, <2>2
<1>11. x2 = IF t \in Leaves(E, R) /\ b = t /\ PTX(v) = i THEN q ELSE x
  <2>0. \A y \in Leaves(E, R) : y # 0
    BY MmAssumption DEF Leaves, Level, Page
  <2>1. CASE t \in Dirs(E, R) /\ a = t /\ PDX0(v) = i
    <3>1. b = 0 /\ x = 0 /\ x2 = 0
      BY <1>1, <1>3, <1>4, <1>6, <1>7, <1>8, <1>10, <2>0, <2>1
    <3>2. QED
      BY <1>3, <2>1, <3>1
  <2>2. CASE ~(t \in Dirs(E, R) /\ a = t /\ PDX0(v) = i)
    <3>1. b2 = b
      BY <1>10, <2>2
    <3>2. CASE b = 0
      BY <1>6, <1>7, <3>1, <3>2, <2>0
    <3>3. CASE b # 0
      BY <1>1, <1>3, <1>4, <1>6, <1>7, <3>1, <3>3
    <3>4. QED
      BY <3>2, <3>3
  <2>3. QED
    BY <2>1, <2>2
<1>12. x # 0 => m2.cell[x] = m.cell[x]
  BY <1>1, <1>3, <1>6
<1>13. QED
  BY <1>9, <1>10, <1>11, <1>12 DEF E, E2, a, b, x, b2, x2

-----------------------------------------------------------------------------
\* The functions of pmm.c.

\* What is no part of an address space, nor free, was none before and is as it was.
Untouched(m, R, m2, R2) ==
    \A p \in Page :
      p \notin m2.free \cup Live(m2.entry, R2) \cup Mapped(m2.entry, R2) =>
        /\ p \notin m.free \cup Live(m.entry, R) \cup Mapped(m.entry, R)
        /\ m2.entry[p] = m.entry[p] /\ m2.cell[p] = m.cell[p]

\* What was neither is neither now.
NoneGained(m, R, m2, R2) ==
    m2.free \cup Live(m2.entry, R2) \cup Mapped(m2.entry, R2)
      \subseteq m.free \cup Live(m.entry, R) \cup Mapped(m.entry, R)

RestSame(m, R, m2, R2) == Untouched(m, R, m2, R2) /\ NoneGained(m, R, m2, R2)

\* A table that has no entries is a table.
LEMMA EmptyFacts ==
    /\ Empty \in [Index -> 0 .. NPages] /\ \A i \in Index : Empty[i] = 0
    /\ Fresh \in [Offset -> Value] /\ \A i \in Offset : Fresh[i] = Junk
BY MmAssumption DEF Empty, Fresh, Value

\* AddTable takes the first free page as a table, if there is one and it is needed.
LEMMA AddTableStep ==
    ASSUME NEW m, NEW R, Owned(m, R), NEW t \in Live(m.entry, R), NEW i \in Index,
           t \notin Leaves(m.entry, R)
    PROVE  \/ /\ AddTable(m, t, i) = m
              /\ m.entry[t][i] # 0 \/ m.free = {}
           \/ /\ m.free # {} /\ Grown(m, R, AddTable(m, t, i), t, i, Min(m.free))
              /\ AddTable(m, t, i).entry[Min(m.free)] = Empty
              /\ \A p \in Page \ (Live(m.entry, R) \cup {Min(m.free)}) :
                   AddTable(m, t, i).entry[p] = m.entry[p]
<1> DEFINE q == Min(m.free)
           m2 == AddTable(m, t, i)
<1>1. /\ m \in MemType /\ R \cap m.free = {} /\ \A p \in m.free : m.cell[p] = Fresh
  BY DEF Owned
<1>2. /\ m.free \subseteq Page /\ m.ref \in [Page -> 0 .. 2]
      /\ m.entry \in [Page -> [Index -> 0 .. NPages]] /\ m.cell \in [Page -> [Offset -> Value]]
      /\ m = [free |-> m.free, ref |-> m.ref, entry |-> m.entry, cell |-> m.cell]
  BY <1>1, MemFacts
<1>3. Apart(m, R)
  BY LevelsApart
<1>4. CASE m.entry[t][i] # 0 \/ m.free = {}
  BY <1>4 DEF AddTable
<1>5. CASE m.entry[t][i] = 0 /\ m.free # {}
  <2>1. q \in m.free /\ q \in Page
    <3>1. m.free \subseteq Nat
      BY <1>2 DEF Page
    <3>2. Min(m.free) \in m.free
      BY <1>5, <3>1, MinIsMember
    <3>3. QED
      BY <1>2, <3>2
  <2>2. t \in Page /\ t # q /\ q \notin Live(m.entry, R) \cup Mapped(m.entry, R)
    BY <1>3, <2>1 DEF Apart
  <2> HIDE DEF q
  <2>3. m2 = [m EXCEPT !.free = @ \ {q}, !.ref[q] = 1,
                       !.entry = [@ EXCEPT ![q] = Empty, ![t][i] = q]]
    BY <1>5 DEF AddTable, q
  <2>4. m2 = [free |-> m.free \ {q}, ref |-> [m.ref EXCEPT ![q] = 1],
              entry |-> [m.entry EXCEPT ![q] = Empty, ![t][i] = q], cell |-> m.cell]
    BY <1>2, <2>3
  <2> DEFINE E1 == [m.entry EXCEPT ![q] = Empty]
             E2 == [E1 EXCEPT ![t][i] = q]
  <2>5. m2 = [free |-> m.free \ {q}, ref |-> [m.ref EXCEPT ![q] = 1],
              entry |-> E2, cell |-> m.cell]
    BY <2>4
  <2>6. E1 \in [Page -> [Index -> 0 .. NPages]] /\ E1[q] = Empty /\ \A u \in Page \ {q} : E1[u] = m.entry[u]
    BY <1>2, <2>1, EmptyFacts
  <2> HIDE DEF E1, m2
  <2>7. /\ E2 \in [Page -> [Index -> 0 .. NPages]] /\ E2[t][i] = q
        /\ \A u \in Page \ {t} : E2[u] = E1[u]
        /\ \A j \in Index \ {i} : E2[t][j] = E1[t][j]
    <3>1. q \in 0 .. NPages
      BY <2>1, MmAssumption DEF Page
    <3>2. QED
      BY <2>2, <2>6, <3>1
  <2> HIDE DEF E2
  <2>8. m2 \in MemType
    BY <1>2, <2>1, <2>5, <2>7 DEF MemType
  <2>9. /\ m2.free = m.free \ {q} /\ m2.entry = E2 /\ m2.cell = m.cell
        /\ m2.ref[q] = 1 /\ \A p \in Page \ {q} : m2.ref[p] = m.ref[p]
    BY <1>2, <2>1, <2>5
  <2>10. Live(m.entry, R) \subseteq Page
    BY <1>3 DEF Apart
  <2>11. \A u \in Live(m.entry, R) : \A j \in Index :
           u # t \/ j # i => m2.entry[u][j] = m.entry[u][j]
    BY <2>2, <2>6, <2>7, <2>9, <2>10
  <2>12. m2.entry[q] = Empty
    BY <2>1, <2>2, <2>6, <2>7, <2>9
  <2>13. \A p \in Page \ (Live(m.entry, R) \cup {q}) : m2.entry[p] = m.entry[p]
    BY <2>6, <2>7, <2>9
  <2>14. Grown(m, R, m2, t, i, q)
    BY <1>1, <1>5, <2>1, <2>2, <2>7, <2>8, <2>9, <2>11, <2>12, EmptyFacts DEF Grown
  <2>15. QED
    BY <1>5, <2>12, <2>13, <2>14 DEF m2, q
<1>6. QED
  BY <1>4, <1>5

\* What adding tables does to the address spaces: only the table for v of root d is new.
TablesAdded(m, R, m2, d, v) ==
    /\ Owned(m2, R) /\ m2.free \subseteq m.free /\ RestSame(m, R, m2, R)
    /\ Mapped(m2.entry, R) = Mapped(m.entry, R)
    /\ Live(m2.entry, R) \subseteq Live(m.entry, R) \cup m.free
    /\ \A p \in Page \ m.free : m2.ref[p] = m.ref[p] /\ m2.cell[p] = m.cell[p]
    /\ \A e \in R : Kept(m, m2, e)
    /\ \A e \in R : \A w \in VPage :
         TableOf(m2, e, w) = TableOf(m, e, w)
           \/ (e = d /\ PDX1(w) = PDX1(v) /\ PDX0(w) = PDX0(v))

\* One table.
LEMMA AddTableFacts ==
    ASSUME NEW m, NEW R, Owned(m, R), NEW t \in Live(m.entry, R), NEW i \in Index,
           t \notin Leaves(m.entry, R), NEW d \in R, NEW v \in VPage,
           \/ t = d /\ i = PDX1(v)
           \/ t = m.entry[d][PDX1(v)] /\ t \in Dirs(m.entry, R) /\ i = PDX0(v)
    PROVE  TablesAdded(m, R, AddTable(m, t, i), d, v)
<1> DEFINE q == Min(m.free)
           m2 == AddTable(m, t, i)
<1>1. CASE m2 = m
  <2>1. RestSame(m, R, m, R)
    BY DEF RestSame, Untouched, NoneGained
  <2>2. \A e \in R : Kept(m, m, e)
    BY DEF Kept
  <2>3. TablesAdded(m, R, m, d, v)
    BY <2>1, <2>2 DEF TablesAdded
  <2>4. QED
    BY <1>1, <2>3
<1>2. CASE m2 # m
  <2>1. /\ m.free # {} /\ Grown(m, R, m2, t, i, q) /\ m2.entry[q] = Empty
        /\ \A p \in Page \ (Live(m.entry, R) \cup {q}) : m2.entry[p] = m.entry[p]
    BY <1>2, AddTableStep
  <2>2. /\ Owned(m2, R) /\ LevelsAbove(m, R, m2, t, q) /\ PathsGrown(m, R, m2, t, i, q)
    BY <2>1, Grow, GrownLevels, GrowPaths
  <2> HIDE DEF m2
  <2>3. q \in m.free
    <3>1. m.free \subseteq Nat /\ m.free # {}
      BY <2>1, MemFacts DEF Owned, Page
    <3>2. QED
      BY <3>1, MinIsMember
  <2> HIDE DEF q
  <2>4. /\ m2.free = m.free \ {q}
        /\ \A p \in Page \ {q} : m2.ref[p] = m.ref[p] /\ m2.cell[p] = m.cell[p]
    BY <2>1 DEF Grown
  <2>5. /\ Mapped(m2.entry, R) = Mapped(m.entry, R)
        /\ Live(m2.entry, R) = Live(m.entry, R) \cup {q}
    BY <2>2 DEF LevelsAbove
  <2>6. RestSame(m, R, m2, R)
    BY <2>1, <2>3, <2>4, <2>5 DEF RestSame, Untouched, NoneGained
  <2>7. \A e \in R : Kept(m, m2, e)
    BY <2>2 DEF PathsGrown, Kept
  <2>8. ASSUME NEW e \in R, NEW w \in VPage
        PROVE  TableOf(m2, e, w) = TableOf(m, e, w)
                 \/ (e = d /\ PDX1(w) = PDX1(v) /\ PDX0(w) = PDX0(v))
    <3>1. CASE ~(t \in Dirs(m.entry, R) /\ m.entry[e][PDX1(w)] = t /\ PDX0(w) = i)
      <4>1. TableOf(m2, e, w) = IF t \in Dirs(m.entry, R) /\ m.entry[e][PDX1(w)] = t /\ PDX0(w) = i
                                  THEN q ELSE TableOf(m, e, w)
        BY <2>2 DEF PathsGrown
      <4>2. QED
        BY <3>1, <4>1
    <3>2. CASE t \in Dirs(m.entry, R) /\ m.entry[e][PDX1(w)] = t /\ PDX0(w) = i
      <4>1. Apart(m, R)
        BY LevelsApart
      <4>2. t # d /\ t # 0
        BY <3>2, <4>1, MmAssumption DEF Apart, Page
      <4>3. t = m.entry[d][PDX1(v)] /\ i = PDX0(v)
        BY <4>2
      <4>4. e = d /\ PDX1(w) = PDX1(v)
        BY <3>2, <4>2, <4>3, PathUnique
      <4>5. QED
        BY <3>2, <4>3, <4>4
    <3>3. QED
      BY <3>1, <3>2
  <2>9. QED
    BY <2>2, <2>3, <2>4, <2>5, <2>6, <2>7, <2>8 DEF TablesAdded, m2
<1>3. QED
  BY <1>1, <1>2

\* Two tables.
LEMMA TablesAddedTwice ==
    ASSUME NEW m, NEW R, NEW m1, NEW m2, NEW d, NEW v, Owned(m, R),
           TablesAdded(m, R, m1, d, v), TablesAdded(m1, R, m2, d, v)
    PROVE  TablesAdded(m, R, m2, d, v)
<1>1. Owned(m2, R) /\ m2.free \subseteq m.free
  BY DEF TablesAdded
<1>2. RestSame(m, R, m2, R)
  BY DEF TablesAdded, RestSame, Untouched, NoneGained
<1>3. /\ Mapped(m2.entry, R) = Mapped(m.entry, R)
      /\ Live(m2.entry, R) \subseteq Live(m.entry, R) \cup m.free
  BY DEF TablesAdded
<1>4. \A p \in Page \ m.free : m2.ref[p] = m.ref[p] /\ m2.cell[p] = m.cell[p]
  BY DEF TablesAdded
<1>5. \A e \in R : Kept(m, m2, e)
  BY DEF TablesAdded, Kept
<1>6. \A e \in R : \A w \in VPage :
         TableOf(m2, e, w) = TableOf(m, e, w)
           \/ (e = d /\ PDX1(w) = PDX1(v) /\ PDX0(w) = PDX0(v))
  BY DEF TablesAdded
<1>7. QED
  BY <1>1, <1>2, <1>3, <1>4, <1>5, <1>6 DEF TablesAdded

\* get_pte takes free pages as tables; no mapping changes.
LEMMA GetPteFacts ==
    ASSUME NEW m, NEW R, Owned(m, R), NEW d \in R, NEW v \in VPage
    PROVE  TablesAdded(m, R, get_pte(m, d, v), d, v)
<1> DEFINE m1 == AddTable(m, d, PDX1(v))
           a  == m1.entry[d][PDX1(v)]
           m2 == AddTable(m1, a, PDX0(v))
<1>1. PDX1(v) \in Index /\ PDX0(v) \in Index
  BY IndexFacts
<1>2. d \in Live(m.entry, R) /\ d \notin Leaves(m.entry, R)
  <2>1. Apart(m, R)
    BY LevelsApart
  <2>2. QED
    BY <2>1 DEF Apart, Live
<1>3. TablesAdded(m, R, m1, d, v)
  BY <1>1, <1>2, AddTableFacts
<1> HIDE DEF m1
<1>4. Owned(m1, R)
  BY <1>3 DEF TablesAdded
<1>5. get_pte(m, d, v) = IF a = 0 THEN m1 ELSE m2
  BY DEF get_pte, m1
<1>6. CASE a = 0
  BY <1>3, <1>5, <1>6
<1>7. CASE a # 0
  <2>1. Path(m1, R, d, v) /\ Apart(m1, R)
    BY <1>4, PathFacts, LevelsApart DEF Owned
  <2>2. a \in Dirs(m1.entry, R)
    BY <1>7, <2>1 DEF Path
  <2>3. a \in Live(m1.entry, R) /\ a \notin Leaves(m1.entry, R)
    BY <2>1, <2>2 DEF Apart, Live
  <2> HIDE DEF m2
  <2>4. TablesAdded(m1, R, m2, d, v)
    BY <1>1, <1>4, <2>2, <2>3, AddTableFacts DEF m2
  <2>5. TablesAdded(m, R, m2, d, v)
    BY <1>3, <2>4, TablesAddedTwice
  <2>6. QED
    BY <1>5, <1>7, <2>5
<1>8. QED
  BY <1>6, <1>7

\* The walks depend on the entries only.
LEMMA SameTables ==
    ASSUME NEW m, NEW m2, m2.entry = m.entry, NEW d, NEW v
    PROVE  TableOf(m2, d, v) = TableOf(m, d, v) /\ get_page(m2, d, v) = get_page(m, d, v)
BY DEF TableOf, get_page, Follow

\* alloc_page takes page q, whose contents become c.
Taken(m, q, c) == [m EXCEPT !.free = @ \ {q}, !.cell[q] = c]

\* No address space changes.
LEMMA TakePage ==
    ASSUME NEW m, NEW R, Owned(m, R), NEW q \in m.free, NEW c \in [Offset -> Value]
    PROVE  /\ Owned(Taken(m, q, c), R) /\ Taken(m, q, c).entry = m.entry
           /\ Taken(m, q, c).free = m.free \ {q} /\ Taken(m, q, c).ref = m.ref
           /\ Taken(m, q, c).cell = [m.cell EXCEPT ![q] = c]
<1> DEFINE m2 == Taken(m, q, c)
<1>1. /\ m \in MemType /\ R \cap m.free = {} /\ OneReferrer(m, R)
      /\ \A p \in m.free : m.ref[p] = 0 /\ m.cell[p] = Fresh
      /\ \A t \in Live(m.entry, R) : m.cell[t] = Fresh
  BY DEF Owned
<1>2. /\ m.free \subseteq Page /\ m.ref \in [Page -> 0 .. 2]
      /\ m.entry \in [Page -> [Index -> 0 .. NPages]] /\ m.cell \in [Page -> [Offset -> Value]]
      /\ m = [free |-> m.free, ref |-> m.ref, entry |-> m.entry, cell |-> m.cell]
  BY <1>1, MemFacts
<1>3. m2 = [free |-> m.free \ {q}, ref |-> m.ref, entry |-> m.entry,
            cell |-> [m.cell EXCEPT ![q] = c]]
  <2>1. m2 = [m EXCEPT !.free = m.free \ {q}, !.cell = [m.cell EXCEPT ![q] = c]]
    BY DEF Taken
  <2> HIDE DEF m2
  <2>2. QED
    BY <1>2, <2>1
<1> HIDE DEF m2
<1>4. /\ m2.free = m.free \ {q} /\ m2.ref = m.ref /\ m2.entry = m.entry
      /\ m2.cell = [m.cell EXCEPT ![q] = c]
  BY <1>3
<1>5. m2 \in MemType /\ q \in Page
  <2>1. [m.cell EXCEPT ![q] = c] \in [Page -> [Offset -> Value]]
    BY <1>2
  <2>2. QED
    BY <1>2, <1>3, <2>1 DEF MemType
<1>6. \A p \in Page \ {q} : m2.cell[p] = m.cell[p]
  BY <1>2, <1>4
<1>7. Apart(m, R)
  BY LevelsApart
<1>8. \A t \in Live(m.entry, R) : \A i \in Index :
        m.entry[t][i] # 0 => m.entry[t][i] \notin m.free /\ m.ref[m.entry[t][i]] = 1
  BY <1>1 DEF OneReferrer
<1>9. Shrunk(m, R, m2, R)
  <2>1. \A t \in Live(m.entry, R) : m2.cell[t] = Fresh
    BY <1>1, <1>6, <1>7 DEF Apart
  <2>2. \A p \in m2.free : m2.ref[p] = 0 /\ m2.cell[p] = Fresh
    BY <1>1, <1>2, <1>4, <1>6
  <2>3. QED
    BY <1>1, <1>4, <1>5, <1>8, <2>1, <2>2 DEF Shrunk
<1>10. Owned(m2, R)
  BY <1>9, Shrink
<1>11. QED
  BY <1>4, <1>10 DEF m2

\* Freeing pages that are no part of an address space.
LEMMA FreePages ==
    ASSUME NEW m, NEW R, Owned(m, R), NEW P \in SUBSET Page,
           P \cap (Live(m.entry, R) \cup Mapped(m.entry, R)) = {}
    PROVE  LET m2 == free_pages(m, P)
           IN  /\ Owned(m2, R) /\ m2.entry = m.entry /\ m2.free = m.free \cup P
               /\ \A q \in Page \ P : m2.ref[q] = m.ref[q] /\ m2.cell[q] = m.cell[q]
<1> DEFINE m2 == free_pages(m, P)
<1>1. /\ m \in MemType /\ R \cap m.free = {} /\ OneReferrer(m, R)
      /\ \A p \in m.free : m.ref[p] = 0 /\ m.cell[p] = Fresh
      /\ \A t \in Live(m.entry, R) : m.cell[t] = Fresh
  BY DEF Owned
<1>2. /\ m.free \subseteq Page /\ m.ref \in [Page -> 0 .. 2]
      /\ m.entry \in [Page -> [Index -> 0 .. NPages]] /\ m.cell \in [Page -> [Offset -> Value]]
      /\ m = [free |-> m.free, ref |-> m.ref, entry |-> m.entry, cell |-> m.cell]
  BY <1>1, MemFacts
<1>3. m2 = [free |-> m.free \cup P, ref |-> [q \in Page |-> IF q \in P THEN 0 ELSE m.ref[q]],
            entry |-> m.entry, cell |-> [q \in Page |-> IF q \in P THEN Fresh ELSE m.cell[q]]]
  <2>1. m2 = [m EXCEPT !.free = m.free \cup P,
                       !.ref = [q \in Page |-> IF q \in P THEN 0 ELSE m.ref[q]],
                       !.cell = [q \in Page |-> IF q \in P THEN Fresh ELSE m.cell[q]]]
    BY DEF free_pages
  <2> HIDE DEF m2
  <2>2. QED
    BY <1>2, <2>1
<1> HIDE DEF m2
<1>4. /\ m2.free = m.free \cup P /\ m2.entry = m.entry
      /\ \A q \in Page \ P : m2.ref[q] = m.ref[q] /\ m2.cell[q] = m.cell[q]
      /\ \A q \in P : m2.ref[q] = 0 /\ m2.cell[q] = Fresh
  BY <1>3
<1>5. m2 \in MemType
  <2>1. [q \in Page |-> IF q \in P THEN 0 ELSE m.ref[q]] \in [Page -> 0 .. 2]
    BY <1>2
  <2>2. [q \in Page |-> IF q \in P THEN Fresh ELSE m.cell[q]] \in [Page -> [Offset -> Value]]
    BY <1>2, EmptyFacts
  <2>3. QED
    BY <1>2, <1>3, <2>1, <2>2 DEF MemType
<1>6. Apart(m, R)
  BY LevelsApart
<1>7. ASSUME NEW t \in Live(m.entry, R), NEW i \in Index, m.entry[t][i] # 0
      PROVE  m.entry[t][i] \notin m2.free /\ m2.ref[m.entry[t][i]] = 1
  <2>1. /\ m.entry[t][i] \notin m.free /\ m.ref[m.entry[t][i]] = 1
    BY <1>1, <1>7 DEF OneReferrer
  <2>2. m.entry[t][i] \in Page /\ m.entry[t][i] \notin P
    <3>1. t \in Page /\ m.entry[t][i] \in Page
      BY <1>1, <1>6, <1>7, MemFacts DEF Apart
    <3>2. m.entry[t][i] \in Live(m.entry, R) \cup Mapped(m.entry, R)
      BY <3>1 DEF Live, Dirs, Leaves, Mapped, Level
    <3>3. QED
      BY <3>1, <3>2
  <2>3. QED
    BY <1>4, <2>1, <2>2
<1>8. Shrunk(m, R, m2, R)
  <2>1. \A t \in Live(m.entry, R) : m2.cell[t] = Fresh
    BY <1>1, <1>4, <1>6 DEF Apart
  <2>2. \A p \in m2.free : m2.ref[p] = 0 /\ m2.cell[p] = Fresh
    BY <1>1, <1>2, <1>4
  <2>3. R \cap P = {}
    BY DEF Live
  <2>4. QED
    BY <1>1, <1>4, <1>5, <1>7, <2>1, <2>2, <2>3 DEF Shrunk
<1>9. Owned(m2, R)
  BY <1>8, Shrink
<1>10. QED
  BY <1>4, <1>9 DEF m2

\* page_insert at an address that has no page: one more mapping.
PageInserted(m, R, m2, d, q, v) ==
    /\ Owned(m2, R) /\ Untouched(m, R, m2, R) /\ m2.free = m.free
    /\ Mapped(m2.entry, R) = Mapped(m.entry, R) \cup {q} /\ Live(m2.entry, R) = Live(m.entry, R)
    /\ m2.cell = m.cell
    /\ \A e \in R : \A w \in VPage :
         /\ TableOf(m2, e, w) = TableOf(m, e, w)
         /\ get_page(m2, e, w) = IF e = d /\ w = v THEN q ELSE get_page(m, e, w)

\* The page must be one that nobody has.
LEMMA PageInsertFacts ==
    ASSUME NEW m, NEW R, Owned(m, R), NEW d \in R, NEW v \in VPage, NEW q \in Page,
           q \notin m.free, q \notin Live(m.entry, R) \cup Mapped(m.entry, R), m.ref[q] = 0,
           TableOf(m, d, v) # 0, get_page(m, d, v) = 0
    PROVE  PageInserted(m, R, page_insert(m, d, q, v), d, q, v)
<1> DEFINE t == TableOf(m, d, v)
           i == PTX(v)
           m2 == page_insert(m, d, q, v)
<1>1. m \in MemType /\ Apart(m, R) /\ Path(m, R, d, v)
  BY LevelsApart, PathFacts DEF Owned
<1>2. /\ m.free \subseteq Page /\ m.ref \in [Page -> 0 .. 2]
      /\ m.entry \in [Page -> [Index -> 0 .. NPages]] /\ m.cell \in [Page -> [Offset -> Value]]
      /\ m = [free |-> m.free, ref |-> m.ref, entry |-> m.entry, cell |-> m.cell]
  BY <1>1, MemFacts
<1>3. /\ t \in Leaves(m.entry, R) /\ m.entry[t][i] = 0 /\ i \in Index /\ t \in Page
      /\ t \in Live(m.entry, R)
  BY <1>1, IndexFacts DEF Path, Apart, Live
<1>4. m2 = [m EXCEPT !.ref = [m.ref EXCEPT ![q] = 1], !.entry = [m.entry EXCEPT ![t][i] = q]]
  <2>1. m2 = [[m EXCEPT !.ref[q] = @ + 1] EXCEPT !.entry[t][i] = q]
    BY DEF page_insert
  <2>2. [m EXCEPT !.ref[q] = @ + 1] = [m EXCEPT !.ref = [m.ref EXCEPT ![q] = 1]]
    OBVIOUS
  <2> HIDE DEF m2, t, i
  <2>3. QED
    BY <1>2, <2>1, <2>2
<1> HIDE DEF m2, t, i
<1>5. m2 = [free |-> m.free, ref |-> [m.ref EXCEPT ![q] = 1],
            entry |-> [m.entry EXCEPT ![t][i] = q], cell |-> m.cell]
  BY <1>2, <1>4
<1> DEFINE E2 == [m.entry EXCEPT ![t][i] = q]
<1>6. /\ E2 \in [Page -> [Index -> 0 .. NPages]] /\ E2[t][i] = q
      /\ \A u \in Page : \A j \in Index : u # t \/ j # i => E2[u][j] = m.entry[u][j]
      /\ \A u \in Page \ {t} : E2[u] = m.entry[u]
  <2>1. q \in 0 .. NPages
    BY MmAssumption DEF Page
  <2>2. QED
    BY <1>2, <1>3, <2>1
<1>7. m2.free = m.free /\ m2.entry = E2 /\ m2.cell = m.cell /\ m2.ref = [m.ref EXCEPT ![q] = 1]
  BY <1>5
<1> HIDE DEF E2
<1>8. m2 \in MemType
  <2>1. m2 = [free |-> m.free, ref |-> [m.ref EXCEPT ![q] = 1], entry |-> E2, cell |-> m.cell]
    BY <1>5 DEF E2
  <2>2. [m.ref EXCEPT ![q] = 1] \in [Page -> 0 .. 2]
    BY <1>2
  <2>3. QED
    BY <1>2, <1>6, <2>1, <2>2 DEF MemType
<1>9. Live(m.entry, R) \subseteq Page
  BY <1>1 DEF Apart
<1>10. Grown(m, R, m2, t, i, q)
  <2>1. m2.ref[q] = 1 /\ \A p \in Page \ {q} : m2.ref[p] = m.ref[p]
    BY <1>2, <1>7
  <2>2. QED
    BY <1>3, <1>6, <1>7, <1>8, <1>9, <2>1 DEF Grown
<1>11. Owned(m2, R) /\ LevelsAbove(m, R, m2, t, q) /\ PathsGrown(m, R, m2, t, i, q)
  BY <1>10, Grow, GrownLevels, GrowPaths
<1>12. /\ Mapped(m2.entry, R) = Mapped(m.entry, R) \cup {q}
       /\ Live(m2.entry, R) = Live(m.entry, R)
  BY <1>3, <1>11 DEF LevelsAbove
<1>13. Untouched(m, R, m2, R)
  BY <1>3, <1>6, <1>7, <1>12 DEF Untouched
<1>14. ASSUME NEW e \in R, NEW w \in VPage
       PROVE  /\ TableOf(m2, e, w) = TableOf(m, e, w)
              /\ get_page(m2, e, w) = IF e = d /\ w = v THEN q ELSE get_page(m, e, w)
  <2>1. t \notin Dirs(m.entry, R)
    BY <1>1, <1>3 DEF Apart
  <2>2. /\ TableOf(m2, e, w) = TableOf(m, e, w)
        /\ get_page(m2, e, w) = IF TableOf(m, e, w) = t /\ PTX(w) = i THEN q ELSE get_page(m, e, w)
    BY <1>3, <1>11, <2>1 DEF PathsGrown
  <2>3. TableOf(m, e, w) = t /\ PTX(w) = i => e = d /\ w = v
    BY PathUnique, IndexUnique DEF t, i
  <2>4. QED
    BY <2>2, <2>3 DEF t, i
<1>15. QED
  BY <1>7, <1>11, <1>12, <1>13, <1>14 DEF PageInserted, m2

\* pgdir_alloc_page at an address that has no page: the rest of the address space is
\* as it was, but for the tables on the way there.
PageAdded(m, R, m2, d, v) ==
    /\ Owned(m2, R) /\ RestSame(m, R, m2, R)
    /\ \A e \in R : \A w \in VPage :
         /\ e # d \/ w # v =>
              /\ get_page(m2, e, w) = get_page(m, e, w)
              /\ get_page(m, e, w) # 0 => m2.cell[get_page(m, e, w)] = m.cell[get_page(m, e, w)]
         /\ \/ TableOf(m2, e, w) = TableOf(m, e, w)
            \/ e = d /\ PDX1(w) = PDX1(v) /\ PDX0(w) = PDX0(v)

\* The page that is taken first becomes the page of that address, or is given back.
LEMMA PgdirAllocFacts ==
    ASSUME NEW m, NEW R, Owned(m, R), NEW d \in R, NEW v \in VPage, get_page(m, d, v) = 0
    PROVE  PageAdded(m, R, pgdir_alloc_page(m, d, v), d, v)
<1> DEFINE q  == Min(m.free)
           m0 == [m EXCEPT !.free = @ \ {q}]
           m1 == get_pte(m0, d, v)
           m2 == pgdir_alloc_page(m, d, v)
<1>1. CASE m.free = {}
  <2>1. m2 = m
    BY <1>1 DEF pgdir_alloc_page
  <2>2. RestSame(m, R, m, R)
    BY DEF RestSame, Untouched, NoneGained
  <2>3. PageAdded(m, R, m, d, v)
    BY <2>2 DEF PageAdded
  <2>4. QED
    BY <2>1, <2>3
<1>2. CASE m.free # {}
  <2>1. q \in m.free /\ q \in Page
    <3>1. m.free \subseteq Nat /\ m.free \subseteq Page
      BY MemFacts DEF Owned, Page
    <3>2. QED
      BY <1>2, <3>1, MinIsMember
  <2>2. Apart(m, R) /\ m.cell[q] = Fresh /\ m.ref[q] = 0
    BY <2>1, LevelsApart DEF Owned
  <2> HIDE DEF q
  <2>3. /\ Owned(m0, R) /\ m0.entry = m.entry /\ m0.free = m.free \ {q}
        /\ m0.ref = m.ref /\ m0.cell = m.cell
    <3>1. m \in MemType /\ m.cell \in [Page -> [Offset -> Value]]
      BY MemFacts DEF Owned
    <3>2. m.cell = [m.cell EXCEPT ![q] = Fresh]
      BY <2>1, <2>2, <3>1
    <3>3. m = [free |-> m.free, ref |-> m.ref, entry |-> m.entry, cell |-> m.cell]
      BY <3>1, MemFacts
    <3>4. m0 = [m EXCEPT !.free = @ \ {q}, !.cell[q] = Fresh]
      BY <3>2, <3>3
    <3> HIDE DEF m0
    <3>5. Fresh \in [Offset -> Value]
      BY EmptyFacts
    <3>6. /\ Owned(m0, R) /\ m0.entry = m.entry /\ m0.free = m.free \ {q}
          /\ m0.ref = m.ref /\ m0.cell = [m.cell EXCEPT ![q] = Fresh]
      <4>1. m0 = Taken(m, q, Fresh)
        BY <3>4 DEF Taken
      <4>2. QED
        BY <2>1, <3>5, <4>1, TakePage
    <3>7. QED
      BY <3>2, <3>6
  <2> HIDE DEF m0
  <2>4. TablesAdded(m0, R, m1, d, v)
    BY <2>3, GetPteFacts
  <2>5. m2 = IF TableOf(m1, d, v) = 0 THEN free_pages(m1, {q}) ELSE page_insert(m1, d, q, v)
    BY <1>2 DEF pgdir_alloc_page, m0, q
  <2> HIDE DEF m1, m2
  <2>6. /\ Owned(m1, R) /\ m1.free \subseteq m0.free /\ RestSame(m0, R, m1, R)
        /\ Mapped(m1.entry, R) = Mapped(m0.entry, R)
        /\ Live(m1.entry, R) \subseteq Live(m0.entry, R) \cup m0.free
        /\ m1.ref[q] = 0
    BY <2>1, <2>2, <2>3, <2>4 DEF TablesAdded
  <2>7. q \notin m1.free /\ q \notin Live(m1.entry, R) \cup Mapped(m1.entry, R)
    BY <2>1, <2>2, <2>3, <2>6 DEF Apart
  <2>8. \A e \in R : \A w \in VPage :
          /\ get_page(m1, e, w) = get_page(m, e, w)
          /\ get_page(m, e, w) # 0 => m1.cell[get_page(m, e, w)] = m.cell[get_page(m, e, w)]
          /\ \/ TableOf(m1, e, w) = TableOf(m, e, w)
             \/ e = d /\ PDX1(w) = PDX1(v) /\ PDX0(w) = PDX0(v)
    <3>1. \A e \in R : \A w \in VPage :
            /\ get_page(m0, e, w) = get_page(m, e, w) /\ TableOf(m0, e, w) = TableOf(m, e, w)
      BY <2>3, SameTables
    <3>2. QED
      BY <2>3, <2>4, <3>1 DEF TablesAdded, Kept
  <2>9. \A e \in R : \A w \in VPage : get_page(m, e, w) # q
    <3>1. ASSUME NEW e \in R, NEW w \in VPage, get_page(m, e, w) = q PROVE FALSE
      <4>1. Path(m, R, e, w) /\ q # 0
        BY <2>1, PathFacts, MmAssumption DEF Owned, Page
      <4>2. q \in Mapped(m.entry, R)
        BY <3>1, <4>1 DEF Path
      <4>3. QED
        BY <2>1, <2>2, <4>2 DEF Apart
    <3>2. QED
      BY <3>1
  <2>10. CASE TableOf(m1, d, v) = 0
    <3>1. m2 = free_pages(m1, {q})
      BY <2>5, <2>10
    <3>2. /\ Owned(m2, R) /\ m2.entry = m1.entry /\ m2.free = m1.free \cup {q}
          /\ \A p \in Page \ {q} : m2.ref[p] = m1.ref[p] /\ m2.cell[p] = m1.cell[p]
      BY <2>1, <2>6, <2>7, <3>1, FreePages
    <3>3. RestSame(m, R, m2, R)
      BY <2>1, <2>3, <2>6, <3>2 DEF RestSame, Untouched, NoneGained
    <3>4. \A e \in R : \A w \in VPage :
            get_page(m2, e, w) = get_page(m1, e, w) /\ TableOf(m2, e, w) = TableOf(m1, e, w)
      BY <3>2, SameTables
    <3>5. ASSUME NEW e \in R, NEW w \in VPage, get_page(m, e, w) # 0
          PROVE  m2.cell[get_page(m, e, w)] = m.cell[get_page(m, e, w)]
      <4>1. Path(m, R, e, w)
        BY PathFacts DEF Owned
      <4>2. get_page(m, e, w) \in Page
        BY <2>2, <3>5, <4>1 DEF Path, Apart
      <4>3. QED
        BY <2>8, <2>9, <3>2, <3>5, <4>2
    <3>6. QED
      BY <2>8, <3>2, <3>3, <3>4, <3>5 DEF PageAdded, m2
  <2>11. CASE TableOf(m1, d, v) # 0
    <3>1. m2 = page_insert(m1, d, q, v) /\ get_page(m1, d, v) = 0
      BY <2>5, <2>8, <2>11
    <3>2. PageInserted(m1, R, m2, d, q, v)
      BY <2>1, <2>6, <2>7, <2>11, <3>1, PageInsertFacts
    <3>3. RestSame(m, R, m2, R)
      <4>1. /\ Untouched(m1, R, m2, R) /\ m2.free = m1.free
            /\ Mapped(m2.entry, R) = Mapped(m1.entry, R) \cup {q}
            /\ Live(m2.entry, R) = Live(m1.entry, R)
        BY <3>2 DEF PageInserted
      <4>2. Untouched(m, R, m2, R)
        BY <2>3, <2>6, <4>1 DEF RestSame, Untouched
      <4>3. NoneGained(m, R, m2, R)
        BY <2>1, <2>3, <2>6, <4>1 DEF RestSame, NoneGained
      <4>4. QED
        BY <4>2, <4>3 DEF RestSame
    <3>4. QED
      BY <2>8, <3>2, <3>3 DEF PageInserted, PageAdded, m2
  <2>12. QED
    BY <2>10, <2>11
<1>3. QED
  BY <1>1, <1>2

\* unmap_range: no page is mapped in the area, the tables stay.
RangeUnmapped(m, R, m2, d, area) ==
    /\ Owned(m2, R) /\ RestSame(m, R, m2, R)
    /\ \A e \in R : \A w \in VPage :
         /\ TableOf(m2, e, w) = TableOf(m, e, w)
         /\ get_page(m2, e, w) = IF e = d /\ w \in PagesOf(area) THEN 0 ELSE get_page(m, e, w)
         /\ get_page(m2, e, w) # 0 => m2.cell[get_page(m2, e, w)] = m.cell[get_page(m2, e, w)]

\* Each page of the area is mapped once, so its only reference goes and it is freed.
LEMMA UnmapRangeFacts ==
    ASSUME NEW m, NEW R, Owned(m, R), NEW d \in R, NEW area, PagesOf(area) \subseteq VPage
    PROVE  RangeUnmapped(m, R, unmap_range(m, d, area), d, area)
<1> DEFINE here  == {v \in PagesOf(area) : get_page(m, d, v) # 0}
           pages == {get_page(m, d, v) : v \in here}
           left  == [q \in Page |-> m.ref[q] - Cardinality({v \in here : get_page(m, d, v) = q})]
           tables == {TableOf(m, d, v) : v \in here}
           Gone(t, i) == \E v \in here : TableOf(m, d, v) = t /\ PTX(v) = i
           E2 == [t \in Page |-> IF t \notin tables THEN m.entry[t]
                                 ELSE [i \in Index |-> IF Gone(t, i) THEN 0 ELSE m.entry[t][i]]]
           m2 == unmap_range(m, d, area)
           m1 == [m EXCEPT !.ref = left, !.entry = E2]
<1>1. /\ m \in MemType /\ Apart(m, R) /\ OneReferrer(m, R)
      /\ \A q \in m.free : m.ref[q] = 0 /\ m.cell[q] = Fresh
      /\ \A t \in Live(m.entry, R) : m.cell[t] = Fresh
      /\ R \cap m.free = {}
  BY LevelsApart DEF Owned
<1>2. /\ m.free \subseteq Page /\ m.ref \in [Page -> 0 .. 2]
      /\ m.entry \in [Page -> [Index -> 0 .. NPages]] /\ m.cell \in [Page -> [Offset -> Value]]
      /\ m = [free |-> m.free, ref |-> m.ref, entry |-> m.entry, cell |-> m.cell]
  BY <1>1, MemFacts
<1>3. \A v \in here : /\ v \in VPage /\ PTX(v) \in Index /\ get_page(m, d, v) \in Mapped(m.entry, R)
                      /\ get_page(m, d, v) # 0 /\ get_page(m, d, v) \in Page
                      /\ TableOf(m, d, v) \in Leaves(m.entry, R)
                      /\ get_page(m, d, v) = m.entry[TableOf(m, d, v)][PTX(v)]
  <2> SUFFICES ASSUME NEW v \in here
      PROVE /\ v \in VPage /\ PTX(v) \in Index /\ get_page(m, d, v) \in Mapped(m.entry, R)
            /\ get_page(m, d, v) # 0 /\ get_page(m, d, v) \in Page
            /\ TableOf(m, d, v) \in Leaves(m.entry, R)
            /\ get_page(m, d, v) = m.entry[TableOf(m, d, v)][PTX(v)]
    OBVIOUS
  <2>1. v \in VPage /\ get_page(m, d, v) # 0
    OBVIOUS
  <2>2. Path(m, R, d, v) /\ PTX(v) \in Index
    BY <2>1, PathFacts, IndexFacts DEF Owned
  <2>3. QED
    BY <1>1, <2>1, <2>2 DEF Path, Apart
<1>4. pages \subseteq Page /\ pages \subseteq Mapped(m.entry, R)
  BY <1>3
<1>5. \A q \in Page : left[q] = IF q \in pages THEN 0 ELSE m.ref[q]
  <2> SUFFICES ASSUME NEW q \in Page PROVE left[q] = IF q \in pages THEN 0 ELSE m.ref[q]
    OBVIOUS
  <2> DEFINE S == {v \in here : get_page(m, d, v) = q}
  <2>1. left[q] = m.ref[q] - Cardinality(S) /\ m.ref[q] \in Int
    BY <1>2
  <2>2. CASE q \in pages
    <3>1. PICK v \in here : q = get_page(m, d, v)
      BY <2>2
    <3>2. \A w \in here : get_page(m, d, w) = q => w = v
      BY <1>3, <3>1, PathUnique
    <3>3. S = {v}
      BY <3>1, <3>2
    <3>4. Cardinality(S) = 1
      BY <3>3, FS_Singleton
    <3>5. m.ref[q] = 1
      <4>1. TableOf(m, d, v) \in Live(m.entry, R)
        BY <1>3 DEF Live
      <4>2. QED
        BY <1>1, <1>3, <3>1, <4>1 DEF OneReferrer
    <3>6. QED
      BY <2>1, <2>2, <3>4, <3>5
  <2>3. CASE q \notin pages
    <3>1. S = {}
      BY <2>3
    <3>2. Cardinality(S) = 0
      BY <3>1, FS_EmptySet
    <3>3. QED
      BY <2>1, <2>3, <3>2
  <2>4. QED
    BY <2>2, <2>3
<1>6. {q \in pages : left[q] = 0} = pages
  BY <1>4, <1>5
<1>7. m2 = free_pages(m1, pages)
  <2>1. m2 = free_pages(m1, {q \in pages : left[q] = 0})
    BY DEF unmap_range
  <2>2. QED
    BY <1>6, <2>1
<1> HIDE DEF left, tables, m2
<1>8. m1 = [free |-> m.free, ref |-> left, entry |-> E2, cell |-> m.cell]
  <2> HIDE DEF E2
  <2>1. m1 = [m EXCEPT !.ref = left, !.entry = E2]
    OBVIOUS
  <2> HIDE DEF m1
  <2>2. QED
    BY <1>2, <2>1
<1> HIDE DEF m1
<1>9. /\ m2 = [free |-> m.free \cup pages, ref |-> [q \in Page |-> IF q \in pages THEN 0 ELSE left[q]],
               entry |-> E2, cell |-> [q \in Page |-> IF q \in pages THEN Fresh ELSE m.cell[q]]]
  <2> HIDE DEF E2, pages
  <2>1. m2 = [m1 EXCEPT !.free = m1.free \cup pages,
                        !.ref = [q \in Page |-> IF q \in pages THEN 0 ELSE m1.ref[q]],
                        !.cell = [q \in Page |-> IF q \in pages THEN Fresh ELSE m1.cell[q]]]
    BY <1>7 DEF free_pages
  <2>2. QED
    BY <1>8, <2>1
<1>10. /\ m2.free = m.free \cup pages /\ m2.entry = E2
       /\ \A q \in Page : m2.ref[q] = IF q \in pages THEN 0 ELSE m.ref[q]
       /\ \A q \in Page : m2.cell[q] = IF q \in pages THEN Fresh ELSE m.cell[q]
  <2> HIDE DEF E2, pages
  <2>1. QED
    BY <1>5, <1>9
<1>11. \A t \in Page : \A i \in Index : E2[t][i] = IF Gone(t, i) THEN 0 ELSE m.entry[t][i]
  <2> SUFFICES ASSUME NEW t \in Page, NEW i \in Index
               PROVE  E2[t][i] = IF Gone(t, i) THEN 0 ELSE m.entry[t][i]
    OBVIOUS
  <2>1. Gone(t, i) => t \in tables
    BY DEF tables
  <2> HIDE DEF Gone
  <2>2. QED
    BY <2>1
<1>12. /\ \A t \in Page \ Leaves(m.entry, R) : E2[t] = m.entry[t]
       /\ E2 \in [Page -> [Index -> 0 .. NPages]]
  <2>1. tables \subseteq Leaves(m.entry, R)
    BY <1>3 DEF tables
  <2> HIDE DEF Gone
  <2>2. 0 \in 0 .. NPages
    BY MmAssumption
  <2>3. QED
    BY <1>2, <2>1, <2>2
<1> HIDE DEF E2
<1>13. m2 \in MemType
  <2>1. [q \in Page |-> IF q \in pages THEN 0 ELSE left[q]] \in [Page -> 0 .. 2]
    BY <1>2, <1>5
  <2>2. [q \in Page |-> IF q \in pages THEN Fresh ELSE m.cell[q]] \in [Page -> [Offset -> Value]]
    BY <1>2, EmptyFacts
  <2>3. QED
    BY <1>2, <1>4, <1>9, <1>12, <2>1, <2>2 DEF MemType
<1>14. \A t \in Live(m.entry, R) : \A i \in Index : E2[t][i] \in {0, m.entry[t][i]}
  BY <1>1, <1>11 DEF Apart
<1>15. LevelsBelow(m, R, m2, R)
  BY <1>10, <1>14, LevelsMono
<1>16. Shrunk(m, R, m2, R)
  <2>1. ASSUME NEW t \in Live(m.entry, R), NEW i \in Index, E2[t][i] # 0
        PROVE  E2[t][i] \notin m2.free /\ m2.ref[E2[t][i]] = 1
    <3>1. /\ t \in Page /\ E2[t][i] = m.entry[t][i] /\ ~Gone(t, i) /\ m.entry[t][i] # 0
          /\ m.entry[t][i] \in Page
      BY <1>1, <1>11, <2>1, MemFacts DEF Apart
    <3>2. /\ m.entry[t][i] \notin m.free /\ m.ref[m.entry[t][i]] = 1
          /\ \A u \in Live(m.entry, R) : \A j \in Index :
               m.entry[u][j] = m.entry[t][i] => u = t /\ j = i
      BY <1>1, <3>1 DEF OneReferrer
    <3>3. m.entry[t][i] \notin pages
      <4>1. ASSUME NEW v \in here, m.entry[t][i] = get_page(m, d, v) PROVE FALSE
        <5>1. TableOf(m, d, v) \in Live(m.entry, R) /\ PTX(v) \in Index
          BY <1>3 DEF Live
        <5>2. TableOf(m, d, v) = t /\ PTX(v) = i
          BY <1>3, <3>2, <4>1, <5>1
        <5>3. QED
          BY <3>1, <5>2
      <4>2. QED
        BY <4>1
    <3> HIDE DEF pages
    <3>4. QED
      BY <1>10, <3>1, <3>2, <3>3
  <2>2. Live(m2.entry, R) \subseteq Live(m.entry, R) /\ Live(m.entry, R) \subseteq Page
    BY <1>1, <1>15 DEF LevelsBelow, Apart
  <2>3. R \cap m2.free = {}
    BY <1>1, <1>4, <1>10 DEF Apart
  <2> HIDE DEF pages
  <2>4. \A q \in m2.free : m2.ref[q] = 0 /\ m2.cell[q] = Fresh
    BY <1>1, <1>2, <1>4, <1>10
  <2>5. \A t \in Live(m2.entry, R) : m2.cell[t] = Fresh
    BY <1>1, <1>10, <2>2
  <2>6. QED
    BY <1>10, <1>13, <1>14, <2>1, <2>2, <2>3, <2>4, <2>5 DEF Shrunk
<1>17. Owned(m2, R)
  BY <1>16, Shrink
<1>18. Dirs(E2, R) = Dirs(m.entry, R) /\ Leaves(E2, R) = Leaves(m.entry, R)
  <2>1. \A t \in R \cup Dirs(m.entry, R) : E2[t] = m.entry[t]
    BY <1>1, <1>12 DEF Apart
  <2>2. Level(E2, R) = Level(m.entry, R)
    BY <2>1, LevelSame
  <2>3. Level(E2, Dirs(m.entry, R)) = Level(m.entry, Dirs(m.entry, R))
    BY <2>1, LevelSame
  <2>4. QED
    BY <2>2, <2>3 DEF Dirs, Leaves
<1>19. Untouched(m, R, m2, R)
  <2> SUFFICES ASSUME NEW p \in Page,
                      p \notin m2.free \cup Live(m2.entry, R) \cup Mapped(m2.entry, R)
      PROVE /\ p \notin m.free \cup Live(m.entry, R) \cup Mapped(m.entry, R)
            /\ m2.entry[p] = m.entry[p] /\ m2.cell[p] = m.cell[p]
    BY DEF Untouched
  <2>1. Live(m2.entry, R) = Live(m.entry, R)
    BY <1>10, <1>18 DEF Live
  <2>2. p \notin pages /\ p \notin m.free /\ p \notin Leaves(m.entry, R) /\ p \notin Live(m.entry, R)
    BY <1>10, <2>1 DEF Live
  <2>3. ASSUME p \in Mapped(m.entry, R) PROVE FALSE
    <3>1. PICK t \in Leaves(m.entry, R) : \E i \in Index : m.entry[t][i] = p
      BY <2>3 DEF Mapped, Level
    <3>2. PICK i \in Index : m.entry[t][i] = p
      BY <3>1
    <3>3. t \in Page
      BY <1>1 DEF Apart
    <3>4. CASE Gone(t, i)
      <4>1. PICK v \in here : TableOf(m, d, v) = t /\ PTX(v) = i
        BY <3>4
      <4>2. p = get_page(m, d, v)
        BY <1>3, <3>2, <4>1
      <4>3. QED
        BY <2>2, <4>2
    <3>5. CASE ~Gone(t, i)
      <4>1. E2[t][i] = p
        BY <1>11, <3>2, <3>3, <3>5
      <4>2. p \in Mapped(E2, R)
        BY <1>18, <4>1 DEF Mapped, Level
      <4>3. QED
        BY <1>10, <4>2
    <3>6. QED
      BY <3>4, <3>5
  <2>4. m2.entry[p] = m.entry[p] /\ m2.cell[p] = m.cell[p]
    <3> HIDE DEF pages
    <3>1. QED
      BY <1>10, <1>12, <2>2
  <2>5. QED
    BY <2>2, <2>3, <2>4
<1>20. ASSUME NEW e \in R, NEW w \in VPage
       PROVE  /\ TableOf(m2, e, w) = TableOf(m, e, w)
              /\ get_page(m2, e, w) = IF e = d /\ w \in PagesOf(area) THEN 0 ELSE get_page(m, e, w)
              /\ get_page(m2, e, w) # 0 =>
                   m2.cell[get_page(m2, e, w)] = m.cell[get_page(m2, e, w)]
  <2> DEFINE a == m.entry[e][PDX1(w)]
             b == TableOf(m, e, w)
             x == get_page(m, e, w)
  <2>1. /\ PDX1(w) \in Index /\ PDX0(w) \in Index /\ PTX(w) \in Index
        /\ Path(m, R, e, w) /\ e # 0 /\ e \in Page
    <3>1. e \in Page
      BY <1>1 DEF Apart
    <3>2. e # 0
      BY <3>1, MmAssumption DEF Page
    <3>3. R \in SUBSET Page
      BY <1>1 DEF Apart
    <3>4. Path(m, R, e, w)
      BY <1>1, <3>3, PathFacts
    <3>5. QED
      BY <3>1, <3>2, <3>4, IndexFacts
  <2>2. /\ e \notin Leaves(m.entry, R) /\ E2[e] = m.entry[e]
        /\ a # 0 => a \in Page /\ E2[a] = m.entry[a] /\ b = m.entry[a][PDX0(w)]
        /\ a = 0 => b = 0
    BY <1>1, <1>12, <2>1 DEF Path, Apart
  <2>3. TableOf(m2, e, w) = b
    BY <1>10, <2>1, <2>2 DEF TableOf, Follow
  <2>4. /\ b # 0 => b \in Page /\ x = m.entry[b][PTX(w)]
        /\ b = 0 => x = 0
    BY <1>1, <2>1 DEF Path, Apart
  <2>5. get_page(m2, e, w) = IF b = 0 THEN 0 ELSE E2[b][PTX(w)]
    BY <1>10, <2>3 DEF get_page, Follow
  <2>6. get_page(m2, e, w) = IF b # 0 /\ Gone(b, PTX(w)) THEN 0 ELSE x
    <3> HIDE DEF Gone, b, x
    <3>1. QED
      BY <1>11, <2>1, <2>4, <2>5
  <2>7. b # 0 => (Gone(b, PTX(w)) <=> (e = d /\ w \in PagesOf(area) /\ x # 0))
    <3>1. ASSUME b # 0, NEW v \in here, TableOf(m, d, v) = b, PTX(v) = PTX(w)
          PROVE  e = d /\ w \in PagesOf(area) /\ x # 0
      <4>1. e = d /\ PDX1(w) = PDX1(v) /\ PDX0(w) = PDX0(v)
        BY <1>3, <3>1, PathUnique
      <4>2. w = v
        BY <1>3, <3>1, <4>1, IndexUnique
      <4>3. QED
        BY <3>1, <4>1, <4>2
    <3>2. ASSUME e = d, w \in PagesOf(area), x # 0 PROVE Gone(b, PTX(w))
      <4>1. w \in here
        BY <3>2
      <4>2. QED
        BY <3>2, <4>1
    <3>3. QED
      BY <3>1, <3>2
  <2>8. get_page(m2, e, w) = IF e = d /\ w \in PagesOf(area) THEN 0 ELSE x
    <3> HIDE DEF Gone, b, x
    <3>1. QED
      BY <2>4, <2>6, <2>7
  <2>9. ASSUME get_page(m2, e, w) # 0
        PROVE  m2.cell[get_page(m2, e, w)] = m.cell[get_page(m2, e, w)]
    <3>1. x # 0 /\ get_page(m2, e, w) = x /\ ~(e = d /\ w \in PagesOf(area))
      <4> HIDE DEF x
      <4>1. QED
        BY <2>8, <2>9
    <3>2. x \in Page
      BY <1>1, <2>1, <3>1 DEF Path, Apart
    <3>3. x \notin pages
      <4>1. ASSUME NEW v \in here, x = get_page(m, d, v) PROVE FALSE
        <5>1. e = d /\ w = v
          BY <1>3, <3>1, <4>1, PathUnique
        <5>2. QED
          BY <3>1, <5>1
      <4>2. QED
        BY <4>1
    <3> HIDE DEF x, pages
    <3>4. QED
      BY <1>10, <3>1, <3>2, <3>3
  <2>10. QED
    BY <2>3, <2>8, <2>9
<1>20a. RestSame(m, R, m2, R)
  <2>1. NoneGained(m, R, m2, R)
    BY <1>4, <1>10, <1>15 DEF NoneGained, LevelsBelow
  <2>2. QED
    BY <1>19, <2>1 DEF RestSame
<1>21. QED
  BY <1>17, <1>20a, <1>20 DEF RangeUnmapped, m2

\* A larger number has no smaller quotient.
LEMMA DivMono ==
    ASSUME NEW a \in Nat, NEW b \in Nat, NEW n \in Nat \ {0}, a <= b
    PROVE  a \div n <= b \div n
<1> DEFINE q == a \div n
           r == b \div n
<1>1. /\ q \in Nat /\ r \in Nat /\ n * q <= a /\ b < n * r + n
  BY DivFacts
<1> HIDE DEF q, r
<1>2. SUFFICES ASSUME r + 1 <= q PROVE FALSE
  BY <1>1 DEF q, r
<1>3. n * (r + 1) <= n * q /\ n * (r + 1) = n * r + n
  BY <1>1, <1>2
<1>4. QED
  BY <1>1, <1>3

\* Three indices are a virtual page number.
LEMMA IndexExists ==
    ASSUME NEW i \in Index, NEW j \in Index, NEW k \in Index
    PROVE  \E v \in VPage : PDX1(v) = i /\ PDX0(v) = j /\ PTX(v) = k
<1> DEFINE N == NPTEENTRY
           q == N * i + j
           v == N * q + k
<1>1. N \in Nat \ {0} /\ i \in Nat /\ j \in 0 .. N - 1 /\ k \in 0 .. N - 1 /\ i <= N - 1
  BY MmAssumption DEF Index
<1>2. N * N \in Nat \ {0} /\ NVirtual = (N * N) * N
  BY NVirtualFacts
<1> HIDE DEF N
<1>3. q \in Nat /\ q \div N = i /\ q % N = j
  BY <1>1, DivUnique
<1>4. v \in Nat /\ v \div N = q /\ v % N = k
  <2> HIDE DEF q
  <2>1. QED
    BY <1>1, <1>3, DivUnique
<1>5. v = (N * N) * i + (N * j + k)
  <2>1. N * (N * i + j) = (N * N) * i + N * j
    BY <1>1
  <2>2. N * i \in Int /\ N * j \in Int /\ N * (N * i + j) \in Int /\ (N * N) * i \in Int /\ k \in Int
    BY <1>1, <1>2
  <2>3. QED
    BY <2>1, <2>2
<1>6. N * j + k \in 0 .. N * N - 1
  <2>1. N * j <= N * (N - 1) /\ N * (N - 1) = N * N - N /\ N * j \in Nat
    BY <1>1
  <2>2. QED
    BY <1>1, <1>2, <2>1
<1> HIDE DEF v
<1>7. v \div (N * N) = i
  <2> DEFINE r == N * j + k
             M == N * N
  <2>1. r \in 0 .. M - 1 /\ v = M * i + r /\ M \in Nat \ {0}
    BY <1>2, <1>5, <1>6
  <2> HIDE DEF r, M
  <2>2. v \div M = i
    BY <1>1, <2>1, DivUnique
  <2>3. QED
    BY <2>2 DEF M
<1>8. v \in VPage
  <2> DEFINE M == N * N
  <2>1. v = M * i + (N * j + k) /\ N * j + k \in 0 .. M - 1 /\ M \in Nat \ {0} /\ NVirtual = M * N
    BY <1>2, <1>5, <1>6
  <2> HIDE DEF M
  <2>2. M * i <= M * (N - 1) /\ M * (N - 1) = M * N - M /\ M * i \in Nat
    BY <1>1, <2>1
  <2>3. v < M * N
    BY <1>1, <2>1, <2>2
  <2>4. QED
    BY <1>4, <2>1, <2>3 DEF VPage
<1>9. PDX1(v) = i /\ PDX0(v) = j /\ PTX(v) = k
  BY <1>3, <1>4, <1>7 DEF PDX1, PDX0, PTX, N
<1>10. QED
  BY <1>8, <1>9

\* Every directory, every table and every page in use is on the walk for some address.
OnPaths(m, R) ==
    /\ \A p \in Dirs(m.entry, R) : \E e \in R : \E v \in VPage : m.entry[e][PDX1(v)] = p
    /\ \A p \in Leaves(m.entry, R) : \A k \in Index :
         \E e \in R : \E v \in VPage : TableOf(m, e, v) = p /\ PTX(v) = k
    /\ \A p \in Mapped(m.entry, R) : \E e \in R : \E v \in VPage : get_page(m, e, v) = p

\* Any three indices are those of an address.
LEMMA OnSomePath ==
    ASSUME NEW m \in MemType, NEW R \in SUBSET Page
    PROVE  OnPaths(m, R)
<1> DEFINE E == m.entry
<1>1. 0 \in Index
  BY MmAssumption DEF Index
<1>2. ASSUME NEW p \in Dirs(E, R)
      PROVE  \E e \in R : \E v \in VPage : E[e][PDX1(v)] = p
  <2>1. PICK e \in R : \E i \in Index : E[e][i] = p
    BY <1>2 DEF Dirs, Level
  <2>2. PICK i \in Index : E[e][i] = p
    BY <2>1
  <2>3. PICK v \in VPage : PDX1(v) = i /\ PDX0(v) = 0 /\ PTX(v) = 0
    BY <1>1, IndexExists
  <2>4. QED
    BY <2>2, <2>3
<1>3. ASSUME NEW p \in Leaves(E, R), NEW k \in Index
      PROVE  \E e \in R : \E v \in VPage : TableOf(m, e, v) = p /\ PTX(v) = k
  <2>1. PICK t \in Dirs(E, R) : \E j \in Index : E[t][j] = p
    BY <1>3 DEF Leaves, Dirs, Level
  <2>2. PICK j \in Index : E[t][j] = p
    BY <2>1
  <2>3. PICK e \in R : \E i \in Index : E[e][i] = t
    BY <2>1 DEF Dirs, Level
  <2>4. PICK i \in Index : E[e][i] = t
    BY <2>3
  <2>5. PICK v \in VPage : PDX1(v) = i /\ PDX0(v) = j /\ PTX(v) = k
    BY IndexExists
  <2>6. e # 0 /\ t # 0
    BY MmAssumption DEF Dirs, Level, Page
  <2>7. TableOf(m, e, v) = p
    BY <2>2, <2>4, <2>5, <2>6 DEF TableOf, Follow
  <2>8. QED
    BY <2>5, <2>7
<1>4. ASSUME NEW p \in Mapped(E, R)
      PROVE  \E e \in R : \E v \in VPage : get_page(m, e, v) = p
  <2>1. PICK t \in Leaves(E, R) : \E k \in Index : E[t][k] = p
    BY <1>4 DEF Mapped, Level
  <2>2. PICK k \in Index : E[t][k] = p
    BY <2>1
  <2>3. PICK e \in R : \E v \in VPage : TableOf(m, e, v) = t /\ PTX(v) = k
    BY <1>3
  <2>4. PICK v \in VPage : TableOf(m, e, v) = t /\ PTX(v) = k
    BY <2>3
  <2>5. t # 0
    BY MmAssumption DEF Leaves, Level, Page
  <2>6. get_page(m, e, v) = p
    BY <2>2, <2>4, <2>5 DEF get_page, Follow
  <2>7. QED
    BY <2>6
<1>5. QED
  BY <1>2, <1>3, <1>4 DEF OnPaths

\* What has left the address spaces without being free holds nothing.
Cleaned(m, R, m2, R2) ==
    \A p \in Page :
      p \notin m2.free \cup Live(m2.entry, R2) \cup Mapped(m2.entry, R2) =>
        \/ /\ p \notin m.free \cup Live(m.entry, R) \cup Mapped(m.entry, R)
           /\ m2.entry[p] = m.entry[p] /\ m2.cell[p] = m.cell[p]
        \/ m2.entry[p] = Empty /\ m2.cell[p] = Fresh

RestEmpty(m, R, m2, R2) == Cleaned(m, R, m2, R2) /\ NoneGained(m, R, m2, R2)

IsArea(area) == area \in (0 .. NVirtual) \X (0 .. NVirtual) /\ area[1] < area[2]

\* exit_range, once nothing is mapped in the address space: no table of the area stays.
RangeExited(m, R, m2, d, area) ==
    /\ Owned(m2, R) /\ RestEmpty(m, R, m2, R)
    /\ \A e \in R \ {d} : Kept(m, m2, e)
    /\ \A e \in R \ {d} : \A w \in VPage : TableOf(m2, e, w) = TableOf(m, e, w)
    /\ \A w \in VPage :
         /\ get_page(m2, d, w) = 0
         /\ TableOf(m2, d, w) # 0 =>
              /\ TableOf(m, d, w) # 0
              /\ \A v \in PagesOf(area) : PDX1(v) # PDX1(w) \/ PDX0(v) # PDX0(w)

\* Tables that exit_range frees or leaves behind are those of this address space, and empty.
LEMMA ExitRangeFacts ==
    ASSUME NEW m, NEW R, Owned(m, R), NEW d \in R, NEW area, IsArea(area),
           \A v \in VPage : get_page(m, d, v) = 0
    PROVE  RangeExited(m, R, exit_range(m, d, area), d, area)
<1> DEFINE D == {i \in PDX1(area[1]) .. PDX1(area[2] - 1) : m.entry[d][i] # 0}
           dir(i) == m.entry[d][i]
           Visited(i) == {PDX0(v) : v \in {w \in PagesOf(area) : PDX1(w) = i}}
           Emptied(i) == {j \in Visited(i) : LET t == m.entry[m.entry[d][i]][j]
                                             IN  t # 0 /\ m.entry[t] = Empty}
           FreeDirs == {i \in D : \A j \in Visited(i) : m.entry[m.entry[d][i]][j] # 0}
           Cut(t, j) == \E i \in D : m.entry[d][i] = t /\ j \in Emptied(i)
           E2 == [t \in Page |->
                    IF t = d THEN [i \in Index |-> IF i \in FreeDirs THEN 0 ELSE m.entry[d][i]]
                    ELSE [j \in Index |-> IF Cut(t, j) THEN 0 ELSE m.entry[t][j]]]
           F == {m.entry[d][i] : i \in FreeDirs}
                  \cup UNION {{m.entry[m.entry[d][i]][j] : j \in Emptied(i)} : i \in D}
           m1 == [m EXCEPT !.entry = E2]
           m2 == exit_range(m, d, area)
<1>1. /\ m \in MemType /\ Apart(m, R) /\ OneReferrer(m, R) /\ R \in SUBSET Page
      /\ \A q \in m.free : m.ref[q] = 0 /\ m.cell[q] = Fresh
      /\ \A t \in Live(m.entry, R) : m.cell[t] = Fresh
      /\ R \cap m.free = {}
  BY LevelsApart DEF Owned
<1>2. /\ m.free \subseteq Page /\ m.ref \in [Page -> 0 .. 2]
      /\ m.entry \in [Page -> [Index -> 0 .. NPages]] /\ m.cell \in [Page -> [Offset -> Value]]
      /\ m = [free |-> m.free, ref |-> m.ref, entry |-> m.entry, cell |-> m.cell]
  BY <1>1, MemFacts
<1>3. /\ PagesOf(area) \subseteq VPage /\ area[1] \in VPage /\ area[2] - 1 \in VPage
      /\ \A v \in PagesOf(area) : area[1] <= v /\ v <= area[2] - 1
  BY NVirtualFacts DEF IsArea, PagesOf, VPage
<1>4. \A v \in PagesOf(area) : PDX1(v) \in PDX1(area[1]) .. PDX1(area[2] - 1)
  <2> SUFFICES ASSUME NEW v \in PagesOf(area) PROVE PDX1(v) \in PDX1(area[1]) .. PDX1(area[2] - 1)
    OBVIOUS
  <2>1. /\ v \in Nat /\ area[1] \in Nat /\ area[2] - 1 \in Nat /\ NPTEENTRY * NPTEENTRY \in Nat \ {0}
        /\ area[1] <= v /\ v <= area[2] - 1
    BY <1>3, NVirtualFacts DEF VPage
  <2>2. PDX1(area[1]) <= PDX1(v) /\ PDX1(v) <= PDX1(area[2] - 1)
    BY <2>1, DivMono DEF PDX1
  <2>3. PDX1(v) \in Int /\ PDX1(area[1]) \in Int /\ PDX1(area[2] - 1) \in Int
    BY <1>3, IndexFacts DEF Index
  <2>4. QED
    BY <2>2, <2>3
<1>5. D \subseteq Index
  <2>1. PDX1(area[1]) \in Index /\ PDX1(area[2] - 1) \in Index
    BY <1>3, IndexFacts
  <2>2. PDX1(area[1]) .. PDX1(area[2] - 1) \subseteq Index
    <3>1. ASSUME NEW lo \in Index, NEW hi \in Index PROVE lo .. hi \subseteq Index
      BY MmAssumption DEF Index
    <3>2. QED
      BY <2>1, <3>1
  <2>3. QED
    BY <2>2
<1>6. \A i \in D : dir(i) # 0 /\ dir(i) \in Page /\ dir(i) \in Dirs(m.entry, R)
  <2>1. \A i \in D : dir(i) # 0 /\ dir(i) \in Level(m.entry, R)
    BY <1>1, <1>5, LevelHas
  <2>2. QED
    BY <2>1 DEF Dirs, Level
<1>7. \A i \in D : Visited(i) \subseteq Index
  BY <1>3, IndexFacts
<1>8. \A i \in D : \A j \in Emptied(i) :
        /\ j \in Index /\ m.entry[dir(i)][j] # 0 /\ m.entry[dir(i)][j] \in Leaves(m.entry, R)
        /\ m.entry[dir(i)][j] \in Page
  <2> SUFFICES ASSUME NEW i \in D, NEW j \in Emptied(i)
      PROVE  /\ j \in Index /\ m.entry[dir(i)][j] # 0 /\ m.entry[dir(i)][j] \in Leaves(m.entry, R)
             /\ m.entry[dir(i)][j] \in Page
    OBVIOUS
  <2>1. j \in Index /\ m.entry[dir(i)][j] # 0
    BY <1>7
  <2>2. Dirs(m.entry, R) \in SUBSET Page
    BY <1>1 DEF Apart
  <2>3. m.entry[dir(i)][j] \in Level(m.entry, Dirs(m.entry, R))
    BY <1>1, <1>6, <2>1, <2>2, LevelHas
  <2>4. QED
    BY <2>1, <2>3 DEF Leaves, Dirs, Level
<1>9. m2 = free_pages(m1, F)
  BY DEF exit_range
<1> HIDE DEF m2
<1>10. m1 = [free |-> m.free, ref |-> m.ref, entry |-> E2, cell |-> m.cell]
  <2> HIDE DEF E2
  <2>1. m1 = [m EXCEPT !.entry = E2]
    OBVIOUS
  <2> HIDE DEF m1
  <2>2. QED
    BY <1>2, <2>1
<1> HIDE DEF m1
<1>11. m2 = [free |-> m.free \cup F, ref |-> [q \in Page |-> IF q \in F THEN 0 ELSE m.ref[q]],
             entry |-> E2, cell |-> [q \in Page |-> IF q \in F THEN Fresh ELSE m.cell[q]]]
  <2> HIDE DEF E2, F
  <2>1. m2 = [m1 EXCEPT !.free = m1.free \cup F,
                        !.ref = [q \in Page |-> IF q \in F THEN 0 ELSE m1.ref[q]],
                        !.cell = [q \in Page |-> IF q \in F THEN Fresh ELSE m1.cell[q]]]
    BY <1>9 DEF free_pages
  <2>2. QED
    BY <1>10, <2>1
<1>12. /\ m2.free = m.free \cup F /\ m2.entry = E2
       /\ \A q \in Page : m2.ref[q] = IF q \in F THEN 0 ELSE m.ref[q]
       /\ \A q \in Page : m2.cell[q] = IF q \in F THEN Fresh ELSE m.cell[q]
  <2> HIDE DEF E2, F
  <2>1. QED
    BY <1>11
<1>13. /\ F \subseteq Dirs(m.entry, R) \cup Leaves(m.entry, R) /\ F \subseteq Page
       /\ \A x \in F : \/ \E i \in FreeDirs : x = dir(i)
                       \/ \E i \in D : \E j \in Emptied(i) : x = m.entry[dir(i)][j]
       /\ \A i \in FreeDirs : dir(i) \in F
       /\ \A i \in D : \A j \in Emptied(i) : m.entry[dir(i)][j] \in F
  <2>1. \A x \in F : \/ \E i \in FreeDirs : x = dir(i)
                     \/ \E i \in D : \E j \in Emptied(i) : x = m.entry[dir(i)][j]
    OBVIOUS
  <2>2. /\ \A i \in FreeDirs : dir(i) \in F
        /\ \A i \in D : \A j \in Emptied(i) : m.entry[dir(i)][j] \in F
    <3>1. \A i \in FreeDirs : dir(i) \in F
      OBVIOUS
    <3>2. ASSUME NEW i \in D, NEW j \in Emptied(i) PROVE m.entry[dir(i)][j] \in F
      <4> DEFINE T(k) == {m.entry[m.entry[d][k]][l] : l \in Emptied(k)}
                 x == m.entry[dir(i)][j]
      <4>1. x \in T(i)
        OBVIOUS
      <4>2. F = {m.entry[d][k] : k \in FreeDirs} \cup UNION {T(k) : k \in D}
        OBVIOUS
      <4> HIDE DEF F, T, x, D, FreeDirs, Emptied
      <4>3. x \in UNION {T(k) : k \in D}
        BY <4>1
      <4>4. QED
        BY <4>2, <4>3 DEF x
    <3> HIDE DEF F, D, Emptied, FreeDirs
    <3>3. QED
      BY <3>1, <3>2
  <2>3. \A i \in FreeDirs : i \in D
    OBVIOUS
  <2> HIDE DEF F, D, Emptied, FreeDirs
  <2>4. F \subseteq Dirs(m.entry, R) \cup Leaves(m.entry, R) /\ F \subseteq Page
    BY <1>6, <1>8, <2>1, <2>3
  <2>5. QED
    BY <2>1, <2>2, <2>4
<1> HIDE DEF F
<1>14. /\ E2 \in [Page -> [Index -> 0 .. NPages]]
       /\ \A i \in Index : E2[d][i] = IF i \in FreeDirs THEN 0 ELSE m.entry[d][i]
       /\ \A t \in Page \ {d} : \A j \in Index : E2[t][j] = IF Cut(t, j) THEN 0 ELSE m.entry[t][j]
       /\ \A t \in Page \ {d} : (\A j \in Index : ~Cut(t, j)) => E2[t] = m.entry[t]
  <2>1. 0 \in 0 .. NPages /\ d \in Page
    BY <1>1, MmAssumption
  <2> HIDE DEF Cut, FreeDirs
  <2>2. QED
    BY <1>2, <2>1
<1>15. \A t \in Page : \A j \in Index : Cut(t, j) => t \in Dirs(m.entry, R)
  BY <1>6
<1>16. \A i \in FreeDirs : i \in D
  OBVIOUS
<1> HIDE DEF E2, FreeDirs
<1>17. m2 \in MemType
  <2>1. [q \in Page |-> IF q \in F THEN 0 ELSE m.ref[q]] \in [Page -> 0 .. 2]
    BY <1>2
  <2>2. [q \in Page |-> IF q \in F THEN Fresh ELSE m.cell[q]] \in [Page -> [Offset -> Value]]
    BY <1>2, EmptyFacts
  <2>3. QED
    BY <1>2, <1>11, <1>13, <1>14, <2>1, <2>2 DEF MemType
<1>18. \A t \in Live(m.entry, R) : \A i \in Index : E2[t][i] \in {0, m.entry[t][i]}
  <2>1. Live(m.entry, R) \subseteq Page
    BY <1>1 DEF Apart
  <2> HIDE DEF Cut
  <2>2. QED
    BY <1>14, <2>1
<1>19. LevelsBelow(m, R, m2, R)
  BY <1>12, <1>18, LevelsMono
<1>20. Shrunk(m, R, m2, R)
  <2>1. ASSUME NEW t \in Live(m.entry, R), NEW i \in Index, E2[t][i] # 0
        PROVE  E2[t][i] \notin m2.free /\ m2.ref[E2[t][i]] = 1
    <3>1. /\ t \in Page /\ E2[t][i] = m.entry[t][i] /\ m.entry[t][i] # 0 /\ m.entry[t][i] \in Page
      BY <1>1, <1>18, <2>1, MemFacts DEF Apart
    <3>2. /\ m.entry[t][i] \notin m.free /\ m.ref[m.entry[t][i]] = 1
          /\ \A u \in Live(m.entry, R) : \A j \in Index :
               m.entry[u][j] = m.entry[t][i] => u = t /\ j = i
      BY <1>1, <3>1 DEF OneReferrer
    <3>3. m.entry[t][i] \notin F
      <4>1. ASSUME NEW k \in FreeDirs, m.entry[t][i] = dir(k) PROVE FALSE
        <5>1. d \in Live(m.entry, R) /\ k \in Index
          BY <1>5, <1>16 DEF Live
        <5>2. t = d /\ i = k
          BY <3>2, <4>1, <5>1
        <5>3. QED
          BY <1>14, <2>1, <5>2
      <4>2. ASSUME NEW k \in D, NEW j \in Emptied(k), m.entry[t][i] = m.entry[dir(k)][j]
            PROVE  FALSE
        <5>1. dir(k) \in Live(m.entry, R) /\ j \in Index /\ dir(k) # d
          BY <1>1, <1>6, <1>8 DEF Live, Apart
        <5>2. t = dir(k) /\ i = j
          BY <3>2, <4>2, <5>1
        <5>3. Cut(t, i)
          BY <4>2, <5>2
        <5>4. E2[t][i] = 0
          <6>1. t # d /\ t \in Page /\ i \in Index
            BY <3>1, <5>1, <5>2
          <6> HIDE DEF Cut
          <6>2. QED
            BY ONLY <1>14, <5>3, <6>1
        <5>5. QED
          BY <2>1, <5>4
      <4>3. QED
        BY <1>13, <4>1, <4>2
    <3>4. QED
      BY <1>12, <3>1, <3>2, <3>3
  <2>2. Live(m2.entry, R) \subseteq Live(m.entry, R) /\ Live(m.entry, R) \subseteq Page
    BY <1>1, <1>19 DEF LevelsBelow, Apart
  <2>3. R \cap m2.free = {}
    BY <1>1, <1>12, <1>13 DEF Apart
  <2>4. \A q \in m2.free : m2.ref[q] = 0 /\ m2.cell[q] = Fresh
    BY <1>1, <1>2, <1>12, <1>13
  <2>5. \A t \in Live(m2.entry, R) : m2.cell[t] = Fresh
    BY <1>1, <1>12, <2>2
  <2>6. QED
    BY <1>12, <1>17, <1>18, <2>1, <2>2, <2>3, <2>4, <2>5 DEF Shrunk
<1>21. Owned(m2, R)
  BY <1>20, Shrink

<1>21a. OnPaths(m, R)
  BY <1>1, OnSomePath
<1>22. /\ \A t \in Leaves(m.entry, R) : E2[t] = m.entry[t]
       /\ \A e \in R \ {d} : E2[e] = m.entry[e]
  <2>1. \A t \in Page : t \notin Dirs(m.entry, R) /\ t # d => E2[t] = m.entry[t]
    BY <1>14, <1>15
  <2>2. QED
    BY <1>1, <2>1 DEF Apart
<1>23. ASSUME NEW w \in VPage, TableOf(m, d, w) # 0 PROVE m.entry[TableOf(m, d, w)] = Empty
  <2> DEFINE b == TableOf(m, d, w)
  <2>1. Path(m, R, d, w) /\ b \in Page
    BY <1>1, <1>23, PathFacts DEF Path, Apart
  <2>2. ASSUME NEW k \in Index PROVE m.entry[b][k] = 0
    <3>1. PICK u \in VPage : PDX1(u) = PDX1(w) /\ PDX0(u) = PDX0(w) /\ PTX(u) = k
      BY IndexFacts, IndexExists
    <3>2. TableOf(m, d, u) = b
      BY <3>1 DEF TableOf
    <3>3. get_page(m, d, u) = m.entry[b][k]
      BY <1>23, <3>1, <3>2 DEF get_page, Follow
    <3>4. QED
      BY <3>3
  <2> HIDE DEF b
  <2>3. m.entry[b] \in [Index -> 0 .. NPages]
    BY <1>2, <2>1
  <2>4. QED
    BY <2>2, <2>3 DEF Empty, b
<1>24. ASSUME NEW e \in R \ {d}, NEW w \in VPage
       PROVE  /\ TableOf(m2, e, w) = TableOf(m, e, w) /\ get_page(m2, e, w) = get_page(m, e, w)
              /\ get_page(m, e, w) # 0 => m2.cell[get_page(m, e, w)] = m.cell[get_page(m, e, w)]
  <2> DEFINE a == m.entry[e][PDX1(w)]
             b == TableOf(m, e, w)
             x == get_page(m, e, w)
  <2>1. Path(m, R, e, w) /\ e # 0 /\ PDX1(w) \in Index
    <3>1. e \in Page
      BY <1>1
    <3>2. QED
      BY <1>1, <3>1, PathFacts, IndexFacts, MmAssumption DEF Page
  <2>2. a # 0 => E2[a] = m.entry[a]
    <3>1. SUFFICES ASSUME a # 0 PROVE E2[a] = m.entry[a]
      OBVIOUS
    <3>2. a \in Page /\ a # d
      BY <1>1, <2>1, <3>1 DEF Path, Apart
    <3>3. ASSUME NEW j \in Index, Cut(a, j) PROVE FALSE
      <4>1. PICK i \in D : m.entry[d][i] = a
        BY <3>3
      <4>2. d \in Live(m.entry, R) /\ e \in Live(m.entry, R) /\ i \in Index
        BY <1>5 DEF Live
      <4>3. \A u \in Live(m.entry, R) : \A k \in Index : m.entry[u][k] = a => u = e
        <5>1. \A t \in Live(m.entry, R) : \A k \in Index : m.entry[t][k] # 0 =>
                \A u \in Live(m.entry, R) : \A n \in Index : m.entry[u][n] = m.entry[t][k] => u = t
          BY <1>1 DEF OneReferrer
        <5>2. QED
          BY ONLY <2>1, <3>1, <4>2, <5>1
      <4>4. d = e
        BY <4>1, <4>2, <4>3
      <4>5. QED
        BY <4>4
    <3>4. QED
      BY <1>14, <3>2, <3>3
  <2>3. /\ b = IF a = 0 THEN 0 ELSE m.entry[a][PDX0(w)]
        /\ TableOf(m2, e, w) = IF a = 0 THEN 0 ELSE E2[a][PDX0(w)]
    BY <1>12, <1>22, <2>1 DEF TableOf, Follow
  <2>4. TableOf(m2, e, w) = b
    BY <2>2, <2>3
  <2>5. b # 0 => E2[b] = m.entry[b]
    BY <1>22, <2>1 DEF Path
  <2>6. get_page(m2, e, w) = x
    BY <1>12, <2>4, <2>5 DEF get_page, Follow
  <2>7. x # 0 => x \in Page /\ x \notin F
    BY <1>1, <1>13, <2>1 DEF Path, Apart
  <2>8. x # 0 => m2.cell[x] = m.cell[x]
    BY <1>12, <2>7
  <2>9. QED
    BY <2>4, <2>6, <2>8
<1>25. ASSUME NEW w \in VPage
       PROVE  /\ get_page(m2, d, w) = 0
              /\ TableOf(m2, d, w) # 0 =>
                   /\ TableOf(m, d, w) # 0 /\ TableOf(m2, d, w) = TableOf(m, d, w)
                   /\ \A v \in PagesOf(area) : PDX1(v) # PDX1(w) \/ PDX0(v) # PDX0(w)
  <2> DEFINE a == m.entry[d][PDX1(w)]
             b == TableOf(m, d, w)
             b2 == TableOf(m2, d, w)
  <2>1. /\ Path(m, R, d, w) /\ d # 0 /\ d \in Page
        /\ PDX1(w) \in Index /\ PDX0(w) \in Index /\ PTX(w) \in Index
    <3>1. d \in Page
      BY <1>1
    <3>2. QED
      BY <1>1, <3>1, PathFacts, IndexFacts, MmAssumption DEF Page
  <2>2. CASE b2 = 0
    BY <2>2 DEF get_page, Follow
  <2>3. CASE b2 # 0
    <3>1. E2[d][PDX1(w)] \in {0, a}
      BY <1>14, <2>1
    <3>2. b2 = IF E2[d][PDX1(w)] = 0 THEN 0 ELSE E2[E2[d][PDX1(w)]][PDX0(w)]
      BY <1>12, <2>1 DEF TableOf, Follow
    <3>3. a # 0 /\ b2 = E2[a][PDX0(w)]
      BY <2>3, <3>1, <3>2
    <3>4. a \in Page /\ a # d /\ b = m.entry[a][PDX0(w)]
      BY <1>1, <2>1, <3>3 DEF Path, Apart
    <3>5. ~Cut(a, PDX0(w)) /\ b2 = b
      BY <1>14, <2>1, <2>3, <3>3, <3>4
    <3>6. b \in Leaves(m.entry, R) /\ b # 0 /\ m.entry[b] = Empty
      BY <1>23, <2>1, <2>3, <3>5 DEF Path
    <3>7. get_page(m2, d, w) = 0
      <4>1. get_page(m2, d, w) = E2[b][PTX(w)]
        BY <1>12, <2>3, <3>5 DEF get_page, Follow
      <4>2. QED
        BY <1>22, <2>1, <3>6, <4>1, EmptyFacts
    <3>8. ASSUME NEW v \in PagesOf(area), PDX1(v) = PDX1(w), PDX0(v) = PDX0(w) PROVE FALSE
      <4>1. PDX1(w) \in D
        BY <1>4, <3>3, <3>8
      <4>2. PDX0(w) \in Visited(PDX1(w))
        BY <3>8
      <4>3. PDX0(w) \in Emptied(PDX1(w))
        BY <3>4, <3>6, <4>2
      <4>4. QED
        BY <3>5, <4>1, <4>3
    <3>9. QED
      BY <3>5, <3>6, <3>7, <3>8
  <2>4. QED
    BY <2>2, <2>3
<1>26. Cleaned(m, R, m2, R)
  <2> SUFFICES ASSUME NEW p \in Page,
                      p \notin m2.free \cup Live(m2.entry, R) \cup Mapped(m2.entry, R)
      PROVE \/ /\ p \notin m.free \cup Live(m.entry, R) \cup Mapped(m.entry, R)
               /\ m2.entry[p] = m.entry[p] /\ m2.cell[p] = m.cell[p]
            \/ m2.entry[p] = Empty /\ m2.cell[p] = Fresh
    BY DEF Cleaned
  <2>1. p \notin m.free /\ p \notin F /\ p \notin R /\ m2.cell[p] = m.cell[p]
    BY <1>12 DEF Live
  <2>2. p \notin Dirs(m.entry, R)
    <3>1. ASSUME NEW e \in R, NEW v \in VPage, m.entry[e][PDX1(v)] = p PROVE FALSE
      <4>1. p # 0 /\ PDX1(v) \in Index
        BY IndexFacts, MmAssumption DEF Page
      <4>2. E2[e][PDX1(v)] # p
        <5>1. R \in SUBSET Page /\ m2 \in MemType
          BY <1>1, <1>17
        <5>2. E2[e][PDX1(v)] = p => p \in Level(m2.entry, R)
          BY <1>12, <4>1, <5>1, LevelHas
        <5>3. QED
          BY <5>2 DEF Live, Dirs
      <4>3. e = d /\ PDX1(v) \in FreeDirs
        BY <1>14, <1>22, <3>1, <4>1, <4>2
      <4>4. QED
        BY <1>13, <2>1, <3>1, <4>3
    <3>2. \A q \in Dirs(m.entry, R) : \E e \in R : \E v \in VPage : m.entry[e][PDX1(v)] = q
      BY <1>21a DEF OnPaths
    <3>3. QED
      BY <3>1, <3>2
  <2>3. p \notin Mapped(m.entry, R)
    <3>1. ASSUME NEW e \in R, NEW v \in VPage, get_page(m, e, v) = p PROVE FALSE
      <4>1. p # 0
        BY MmAssumption DEF Page
      <4>2. e # d
        BY <3>1, <4>1
      <4>3. get_page(m2, e, v) = p
        BY <1>24, <3>1, <4>2
      <4>4. Path(m2, R, e, v)
        BY <1>1, <1>17, PathFacts
      <4>5. QED
        BY <4>1, <4>3, <4>4 DEF Path
    <3>2. \A q \in Mapped(m.entry, R) : \E e \in R : \E v \in VPage : get_page(m, e, v) = q
      BY <1>21a DEF OnPaths
    <3>3. QED
      BY <3>1, <3>2
  <2>4. ASSUME p \in Leaves(m.entry, R)
        PROVE  m2.entry[p] = Empty /\ m2.cell[p] = Fresh
    <3>1. 0 \in Index
      BY MmAssumption DEF Index
    <3>0. \A q \in Leaves(m.entry, R) : \A k \in Index :
            \E e \in R : \E v \in VPage : TableOf(m, e, v) = q /\ PTX(v) = k
      BY <1>21a DEF OnPaths
    <3>2. PICK e \in R : \E v \in VPage : TableOf(m, e, v) = p /\ PTX(v) = 0
      BY <2>4, <3>0, <3>1
    <3>3. PICK v \in VPage : TableOf(m, e, v) = p
      BY <3>2
    <3>4. p # 0
      BY MmAssumption DEF Page
    <3>5. e = d
      <4>1. SUFFICES ASSUME e # d PROVE FALSE
        OBVIOUS
      <4>2. TableOf(m2, e, v) = p
        BY <1>24, <3>3, <4>1
      <4>3. Path(m2, R, e, v)
        BY <1>1, <1>17, PathFacts
      <4>4. QED
        BY <3>4, <4>2, <4>3 DEF Path, Live
    <3>6. m.entry[p] = Empty
      BY <1>23, <3>3, <3>4, <3>5
    <3>7. m.cell[p] = Fresh
      BY <1>1, <2>4 DEF Live
    <3>8. QED
      BY <1>12, <1>22, <2>1, <2>4, <3>6, <3>7
  <2>5. CASE p \in Leaves(m.entry, R)
    BY <2>4, <2>5
  <2>6. CASE p \notin Leaves(m.entry, R)
    <3>1. p \notin Live(m.entry, R)
      BY <2>1, <2>2, <2>6 DEF Live
    <3>2. p # d /\ E2[p] = m.entry[p]
      BY <1>14, <1>15, <2>1, <2>2
    <3>3. QED
      BY <1>12, <2>1, <2>3, <3>1, <3>2
  <2>7. QED
    BY <2>5, <2>6
<1>26a. RestEmpty(m, R, m2, R)
  <2>1. NoneGained(m, R, m2, R)
    BY <1>12, <1>13, <1>19 DEF NoneGained, LevelsBelow, Live
  <2>2. QED
    BY <1>26, <2>1 DEF RestEmpty
<1>27. QED
  BY <1>21, <1>24, <1>25, <1>26a DEF RangeExited, Kept, m2

-----------------------------------------------------------------------------
\* Address spaces come and go, and memory is written.

\* Free page q becomes the root of an address space without pages.
Rooted(m, R, m2, q) ==
    /\ q \in m.free /\ Owned(m2, R \cup {q}) /\ RestSame(m, R, m2, R \cup {q})
    /\ \A e \in R : e # q /\ Kept(m, m2, e) /\ \A v \in VPage : TableOf(m2, e, v) = TableOf(m, e, v)
    /\ \A v \in VPage : TableOf(m2, q, v) = 0 /\ get_page(m2, q, v) = 0

\* As setup_pgdir does.
LEMMA RootFacts ==
    ASSUME NEW m, NEW R, Owned(m, R), m.free # {},
           NEW q, q = Min(m.free), NEW m2, m2 = [m EXCEPT !.free = @ \ {q}, !.entry[q] = Empty]
    PROVE  Rooted(m, R, m2, q)
<1> DEFINE R2 == R \cup {q}
           E == m.entry
           E2 == m2.entry
<1>1. /\ m \in MemType /\ R \in SUBSET Page /\ R \cap m.free = {} /\ OneReferrer(m, R)
      /\ \A p \in m.free : m.ref[p] = 0 /\ m.cell[p] = Fresh
      /\ \A t \in Live(E, R) : m.cell[t] = Fresh
      /\ Apart(m, R)
  BY LevelsApart DEF Owned
<1>2. /\ m.free \subseteq Page /\ m.ref \in [Page -> 0 .. 2]
      /\ m.entry \in [Page -> [Index -> 0 .. NPages]] /\ m.cell \in [Page -> [Offset -> Value]]
      /\ m = [free |-> m.free, ref |-> m.ref, entry |-> m.entry, cell |-> m.cell]
  BY <1>1, MemFacts
<1>3. q \in m.free /\ q \in Page /\ q # 0
  <2>1. m.free \subseteq Nat
    BY <1>2 DEF Page
  <2>2. q \in m.free
    BY <2>1, MinIsMember
  <2>3. QED
    BY <1>2, <2>2, MmAssumption DEF Page
<1>4. m2 = [free |-> m.free \ {q}, ref |-> m.ref, entry |-> [m.entry EXCEPT ![q] = Empty],
            cell |-> m.cell]
  <2>1. m2 = [m EXCEPT !.free = m.free \ {q}, !.entry = [m.entry EXCEPT ![q] = Empty]]
    OBVIOUS
  <2>2. QED
    BY <1>2, <2>1
<1>5. /\ m2.free = m.free \ {q} /\ m2.ref = m.ref /\ m2.cell = m.cell
      /\ E2 \in [Page -> [Index -> 0 .. NPages]]
      /\ E2[q] = Empty /\ \A p \in Page \ {q} : E2[p] = m.entry[p]
  BY <1>2, <1>3, <1>4, EmptyFacts
<1>6. m2 \in MemType
  <2>1. m2 = [free |-> m2.free, ref |-> m2.ref, entry |-> E2, cell |-> m2.cell]
    BY <1>4
  <2>2. QED
    BY <1>2, <1>5, <2>1 DEF MemType
<1>7. /\ q \notin Live(E, R) \cup Mapped(E, R) /\ Live(E, R) \subseteq Page
      /\ R \subseteq Live(E, R) /\ Dirs(E, R) \subseteq Live(E, R) /\ Leaves(E, R) \subseteq Live(E, R)
  BY <1>1, <1>3 DEF Apart, Live
<1> HIDE DEF E, E2
<1>8. \A t \in Live(E, R) : E2[t] = E[t]
  BY <1>5, <1>7 DEF E
<1>9. Level(E2, {q}) = {}
  BY <1>5, EmptyFacts, LevelEmpty
<1>10. Dirs(E2, R2) = Dirs(E, R)
  <2>1. Level(E2, R) = Level(E, R)
    BY <1>7, <1>8, LevelSame
  <2>2. QED
    BY <1>9, <2>1, LevelUnion DEF Dirs
<1>11. Leaves(E2, R2) = Leaves(E, R)
  <2>1. Level(E2, Dirs(E, R)) = Level(E, Dirs(E, R))
    BY <1>7, <1>8, LevelSame
  <2>2. QED
    BY <1>10, <2>1 DEF Dirs, Leaves
<1>12. Mapped(E2, R2) = Mapped(E, R)
  <2>1. Level(E2, Leaves(E, R)) = Level(E, Leaves(E, R))
    BY <1>7, <1>8, LevelSame
  <2>2. QED
    BY <1>11, <2>1 DEF Mapped
<1>13. Live(E2, R2) = Live(E, R) \cup {q}
  BY <1>10, <1>11 DEF Live
<1>14. OneReferrer(m2, R2)
  <2> SUFFICES ASSUME NEW t \in Live(E2, R2), NEW i \in Index, E2[t][i] # 0
      PROVE  /\ E2[t][i] \notin m2.free /\ E2[t][i] \notin R2
             /\ m2.ref[E2[t][i]] = 1
             /\ \A u \in Live(E2, R2) : \A j \in Index :
                  E2[u][j] = E2[t][i] => u = t /\ j = i
    BY DEF OneReferrer, E2
  <2>1. t \in Live(E, R) /\ E2[t][i] = E[t][i]
    BY <1>5, <1>8, <1>13, EmptyFacts
  <2>2. /\ E[t][i] \notin m.free /\ E[t][i] \notin R /\ m.ref[E[t][i]] = 1
        /\ \A u \in Live(E, R) : \A j \in Index : E[u][j] = E[t][i] => u = t /\ j = i
    BY <1>1, <2>1 DEF OneReferrer, E
  <2>3. \A u \in Live(E2, R2) : \A j \in Index :
          E2[u][j] = E2[t][i] => u \in Live(E, R) /\ E[u][j] = E[t][i]
    BY <1>5, <1>8, <1>13, <2>1, EmptyFacts
  <2>4. E[t][i] # q
    BY <1>3, <2>2
  <2>5. E2[t][i] \notin m2.free /\ E2[t][i] \notin R2 /\ m2.ref[E2[t][i]] = 1
    <3>1. m2.free = m.free \ {q} /\ m2.ref = m.ref
      BY <1>5
    <3>2. QED
      BY <2>1, <2>2, <2>4, <3>1
  <2>6. ASSUME NEW u \in Live(E2, R2), NEW j \in Index, E2[u][j] = E2[t][i]
        PROVE  u = t /\ j = i
    BY <2>2, <2>3, <2>6
  <2>7. QED
    BY <2>5, <2>6
<1>15. Owned(m2, R2)
  <2>1. R2 \subseteq Page /\ R2 \cap m2.free = {}
    BY <1>1, <1>3, <1>5
  <2>2. \A p \in m2.free : m2.ref[p] = 0 /\ m2.cell[p] = Fresh
    BY <1>1, <1>5
  <2>3. \A t \in Live(m2.entry, R2) : m2.cell[t] = Fresh
    BY <1>1, <1>3, <1>5, <1>13 DEF E, E2
  <2>4. QED
    BY <1>6, <1>14, <2>1, <2>2, <2>3 DEF Owned
<1>16. RestSame(m, R, m2, R2)
  <2>1. /\ Live(m2.entry, R2) = Live(m.entry, R) \cup {q} /\ Mapped(m2.entry, R2) = Mapped(m.entry, R)
        /\ \A p \in Page \ {q} : m2.entry[p] = m.entry[p]
    BY <1>5, <1>12, <1>13 DEF E, E2
  <2>2. QED
    BY <1>3, <1>5, <2>1 DEF RestSame, Untouched, NoneGained
<1>17. ASSUME NEW e \in R
       PROVE  /\ e # q
              /\ \A v \in VPage : /\ TableOf(m2, e, v) = TableOf(m, e, v)
                                  /\ get_page(m2, e, v) = get_page(m, e, v)
  <2>1. e # q
    BY <1>7
  <2>2. ASSUME NEW v \in VPage
        PROVE  TableOf(m2, e, v) = TableOf(m, e, v) /\ get_page(m2, e, v) = get_page(m, e, v)
    <3>1. Path(m, R, e, v)
      BY <1>1, PathFacts
    <3>2. e \in Live(E, R) /\ E2[e] = E[e]
      BY <1>7, <1>8
    <3>3. E[e][PDX1(v)] # 0 => E2[E[e][PDX1(v)]] = E[E[e][PDX1(v)]]
      BY <1>7, <1>8, <3>1 DEF Path, E
    <3>4. TableOf(m, e, v) # 0 => E2[TableOf(m, e, v)] = E[TableOf(m, e, v)]
      BY <1>7, <1>8, <3>1 DEF Path, E
    <3>5. TableOf(m2, e, v) = TableOf(m, e, v)
      BY <3>2, <3>3 DEF TableOf, Follow, E, E2
    <3>6. QED
      BY <3>4, <3>5 DEF get_page, Follow, E, E2
  <2>3. QED
    BY <2>1, <2>2
<1>18. \A v \in VPage : TableOf(m2, q, v) = 0 /\ get_page(m2, q, v) = 0
  <2>1. \A v \in VPage : E2[q][PDX1(v)] = 0
    BY <1>5, IndexFacts, EmptyFacts
  <2>2. QED
    BY <1>3, <2>1 DEF TableOf, get_page, Follow, E2
<1>19. QED
  BY <1>3, <1>5, <1>15, <1>16, <1>17, <1>18 DEF Rooted, Kept

\* Reach is what the walks from the root come across.
LEMMA ReachHas ==
    ASSUME NEW m \in MemType, NEW d \in Page, NEW v \in VPage
    PROVE  /\ d \in Reach(m, d)
           /\ m.entry[d][PDX1(v)] # 0 => m.entry[d][PDX1(v)] \in Reach(m, d)
           /\ TableOf(m, d, v) # 0 => TableOf(m, d, v) \in Reach(m, d)
           /\ get_page(m, d, v) # 0 => get_page(m, d, v) \in Reach(m, d)
<1> DEFINE dirs   == {Follow(m, d, i) : i \in Index} \ {0}
           tables == {Follow(m, t, i) : t \in dirs, i \in Index} \ {0}
           mapped == {Follow(m, t, i) : t \in tables, i \in Index} \ {0}
           a == Follow(m, d, PDX1(v))
           b == Follow(m, a, PDX0(v))
           x == Follow(m, b, PTX(v))
<1>1. Reach(m, d) = ({d} \ {0}) \cup dirs \cup tables \cup mapped
  BY DEF Reach
<1>2. PDX1(v) \in Index /\ PDX0(v) \in Index /\ PTX(v) \in Index /\ d # 0
  BY IndexFacts, MmAssumption DEF Page
<1>3. TableOf(m, d, v) = b /\ get_page(m, d, v) = x
  BY DEF TableOf, get_page
<1>4. a = m.entry[d][PDX1(v)]
  BY <1>2 DEF Follow
<1>5. (a # 0 => a \in dirs) /\ (a = 0 => b = 0) /\ (b = 0 => x = 0)
  BY <1>2 DEF Follow
<1> HIDE DEF a
<1>6. b # 0 => b \in tables
  BY <1>2, <1>5
<1> HIDE DEF b
<1>7. x # 0 => x \in mapped
  BY <1>2, <1>5, <1>6
<1> HIDE DEF x, dirs, tables, mapped
<1>8. QED
  BY <1>1, <1>2, <1>3, <1>4, <1>5, <1>6, <1>7

\* It is no part of the other address spaces, and not free.
LEMMA ReachApart ==
    ASSUME NEW m, NEW R, Owned(m, R), NEW d \in R, NEW p \in Reach(m, d)
    PROVE  p \notin m.free \cup Live(m.entry, R \ {d}) \cup Mapped(m.entry, R \ {d})
<1> DEFINE R2 == R \ {d}
           E == m.entry
<1>1. /\ Apart(m, R) /\ m \in MemType /\ R \in SUBSET Page /\ OneReferrer(m, R)
      /\ LevelsBelow(m, R, m, R2)
  BY LevelsApart, LevelsMono DEF Owned
<1>2. /\ d \in Page /\ d # 0 /\ Dirs(E, R) \subseteq Page /\ Leaves(E, R) \subseteq Page
      /\ E \in [Page -> [Index -> 0 .. NPages]]
  BY <1>1, MemFacts, MmAssumption DEF Apart, Page
\* Where the levels below the roots meet, so do those above them.
<1>3. ASSUME NEW t \in Page, NEW i \in Index, E[t][i] # 0, t \in Live(E, R),
             NEW T \in {R2, Dirs(E, R2), Leaves(E, R2)}, t \notin T
      PROVE  E[t][i] \notin Level(E, T)
  <2>1. T \subseteq Live(E, R)
    BY <1>1 DEF LevelsBelow, Live
  <2>2. \A u \in T : \A j \in Index : E[u][j] # E[t][i]
    BY <1>1, <1>3, <2>1 DEF OneReferrer
  <2>3. QED
    BY <2>2 DEF Level
<1>4. ASSUME NEW x, NEW i \in Index, x = E[d][i], x # 0
      PROVE  x \in Dirs(E, R) /\ x \notin Dirs(E, R2)
  <2>1. d \in Live(E, R) /\ E[d][i] \in Page
    BY <1>2, <1>4, MmAssumption DEF Live, Page
  <2>2. x \in Dirs(E, R)
    BY <1>4, <2>1 DEF Dirs, Level
  <2>3. x \notin Dirs(E, R2)
    BY <1>2, <1>3, <1>4, <2>1 DEF Dirs
  <2>4. QED
    BY <2>2, <2>3
<1>5. ASSUME NEW t, t \in Dirs(E, R), t \notin Dirs(E, R2), NEW i \in Index,
             NEW x, x = E[t][i], x # 0
      PROVE  x \in Leaves(E, R) /\ x \notin Leaves(E, R2)
  <2>1. t \in Page /\ t \in Live(E, R) /\ E[t][i] \in Page
    BY <1>2, <1>5, MmAssumption DEF Live, Page
  <2>2. x \in Leaves(E, R)
    BY <1>5, <2>1 DEF Dirs, Leaves, Level
  <2>3. x \notin Level(E, Dirs(E, R2))
    BY <1>3, <1>5, <2>1
  <2>4. QED
    BY <2>2, <2>3 DEF Dirs, Leaves
<1>6. ASSUME NEW t, t \in Leaves(E, R), t \notin Leaves(E, R2), NEW i \in Index,
             NEW x, x = E[t][i], x # 0
      PROVE  x \in Mapped(E, R) /\ x \notin Mapped(E, R2)
  <2>1. t \in Page /\ t \in Live(E, R) /\ E[t][i] \in Page
    BY <1>2, <1>6, MmAssumption DEF Live, Page
  <2>2. x \in Mapped(E, R)
    BY <1>6, <2>1 DEF Mapped, Level
  <2>3. x \notin Level(E, Leaves(E, R2))
    BY <1>3, <1>6, <2>1
  <2>4. QED
    BY <2>2, <2>3 DEF Mapped
<1> DEFINE dirs   == {Follow(m, d, i) : i \in Index} \ {0}
           tables == {Follow(m, t, i) : t \in dirs, i \in Index} \ {0}
           mapped == {Follow(m, t, i) : t \in tables, i \in Index} \ {0}
<1>7. p = d \/ p \in dirs \/ p \in tables \/ p \in mapped
  BY DEF Reach
<1>8. ASSUME NEW x \in dirs PROVE x \in Dirs(E, R) /\ x \notin Dirs(E, R2) /\ x # 0
  BY <1>2, <1>4 DEF Follow
<1> HIDE DEF dirs
<1>9. ASSUME NEW x \in tables PROVE x \in Leaves(E, R) /\ x \notin Leaves(E, R2) /\ x # 0
  BY <1>5, <1>8 DEF Follow
<1> HIDE DEF tables
<1>10. ASSUME NEW x \in mapped PROVE x \in Mapped(E, R) /\ x \notin Mapped(E, R2)
  <2>1. PICK t \in tables, i \in Index : x = Follow(m, t, i)
    OBVIOUS
  <2>2. x # 0 /\ t # 0
    BY <1>9, <1>10
  <2>3. x = E[t][i]
    BY <2>1, <2>2 DEF Follow
  <2>4. QED
    BY <1>6, <1>9, <2>2, <2>3
<1> HIDE DEF mapped
<1>11. \/ p = d
       \/ p \in Dirs(E, R) /\ p \notin Dirs(E, R2)
       \/ p \in Leaves(E, R) /\ p \notin Leaves(E, R2)
       \/ p \in Mapped(E, R) /\ p \notin Mapped(E, R2)
  BY <1>7, <1>8, <1>9, <1>10
<1>12. /\ Dirs(E, R2) \subseteq Dirs(E, R) /\ Leaves(E, R2) \subseteq Leaves(E, R)
       /\ Mapped(E, R2) \subseteq Mapped(E, R)
  BY <1>1 DEF LevelsBelow
<1>13. /\ R \cap Dirs(E, R) = {} /\ R \cap Leaves(E, R) = {} /\ R \cap Mapped(E, R) = {}
       /\ Dirs(E, R) \cap Leaves(E, R) = {} /\ Dirs(E, R) \cap Mapped(E, R) = {}
       /\ Leaves(E, R) \cap Mapped(E, R) = {}
       /\ (R \cup Dirs(E, R) \cup Leaves(E, R) \cup Mapped(E, R)) \cap m.free = {}
  BY <1>1 DEF Apart, Live
<1>14. p \notin m.free \cup R2 \cup Dirs(E, R2) \cup Leaves(E, R2) \cup Mapped(E, R2)
  <2> HIDE DEF E
  <2>1. QED
    BY <1>11, <1>12, <1>13
<1>15. QED
  BY <1>14 DEF Live

\* An address space goes: the others are as they were.
Dropped(m, R, m2, d) ==
    /\ Owned(m2, R \ {d})
    /\ \A e \in R \ {d} : Kept(m, m2, e) /\ \A v \in VPage : TableOf(m2, e, v) = TableOf(m, e, v)

\* Without being dismantled, so that what it reached is lost.
LEMMA DropFacts ==
    ASSUME NEW m, NEW R, Owned(m, R), NEW d \in R
    PROVE  /\ Dropped(m, R, m, d)
           /\ \A p \in Page :
                p \notin m.free \cup Live(m.entry, R \ {d}) \cup Mapped(m.entry, R \ {d})
                           \cup Reach(m, d) =>
                  p \notin Live(m.entry, R) \cup Mapped(m.entry, R)
<1> DEFINE R2 == R \ {d}
           E == m.entry
<1>1. /\ m \in MemType /\ R \in SUBSET Page /\ R \cap m.free = {} /\ OneReferrer(m, R)
      /\ \A p \in m.free : m.ref[p] = 0 /\ m.cell[p] = Fresh
      /\ \A t \in Live(E, R) : m.cell[t] = Fresh
      /\ OnPaths(m, R)
  BY OnSomePath DEF Owned
<1>2. LevelsBelow(m, R, m, R2)
  BY LevelsMono
<1>3. Shrunk(m, R, m, R2)
  BY <1>1, <1>2 DEF Shrunk, LevelsBelow, OneReferrer
<1>4. Owned(m, R2)
  BY <1>3, Shrink
<1>5. ASSUME NEW p \in Page,
             p \notin m.free \cup Live(E, R2) \cup Mapped(E, R2) \cup Reach(m, d)
      PROVE  p \notin Live(E, R) \cup Mapped(E, R)
  <2>1. p # 0
    BY MmAssumption DEF Page
  <2>2. \A v \in VPage : /\ d \in Reach(m, d)
                         /\ E[d][PDX1(v)] # 0 => E[d][PDX1(v)] \in Reach(m, d)
                         /\ TableOf(m, d, v) # 0 => TableOf(m, d, v) \in Reach(m, d)
                         /\ get_page(m, d, v) # 0 => get_page(m, d, v) \in Reach(m, d)
    BY <1>1, ReachHas
  <2>3. \A e \in R2 : \A v \in VPage : Path(m, R2, e, v)
    BY <1>1, PathFacts
  <2>4. 0 \in Index /\ 0 \in VPage
    BY NVirtualFacts, MmAssumption DEF Index, VPage
  <2>5. p \notin R
    BY <1>5, <2>2, <2>4 DEF Live
  <2>6. p \notin Dirs(E, R)
    <3>1. ASSUME NEW e \in R, NEW v \in VPage, E[e][PDX1(v)] = p PROVE FALSE
      BY <1>5, <2>1, <2>2, <2>3, <3>1 DEF Path, Live
    <3>2. QED
      BY <1>1, <3>1 DEF OnPaths
  <2>7. p \notin Leaves(E, R)
    <3>1. ASSUME NEW e \in R, NEW v \in VPage, TableOf(m, e, v) = p PROVE FALSE
      BY <1>5, <2>1, <2>2, <2>3, <3>1 DEF Path, Live
    <3>2. QED
      BY <1>1, <2>4, <3>1 DEF OnPaths
  <2>8. p \notin Mapped(E, R)
    <3>1. ASSUME NEW e \in R, NEW v \in VPage, get_page(m, e, v) = p PROVE FALSE
      BY <1>5, <2>1, <2>2, <2>3, <3>1 DEF Path
    <3>2. QED
      BY <1>1, <3>1 DEF OnPaths
  <2>9. QED
    BY <2>5, <2>6, <2>7, <2>8 DEF Live
<1>6. Dropped(m, R, m, d)
  BY <1>4 DEF Dropped, Kept
<1>7. QED
  BY <1>5, <1>6

\* By put_pgdir, which frees the root of an address space that has no tables left.
LEMMA PutPgdirFacts ==
    ASSUME NEW m, NEW R, Owned(m, R), NEW d \in R,
           \A v \in VPage : TableOf(m, d, v) = 0
    PROVE  /\ Dropped(m, R, free_pages(m, {d}), d)
           /\ RestEmpty(m, R, free_pages(m, {d}), R \ {d})
<1> DEFINE R2 == R \ {d}
           E == m.entry
           m2 == free_pages(m, {d})
<1>1. Dropped(m, R, m, d)
  BY DropFacts
<1>2. Owned(m, R2) /\ m \in MemType /\ R \in SUBSET Page /\ Apart(m, R) /\ OnPaths(m, R)
  BY <1>1, LevelsApart, OnSomePath DEF Owned, Dropped
<1>3. LevelsBelow(m, R, m, R2)
  BY LevelsMono
<1>4. d \in Page /\ {d} \cap (Live(E, R2) \cup Mapped(E, R2)) = {}
  BY <1>2, <1>3 DEF Apart, LevelsBelow, Live
<1>5. /\ Owned(m2, R2) /\ m2.entry = m.entry /\ m2.free = m.free \cup {d}
      /\ \A q \in Page \ {d} : m2.ref[q] = m.ref[q] /\ m2.cell[q] = m.cell[q]
  <2>1. {d} \in SUBSET Page /\ {d} \cap (Live(m.entry, R2) \cup Mapped(m.entry, R2)) = {}
    BY <1>4
  <2> HIDE DEF R2
  <2>2. QED
    BY <1>2, <2>1, FreePages
<1> HIDE DEF m2
<1>6. \A e \in R2 : Kept(m, m2, e) /\ \A v \in VPage : TableOf(m2, e, v) = TableOf(m, e, v)
  <2> SUFFICES ASSUME NEW e \in R2, NEW v \in VPage
      PROVE  /\ TableOf(m2, e, v) = TableOf(m, e, v) /\ get_page(m2, e, v) = get_page(m, e, v)
             /\ get_page(m, e, v) # 0 => m2.cell[get_page(m, e, v)] = m.cell[get_page(m, e, v)]
    BY DEF Kept
  <2>1. TableOf(m2, e, v) = TableOf(m, e, v) /\ get_page(m2, e, v) = get_page(m, e, v)
    BY <1>5, SameTables
  <2>2. Path(m, R, e, v)
    BY <1>2, PathFacts
  <2>3. get_page(m, e, v) # 0 => get_page(m, e, v) \in Page \ {d}
    BY <1>2, <2>2 DEF Path, Apart
  <2>4. QED
    BY <1>5, <2>1, <2>3
<1>7. Cleaned(m, R, m2, R2)
  <2> SUFFICES ASSUME NEW p \in Page,
                      p \notin m2.free \cup Live(m2.entry, R2) \cup Mapped(m2.entry, R2)
      PROVE \/ /\ p \notin m.free \cup Live(E, R) \cup Mapped(E, R)
               /\ m2.entry[p] = E[p] /\ m2.cell[p] = m.cell[p]
            \/ m2.entry[p] = Empty /\ m2.cell[p] = Fresh
    BY DEF Cleaned
  <2>1. p \notin m.free /\ p # d /\ p \notin Live(E, R2) /\ p \notin Mapped(E, R2) /\ p # 0
    BY <1>5, MmAssumption DEF Page
  <2>2. p \notin R
    BY <2>1 DEF Live
  <2>3. \A e \in R2 : \A v \in VPage : Path(m, R2, e, v)
    BY <1>2, PathFacts
  <2>4. 0 \in Index
    BY MmAssumption DEF Index
  <2>5. p \notin Leaves(E, R)
    <3>1. ASSUME NEW e \in R, NEW v \in VPage, TableOf(m, e, v) = p PROVE FALSE
      BY <2>1, <2>3, <3>1 DEF Path, Live
    <3>2. QED
      BY <1>2, <2>4, <3>1 DEF OnPaths
  <2>6. p \notin Mapped(E, R)
    <3>1. ASSUME NEW e \in R, NEW v \in VPage, get_page(m, e, v) = p PROVE FALSE
      <4>1. e # d
        BY <2>1, <3>1 DEF get_page, Follow
      <4>2. QED
        BY <2>1, <2>3, <3>1, <4>1 DEF Path
    <3>2. QED
      BY <1>2, <3>1 DEF OnPaths
  <2>7. CASE p \notin Dirs(E, R)
    BY <1>5, <2>1, <2>2, <2>5, <2>6, <2>7 DEF Live
  <2>8. CASE p \in Dirs(E, R)
    <3>1. PICK e \in R : \E i \in Index : E[e][i] = p
      BY <2>8 DEF Dirs, Level
    <3>2. PICK i \in Index : E[e][i] = p
      BY <3>1
    <3>3. e = d
      <4>1. SUFFICES ASSUME e \in R2 PROVE FALSE
        OBVIOUS
      <4>2. p \in Dirs(E, R2)
        BY <3>2, <4>1 DEF Dirs, Level
      <4>3. QED
        BY <2>1, <4>2 DEF Live
    <3>4. ASSUME NEW j \in Index PROVE E[p][j] = 0
      <4>1. PICK v \in VPage : PDX1(v) = i /\ PDX0(v) = j /\ PTX(v) = 0
        BY <2>4, IndexExists
      <4>2. d # 0
        BY <1>4, MmAssumption DEF Page
      <4>3. TableOf(m, d, v) = E[p][j]
        BY <2>1, <3>2, <3>3, <4>1, <4>2 DEF TableOf, Follow
      <4>4. QED
        BY <4>3
    <3>5. E[p] = Empty
      <4>1. E[p] \in [Index -> 0 .. NPages]
        BY <1>2, MemFacts
      <4> HIDE DEF E
      <4>2. QED
        BY <3>4, <4>1 DEF Empty
    <3>6. m.cell[p] = Fresh
      BY <2>8 DEF Owned, Live
    <3>7. QED
      BY <1>5, <2>1, <3>5, <3>6
  <2>9. QED
    BY <2>7, <2>8
<1>8. RestEmpty(m, R, m2, R2)
  <2>1. NoneGained(m, R, m2, R2)
    BY <1>3, <1>5 DEF NoneGained, LevelsBelow, Live
  <2>2. QED
    BY <1>7, <2>1 DEF RestEmpty
<1>9. QED
  BY <1>5, <1>6, <1>8 DEF Dropped, m2

\* Nothing that the processor reaches from root d has changed.
Same(m, m2, d) == Kept(m, m2, d) /\ \A v \in VPage : TableOf(m2, d, v) = TableOf(m, d, v)

\* Nothing has, but for the address space with root d; what has left it is free or empty.
Within(m, R, m2, d) ==
    /\ Owned(m2, R) /\ RestEmpty(m, R, m2, R)
    /\ \A e \in R \ {d} : Same(m, m2, e)

\* The walks stay, some of the cells of user pages change.
Written(m, R, m2) ==
    /\ Owned(m2, R) /\ RestSame(m, R, m2, R) /\ m2.entry = m.entry
    /\ \A q \in Page : q \notin Mapped(m.entry, R) => m2.cell[q] = m.cell[q]

\* Who owns a page does not depend on what is written to it.
LEMMA CellsWritten ==
    ASSUME NEW m, NEW R, Owned(m, R), NEW C \in [Page -> [Offset -> Value]],
           \A q \in Page : q \notin Mapped(m.entry, R) => C[q] = m.cell[q],
           NEW m2, m2 = [m EXCEPT !.cell = C]
    PROVE  Written(m, R, m2)
<1>1. /\ m \in MemType /\ R \subseteq Page /\ R \cap m.free = {} /\ OneReferrer(m, R)
      /\ \A q \in m.free : m.ref[q] = 0 /\ m.cell[q] = Fresh
      /\ \A t \in Live(m.entry, R) : m.cell[t] = Fresh
      /\ Apart(m, R)
  BY LevelsApart DEF Owned
<1>2. /\ m.free \subseteq Page /\ m.ref \in [Page -> 0 .. 2]
      /\ m.entry \in [Page -> [Index -> 0 .. NPages]] /\ m.cell \in [Page -> [Offset -> Value]]
      /\ m = [free |-> m.free, ref |-> m.ref, entry |-> m.entry, cell |-> m.cell]
  BY <1>1, MemFacts
<1>3. m2 = [free |-> m.free, ref |-> m.ref, entry |-> m.entry, cell |-> C]
  BY <1>2
<1>4. m2 \in MemType /\ m2.free = m.free /\ m2.ref = m.ref /\ m2.entry = m.entry /\ m2.cell = C
  BY <1>2, <1>3 DEF MemType
<1>5. /\ \A q \in m.free : C[q] = m.cell[q]
      /\ \A t \in Live(m.entry, R) : C[t] = m.cell[t]
  BY <1>1, <1>2 DEF Apart, Live
<1>6. OneReferrer(m2, R)
  BY <1>1, <1>4 DEF OneReferrer
<1>7. Owned(m2, R)
  BY <1>1, <1>4, <1>5, <1>6 DEF Owned
<1>8. RestSame(m, R, m2, R)
  BY <1>4 DEF RestSame, Untouched, NoneGained
<1>9. QED
  BY <1>4, <1>7, <1>8 DEF Written

\* A page that is the same is as empty as it was.
LEMMA SameIsEmpty ==
    ASSUME NEW m, NEW R, NEW m2, NEW R2, RestSame(m, R, m2, R2)
    PROVE  RestEmpty(m, R, m2, R2)
BY DEF RestSame, RestEmpty, Untouched, Cleaned

\* Only the pages of one address space change when only its cells are written.
LEMMA WrittenWithin ==
    ASSUME NEW m, NEW R, Owned(m, R), NEW m2, Written(m, R, m2), NEW d \in R,
           \A q \in Page : m2.cell[q] # m.cell[q] => \E v \in VPage : get_page(m, d, v) = q
    PROVE  Within(m, R, m2, d)
<1>1. Owned(m2, R) /\ RestEmpty(m, R, m2, R) /\ m2.entry = m.entry
  BY SameIsEmpty DEF Written
<1>2. ASSUME NEW e \in R \ {d}, NEW w \in VPage, get_page(m, e, w) # 0
      PROVE  m2.cell[get_page(m, e, w)] = m.cell[get_page(m, e, w)]
  <2>1. ASSUME NEW v \in VPage PROVE get_page(m, d, v) # get_page(m, e, w)
    BY <1>2, PathUnique
  <2>2. get_page(m, e, w) \in Page
    <3>1. Apart(m, R) /\ Path(m, R, e, w)
      BY LevelsApart, PathFacts DEF Owned
    <3>2. QED
      BY <1>2, <3>1 DEF Apart, Path
  <2>3. QED
    BY <2>1, <2>2
<1>3. ASSUME NEW e \in R \ {d} PROVE Same(m, m2, e)
  BY <1>1, <1>2, SameTables DEF Same, Kept
<1>4. QED
  BY <1>1, <1>3 DEF Within

\* Steps of pmm.c that concern one address space.
LEMMA StepsWithin ==
    ASSUME NEW m, NEW R, NEW m2, NEW d, NEW v, NEW area
    PROVE  /\ TablesAdded(m, R, m2, d, v) => Within(m, R, m2, d)
           /\ PageAdded(m, R, m2, d, v) => Within(m, R, m2, d)
           /\ RangeUnmapped(m, R, m2, d, area) => Within(m, R, m2, d)
           /\ RangeExited(m, R, m2, d, area) => Within(m, R, m2, d)
<1>1. TablesAdded(m, R, m2, d, v) => Within(m, R, m2, d)
  BY SameIsEmpty DEF TablesAdded, Within, Same
<1>2. PageAdded(m, R, m2, d, v) => Within(m, R, m2, d)
  BY SameIsEmpty DEF PageAdded, Within, Same, Kept
<1>3. RangeUnmapped(m, R, m2, d, area) => Within(m, R, m2, d)
  BY SameIsEmpty DEF RangeUnmapped, Within, Same, Kept
<1>4. RangeExited(m, R, m2, d, area) => Within(m, R, m2, d)
  BY DEF RangeExited, Within, Same
<1>5. QED
  BY <1>1, <1>2, <1>3, <1>4

\* One after the other.
LEMMA WithinTwice ==
    ASSUME NEW m, NEW R, NEW m1, NEW m2, NEW d, Within(m, R, m1, d), Within(m1, R, m2, d)
    PROVE  Within(m, R, m2, d)
<1>1. Owned(m2, R) /\ \A e \in R \ {d} : Same(m, m1, e) /\ Same(m1, m2, e)
  BY DEF Within
<1>2. \A e \in R \ {d} : Same(m, m2, e)
  BY <1>1 DEF Same, Kept
<1>3. RestEmpty(m, R, m1, R) /\ RestEmpty(m1, R, m2, R)
  BY DEF Within
<1>4. RestEmpty(m, R, m2, R)
  BY <1>3 DEF RestEmpty, Cleaned, NoneGained
<1>5. QED
  BY <1>1, <1>2, <1>4 DEF Within

-----------------------------------------------------------------------------
\* The invariant of the system.

ExitOp == [call : {"exit"}, stage : {"unmap", "range"}, mm : MmType, k : Nat]

\* The segments are loaded from the first on.
ExecOp ==
    {o \in [call : {"exec"},
            stage : {"unmap", "range", "setup", "segment", "file", "bss", "stack"}, mm : MmType,
            k : Nat, prog : Program, seg : Nat \ {0}, start : Nat, arg : ArgSize] :
       o.stage \in {"unmap", "range", "setup"} => o.seg = 1}

ForkOp ==
    [call : {"fork"}, stage : {"area", "copy", "unmap", "range"}, child : Proc, k : Nat, v : Nat,
     mm : MmType]

Types ==
    /\ mm \in [Proc -> MmType \cup {NULL}] /\ pgdir \in [Proc -> Page \cup {Boot}]
    /\ alive \subseteq Proc /\ current \in Proc \cup {idleproc}
    /\ satp \in Page \cup {Boot} /\ panic \in BOOLEAN /\ lost \subseteq Page
    /\ op \in {Idle} \cup ExitOp \cup ExecOp \cup ForkOp

\* Which process has which address space: a call that dismantles one has taken it
\* from its process and left it, one that builds one has not given it away yet.  A
\* process without one runs on the kernel's table or on whatever it had before.
Holders ==
    /\ \A p \in Proc :
         mm[p] # NULL => p \in alive /\ mm[p].pgdir \in Page /\ pgdir[p] = mm[p].pgdir
    /\ \A p, r \in Proc :
         mm[p] # NULL /\ mm[r] # NULL /\ mm[p].pgdir = mm[r].pgdir => p = r
    /\ current \in alive \/ (current = idleproc /\ satp = Boot /\ op = Idle)
    /\ current \in alive /\ mm[current] # NULL => satp = pgdir[current]
    /\ current \in alive /\ mm[current] = NULL => satp \in {Boot, pgdir[current]}
    /\ op # Idle /\ op.call # "fork" => mm[current] = NULL /\ satp = Boot
    /\ op # Idle /\ op.call = "fork" => mm[current] # NULL /\ op.child \notin alive
    /\ op # Idle =>
         /\ op.stage = "setup" <=> op.mm.pgdir = Boot
         /\ \A p \in Proc : mm[p] # NULL => mm[p].pgdir # op.mm.pgdir

\* The areas of an address space are apart.
AreasOK(areas) ==
    /\ areas \in Seq((0 .. NVirtual) \X (0 .. NVirtual))
    /\ \A i \in DOMAIN areas : IsArea(areas[i])
    /\ \A i, j \in DOMAIN areas : i # j => PagesOf(areas[i]) \cap PagesOf(areas[j]) = {}

\* The pages mapped from root d lie in the areas with indices S, the tables serve such areas.
PagesIn(m, d, areas, S) ==
    \A v \in VPage : get_page(m, d, v) # 0 => \E i \in S : v \in PagesOf(areas[i])

TablesIn(m, d, areas, S) ==
    \A v \in VPage :
      TableOf(m, d, v) # 0 =>
        \E i \in S : \E w \in PagesOf(areas[i]) : PDX1(w) = PDX1(v) /\ PDX0(w) = PDX0(v)

SpaceOK(m, s, S, T) ==
    AreasOK(s.areas) /\ PagesIn(m, s.pgdir, s.areas, S) /\ TablesIn(m, s.pgdir, s.areas, T)

\* Of the areas of the call in progress, those that still have pages, and tables.
PagesLeft ==
    IF op.stage = "unmap" THEN op.k .. Len(op.mm.areas)
    ELSE IF op.stage = "range" THEN {} ELSE DOMAIN op.mm.areas

TablesLeft ==
    IF op.stage = "range" THEN op.k .. Len(op.mm.areas) ELSE DOMAIN op.mm.areas

\* The address spaces of processes, and the one that the call works on.
Held ==
    \A p \in Proc :
      mm[p] # NULL => SpaceOK(mem, mm[p], DOMAIN mm[p].areas, DOMAIN mm[p].areas)

Built ==
    op # Idle =>
      /\ AreasOK(op.mm.areas) /\ (op.stage \in {"unmap", "range"} => op.k > 0)
      /\ op.stage # "setup" => SpaceOK(mem, op.mm, PagesLeft, TablesLeft)

\* What no address space has, and is neither free nor lost, holds nothing; what is
\* lost is neither free nor part of an address space.
Left(m, R, L) ==
    /\ \A q \in Page :
         q \notin m.free \cup L \cup Live(m.entry, R) \cup Mapped(m.entry, R) =>
           m.entry[q] = Empty /\ m.cell[q] = Fresh
    /\ L \cap (m.free \cup Live(m.entry, R) \cup Mapped(m.entry, R)) = {}

SegArea(i) == AreaOf(op.prog[i].va, op.prog[i].memsz)

StackArea == <<NVirtual - USTACKPAGE, NVirtual>>

Is(stages) == op # Idle /\ op.call = "exec" /\ op.stage \in stages

\* load_icode: the segments seen so far have areas of their own.
Seen == IF op.stage \in {"file", "bss"} THEN op.seg ELSE op.seg - 1

Segments ==
    Is({"segment", "file", "bss", "stack"}) =>
      /\ Seen <= Len(op.prog) /\ (op.stage = "stack" => op.seg > Len(op.prog))
      /\ \A i \in 1 .. Seen : \E j \in DOMAIN op.mm.areas : op.mm.areas[j] = SegArea(i)
      /\ \A i, j \in 1 .. Seen : i # j => PagesOf(SegArea(i)) \cap PagesOf(SegArea(j)) = {}

\* The page that comes next has not been mapped.
FilePart ==
    Is({"file"}) =>
      /\ op.start \in Segment.va .. FileEnd
      /\ op.start = Segment.va \/ op.start = FileEnd \/ op.start % PGSIZE = 0
      /\ \A v \in PagesOf(SegArea(op.seg)) :
           get_page(mem, op.mm.pgdir, v) # 0 => op.start # Segment.va /\ v * PGSIZE < op.start

BssPart ==
    Is({"bss"}) =>
      /\ op.start >= FileEnd /\ (FileEnd < MemEnd => op.start % PGSIZE = 0)
      /\ \A v \in PagesOf(SegArea(op.seg)) :
           get_page(mem, op.mm.pgdir, v) # 0 => v * PGSIZE < op.start

StackPart ==
    Is({"stack"}) =>
      /\ \E j \in DOMAIN op.mm.areas : op.mm.areas[j] = StackArea
      /\ \A i \in 1 .. Len(op.prog) : PagesOf(SegArea(i)) \cap PagesOf(StackArea) = {}
      /\ \E k \in 0 .. StackMapped : op.start = USTACKTOP - k * PGSIZE
      /\ \A v \in PagesOf(StackArea) :
           get_page(mem, op.mm.pgdir, v) # 0 => op.start <= v * PGSIZE

Loads == Segments /\ FilePart /\ BssPart /\ StackPart

\* dup_mmap has come to page v of the areas of the parent.
Visited(v) ==
    \/ \E j \in op.k + 1 .. Len(Source.areas) : v \in PagesOf(Source.areas[j])
    \/ op.stage = "copy" /\ v \in PagesOf(Source.areas[op.k]) /\ v < op.v

\* The areas of the child are those of the parent from the current one on, and it
\* has pages only where dup_mmap has been.
FirstCopied == IF op.stage = "copy" THEN op.k ELSE op.k + 1

Copies ==
    op # Idle /\ op.call = "fork" /\ op.stage \in {"area", "copy"} =>
      /\ op.k \in 0 .. Len(Source.areas)
      /\ op.stage = "copy" => op.k > 0 /\ Source.areas[op.k][1] <= op.v
      /\ \A i \in DOMAIN op.mm.areas :
           \E j \in FirstCopied .. Len(Source.areas) : op.mm.areas[i] = Source.areas[j]
      /\ \A j \in FirstCopied .. Len(Source.areas) :
           \E i \in DOMAIN op.mm.areas : op.mm.areas[i] = Source.areas[j]
      /\ \A v \in VPage : get_page(mem, op.mm.pgdir, v) # 0 => Visited(v)

MmInv ==
    /\ Types /\ Holders /\ Owned(mem, Roots) /\ Held /\ Built /\ Left(mem, Roots, lost)
    /\ Loads /\ Copies

\* Address a of the space with root d contains x.
Shows(m, d, a, x) ==
    LET q == get_page(m, d, a \div PGSIZE) IN q # 0 /\ m.cell[q][a % PGSIZE] = x

\* What segment i of a program has at address a.
Byte(prog, i, a) == IF a < prog[i].va + prog[i].filesz THEN a ELSE Zeroed

Filled(m, d, prog, i, stop) ==
    \A a \in prog[i].va .. prog[i].va + prog[i].memsz - 1 :
      a < stop => Shows(m, d, a, Byte(prog, i, a))

\* load_icode has filled the segments before the current one, and that up to start.
LoadData ==
    Is({"segment", "file", "bss", "stack"}) =>
      /\ \A i \in 1 .. Len(op.prog) :
           i < op.seg => Filled(mem, op.mm.pgdir, op.prog, i, USTACKTOP)
      /\ op.stage \in {"file", "bss"} => Filled(mem, op.mm.pgdir, op.prog, op.seg, op.start)

\* dup_mmap has copied the pages that it has come to.
CopyData ==
    op # Idle /\ op.call = "fork" /\ op.stage \in {"area", "copy"} =>
      \A v \in VPage :
        Visited(v) /\ get_page(mem, Source.pgdir, v) # 0 =>
          /\ get_page(mem, op.mm.pgdir, v) # 0
          /\ mem.cell[get_page(mem, op.mm.pgdir, v)] = mem.cell[get_page(mem, Source.pgdir, v)]

\* A segment that is only cleared starts with a page.  load_icode leaves the page
\* before the first page boundary of another unmapped ("if filesz was 0, it might
\* not", proc.c).
BssAligned ==
    \A prog \in Program : \A i \in DOMAIN prog : prog[i].filesz = 0 => prog[i].va % PGSIZE = 0

\* What a call does to the memory of others: nothing.
SpacesKept == \A p \in Proc : mm[p] # NULL => Kept(mem, mem', mm[p].pgdir)

-----------------------------------------------------------------------------
\* What the invariant says of the call in progress and of the roots.

\* An area has pages, all of them in the virtual address space.
LEMMA AreaFacts ==
    ASSUME NEW area, IsArea(area)
    PROVE  /\ area \in (0 .. NVirtual) \X (0 .. NVirtual) /\ PagesOf(area) \subseteq VPage
           /\ area[1] \in PagesOf(area) /\ area[2] - 1 \in PagesOf(area)
<1>1. area[1] \in 0 .. NVirtual /\ area[2] \in 0 .. NVirtual /\ area[1] < area[2]
  BY DEF IsArea
<1>2. NVirtual \in Nat
  BY NVirtualFacts
<1>3. QED
  BY <1>1, <1>2 DEF IsArea, PagesOf, VPage

\* The call in progress tells its operands.
OpIs ==
    /\ op \in ExitOp \cup ExecOp \cup ForkOp /\ op.mm \in MmType
    /\ op.call \in {"exit", "exec", "fork"}
    /\ op.call = "exit" <=> op \in ExitOp
    /\ op.call = "exec" <=> op \in ExecOp
    /\ op.call = "fork" <=> op \in ForkOp

LEMMA OpFacts ==
    ASSUME Types
    PROVE  /\ op # Idle => OpIs
           /\ op.call # "none" => op # Idle
           /\ op = Idle => op.call = "none"
<1>1. Idle.call = "none"
  BY DEF Idle
<1>2. ASSUME op \in ExitOp
      PROVE  op.mm \in MmType /\ op.call = "exit"
  BY <1>2 DEF ExitOp
<1>3. ASSUME op \in ExecOp
      PROVE  op.mm \in MmType /\ op.call = "exec"
  BY <1>3 DEF ExecOp
<1>4. ASSUME op \in ForkOp
      PROVE  op.mm \in MmType /\ op.call = "fork"
  BY <1>4 DEF ForkOp
<1>5. op \in {Idle} \cup ExitOp \cup ExecOp \cup ForkOp
  BY DEF Types
<1>6. QED
  BY <1>1, <1>2, <1>3, <1>4, <1>5 DEF OpIs

\* Each root is a page and has one owner: a process, or the call in progress.
LEMMA RootsFacts ==
    ASSUME Types, Holders, Owned(mem, Roots)
    PROVE  /\ Roots \in SUBSET Page /\ 0 \notin Page /\ mem \in MemType
           /\ \A p \in Proc : mm[p] # NULL => mm[p] \in MmType /\ mm[p].pgdir \in Roots
           /\ op # Idle /\ op.stage # "setup" =>
                /\ op.mm.pgdir \in Roots /\ op.mm.pgdir \in Page
                /\ \A p \in Proc : mm[p] # NULL => mm[p].pgdir \in Roots \ {op.mm.pgdir}
<1>1. Roots \in SUBSET Page /\ 0 \notin Page /\ mem \in MemType
  BY MmAssumption DEF Owned, Page
<1>2. ASSUME NEW p \in Proc, mm[p] # NULL
      PROVE  mm[p] \in MmType /\ mm[p].pgdir \in Roots
  BY <1>2 DEF Types, Roots
<1>3. ASSUME op # Idle, op.stage # "setup"
      PROVE  /\ op.mm.pgdir \in Roots /\ op.mm.pgdir \in Page
             /\ \A p \in Proc : mm[p] # NULL => mm[p].pgdir # op.mm.pgdir
  <2>1. op.mm.pgdir # Boot /\ \A p \in Proc : mm[p] # NULL => mm[p].pgdir # op.mm.pgdir
    BY <1>3 DEF Holders
  <2>2. op.mm.pgdir \in Roots
    BY <1>3, <2>1 DEF Roots
  <2>3. QED
    BY <1>1, <2>1, <2>2
<1>4. QED
  BY <1>1, <1>2, <1>3

\* Fewer mappings and tables, more areas.
LEMMA SpaceKept ==
    ASSUME NEW m, NEW m2, NEW s, NEW S, NEW T, NEW S2, NEW T2,
           SpaceOK(m, s, S, T), S \subseteq S2, T \subseteq T2,
           \A v \in VPage :
             /\ get_page(m2, s.pgdir, v) # 0 => get_page(m, s.pgdir, v) # 0
             /\ TableOf(m2, s.pgdir, v) # 0 => TableOf(m, s.pgdir, v) # 0
    PROVE  SpaceOK(m2, s, S2, T2)
<1>1. AreasOK(s.areas) /\ PagesIn(m, s.pgdir, s.areas, S) /\ TablesIn(m, s.pgdir, s.areas, T)
  BY DEF SpaceOK
<1>2. PagesIn(m2, s.pgdir, s.areas, S2)
  BY <1>1 DEF PagesIn
<1>3. TablesIn(m2, s.pgdir, s.areas, T2)
  BY <1>1 DEF TablesIn
<1>4. QED
  BY <1>1, <1>2, <1>3 DEF SpaceOK

\* Pages that are nobody's stay empty.
LEMMA LeftKept ==
    ASSUME NEW m, NEW R, NEW m2, NEW R2, NEW L, Left(m, R, L), RestEmpty(m, R, m2, R2)
    PROVE  Left(m2, R2, L)
BY DEF Left, RestEmpty, Cleaned, NoneGained

\* A turn of a loop of the call in progress, which changes its own address space.
Continues ==
    /\ op # Idle /\ op.stage # "setup" /\ op' # Idle /\ op'.stage # "setup"
    /\ op' \in ExitOp \cup ExecOp \cup ForkOp /\ op'.call = op.call
    /\ op'.mm.pgdir = op.mm.pgdir /\ (op.call = "fork" => op'.child = op.child)
    /\ panic' \in BOOLEAN
    /\ mm' = mm /\ pgdir' = pgdir /\ alive' = alive /\ current' = current /\ satp' = satp
    /\ image' = image /\ lost' = lost

\* What it does not touch.
Constant ==
    /\ Types' /\ Holders' /\ Owned(mem', Roots') /\ Held' /\ Left(mem', Roots', lost')
    /\ SpacesKept

LEMMA ContinueFacts ==
    ASSUME MmInv, Continues, Within(mem, Roots, mem', op.mm.pgdir)
    PROVE  Constant /\ Roots' = Roots
<1>1. Types /\ Holders /\ Owned(mem, Roots) /\ Held /\ Left(mem, Roots, lost)
  BY DEF MmInv
<1>2. Types'
  BY <1>1 DEF Types, Continues
<1>3. Roots' = Roots
  BY DEF Roots, Continues
<1>4. Holders'
  BY <1>1 DEF Holders, Continues
<1>5. Owned(mem', Roots')
  BY <1>3 DEF Within
<1>6. Left(mem', Roots', lost')
  BY <1>1, <1>3, LeftKept DEF Within, Continues
<1>7. Held'
  <2>1. SUFFICES ASSUME NEW p \in Proc, mm[p] # NULL
                 PROVE  SpaceOK(mem', mm[p], DOMAIN mm[p].areas, DOMAIN mm[p].areas)
    BY DEF Held, Continues
  <2>2. SpaceOK(mem, mm[p], DOMAIN mm[p].areas, DOMAIN mm[p].areas)
    BY <1>1, <2>1 DEF Held
  <2>3. Same(mem, mem', mm[p].pgdir)
    BY <1>1, <2>1, RootsFacts DEF Within, Continues
  <2>4. QED
    BY <2>2, <2>3, SpaceKept DEF Same, Kept
<1>8. SpacesKept
  BY <1>1, RootsFacts DEF Within, Continues, Same, SpacesKept
<1>9. QED
  BY <1>2, <1>3, <1>4, <1>5, <1>6, <1>7, <1>8 DEF Constant

\* Nothing has changed at all.
LEMMA NothingWithin ==
    ASSUME NEW m, NEW R, NEW d, Owned(m, R)
    PROVE  Within(m, R, m, d)
BY DEF Within, RestEmpty, Cleaned, NoneGained, Same, Kept

\* The parts that a call other than the one in progress has no interest in.
LEMMA Elsewhere ==
    ASSUME op' # Idle
    PROVE  /\ op'.call # "exec" \/ op'.stage \in {"unmap", "range", "setup"} => Loads'
           /\ op'.call # "fork" \/ op'.stage \in {"unmap", "range"} => Copies'
BY DEF Loads, Segments, FilePart, BssPart, StackPart, Is, Copies

-----------------------------------------------------------------------------
\* Dismantling.

\* One area after the other loses its pages.
LEMMA UnmapAreaInv ==
    ASSUME MmInv, UnmapArea
    PROVE  MmInv' /\ SpacesKept
<1> DEFINE d == op.mm.pgdir
<1>1. /\ Types /\ Holders /\ Owned(mem, Roots) /\ Held /\ Built /\ Left(mem, Roots, lost)
      /\ op # Idle /\ op.stage = "unmap"
  BY DEF MmInv, UnmapArea
<1>2. OpIs /\ d \in Roots
  BY <1>1, OpFacts, RootsFacts
<1>3. /\ AreasOK(op.mm.areas) /\ SpaceOK(mem, op.mm, op.k .. Len(op.mm.areas), DOMAIN op.mm.areas)
      /\ op.k > 0 /\ op.k \in Nat /\ Len(op.mm.areas) \in Nat
      /\ DOMAIN op.mm.areas = 1 .. Len(op.mm.areas)
  <2>1. AreasOK(op.mm.areas) /\ SpaceOK(mem, op.mm, PagesLeft, TablesLeft) /\ op.k > 0
    BY <1>1 DEF Built
  <2>2. PagesLeft = op.k .. Len(op.mm.areas) /\ TablesLeft = DOMAIN op.mm.areas
    BY <1>1 DEF PagesLeft, TablesLeft
  <2>3. op.k \in Nat
    BY <1>2 DEF OpIs, ExitOp, ExecOp, ForkOp
  <2>4. Len(op.mm.areas) \in Nat /\ DOMAIN op.mm.areas = 1 .. Len(op.mm.areas)
    BY <2>1 DEF AreasOK
  <2>5. QED
    BY <2>1, <2>2, <2>3, <2>4
<1>4. CASE op.k <= Len(op.mm.areas)
  <2> DEFINE area == op.mm.areas[op.k]
  <2>1. mem' = unmap_range(mem, d, area) /\ op' = [op EXCEPT !.k = @ + 1]
    BY <1>4 DEF UnmapArea
  <2>2. /\ op' \in ExitOp \cup ExecOp \cup ForkOp /\ op'.call = op.call /\ op'.stage = "unmap"
        /\ op'.mm = op.mm /\ op'.k = op.k + 1 /\ (op.call = "fork" => op'.child = op.child)
    BY <1>1, <1>2, <1>3, <2>1 DEF OpIs, ExitOp, ExecOp, ForkOp
  <2>3. op' # Idle /\ Continues
    BY <1>1, <1>2, <2>2 DEF Continues, UnmapArea, Idle, OpIs, Types
  <2>4. IsArea(area) /\ PagesOf(area) \subseteq VPage
    <3>1. op.k \in DOMAIN op.mm.areas
      BY <1>3, <1>4
    <3>2. IsArea(area)
      BY <1>3, <3>1 DEF AreasOK
    <3>3. QED
      BY <3>2, AreaFacts
  <2>5. RangeUnmapped(mem, Roots, mem', d, area)
    BY <1>1, <1>2, <2>1, <2>4, UnmapRangeFacts
  <2>6. Constant
    BY <2>3, <2>5, ContinueFacts, StepsWithin
  <2>7. SpaceOK(mem', op.mm, op.k + 1 .. Len(op.mm.areas), DOMAIN op.mm.areas)
    <3>1. \A w \in VPage : /\ TableOf(mem', d, w) = TableOf(mem, d, w)
                           /\ get_page(mem', d, w) # 0 =>
                                w \notin PagesOf(area) /\ get_page(mem, d, w) # 0
      BY <1>2, <2>5 DEF RangeUnmapped
    <3>2. PagesIn(mem', d, op.mm.areas, op.k + 1 .. Len(op.mm.areas))
      BY <1>3, <3>1 DEF SpaceOK, PagesIn
    <3>3. QED
      BY <1>3, <3>1, <3>2 DEF SpaceOK, TablesIn
  <2>8. Built'
    <3>1. PagesLeft' = op.k + 1 .. Len(op.mm.areas) /\ TablesLeft' = DOMAIN op.mm.areas
      BY <2>2 DEF PagesLeft, TablesLeft
    <3>2. QED
      BY <1>3, <2>2, <2>7, <3>1 DEF Built
  <2>9. QED
    BY <2>2, <2>3, <2>6, <2>8, Elsewhere DEF MmInv, Constant
<1>5. CASE op.k > Len(op.mm.areas)
  <2>1. mem' = mem /\ op' = [op EXCEPT !.stage = "range", !.k = 1]
    BY <1>3, <1>5 DEF UnmapArea
  <2>2. /\ op' \in ExitOp \cup ExecOp \cup ForkOp /\ op'.call = op.call /\ op'.stage = "range"
        /\ op'.mm = op.mm /\ op'.k = 1 /\ (op.call = "fork" => op'.child = op.child)
    BY <1>1, <1>2, <1>3, <2>1 DEF OpIs, ExitOp, ExecOp, ForkOp
  <2>3. op' # Idle /\ Continues
    BY <1>1, <1>2, <2>2 DEF Continues, UnmapArea, Idle, OpIs, Types
  <2>4. Constant
    BY <1>1, <2>1, <2>3, ContinueFacts, NothingWithin
  <2>5. Built'
    <3>1. PagesLeft' = {} /\ TablesLeft' = 1 .. Len(op.mm.areas)
      BY <2>2 DEF PagesLeft, TablesLeft
    <3>2. op.k .. Len(op.mm.areas) = {}
      BY <1>3, <1>5
    <3>3. QED
      BY <1>3, <2>1, <2>2, <3>1, <3>2 DEF Built
  <2>6. QED
    BY <2>2, <2>3, <2>4, <2>5, Elsewhere DEF MmInv, Constant
<1>6. QED
  BY <1>3, <1>4, <1>5

\* Once no area has pages, each loses its tables.
LEMMA ExitAreaInv ==
    ASSUME MmInv, ExitArea
    PROVE  MmInv' /\ SpacesKept
<1> DEFINE d == op.mm.pgdir
           area == op.mm.areas[op.k]
           n == Len(op.mm.areas)
<1>1. /\ Types /\ Holders /\ Owned(mem, Roots) /\ Held /\ Built /\ Left(mem, Roots, lost)
      /\ op # Idle /\ op.stage = "range" /\ op.k <= n
      /\ mem' = exit_range(mem, d, area) /\ op' = [op EXCEPT !.k = @ + 1]
  BY DEF MmInv, ExitArea
<1>2. OpIs /\ d \in Roots
  BY <1>1, OpFacts, RootsFacts
<1>3. /\ AreasOK(op.mm.areas) /\ SpaceOK(mem, op.mm, {}, op.k .. n)
      /\ op.k > 0 /\ op.k \in Nat /\ n \in Nat /\ DOMAIN op.mm.areas = 1 .. n
  <2>1. AreasOK(op.mm.areas) /\ SpaceOK(mem, op.mm, PagesLeft, TablesLeft) /\ op.k > 0
    BY <1>1 DEF Built
  <2>2. PagesLeft = {} /\ TablesLeft = op.k .. n
    BY <1>1 DEF PagesLeft, TablesLeft
  <2>3. op.k \in Nat
    BY <1>2 DEF OpIs, ExitOp, ExecOp, ForkOp
  <2>4. Len(op.mm.areas) \in Nat /\ DOMAIN op.mm.areas = 1 .. Len(op.mm.areas)
    BY <2>1 DEF AreasOK
  <2>5. QED
    BY <2>1, <2>2, <2>3, <2>4
<1>4. /\ op' \in ExitOp \cup ExecOp \cup ForkOp /\ op'.call = op.call /\ op'.stage = "range"
      /\ op'.mm = op.mm /\ op'.k = op.k + 1 /\ (op.call = "fork" => op'.child = op.child)
  BY <1>1, <1>2, <1>3 DEF OpIs, ExitOp, ExecOp, ForkOp
<1>5. op' # Idle /\ Continues
  BY <1>1, <1>2, <1>4 DEF Continues, ExitArea, Idle, OpIs, Types
<1>6. IsArea(area)
  <2>1. op.k \in DOMAIN op.mm.areas
    BY <1>1, <1>3
  <2>2. QED
    BY <1>3, <2>1 DEF AreasOK
<1>7. \A v \in VPage : get_page(mem, d, v) = 0
  BY <1>3 DEF SpaceOK, PagesIn
<1>8. RangeExited(mem, Roots, mem', d, area)
  BY <1>1, <1>2, <1>6, <1>7, ExitRangeFacts
<1>9. Constant
  BY <1>5, <1>8, ContinueFacts, StepsWithin
<1>10. SpaceOK(mem', op.mm, {}, op.k + 1 .. n)
  <2>1. \A w \in VPage :
          /\ get_page(mem', d, w) = 0
          /\ TableOf(mem', d, w) # 0 =>
               /\ TableOf(mem, d, w) # 0
               /\ \A v \in PagesOf(area) : PDX1(v) # PDX1(w) \/ PDX0(v) # PDX0(w)
    BY <1>8 DEF RangeExited
  <2>2. TablesIn(mem', d, op.mm.areas, op.k + 1 .. n)
    <3>1. SUFFICES ASSUME NEW v \in VPage, TableOf(mem', d, v) # 0
                   PROVE  \E i \in op.k + 1 .. n : \E w \in PagesOf(op.mm.areas[i]) :
                            PDX1(w) = PDX1(v) /\ PDX0(w) = PDX0(v)
      BY DEF TablesIn
    <3>2. PICK i \in op.k .. n : \E w \in PagesOf(op.mm.areas[i]) :
                            PDX1(w) = PDX1(v) /\ PDX0(w) = PDX0(v)
      BY <1>3, <2>1, <3>1 DEF SpaceOK, TablesIn
    <3>3. i # op.k
      BY <2>1, <3>1, <3>2
    <3>4. i \in op.k + 1 .. n
      BY <1>3, <3>3
    <3>5. QED
      BY <3>2, <3>4
  <2>3. QED
    BY <1>3, <2>1, <2>2 DEF SpaceOK, PagesIn
<1>11. Built'
  <2>1. PagesLeft' = {} /\ TablesLeft' = op.k + 1 .. n
    BY <1>4 DEF PagesLeft, TablesLeft
  <2>2. QED
    BY <1>3, <1>4, <1>10, <2>1 DEF Built
<1>12. QED
  BY <1>4, <1>5, <1>9, <1>11, Elsewhere DEF MmInv, Constant

\* What is known of the memory when the address space with root d has gone.
Gone(m, m2, R, d, L2) ==
    /\ Owned(m2, R \ {d}) /\ Left(m2, R \ {d}, L2)
    /\ \A e \in R \ {d} : Same(m, m2, e)

\* Dropped, with its pages.
LEMMA DropGone ==
    ASSUME NEW m, NEW R, NEW d, NEW L, Owned(m, R), Left(m, R, L),
           d \in R \/ (d = Boot /\ Boot \notin R)
    PROVE  Gone(m, m, R, d, L \cup Reach(m, d))
<1>1. CASE d \in R
  <2>1. Dropped(m, R, m, d)
    BY <1>1, DropFacts
  <2>2. \A p \in Page :
                p \notin m.free \cup Live(m.entry, R \ {d}) \cup Mapped(m.entry, R \ {d})
                           \cup Reach(m, d) =>
                  p \notin Live(m.entry, R) \cup Mapped(m.entry, R)
    BY <1>1, DropFacts
  <2>3. Left(m, R \ {d}, L \cup Reach(m, d))
    <3>1. LevelsBelow(m, R, m, R \ {d})
      BY LevelsMono
    <3>2. L \cap (m.free \cup Live(m.entry, R \ {d}) \cup Mapped(m.entry, R \ {d})) = {}
      BY <3>1 DEF Left, LevelsBelow
    <3>3. Reach(m, d) \cap (m.free \cup Live(m.entry, R \ {d}) \cup Mapped(m.entry, R \ {d})) = {}
      BY <1>1, ReachApart
    <3>4. QED
      BY <2>2, <3>2, <3>3 DEF Left
  <2>4. QED
    BY <2>1, <2>3 DEF Gone, Dropped, Same
<1>2. CASE d = Boot /\ Boot \notin R
  <2>1. R \ {d} = R
    BY <1>2
  <2>2. Left(m, R, L \cup Reach(m, d))
    <3> DEFINE dirs   == {Follow(m, d, i) : i \in Index} \ {0}
               tables == {Follow(m, t, i) : t \in dirs, i \in Index} \ {0}
               mapped == {Follow(m, t, i) : t \in tables, i \in Index} \ {0}
    <3>1. Reach(m, d) = ({d} \ {0}) \cup dirs \cup tables \cup mapped
      BY DEF Reach
    <3>2. dirs = {}
      BY <1>2 DEF Follow, Boot
    <3>3. tables = {}
      BY <3>2
    <3>4. mapped = {}
      BY <3>3
    <3>5. Reach(m, d) = {}
      BY <1>2, <3>1, <3>2, <3>3, <3>4 DEF Boot
    <3>6. QED
      BY <3>5
  <2>3. QED
    BY <2>1, <2>2 DEF Gone, Same, Kept
<1>3. QED
  BY <1>1, <1>2

\* The other address spaces are as they were.
LEMMA GoneRest ==
    ASSUME MmInv, mm' = mm, op # Idle, Gone(mem, mem', Roots, op.mm.pgdir, lost'),
           op' = Idle \/ op'.mm.pgdir = Boot
    PROVE  /\ Roots' = Roots \ {op.mm.pgdir} /\ Owned(mem', Roots')
           /\ Left(mem', Roots', lost') /\ Held' /\ SpacesKept
<1>1. Types /\ Holders /\ Owned(mem, Roots) /\ Held
  BY DEF MmInv
<1>2. Roots' = Roots \ {op.mm.pgdir}
  <2>1. \A r \in Proc : mm[r] # NULL => mm[r].pgdir # op.mm.pgdir /\ mm[r].pgdir \in Page
    BY <1>1 DEF Holders
  <2>2. Boot \notin Page
    BY MmAssumption DEF Boot, Page
  <2>3. QED
    BY <2>1, <2>2 DEF Roots
<1>3. Owned(mem', Roots') /\ Left(mem', Roots', lost')
  BY <1>2 DEF Gone
<1>4. Held'
  <2>1. SUFFICES ASSUME NEW r \in Proc, mm[r] # NULL
                 PROVE  SpaceOK(mem', mm[r], DOMAIN mm[r].areas, DOMAIN mm[r].areas)
    BY DEF Held
  <2>2. SpaceOK(mem, mm[r], DOMAIN mm[r].areas, DOMAIN mm[r].areas)
    BY <1>1, <2>1 DEF Held
  <2>3. mm[r].pgdir \in Roots /\ mm[r].pgdir # op.mm.pgdir
    BY <1>1, <2>1, RootsFacts DEF Holders
  <2>4. Same(mem, mem', mm[r].pgdir)
    BY <2>3 DEF Gone
  <2>5. QED
    BY <2>2, <2>4, SpaceKept DEF Same, Kept
<1>5. SpacesKept
  <2>1. \A r \in Proc : mm[r] # NULL => mm[r].pgdir \in Roots /\ mm[r].pgdir # op.mm.pgdir
    BY <1>1, RootsFacts DEF Holders
  <2>2. QED
    BY <2>1 DEF Gone, Same, SpacesKept
<1>6. QED
  BY <1>2, <1>3, <1>4, <1>5

LEMMA RunFacts ==
    ASSUME NEW p, proc_run(p)
    PROVE  /\ current' = p /\ satp' = IF p = idleproc THEN Boot ELSE pgdir[p]
           /\ panic' \in BOOLEAN
BY DEF proc_run, KernelUnmapped

\* A process that has no mm ends, and another runs with the root in its pgdir.
LEMMA DieHolders ==
    ASSUME Types, Holders, Die, mm' = mm, current \in alive, mm[current] = NULL,
           lost' \subseteq Page
    PROVE  Types' /\ Holders'
<1>1. PICK p \in IF alive = {current} THEN {idleproc} ELSE alive \ {current} : proc_run(p)
  BY DEF Die
<1>2. current' = p /\ satp' = (IF p = idleproc THEN Boot ELSE pgdir[p]) /\ panic' \in BOOLEAN
  BY <1>1, RunFacts
<1>3. alive' = alive \ {current} /\ op' = Idle /\ pgdir' = pgdir
  BY DEF Die
<1>4. idleproc \notin alive /\ alive \subseteq Proc
  BY MmAssumption DEF Types
<1>5. \/ p \in alive \ {current} /\ satp' = pgdir[p]
      \/ p = idleproc /\ alive' = {} /\ satp' = Boot
  BY <1>1, <1>2, <1>3, <1>4
<1>6. Types'
  BY <1>2, <1>3, <1>4, <1>5 DEF Types
<1>7. Holders'
  <2>1. \A r \in Proc :
          mm'[r] # NULL => r \in alive' /\ mm'[r].pgdir \in Page /\ pgdir'[r] = mm'[r].pgdir
    BY <1>3 DEF Holders
  <2>2. /\ current' \in alive' \/ (current' = idleproc /\ satp' = Boot /\ op' = Idle)
        /\ current' \in alive' => satp' = pgdir'[current']
    BY <1>2, <1>3, <1>4, <1>5
  <2>3. \A r, t \in Proc :
         mm'[r] # NULL /\ mm'[t] # NULL /\ mm'[r].pgdir = mm'[t].pgdir => r = t
    BY DEF Holders
  <2>4. QED
    BY <1>3, <2>1, <2>2, <2>3 DEF Holders
<1>8. QED
  BY <1>6, <1>7

\* The process is gone too, and another runs.
LEMMA DieInv ==
    ASSUME MmInv, Die, mm' = mm, image' = image, op # Idle, op.call # "fork",
           lost' \subseteq Page, Gone(mem, mem', Roots, op.mm.pgdir, lost')
    PROVE  MmInv' /\ SpacesKept
<1>1. Types /\ Holders /\ Owned(mem, Roots) /\ Held /\ Left(mem, Roots, lost)
  BY DEF MmInv
<1>2. mm[current] = NULL /\ current \in alive
  BY <1>1 DEF Holders
<1>3. op' = Idle
  BY DEF Die
<1>4. Types' /\ Holders'
  BY <1>1, <1>2, DieHolders
<1>5. Owned(mem', Roots') /\ Left(mem', Roots', lost') /\ Held' /\ SpacesKept
  BY <1>3, GoneRest
<1>6. Built' /\ Loads' /\ Copies'
  BY <1>3 DEF Built, Loads, Segments, FilePart, BssPart, StackPart, Is, Copies
<1>7. QED
  BY <1>4, <1>5, <1>6 DEF MmInv

\* The call that started the dismantling has no address space any more.
LEMMA PutPgdirInv ==
    ASSUME MmInv, put_pgdir
    PROVE  MmInv' /\ SpacesKept
<1> DEFINE d == op.mm.pgdir
           n == Len(op.mm.areas)
<1>1. /\ Types /\ Holders /\ Owned(mem, Roots) /\ Held /\ Built /\ Left(mem, Roots, lost)
      /\ op # Idle /\ op.stage = "range" /\ op.k > n /\ mem' = free_pages(mem, {d})
      /\ mm' = mm /\ image' = image /\ lost' = lost
  BY DEF MmInv, put_pgdir
<1>2. OpIs /\ d \in Roots
  BY <1>1, OpFacts, RootsFacts
<1>3. \A v \in VPage : TableOf(mem, d, v) = 0
  <2>1. SpaceOK(mem, op.mm, PagesLeft, TablesLeft) /\ AreasOK(op.mm.areas)
    BY <1>1 DEF Built
  <2>2. TablesLeft = op.k .. n
    BY <1>1 DEF TablesLeft
  <2>3. n \in Nat /\ op.k \in Nat
    BY <1>2, <2>1 DEF AreasOK, OpIs, ExitOp, ExecOp, ForkOp
  <2>4. op.k .. n = {}
    BY <1>1, <2>3
  <2>5. QED
    BY <2>1, <2>2, <2>4 DEF SpaceOK, TablesIn
<1>4. Gone(mem, mem', Roots, d, lost')
  <2>1. Dropped(mem, Roots, mem', d) /\ RestEmpty(mem, Roots, mem', Roots \ {d})
    BY <1>1, <1>2, <1>3, PutPgdirFacts
  <2>2. Left(mem', Roots \ {d}, lost')
    BY <1>1, <2>1, LeftKept
  <2>3. QED
    BY <2>1, <2>2 DEF Gone, Dropped, Same
<1>5. CASE op.call = "exit"
  <2>1. Die /\ lost' \subseteq Page
    BY <1>1, <1>5 DEF put_pgdir, Types
  <2>2. QED
    BY <1>1, <1>4, <1>5, <2>1, DieInv
<1>6. CASE op.call = "exec"
  <2>1. /\ op' = [op EXCEPT !.stage = "setup", !.mm = NoMm] /\ pgdir' = pgdir /\ alive' = alive
        /\ current' = current /\ satp' = satp /\ panic' = panic
    BY <1>6 DEF put_pgdir
  <2>2. NoMm \in MmType /\ NoMm.pgdir = Boot /\ AreasOK(NoMm.areas)
    BY DEF NoMm, MmType, Boot, AreasOK
  <2>3. op' \in ExecOp /\ op'.call = "exec" /\ op'.stage = "setup" /\ op'.mm = NoMm
    BY <1>1, <1>2, <1>6, <2>1, <2>2 DEF OpIs, ExecOp
  <2>4. op' # Idle
    BY <2>3 DEF Idle
  <2>5. Owned(mem', Roots') /\ Left(mem', Roots', lost') /\ Held' /\ SpacesKept
    BY <1>1, <1>4, <2>2, <2>3, GoneRest
  <2>6. Types'
    BY <1>1, <2>1, <2>3 DEF Types
  <2>7. Holders'
    <3>1. \A p \in Proc : mm[p] # NULL => mm[p].pgdir # Boot
      BY <1>1, MmAssumption DEF Holders, Boot, Page
    <3>2. QED
      BY <1>1, <1>6, <2>1, <2>2, <2>3, <2>4, <3>1 DEF Holders
  <2>8. Built' /\ Loads' /\ Copies'
    BY <2>2, <2>3, <2>4, Elsewhere DEF Built
  <2>9. QED
    BY <2>5, <2>6, <2>7, <2>8 DEF MmInv
<1>7. CASE op.call = "fork"
  <2>1. /\ op' = Idle /\ pgdir' = pgdir /\ alive' = alive
        /\ current' = current /\ satp' = satp /\ panic' = panic
    BY <1>7 DEF put_pgdir
  <2>2. Owned(mem', Roots') /\ Left(mem', Roots', lost') /\ Held' /\ SpacesKept
    BY <1>1, <1>4, <2>1, GoneRest
  <2>3. Types'
    BY <1>1, <2>1 DEF Types
  <2>4. Holders'
    BY <1>1, <1>7, <2>1 DEF Holders
  <2>5. Built' /\ Loads' /\ Copies'
    BY <2>1 DEF Built, Loads, Segments, FilePart, BssPart, StackPart, Is, Copies
  <2>6. QED
    BY <2>2, <2>3, <2>4, <2>5 DEF MmInv
<1>8. QED
  BY <1>2, <1>5, <1>6, <1>7 DEF OpIs

\* A process gives its address space to the call that will dismantle it.
LEMMA LeaveInv ==
    ASSUME MmInv, Ready, Leave, mm[current] # NULL,
           op' \in ExitOp \cup ExecOp, op'.call \in {"exit", "exec"}, op'.stage = "unmap",
           op'.mm = mm[current], op'.k = 1, op' # Idle,
           UNCHANGED <<mem, pgdir, alive, current, panic, lost>>
    PROVE  MmInv'
<1>1. /\ Types /\ Holders /\ Owned(mem, Roots) /\ Held /\ Left(mem, Roots, lost)
      /\ op = Idle /\ current \in alive /\ current \in Proc
  BY DEF MmInv, Ready, Types
<1>2. mm' = [mm EXCEPT ![current] = NULL] /\ satp' = Boot
  BY DEF Leave
<1>3. /\ mm'[current] = NULL /\ \A p \in Proc : p # current => mm'[p] = mm[p]
      /\ mm[current] \in MmType /\ mm[current].pgdir \in Page
  BY <1>1, <1>2 DEF Types, Holders
<1>4. Types'
  BY <1>1, <1>2 DEF Types
<1>5. Roots' = Roots
  <2>1. Boot \notin Page
    BY MmAssumption DEF Boot, Page
  <2>2. Roots = {mm[p].pgdir : p \in {r \in Proc : mm[r] # NULL}}
    BY <1>1 DEF Roots
  <2>3. Roots' = {mm'[p].pgdir : p \in {r \in Proc : mm'[r] # NULL}} \cup {mm[current].pgdir}
    BY <1>3, <2>1 DEF Roots
  <2>4. QED
    BY <1>1, <1>3, <2>2, <2>3
<1>6. Holders'
  <2>1. \A p \in Proc : mm'[p] # NULL => mm[p] # NULL /\ p # current /\ mm'[p] = mm[p]
    BY <1>3
  <2>2. \A p \in Proc :
          mm'[p] # NULL => p \in alive' /\ mm'[p].pgdir \in Page /\ pgdir'[p] = mm'[p].pgdir
    BY <1>1, <2>1 DEF Holders
  <2>3. \A p, r \in Proc :
          mm'[p] # NULL /\ mm'[r] # NULL /\ mm'[p].pgdir = mm'[r].pgdir => p = r
    BY <1>1, <2>1 DEF Holders
  <2>4. \A p \in Proc : mm'[p] # NULL => mm'[p].pgdir # op'.mm.pgdir
    BY <1>1, <2>1 DEF Holders
  <2>5. op'.mm.pgdir # Boot
    BY <1>3, MmAssumption DEF Boot, Page
  <2>6. QED
    BY <1>1, <1>2, <1>3, <2>2, <2>3, <2>4, <2>5 DEF Holders
<1>7. Held'
  BY <1>1, <1>3 DEF Held
<1>8. Built'
  <2>1. SpaceOK(mem, mm[current], DOMAIN mm[current].areas, DOMAIN mm[current].areas)
    BY <1>1 DEF Held
  <2>2. AreasOK(op'.mm.areas)
    BY <2>1 DEF SpaceOK
  <2>3. PagesLeft' = DOMAIN op'.mm.areas /\ TablesLeft' = DOMAIN op'.mm.areas
    BY <2>2 DEF PagesLeft, TablesLeft, AreasOK
  <2>4. QED
    BY <2>1, <2>2, <2>3 DEF Built
<1>9. Loads' /\ Copies'
  BY Elsewhere
<1>10. QED
  BY <1>1, <1>4, <1>5, <1>6, <1>7, <1>8, <1>9 DEF MmInv

\* do_exit takes the address space of the process.
LEMMA ExitInv ==
    ASSUME MmInv, do_exit
    PROVE  MmInv'
<1>1. /\ Ready /\ mm[current] # NULL /\ Leave
      /\ op' = [call |-> "exit", stage |-> "unmap", mm |-> mm[current], k |-> 1]
      /\ UNCHANGED <<mem, pgdir, alive, current, panic, lost>>
  BY DEF do_exit
<1>2. mm[current] \in MmType
  <2>1. current \in Proc
    BY <1>1 DEF MmInv, Types, Ready
  <2>2. QED
    BY <1>1, <2>1 DEF MmInv, Types
<1>3. /\ op' \in ExitOp /\ op'.call = "exit" /\ op'.stage = "unmap" /\ op'.mm = mm[current]
      /\ op'.k = 1
  BY <1>1, <1>2 DEF ExitOp
<1>4. op' # Idle
  BY <1>3 DEF Idle
<1>5. QED
  BY <1>1, <1>3, <1>4, LeaveInv

\* So does do_execve, unless a kernel thread calls it.
LEMMA ExecveInv ==
    ASSUME MmInv, NEW prog \in Program, NEW n \in ArgSize, do_execve(prog, n)
    PROVE  MmInv'
<1>1. /\ Ready /\ ~Astray(current) /\ Leave
      /\ op' = [call |-> "exec", stage |-> IF mm[current] = NULL THEN "setup" ELSE "unmap",
              mm |-> IF mm[current] = NULL THEN NoMm ELSE mm[current], k |-> 1,
              prog |-> prog, seg |-> 1, start |-> 0, arg |-> n]
      /\ UNCHANGED <<mem, pgdir, alive, current, panic, lost>>
  BY DEF do_execve
<1>2. /\ Types /\ Holders /\ Owned(mem, Roots) /\ Held /\ Left(mem, Roots, lost)
      /\ op = Idle /\ current \in alive /\ current \in Proc
  BY <1>1 DEF MmInv, Ready, Types
<1>3. NoMm \in MmType /\ NoMm.pgdir = Boot /\ AreasOK(NoMm.areas)
  BY DEF NoMm, MmType, Boot, AreasOK
<1>4. mm[current] # NULL => mm[current] \in MmType
  BY <1>2 DEF Types
<1>5. /\ op' \in ExecOp /\ op'.call = "exec" /\ op'.k = 1
      /\ op'.stage = IF mm[current] = NULL THEN "setup" ELSE "unmap"
      /\ op'.mm = IF mm[current] = NULL THEN NoMm ELSE mm[current]
  BY <1>1, <1>3, <1>4 DEF ExecOp
<1>6. op' # Idle
  BY <1>5 DEF Idle
<1>7. CASE mm[current] # NULL
  BY <1>1, <1>5, <1>6, <1>7, LeaveInv
<1>8. CASE mm[current] = NULL
  <2>1. mm' = mm /\ satp' = satp
    BY <1>1, <1>2, <1>8 DEF Leave, Types
  <2>2. Types'
    BY <1>1, <1>2, <1>5, <2>1 DEF Types
  <2>3. Roots' = Roots
    BY <1>2, <1>3, <1>5, <1>8, <2>1 DEF Roots
  <2>4. Holders'
    <3>1. \A p \in Proc : mm[p] # NULL => mm[p].pgdir # Boot
      BY <1>2, MmAssumption DEF Holders, Boot, Page
    <3>2. satp = Boot
      BY <1>1, <1>2, <1>8 DEF Holders, Astray
    <3>3. QED
      BY <1>1, <1>2, <1>3, <1>5, <1>6, <1>8, <2>1, <3>1, <3>2 DEF Holders
  <2>5. Held'
    BY <1>1, <1>2, <2>1 DEF Held
  <2>6. Built' /\ Loads' /\ Copies'
    BY <1>3, <1>5, <1>6, <1>8, Elsewhere DEF Built
  <2>7. QED
    BY <1>1, <1>2, <2>2, <2>3, <2>4, <2>5, <2>6 DEF MmInv
<1>9. QED
  BY <1>7, <1>8

\* Whoever is switched to finds its root table in pgdir.
LEMMA ScheduleInv ==
    ASSUME MmInv, schedule
    PROVE  MmInv'
<1>1. /\ Types /\ Holders /\ Owned(mem, Roots) /\ Held /\ Built /\ Left(mem, Roots, lost)
      /\ op = Idle
  BY DEF MmInv, schedule, Ready
<1>2. PICK p \in alive \ {current} :
        /\ current' = p /\ satp' = IF p = idleproc THEN Boot ELSE pgdir[p]
        /\ panic' \in BOOLEAN
  BY RunFacts DEF schedule
<1>3. /\ mem' = mem /\ mm' = mm /\ pgdir' = pgdir /\ alive' = alive /\ op' = op
      /\ image' = image /\ lost' = lost
  BY DEF schedule
<1>4. p \in Proc /\ p # idleproc
  BY <1>1, MmAssumption DEF Types
<1>5. satp' = pgdir[p]
  BY <1>2, <1>4
<1>6. Types'
  BY <1>1, <1>2, <1>3, <1>4, <1>5 DEF Types
<1>7. Roots' = Roots /\ Held'
  BY <1>1, <1>3 DEF Roots, Held
<1>8. Holders'
  BY <1>1, <1>2, <1>3, <1>5 DEF Holders
<1>9. Built' /\ Loads' /\ Copies'
  BY <1>1, <1>3 DEF Built, Loads, Segments, FilePart, BssPart, StackPart, Is, Copies
<1>10. QED
  BY <1>1, <1>3, <1>6, <1>7, <1>8, <1>9 DEF MmInv

\* A process without an mm leaves nothing behind.
LEMMA ExitAstrayInv ==
    ASSUME MmInv, ExitAstray
    PROVE  MmInv'
<1>1. /\ Types /\ Holders /\ Owned(mem, Roots) /\ Held /\ Left(mem, Roots, lost)
      /\ op = Idle /\ current \in alive /\ mm[current] = NULL
  BY DEF MmInv, ExitAstray, Ready, Astray
<1>2. /\ mem' = mem /\ mm' = mm /\ image' = image /\ lost' = lost /\ Die /\ op' = Idle
  BY DEF ExitAstray, Die
<1>3. Types' /\ Holders'
  BY <1>1, <1>2, DieHolders DEF Types
<1>4. Roots' = Roots /\ Held'
  BY <1>1, <1>2 DEF Roots, Held
<1>5. Built' /\ Loads' /\ Copies'
  BY <1>2 DEF Built, Loads, Segments, FilePart, BssPart, StackPart, Is, Copies
<1>6. QED
  BY <1>1, <1>2, <1>3, <1>4, <1>5 DEF MmInv

-----------------------------------------------------------------------------
\* Building: load_icode.

\* Reach is a set of pages.
LEMMA ReachIsPages ==
    ASSUME NEW m \in MemType, NEW d \in Page \cup {Boot}
    PROVE  Reach(m, d) \subseteq Page
<1> DEFINE dirs   == {Follow(m, d, i) : i \in Index} \ {0}
           tables == {Follow(m, t, i) : t \in dirs, i \in Index} \ {0}
           mapped == {Follow(m, t, i) : t \in tables, i \in Index} \ {0}
<1>1. \A t \in Page \cup {0} : \A i \in Index : Follow(m, t, i) \in Page \cup {0}
  BY MemFacts DEF Follow
<1>2. Boot = 0
  BY DEF Boot
<1>3. dirs \subseteq Page
  BY <1>1, <1>2
<1> HIDE DEF dirs
<1>4. tables \subseteq Page
  BY <1>1, <1>3
<1> HIDE DEF tables
<1>5. mapped \subseteq Page
  BY <1>1, <1>4
<1>6. Reach(m, d) = ({d} \ {0}) \cup dirs \cup tables \cup mapped
  BY DEF Reach, dirs, tables
<1> HIDE DEF mapped
<1>7. QED
  BY <1>2, <1>3, <1>4, <1>5, <1>6

\* What the failed call had built is lost, and nothing else.
LEMMA LoadLost ==
    ASSUME MmInv, op.call = "exec", NEW m, Within(mem, Roots, m, op.mm.pgdir), mem' = m,
           lost' = lost \cup Reach(m, op.mm.pgdir)
    PROVE  op # Idle /\ OpIs /\ lost' \subseteq Page /\ Gone(mem, mem', Roots, op.mm.pgdir, lost')
<1> DEFINE d == op.mm.pgdir
<1>1. Types /\ Holders /\ Owned(mem, Roots) /\ Left(mem, Roots, lost)
  BY DEF MmInv
<1>2. op # Idle /\ OpIs
  BY <1>1, OpFacts
<1>3. d \in Roots \/ (d = Boot /\ Boot \notin Roots)
  <2>1. CASE op.stage # "setup"
    BY <1>1, <1>2, <2>1, RootsFacts
  <2>2. CASE op.stage = "setup"
    BY <1>1, <1>2, <2>2, RootsFacts DEF Holders, Boot
  <2>3. QED
    BY <2>1, <2>2
<1>4. Owned(m, Roots) /\ RestEmpty(mem, Roots, m, Roots) /\ \A e \in Roots \ {d} : Same(mem, m, e)
  BY DEF Within
<1>5. Left(m, Roots, lost)
  BY <1>1, <1>4, LeftKept
<1>6. Gone(m, m, Roots, d, lost \cup Reach(m, d))
  BY <1>3, <1>4, <1>5, DropGone
<1>7. Gone(mem, mem', Roots, d, lost')
  BY <1>4, <1>6 DEF Gone
<1>8. lost' \subseteq Page
  <2>1. m \in MemType /\ d \in Page \cup {Boot}
    BY <1>2, <1>4 DEF Owned, OpIs, MmType
  <2>2. QED
    BY <1>1, <2>1, ReachIsPages DEF Types
<1>9. QED
  BY <1>2, <1>7, <1>8

LEMMA LoadFailsInv ==
    ASSUME MmInv, op.call = "exec", NEW m, Within(mem, Roots, m, op.mm.pgdir), LoadFails(m)
    PROVE  MmInv' /\ SpacesKept
<1>1. /\ mem' = m /\ lost' = lost \cup Reach(m, op.mm.pgdir) /\ Die /\ mm' = mm
      /\ image' = image
  BY DEF LoadFails
<1>2. op # Idle /\ lost' \subseteq Page /\ Gone(mem, mem', Roots, op.mm.pgdir, lost')
  BY <1>1, LoadLost
<1>3. QED
  BY <1>1, <1>2, DieInv

\* The process stays, without an mm, on the kernel's table.
LEMMA LoadGivesUpInv ==
    ASSUME MmInv, op.call = "exec", NEW m, Within(mem, Roots, m, op.mm.pgdir), LoadGivesUp(m)
    PROVE  MmInv' /\ SpacesKept
<1>1. /\ mem' = m /\ lost' = lost \cup Reach(m, op.mm.pgdir) /\ op' = Idle
      /\ UNCHANGED <<mm, pgdir, alive, current, satp, panic, image>>
  BY DEF LoadGivesUp
<1>2. op # Idle /\ lost' \subseteq Page /\ Gone(mem, mem', Roots, op.mm.pgdir, lost')
  BY <1>1, LoadLost
<1>3. Types /\ Holders
  BY DEF MmInv
<1>4. Types'
  BY <1>1, <1>2, <1>3 DEF Types
<1>5. Holders'
  BY <1>1, <1>2, <1>3 DEF Holders
<1>6. Owned(mem', Roots') /\ Left(mem', Roots', lost') /\ Held' /\ SpacesKept
  BY <1>1, <1>2, GoneRest
<1>7. Built' /\ Loads' /\ Copies'
  BY <1>1 DEF Built, Loads, Segments, FilePart, BssPart, StackPart, Is, Copies
<1>8. QED
  BY <1>4, <1>5, <1>6, <1>7 DEF MmInv

\* The new address space has a root, no areas and no pages.
LEMMA RootInv ==
    ASSUME MmInv, op = Idle \/ op.mm.pgdir = Boot, mem.free # {},
           NEW q, q = Min(mem.free), mem' = [mem EXCEPT !.free = @ \ {q}, !.entry[q] = Empty],
           UNCHANGED <<mm, pgdir, alive, current, satp, panic, image, lost>>,
           op' # Idle, op'.mm = [NoMm EXCEPT !.pgdir = q], op'.stage \notin {"setup", "unmap", "range"}
    PROVE  /\ Rooted(mem, Roots, mem', q) /\ q \in Page /\ Roots' = Roots \cup {q}
           /\ Owned(mem', Roots') /\ Left(mem', Roots', lost') /\ Held' /\ Built'
           /\ \A p \in Proc : mm[p] # NULL => mm[p].pgdir # q
           /\ op'.mm \in MmType /\ op'.mm.pgdir = q /\ op'.mm.areas = <<>> /\ SpacesKept
<1>1. /\ Types /\ Holders /\ Owned(mem, Roots) /\ Held /\ Left(mem, Roots, lost)
  BY DEF MmInv
<1>2. Rooted(mem, Roots, mem', q)
  <2>1. /\ Owned(mem, Roots) /\ mem.free # {} /\ q = Min(mem.free)
        /\ mem' = [mem EXCEPT !.free = @ \ {q}, !.entry[q] = Empty]
    BY <1>1
  <2>2. QED
    BY ONLY <2>1, RootFacts
<1>3. q \in mem.free /\ q \in Page /\ q # Boot
  BY <1>1, <1>2, MmAssumption DEF Rooted, Owned, MemType, Boot, Page
<1>4. op'.mm \in MmType /\ op'.mm.pgdir = q /\ op'.mm.areas = <<>>
  <2>1. op'.mm = [pgdir |-> q, areas |-> <<>>]
    BY DEF NoMm
  <2>2. <<>> \in Seq((0 .. NVirtual) \X (0 .. NVirtual))
    OBVIOUS
  <2>3. [pgdir |-> q, areas |-> <<>>] \in MmType
    BY ONLY <1>3, <2>2 DEF MmType
  <2>4. QED
    BY ONLY <2>1, <2>3
<1>5. Roots' = Roots \cup {q}
  BY <1>3, <1>4 DEF Roots
<1>6. \A p \in Proc : mm[p] # NULL => mm[p].pgdir # q /\ mm[p].pgdir \in Roots
  BY <1>1, <1>2, RootsFacts DEF Rooted
<1>7. Owned(mem', Roots')
  BY <1>2, <1>5 DEF Rooted
<1>8. Left(mem', Roots', lost')
  <2>1. RestEmpty(mem, Roots, mem', Roots')
    BY <1>2, <1>5, SameIsEmpty DEF Rooted
  <2>2. QED
    BY <1>1, <2>1, LeftKept
<1>9. Held'
  <2>1. SUFFICES ASSUME NEW r \in Proc, mm[r] # NULL
                 PROVE  SpaceOK(mem', mm[r], DOMAIN mm[r].areas, DOMAIN mm[r].areas)
    BY DEF Held
  <2>2. SpaceOK(mem, mm[r], DOMAIN mm[r].areas, DOMAIN mm[r].areas)
    BY <1>1, <2>1 DEF Held
  <2>3. Same(mem, mem', mm[r].pgdir)
    BY <1>2, <1>6, <2>1 DEF Rooted, Same
  <2>4. QED
    BY <2>2, <2>3, SpaceKept DEF Same, Kept
<1>10. Built'
  <2>1. AreasOK(<<>>)
    BY DEF AreasOK
  <2>2. SpaceOK(mem', op'.mm, DOMAIN op'.mm.areas, DOMAIN op'.mm.areas)
    BY <1>2, <1>4, <2>1 DEF SpaceOK, PagesIn, TablesIn, Rooted
  <2>3. PagesLeft' = DOMAIN op'.mm.areas /\ TablesLeft' = DOMAIN op'.mm.areas
    BY DEF PagesLeft, TablesLeft
  <2>4. QED
    BY <1>4, <2>1, <2>2, <2>3 DEF Built
<1>11. SpacesKept
  BY <1>2, <1>6 DEF Rooted, SpacesKept
<1>12. QED
  BY <1>2, <1>3, <1>4, <1>5, <1>6, <1>7, <1>8, <1>9, <1>10, <1>11

\* setup_pgdir makes it for load_icode.
LEMMA SetupInv ==
    ASSUME MmInv, setup_pgdir
    PROVE  MmInv' /\ SpacesKept
<1> DEFINE q == Min(mem.free)
<1>1. Types /\ Holders /\ Owned(mem, Roots) /\ op.call = "exec" /\ op.stage = "setup"
  BY DEF MmInv, setup_pgdir, At
<1>2. op # Idle /\ OpIs
  BY <1>1, OpFacts
<1>3. CASE mem.free = {}
  <2>1. LoadFails(mem) /\ Within(mem, Roots, mem, op.mm.pgdir)
    BY <1>1, <1>3, NothingWithin DEF setup_pgdir
  <2>2. QED
    BY <1>1, <2>1, LoadFailsInv
<1>4. CASE mem.free # {}
  <2>1. Loading([mem EXCEPT !.free = @ \ {q}, !.entry[q] = Empty],
                [op EXCEPT !.stage = "segment", !.mm = [NoMm EXCEPT !.pgdir = q]])
    BY <1>4 DEF setup_pgdir
  <2>2. /\ mem' = [mem EXCEPT !.free = @ \ {q}, !.entry[q] = Empty]
        /\ op' = [op EXCEPT !.stage = "segment", !.mm = [NoMm EXCEPT !.pgdir = q]]
        /\ UNCHANGED <<mm, pgdir, alive, current, satp, panic, image, lost>>
    BY <2>1 DEF Loading
  <2> HIDE DEF q
  <2>3. op \in ExecOp /\ op.seg = 1
    BY <1>1, <1>2 DEF OpIs, ExecOp
  <2>4. /\ op'.call = "exec" /\ op'.stage = "segment" /\ op'.mm = [NoMm EXCEPT !.pgdir = q]
        /\ op'.seg = 1 /\ op'.prog = op.prog
    BY <1>1, <2>2, <2>3 DEF ExecOp
  <2>5. op' # Idle /\ op.mm.pgdir = Boot
    BY <1>1, <1>2, <2>4 DEF Idle, Holders
  <2>6. /\ q \in Page /\ Owned(mem', Roots') /\ Left(mem', Roots', lost') /\ Held' /\ Built' /\ SpacesKept
        /\ \A p \in Proc : mm[p] # NULL => mm[p].pgdir # q
        /\ op'.mm \in MmType /\ op'.mm.pgdir = q
    BY <1>4, <2>2, <2>4, <2>5, RootInv DEF q
  <2>7. op' \in ExecOp
    BY <2>2, <2>3, <2>4, <2>6 DEF ExecOp
  <2>8. Types'
    BY <1>1, <2>2, <2>7 DEF Types
  <2>9. Holders'
    <3>1. q # Boot
      BY <2>6, MmAssumption DEF Page, Boot
    <3>2. QED
      BY <1>1, <1>2, <2>2, <2>4, <2>5, <2>6, <3>1 DEF Holders
  <2>10. Loads' /\ Copies'
    <3>1. Len(op.prog) \in Nat
      BY <2>3, MmAssumption DEF ExecOp
    <3>2. QED
      BY <2>4, <3>1 DEF Loads, Segments, FilePart, BssPart, StackPart, Is, Seen, Copies
  <2>11. QED
    BY <2>6, <2>8, <2>9, <2>10 DEF MmInv
<1>5. QED
  BY <1>3, <1>4

\* A sequence with one more element at place k.
OneMore(s, t, x, k) ==
    /\ k \in 1 .. Len(s) + 1 /\ Len(t) = Len(s) + 1 /\ t[k] = x
    /\ \A i \in 1 .. Len(s) : (i < k => t[i] = s[i]) /\ (i >= k => t[i + 1] = s[i])

\* Where InsertAt puts the elements.
LEMMA InsertAtFacts ==
    ASSUME NEW S, NEW s \in Seq(S), NEW x \in S, NEW k \in 1 .. Len(s) + 1
    PROVE  InsertAt(s, k, x) \in Seq(S) /\ OneMore(s, InsertAt(s, k, x), x, k)
<1> DEFINE a == SubSeq(s, 1, k - 1)
           b == SubSeq(s, k, Len(s))
<1>1. Len(s) \in Nat /\ k \in Nat
  OBVIOUS
<1>2. /\ a \in Seq(S) /\ Len(a) = k - 1 /\ \A i \in 1 .. k - 1 : a[i] = s[i]
  BY <1>1
<1>3. /\ b \in Seq(S) /\ Len(b) = Len(s) - k + 1
      /\ \A i \in 1 .. Len(s) - k + 1 : b[i] = s[k + i - 1]
  BY <1>1
<1> HIDE DEF a, b
<1> DEFINE c == a \o <<x>>
<1>4. /\ c \in Seq(S) /\ Len(c) = k /\ c[k] = x /\ \A i \in 1 .. k - 1 : c[i] = s[i]
  BY <1>1, <1>2
<1> HIDE DEF c
<1> DEFINE t == c \o b
<1>5. /\ t \in Seq(S) /\ Len(t) = Len(s) + 1 /\ \A i \in 1 .. k : t[i] = c[i]
      /\ \A i \in k + 1 .. Len(s) + 1 : t[i] = b[i - k]
  BY <1>1, <1>3, <1>4
<1>6. InsertAt(s, k, x) = t
  BY DEF InsertAt, a, b, c
<1> HIDE DEF t
<1>7. \A i \in 1 .. Len(s) : i >= k => t[i + 1] = s[i]
  BY <1>1, <1>3, <1>5
<1>8. \A i \in 1 .. Len(s) : i < k => t[i] = s[i]
  BY <1>1, <1>4, <1>5
<1>9. QED
  BY <1>1, <1>4, <1>5, <1>6, <1>7, <1>8 DEF OneMore

\* The list of areas has the new one besides the old ones, and they are apart.
AreaInserted(areas, new, area) ==
    /\ AreasOK(new) /\ \E j \in DOMAIN new : new[j] = area
    /\ \A i \in DOMAIN areas : \E j \in DOMAIN new : new[j] = areas[i]
    /\ \A j \in DOMAIN new : new[j] = area \/ \E i \in DOMAIN areas : new[j] = areas[i]

\* insert_vma_struct keeps them apart if the new area overlaps none.
LEMMA InsertVmaFacts ==
    ASSUME NEW areas, AreasOK(areas), NEW area, IsArea(area), ~Overlaps(areas, area)
    PROVE  AreaInserted(areas, insert_vma_struct(areas, area), area)
<1> DEFINE S == (0 .. NVirtual) \X (0 .. NVirtual)
           above == {i \in DOMAIN areas : areas[i][1] > area[1]}
           k == IF above = {} THEN Len(areas) + 1 ELSE Min(above)
           new == insert_vma_struct(areas, area)
<1>1. /\ areas \in Seq(S) /\ area \in S /\ Len(areas) \in Nat
      /\ DOMAIN areas = 1 .. Len(areas) /\ \A i \in DOMAIN areas : IsArea(areas[i])
      /\ \A i, j \in DOMAIN areas : i # j => PagesOf(areas[i]) \cap PagesOf(areas[j]) = {}
      /\ \A i \in DOMAIN areas : PagesOf(areas[i]) \cap PagesOf(area) = {}
  BY DEF AreasOK, IsArea, Overlaps
<1>2. k \in 1 .. Len(areas) + 1
  <2>1. CASE above = {}
    BY <1>1, <2>1
  <2>2. CASE above # {}
    <3>1. above \subseteq Nat /\ above \subseteq 1 .. Len(areas)
      BY <1>1
    <3>2. Min(above) \in above
      BY <2>2, <3>1, MinIsMember
    <3>3. QED
      BY <1>1, <2>2, <3>1, <3>2
  <2>3. QED
    BY <2>1, <2>2
<1>3. new = InsertAt(areas, k, area)
  BY DEF insert_vma_struct
<1> HIDE DEF k, S
<1>4. new \in Seq(S) /\ OneMore(areas, new, area, k)
  BY <1>1, <1>2, <1>3, InsertAtFacts
<1> HIDE DEF new
<1>5. Len(new) = Len(areas) + 1 /\ DOMAIN new = 1 .. Len(areas) + 1 /\ new[k] = area
  BY <1>4 DEF OneMore
<1> DEFINE old(j) == IF j < k THEN j ELSE j - 1
<1>6. ASSUME NEW j \in DOMAIN new, j # k
      PROVE  old(j) \in DOMAIN areas /\ new[j] = areas[old(j)]
  <2>1. CASE j < k
    BY <1>1, <1>2, <1>4, <1>5, <2>1 DEF OneMore
  <2>2. CASE j > k
    <3>1. j - 1 \in 1 .. Len(areas) /\ j - 1 >= k /\ (j - 1) + 1 = j
      BY <1>1, <1>2, <1>5, <2>2
    <3>2. new[(j - 1) + 1] = areas[j - 1]
      BY <1>4, <3>1 DEF OneMore
    <3>3. QED
      BY <1>1, <1>2, <2>2, <3>1, <3>2
  <2>3. QED
    BY <1>2, <1>5, <1>6, <2>1, <2>2
<1>7. \A i, j \in DOMAIN new : i # k /\ j # k /\ i # j => old(i) # old(j)
  BY <1>1, <1>2, <1>5
<1> HIDE DEF old
<1>8. \A i \in DOMAIN new : IsArea(new[i])
  BY <1>1, <1>5, <1>6
<1>9. ASSUME NEW i \in DOMAIN new, NEW j \in DOMAIN new, i # j
      PROVE  PagesOf(new[i]) \cap PagesOf(new[j]) = {}
  <2>1. CASE i = k
    <3>1. new[i] = area /\ new[j] = areas[old(j)] /\ old(j) \in DOMAIN areas
      BY <1>5, <1>6, <1>9, <2>1
    <3>2. QED
      BY <1>1, <3>1
  <2>2. CASE j = k
    <3>1. new[j] = area /\ new[i] = areas[old(i)] /\ old(i) \in DOMAIN areas
      BY <1>5, <1>6, <1>9, <2>2
    <3>2. QED
      BY <1>1, <3>1
  <2>3. CASE i # k /\ j # k
    <3>1. new[i] = areas[old(i)] /\ new[j] = areas[old(j)] /\ old(i) # old(j)
          /\ old(i) \in DOMAIN areas /\ old(j) \in DOMAIN areas
      BY <1>6, <1>7, <1>9, <2>3
    <3>2. QED
      BY <1>1, <3>1
  <2>4. QED
    BY <2>1, <2>2, <2>3
<1>10. AreasOK(new)
  BY <1>4, <1>8, <1>9 DEF AreasOK, S
<1>11. \E j \in DOMAIN new : new[j] = area
  BY <1>2, <1>5
<1>12. ASSUME NEW i \in DOMAIN areas
       PROVE  \E j \in DOMAIN new : new[j] = areas[i]
  <2>1. CASE i < k
    BY <1>1, <1>4, <1>5, <2>1 DEF OneMore
  <2>2. CASE i >= k
    <3>1. new[i + 1] = areas[i] /\ i + 1 \in DOMAIN new
      BY <1>1, <1>4, <1>5, <2>2 DEF OneMore
    <3>2. QED
      BY <3>1
  <2>3. QED
    BY <1>1, <1>2, <2>1, <2>2
<1>13. \A j \in DOMAIN new : new[j] = area \/ \E i \in DOMAIN areas : new[j] = areas[i]
  BY <1>5, <1>6
<1>14. QED
  BY <1>10, <1>11, <1>12, <1>13 DEF AreaInserted, new

\* With one more area what was in an area still is.
LEMMA SpaceInserted ==
    ASSUME NEW m, NEW s, NEW new, NEW area, AreaInserted(s.areas, new, area),
           SpaceOK(m, s, DOMAIN s.areas, DOMAIN s.areas), NEW s2, s2.pgdir = s.pgdir, s2.areas = new
    PROVE  SpaceOK(m, s2, DOMAIN new, DOMAIN new)
<1>1. \A i \in DOMAIN s.areas : \E j \in DOMAIN new : new[j] = s.areas[i]
  BY DEF AreaInserted
<1>2. PagesIn(m, s.pgdir, s.areas, DOMAIN s.areas) /\ TablesIn(m, s.pgdir, s.areas, DOMAIN s.areas)
  BY DEF SpaceOK
<1>3. PagesIn(m, s.pgdir, new, DOMAIN new)
  <2>1. SUFFICES ASSUME NEW v \in VPage, get_page(m, s.pgdir, v) # 0
                 PROVE  \E j \in DOMAIN new : v \in PagesOf(new[j])
    BY DEF PagesIn
  <2>2. PICK i \in DOMAIN s.areas : v \in PagesOf(s.areas[i])
    BY <1>2, <2>1 DEF PagesIn
  <2>3. PICK j \in DOMAIN new : new[j] = s.areas[i]
    BY <1>1
  <2>4. QED
    BY <2>2, <2>3
<1>4. TablesIn(m, s.pgdir, new, DOMAIN new)
  <2>1. SUFFICES ASSUME NEW v \in VPage, TableOf(m, s.pgdir, v) # 0
                 PROVE  \E j \in DOMAIN new : \E w \in PagesOf(new[j]) :
                          PDX1(w) = PDX1(v) /\ PDX0(w) = PDX0(v)
    BY DEF TablesIn
  <2>2. PICK i \in DOMAIN s.areas : \E w \in PagesOf(s.areas[i]) :
                          PDX1(w) = PDX1(v) /\ PDX0(w) = PDX0(v)
    BY <1>2, <2>1 DEF TablesIn
  <2>3. PICK j \in DOMAIN new : new[j] = s.areas[i]
    BY <1>1
  <2>4. QED
    BY <2>2, <2>3
<1>5. QED
  BY <1>3, <1>4 DEF SpaceOK, AreaInserted

\* Only the flag is set.
LEMMA PanicInv ==
    ASSUME MmInv, Panic(mem)
    PROVE  MmInv' /\ SpacesKept
<1>1. /\ panic' = TRUE /\ mem' = mem /\ mm' = mm /\ pgdir' = pgdir /\ alive' = alive
      /\ current' = current /\ satp' = satp /\ op' = op /\ image' = image /\ lost' = lost
  BY DEF Panic
<1>2. Types'
  BY <1>1 DEF MmInv, Types
<1>3. Roots' = Roots /\ Holders' /\ Held' /\ Built'
  BY <1>1 DEF MmInv, Roots, Holders, Held, Built, PagesLeft, TablesLeft
<1>4. Loads' /\ Copies'
  <2>1. Copies'
    BY <1>1 DEF MmInv, Copies, Source, FirstCopied, Visited
  <2>2. Segments' /\ FilePart'
    BY <1>1 DEF MmInv, Loads, Segments, FilePart, Is, Seen, SegArea, Segment, FileEnd
  <2>3. BssPart' /\ StackPart'
    BY <1>1 DEF MmInv, Loads, BssPart, StackPart, Is, SegArea, Segment, FileEnd, MemEnd
  <2>4. QED
    BY <2>1, <2>2, <2>3 DEF Loads
<1>5. QED
  BY <1>1, <1>2, <1>3, <1>4 DEF MmInv, SpacesKept, Kept

\* The area of a segment covers its addresses.
LEMMA AreaOfFacts ==
    ASSUME NEW va \in Nat, NEW size \in Nat \ {0}, va + size <= USTACKTOP
    PROVE  /\ IsArea(AreaOf(va, size))
           /\ \A a \in va .. va + size - 1 :
                a \in 0 .. USTACKTOP - 1 /\ a \div PGSIZE \in PagesOf(AreaOf(va, size))
<1> DEFINE b == (va + size + PGSIZE - 1) \div PGSIZE
           z == (va + size - 1) \div PGSIZE
<1>1. PGSIZE \in Nat \ {0} /\ NVirtual \in Nat /\ USTACKTOP = PGSIZE * NVirtual /\ USTACKTOP \in Nat
  BY MmAssumption, NVirtualFacts
<1>2. z \in Nat /\ va \div PGSIZE \in Nat /\ va \div PGSIZE <= z
  BY <1>1, DivMono, DivFacts
<1>3. b = z + 1
  <2> DEFINE r == (va + size - 1) % PGSIZE
  <2>1. va + size - 1 = PGSIZE * z + r /\ r \in 0 .. PGSIZE - 1 /\ va + size - 1 \in Nat
    BY <1>1, DivFacts
  <2> HIDE DEF z, r
  <2>2. va + size + PGSIZE - 1 = PGSIZE * (z + 1) + r
    BY <1>1, <1>2, <2>1
  <2>3. (PGSIZE * (z + 1) + r) \div PGSIZE = z + 1
    BY <1>1, <1>2, <2>1, DivUnique
  <2>4. QED
    BY <2>2, <2>3
<1>4. z \in 0 .. NVirtual - 1
  <2>1. va + size - 1 \in Nat /\ va + size - 1 < PGSIZE * NVirtual
    BY <1>1
  <2>2. QED
    BY <1>1, <2>1, DivBelow
<1>5. ASSUME NEW a \in va .. va + size - 1
      PROVE  a \div PGSIZE \in Nat /\ va \div PGSIZE <= a \div PGSIZE /\ a \div PGSIZE <= z
  BY <1>1, DivMono, DivFacts
<1>6. AreaOf(va, size) = <<va \div PGSIZE, b>>
  BY DEF AreaOf
<1> DEFINE y == va \div PGSIZE
           f(a) == a \div PGSIZE
<1>7. y \in Nat /\ y <= z /\ AreaOf(va, size) = <<y, b>>
      /\ \A a \in va .. va + size - 1 : f(a) \in Nat /\ y <= f(a) /\ f(a) <= z
  BY <1>2, <1>5, <1>6
<1>8. \A a \in va .. va + size - 1 : a \in 0 .. USTACKTOP - 1
  BY <1>1
<1> HIDE DEF y, z, b, f
<1>9. IsArea(<<y, b>>)
  BY <1>1, <1>3, <1>4, <1>7 DEF IsArea
<1>10. \A a \in va .. va + size - 1 : f(a) \in PagesOf(<<y, b>>)
  BY <1>1, <1>3, <1>4, <1>7 DEF PagesOf
<1>11. QED
  BY <1>7, <1>8, <1>9, <1>10 DEF f

\* A segment lies in user memory.
LEMMA ProgramFacts ==
    ASSUME NEW prog \in Program, NEW i \in DOMAIN prog
    PROVE  /\ prog[i].va \in Nat /\ prog[i].memsz \in Nat /\ prog[i].filesz \in Nat
           /\ prog[i].va + prog[i].memsz <= USTACKTOP /\ USTACKTOP \in Nat
           /\ prog[i].filesz <= prog[i].memsz /\ prog[i].memsz > 0
           /\ prog[i].va .. prog[i].va + prog[i].memsz - 1 \subseteq 0 .. USTACKTOP - 1
<1>1. /\ prog \in Seq([va : Nat, filesz : Nat, memsz : Nat])
      /\ prog[i].va + prog[i].memsz <= USTACKTOP
      /\ prog[i].filesz <= prog[i].memsz /\ prog[i].memsz > 0
  BY MmAssumption
<1>2. i \in 1 .. Len(prog)
  BY <1>1, LenProperties
<1>3. prog[i] \in [va : Nat, filesz : Nat, memsz : Nat]
  BY <1>1, <1>2, ElementOfSeq
<1>4. prog[i].va \in Nat /\ prog[i].memsz \in Nat /\ prog[i].filesz \in Nat
  BY <1>3
<1>5. USTACKTOP \in Nat
  BY NVirtualFacts
<1>6. prog[i].va .. prog[i].va + prog[i].memsz - 1 \subseteq 0 .. USTACKTOP - 1
  <2> DEFINE va == prog[i].va
             size == prog[i].memsz
  <2>1. va \in Nat /\ size \in Nat /\ va + size <= USTACKTOP
    BY <1>1, <1>4
  <2> HIDE DEF va, size
  <2>2. va .. va + size - 1 \subseteq 0 .. USTACKTOP - 1
    BY <1>5, <2>1
  <2>3. QED
    BY <2>2 DEF va, size
<1>7. QED
  BY <1>1, <1>4, <1>5, <1>6

\* The segments of a program, as MmAssumption has them.
LEMMA SegFacts ==
    ASSUME Types, op.call = "exec"
    PROVE  /\ op \in ExecOp /\ op # Idle /\ Len(op.prog) \in Nat /\ op.seg \in Nat \ {0}
           /\ op.start \in Nat /\ DOMAIN op.prog = 1 .. Len(op.prog)
           /\ \A i \in 1 .. Len(op.prog) :
                LET s == op.prog[i]
                IN  /\ s.va \in Nat /\ s.filesz \in Nat /\ s.memsz \in Nat
                    /\ s.filesz <= s.memsz /\ s.memsz > 0 /\ s.va + s.memsz <= USTACKTOP
                    /\ IsArea(SegArea(i))
                    /\ \A a \in s.va .. s.va + s.memsz - 1 :
                         a \in 0 .. USTACKTOP - 1 /\ a \div PGSIZE \in PagesOf(SegArea(i))
<1>1. op # Idle /\ op \in ExecOp
  BY OpFacts DEF OpIs
<1>2. op.prog \in Program /\ op.seg \in Nat \ {0} /\ op.start \in Nat
  BY <1>1 DEF ExecOp
<1>3. op.prog \in Seq([va : Nat, filesz : Nat, memsz : Nat])
  BY <1>2, MmAssumption
<1>4. ASSUME NEW i \in 1 .. Len(op.prog)
      PROVE  LET s == op.prog[i]
             IN  /\ s.va \in Nat /\ s.filesz \in Nat /\ s.memsz \in Nat
                 /\ s.filesz <= s.memsz /\ s.memsz > 0 /\ s.va + s.memsz <= USTACKTOP
                 /\ IsArea(SegArea(i))
                 /\ \A a \in s.va .. s.va + s.memsz - 1 :
                      a \in 0 .. USTACKTOP - 1 /\ a \div PGSIZE \in PagesOf(SegArea(i))
  <2> DEFINE s == op.prog[i]
  <2>1. i \in DOMAIN op.prog
    BY <1>3, <1>4, LenProperties
  <2>2. s.filesz <= s.memsz /\ s.memsz > 0 /\ s.va + s.memsz <= USTACKTOP
    BY <1>2, <2>1, ProgramFacts
  <2>3. SegArea(i) = AreaOf(s.va, s.memsz)
    BY DEF SegArea
  <2>4. s.va \in Nat /\ s.filesz \in Nat /\ s.memsz \in Nat
    BY <1>2, <2>1, ProgramFacts
  <2> HIDE DEF s
  <2>5. IsArea(AreaOf(s.va, s.memsz)) /\ \A a \in s.va .. s.va + s.memsz - 1 :
                a \in 0 .. USTACKTOP - 1 /\ a \div PGSIZE \in PagesOf(AreaOf(s.va, s.memsz))
    BY <2>2, <2>4, AreaOfFacts
  <2>6. QED
    BY <2>2, <2>3, <2>4, <2>5 DEF s
<1>5. QED
  BY <1>1, <1>2, <1>3, <1>4

\* mm_map: one more area, without pages so far.
AreaMapped(area, stage, x) ==
    /\ Constant /\ Built' /\ mem' = mem /\ op' # Idle /\ op' \in ExecOp /\ op'.call = "exec"
    /\ op'.stage = stage /\ op'.start = x /\ op'.seg = op.seg /\ op'.prog = op.prog
    /\ op'.mm.pgdir = op.mm.pgdir /\ AreaInserted(op.mm.areas, op'.mm.areas, area)
    /\ \A v \in PagesOf(area) : get_page(mem, op.mm.pgdir, v) = 0

LEMMA MapFacts ==
    ASSUME MmInv, op.call = "exec", op.stage = "segment", NEW area, IsArea(area),
           ~Overlaps(op.mm.areas, area), NEW x \in Nat, NEW stage \in {"file", "stack"},
           Loading(mem, [[op EXCEPT !.stage = stage, !.start = x]
                           EXCEPT !.mm.areas = insert_vma_struct(@, area)])
    PROVE  AreaMapped(area, stage, x)
<1> DEFINE new == insert_vma_struct(op.mm.areas, area)
           next == [op EXCEPT !.stage = stage, !.start = x]
<1>1. Types /\ Holders /\ Owned(mem, Roots) /\ Built
  BY DEF MmInv
<1>2. op # Idle /\ op \in ExecOp /\ OpIs
  BY <1>1, OpFacts DEF OpIs
<1>3. SpaceOK(mem, op.mm, DOMAIN op.mm.areas, DOMAIN op.mm.areas) /\ AreasOK(op.mm.areas)
  BY <1>1, <1>2 DEF Built, PagesLeft, TablesLeft
<1>4. AreaInserted(op.mm.areas, new, area)
  BY <1>3, InsertVmaFacts
<1>5. /\ next.mm = op.mm /\ next \in ExecOp /\ next.stage = stage /\ next.start = x
      /\ next.seg = op.seg /\ next.prog = op.prog /\ next.call = "exec"
  BY <1>2 DEF ExecOp
<1>6. op' = [next EXCEPT !.mm.areas = new] /\ mem' = mem
      /\ UNCHANGED <<mm, pgdir, alive, current, satp, panic, image, lost>>
  BY <1>5 DEF Loading
<1> HIDE DEF next
<1>7. new \in Seq((0 .. NVirtual) \X (0 .. NVirtual))
  BY <1>4 DEF AreaInserted, AreasOK
<1> HIDE DEF new
<1> DEFINE s == [op.mm EXCEPT !.areas = new]
<1>8. s \in MmType /\ s.pgdir = op.mm.pgdir /\ s.areas = new
  BY <1>2, <1>7 DEF OpIs, MmType
<1>9. op' = [next EXCEPT !.mm = s]
  BY <1>5, <1>6
<1> HIDE DEF s
<1>10. /\ op' \in ExecOp /\ op'.call = "exec" /\ op'.stage = stage /\ op'.start = x
       /\ op'.seg = op.seg /\ op'.prog = op.prog /\ op'.mm = s
  BY <1>5, <1>8, <1>9 DEF ExecOp
<1>11. op' # Idle
  BY <1>10 DEF Idle
<1>12. Continues
  BY <1>1, <1>2, <1>6, <1>8, <1>10, <1>11 DEF Continues, Types
<1>13. Constant
  BY <1>1, <1>6, <1>12, ContinueFacts, NothingWithin
<1>14. Built'
  <2>1. SpaceOK(mem, s, DOMAIN new, DOMAIN new)
    BY <1>3, <1>4, <1>8, SpaceInserted
  <2>2. PagesLeft' = DOMAIN new /\ TablesLeft' = DOMAIN new
    BY <1>8, <1>10 DEF PagesLeft, TablesLeft
  <2>3. AreasOK(new)
    BY <1>4 DEF AreaInserted
  <2>4. QED
    BY <1>6, <1>8, <1>10, <2>1, <2>2, <2>3 DEF Built
<1>15. ASSUME NEW v \in PagesOf(area)
       PROVE  get_page(mem, op.mm.pgdir, v) = 0
  <2>1. v \in VPage
    BY AreaFacts
  <2>2. \A i \in DOMAIN op.mm.areas : v \notin PagesOf(op.mm.areas[i])
    BY DEF Overlaps
  <2>3. QED
    BY <1>3, <2>1, <2>2 DEF SpaceOK, PagesIn
<1>16. QED
  BY <1>4, <1>6, <1>8, <1>10, <1>11, <1>13, <1>14, <1>15 DEF AreaMapped

\* The call is in the same segment, at another stage or address.
SameLoad(stage, start) ==
    /\ op'.call = "exec" /\ op'.stage = stage /\ op'.prog = op.prog /\ op'.seg = op.seg
    /\ op'.mm.pgdir = op.mm.pgdir /\ op'.start = start

\* A segment has an area of its own, or the call fails.
LEMMA NextSegmentInv ==
    ASSUME MmInv, NextSegment
    PROVE  MmInv' /\ (op' = Idle \/ op' = op \/ SameLoad("file", Segment.va))
<1> DEFINE area == AreaOf(Segment.va, Segment.memsz)
           d == op.mm.pgdir
<1>1. /\ Types /\ Holders /\ Owned(mem, Roots) /\ Built /\ Loads /\ ~panic
      /\ op.call = "exec" /\ op.stage = "segment" /\ op.seg <= Len(op.prog)
  BY DEF MmInv, NextSegment, At
<1>2. /\ op \in ExecOp /\ op # Idle /\ op.seg \in 1 .. Len(op.prog) /\ Len(op.prog) \in Nat
      /\ area = SegArea(op.seg) /\ IsArea(area)
      /\ Segment.va \in Nat /\ Segment.filesz \in Nat
  BY <1>1, SegFacts DEF Segment, SegArea
<1>3. Within(mem, Roots, mem, d)
  BY <1>1, NothingWithin
<1>4. CASE LoadFails(mem)
  BY <1>1, <1>3, <1>4, LoadFailsInv DEF LoadFails, Die
<1>5. CASE Panic(mem)
  BY <1>5, PanicInv DEF Panic
<1>6. CASE /\ ~Overlaps(op.mm.areas, area)
           /\ Loading(mem, [[op EXCEPT !.stage = "file", !.start = Segment.va]
                             EXCEPT !.mm.areas = insert_vma_struct(@, area)])
  <2>1. AreaMapped(area, "file", Segment.va)
    BY <1>1, <1>2, <1>6, MapFacts
  <2>2. /\ Constant /\ Built' /\ mem' = mem /\ op' # Idle /\ op'.call = "exec"
        /\ op'.stage = "file" /\ op'.start = Segment.va /\ op'.seg = op.seg /\ op'.prog = op.prog
        /\ op'.mm.pgdir = d /\ AreaInserted(op.mm.areas, op'.mm.areas, area)
        /\ \A v \in PagesOf(area) : get_page(mem, d, v) = 0
    BY <2>1 DEF AreaMapped
  <2>3. /\ \A i \in 1 .. op.seg - 1 : \E j \in DOMAIN op.mm.areas : op.mm.areas[j] = SegArea(i)
        /\ \A i, j \in 1 .. op.seg - 1 : i # j => PagesOf(SegArea(i)) \cap PagesOf(SegArea(j)) = {}
    BY <1>1, <1>2 DEF Loads, Segments, Is, Seen
  <2>4. Seen' = op.seg /\ \A i : SegArea(i)' = SegArea(i)
    BY <2>2 DEF Seen, SegArea
  <2>5. \A i \in 1 .. op.seg : \E j \in DOMAIN op'.mm.areas : op'.mm.areas[j] = SegArea(i)
    <3>1. ASSUME NEW i \in 1 .. op.seg
          PROVE  \E j \in DOMAIN op'.mm.areas : op'.mm.areas[j] = SegArea(i)
      <4>1. CASE i = op.seg
        BY <1>2, <2>2, <4>1 DEF AreaInserted
      <4>2. CASE i # op.seg
        <5>1. i \in 1 .. op.seg - 1
          BY <1>2, <4>2
        <5>2. QED
          BY <2>2, <2>3, <5>1 DEF AreaInserted
      <4>3. QED
        BY <4>1, <4>2
    <3>2. QED
      BY <3>1
  <2>6. \A i \in 1 .. op.seg - 1 : PagesOf(SegArea(i)) \cap PagesOf(area) = {}
    BY <1>6, <2>3 DEF Overlaps
  <2>7. \A i, j \in 1 .. op.seg : i # j => PagesOf(SegArea(i)) \cap PagesOf(SegArea(j)) = {}
    <3>1. \A i \in 1 .. op.seg : i = op.seg \/ i \in 1 .. op.seg - 1
      BY <1>2
    <3>2. QED
      BY <1>2, <2>3, <2>6, <3>1
  <2>8. Segments'
    BY <1>2, <2>2, <2>4, <2>5, <2>7 DEF Segments
  <2>9. FilePart'
    <3>1. Segment' = Segment /\ FileEnd' = FileEnd /\ FileEnd = Segment.va + Segment.filesz
      BY <2>2 DEF Segment, FileEnd
    <3>2. \A v \in PagesOf(SegArea(op.seg)) : get_page(mem', op'.mm.pgdir, v) = 0
      BY <1>2, <2>2
    <3>3. Segment.va \in Segment.va .. FileEnd
      BY <1>2, <3>1
    <3>4. QED
      BY <2>2, <2>4, <3>1, <3>2, <3>3 DEF FilePart
  <2>10. BssPart' /\ StackPart' /\ Copies'
    BY <2>2 DEF BssPart, StackPart, Is, Copies
  <2>11. QED
    BY <2>2, <2>8, <2>9, <2>10 DEF MmInv, Constant, Loads, SameLoad
<1>7. QED
  BY <1>4, <1>5, <1>6 DEF NextSegment, mm_map

\* The area of the stack.
LEMMA StackFacts ==
    /\ IsArea(StackArea) /\ PagesOf(StackArea) = NVirtual - USTACKPAGE .. NVirtual - 1
    /\ NVirtual \in Nat /\ USTACKPAGE \in 1 .. NVirtual /\ StackMapped \in 1 .. USTACKPAGE
<1>1. NVirtual \in Nat /\ USTACKPAGE \in 1 .. NVirtual /\ StackMapped \in 1 .. USTACKPAGE
  BY MmAssumption, NVirtualFacts
<1>2. QED
  BY <1>1 DEF StackArea, IsArea, PagesOf

\* The stack comes after all segments, and above them.
LEMMA MapStackInv ==
    ASSUME MmInv, MapStack
    PROVE  MmInv' /\ (op' = Idle \/ op' = op \/ SameLoad("stack", USTACKTOP))
<1> DEFINE d == op.mm.pgdir
           n == Len(op.prog)
<1>1. /\ Types /\ Holders /\ Owned(mem, Roots) /\ Built /\ Loads /\ ~panic
      /\ op.call = "exec" /\ op.stage = "segment" /\ op.seg > n
  BY DEF MmInv, MapStack, At
<1>2. /\ op \in ExecOp /\ op # Idle /\ op.seg \in Nat /\ n \in Nat
  BY <1>1, SegFacts
<1>3. Within(mem, Roots, mem, d)
  BY <1>1, NothingWithin
<1>4. CASE LoadFails(mem)
  BY <1>1, <1>3, <1>4, LoadFailsInv DEF LoadFails, Die
<1>5. CASE Panic(mem)
  BY <1>5, PanicInv DEF Panic
<1>6. CASE /\ ~Overlaps(op.mm.areas, StackArea)
           /\ Loading(mem, [[op EXCEPT !.stage = "stack", !.start = USTACKTOP]
                             EXCEPT !.mm.areas = insert_vma_struct(@, StackArea)])
  <2>1. AreaMapped(StackArea, "stack", USTACKTOP)
    BY <1>1, <1>2, <1>6, MapFacts, StackFacts, NVirtualFacts
  <2>2. /\ Constant /\ Built' /\ mem' = mem /\ op' # Idle /\ op'.call = "exec"
        /\ op'.stage = "stack" /\ op'.start = USTACKTOP /\ op'.seg = op.seg /\ op'.prog = op.prog
        /\ op'.mm.pgdir = d /\ AreaInserted(op.mm.areas, op'.mm.areas, StackArea)
        /\ \A v \in PagesOf(StackArea) : get_page(mem, d, v) = 0
    BY <2>1 DEF AreaMapped
  <2>3. /\ op.seg - 1 <= n
        /\ \A i \in 1 .. op.seg - 1 : \E j \in DOMAIN op.mm.areas : op.mm.areas[j] = SegArea(i)
        /\ \A i, j \in 1 .. op.seg - 1 : i # j => PagesOf(SegArea(i)) \cap PagesOf(SegArea(j)) = {}
    BY <1>1, <1>2 DEF Loads, Segments, Is, Seen
  <2>4. Seen' = op.seg - 1 /\ \A i : SegArea(i)' = SegArea(i)
    BY <2>2 DEF Seen, SegArea
  <2>5. \A i \in 1 .. op.seg - 1 : \E j \in DOMAIN op'.mm.areas : op'.mm.areas[j] = SegArea(i)
    BY <2>2, <2>3 DEF AreaInserted
  <2>6. Segments'
    BY <1>1, <2>2, <2>3, <2>4, <2>5 DEF Segments
  <2>7. \A i \in 1 .. n : PagesOf(SegArea(i)) \cap PagesOf(StackArea) = {}
    <3>1. \A i \in 1 .. n : i \in 1 .. op.seg - 1
      BY <1>1, <1>2
    <3>2. QED
      BY <1>6, <2>3, <3>1 DEF Overlaps
  <2>8. StackPart'
    <3>1. \E j \in DOMAIN op'.mm.areas : op'.mm.areas[j] = StackArea
      BY <2>2 DEF AreaInserted
    <3>2. 0 \in 0 .. StackMapped /\ USTACKTOP = USTACKTOP - 0 * PGSIZE
      BY StackFacts, NVirtualFacts, MmAssumption
    <3>3. \A v \in PagesOf(StackArea) : get_page(mem', op'.mm.pgdir, v) = 0
      BY <2>2
    <3>4. QED
      BY <2>2, <2>4, <2>7, <3>1, <3>2, <3>3 DEF StackPart
  <2>9. FilePart' /\ BssPart' /\ Copies'
    BY <2>2 DEF FilePart, BssPart, Is, Copies
  <2>10. QED
    BY <2>2, <2>6, <2>8, <2>9 DEF MmInv, Constant, Loads, SameLoad
<1>7. QED
  BY <1>4, <1>5, <1>6 DEF MapStack, mm_map, StackArea

\* A step of load_icode that adds no area.
LEMMA LoadStep ==
    ASSUME MmInv, op.call = "exec", op.stage \in {"segment", "file", "bss", "stack"},
           op' \in ExecOp, op'.stage \in {"segment", "file", "bss", "stack"}, op'.mm = op.mm,
           panic' \in BOOLEAN, UNCHANGED <<mm, pgdir, alive, current, satp, image, lost>>,
           Within(mem, Roots, mem', op.mm.pgdir),
           SpaceOK(mem', op.mm, DOMAIN op.mm.areas, DOMAIN op.mm.areas)
    PROVE  Constant /\ Built' /\ op' # Idle
<1>1. Types /\ op # Idle
  BY SegFacts DEF MmInv
<1>2. op'.call = "exec" /\ op' # Idle
  BY DEF ExecOp, Idle
<1>3. Continues
  BY <1>1, <1>2 DEF Continues
<1>4. Constant
  BY <1>3, ContinueFacts
<1>5. Built'
  <2>1. PagesLeft' = DOMAIN op.mm.areas /\ TablesLeft' = DOMAIN op.mm.areas
    BY DEF PagesLeft, TablesLeft
  <2>2. AreasOK(op.mm.areas)
    BY DEF SpaceOK
  <2>3. QED
    BY <2>1, <2>2 DEF Built
<1>6. QED
  BY <1>2, <1>4, <1>5

\* Where the address space of a call that builds one stands.
LEMMA BuiltFacts ==
    ASSUME MmInv, op # Idle, op.stage \notin {"setup", "unmap", "range"}
    PROVE  /\ SpaceOK(mem, op.mm, DOMAIN op.mm.areas, DOMAIN op.mm.areas) /\ AreasOK(op.mm.areas)
           /\ op.mm.pgdir \in Roots /\ Owned(mem, Roots)
BY RootsFacts DEF MmInv, Built, PagesLeft, TablesLeft

\* It gets a page, in one of its areas.
LEMMA AllocFacts ==
    ASSUME MmInv, op # Idle, op.stage \notin {"setup", "unmap", "range"},
           NEW j \in DOMAIN op.mm.areas, NEW v \in PagesOf(op.mm.areas[j]),
           get_page(mem, op.mm.pgdir, v) = 0,
           NEW m, m = pgdir_alloc_page(mem, op.mm.pgdir, v)
    PROVE  /\ v \in VPage /\ PageAdded(mem, Roots, m, op.mm.pgdir, v)
           /\ Within(mem, Roots, m, op.mm.pgdir) /\ Owned(m, Roots)
           /\ SpaceOK(m, op.mm, DOMAIN op.mm.areas, DOMAIN op.mm.areas)
<1> DEFINE d == op.mm.pgdir
           A == op.mm.areas
<1>1. SpaceOK(mem, op.mm, DOMAIN A, DOMAIN A) /\ AreasOK(A) /\ d \in Roots /\ Owned(mem, Roots)
  BY BuiltFacts
<1>2. v \in VPage
  <2>1. IsArea(A[j])
    BY <1>1 DEF AreasOK
  <2>2. QED
    BY <2>1, AreaFacts
<1>3. PageAdded(mem, Roots, m, d, v)
  BY <1>1, <1>2, PgdirAllocFacts
<1>4. Within(mem, Roots, m, d) /\ Owned(m, Roots)
  <2>1. Within(mem, Roots, m, d)
    BY <1>3, StepsWithin
  <2>2. QED
    BY <2>1 DEF Within
<1>5. \A w \in VPage :
        /\ w # v => get_page(m, d, w) = get_page(mem, d, w)
        /\ TableOf(m, d, w) = TableOf(mem, d, w) \/ (PDX1(w) = PDX1(v) /\ PDX0(w) = PDX0(v))
  BY <1>1, <1>3 DEF PageAdded
<1>6. PagesIn(m, d, A, DOMAIN A)
  BY <1>1, <1>5 DEF SpaceOK, PagesIn
<1>7. TablesIn(m, d, A, DOMAIN A)
  BY <1>1, <1>5 DEF SpaceOK, TablesIn
<1>8. QED
  BY <1>1, <1>2, <1>3, <1>4, <1>6, <1>7 DEF SpaceOK

\* One of its pages is written.
Rewritten(m, q, c) == [m EXCEPT !.cell[q] = c]

PageWritten(m, R, m2, d, q, c) ==
    /\ Within(m, R, m2, d) /\ m2.entry = m.entry /\ m2.cell = [m.cell EXCEPT ![q] = c]
    /\ q \in Page /\ m2.free = m.free

LEMMA WriteFacts ==
    ASSUME NEW m, NEW R, Owned(m, R), NEW d \in R, NEW v \in VPage,
           NEW q, q = get_page(m, d, v), q # 0, NEW c \in [Offset -> Value],
           NEW m2, m2 = Rewritten(m, q, c)
    PROVE  PageWritten(m, R, m2, d, q, c)
<1>1. m \in MemType /\ Apart(m, R) /\ Path(m, R, d, v)
  BY LevelsApart, PathFacts DEF Owned
<1>2. q \in Mapped(m.entry, R) /\ q \in Page
  BY <1>1 DEF Path, Apart
<1>3. m = [free |-> m.free, ref |-> m.ref, entry |-> m.entry, cell |-> m.cell]
      /\ m.cell \in [Page -> [Offset -> Value]]
  BY <1>1, MemFacts
<1> DEFINE C == [m.cell EXCEPT ![q] = c]
<1>4. C \in [Page -> [Offset -> Value]] /\ \A p \in Page : p # q => C[p] = m.cell[p]
  BY <1>2, <1>3
<1>5. m2 = [m EXCEPT !.cell = C]
  BY DEF Rewritten
<1>6. m2.entry = m.entry /\ m2.cell = C /\ m2.free = m.free
  BY <1>3, <1>5
<1> HIDE DEF C
<1>7. Written(m, R, m2)
  BY <1>2, <1>4, <1>5, CellsWritten
<1>8. \A p \in Page : m2.cell[p] # m.cell[p] => p = q
  BY <1>4, <1>6
<1>9. Within(m, R, m2, d)
  BY <1>7, <1>8, WrittenWithin
<1>10. QED
  BY <1>2, <1>6, <1>9 DEF C, PageWritten

\* An address is a page and an offset.
LEMMA AddressFacts ==
    ASSUME NEW a \in 0 .. USTACKTOP - 1
    PROVE  /\ a \div PGSIZE \in VPage /\ a % PGSIZE \in Offset
           /\ a = PGSIZE * (a \div PGSIZE) + (a % PGSIZE)
<1>1. a \in Nat /\ PGSIZE \in Nat \ {0} /\ NVirtual \in Nat /\ a < PGSIZE * NVirtual
  BY MmAssumption, NVirtualFacts
<1>2. a \div PGSIZE \in 0 .. NVirtual - 1 /\ a % PGSIZE \in 0 .. PGSIZE - 1
  BY <1>1, DivFacts, DivBelow
<1>3. a = PGSIZE * (a \div PGSIZE) + (a % PGSIZE)
  BY <1>1, DivFacts
<1>4. QED
  BY <1>2, <1>3 DEF VPage, Offset

\* The pages that an address space has stay, with their contents.
Grows(m, m2, d) ==
    \A v \in VPage : get_page(m, d, v) # 0 =>
      /\ get_page(m2, d, v) = get_page(m, d, v)
      /\ m2.cell[get_page(m, d, v)] = m.cell[get_page(m, d, v)]

\* So does what has been loaded.
LEMMA FilledGrows ==
    ASSUME NEW m, NEW m2, NEW d, NEW prog \in Program, NEW i \in DOMAIN prog, NEW stop,
           Grows(m, m2, d), Filled(m, d, prog, i, stop)
    PROVE  Filled(m2, d, prog, i, stop)
<1>1. SUFFICES ASSUME NEW a \in prog[i].va .. prog[i].va + prog[i].memsz - 1, a < stop
               PROVE  Shows(m2, d, a, Byte(prog, i, a))
  BY DEF Filled
<1>2. a \in 0 .. USTACKTOP - 1
  BY ProgramFacts
<1>3. a \div PGSIZE \in VPage
  BY <1>2, AddressFacts
<1>4. Shows(m, d, a, Byte(prog, i, a))
  BY <1>1 DEF Filled
<1>5. QED
  BY <1>3, <1>4 DEF Shows, Grows

\* A page has been allocated for v and filled.
PageFilled(m, m2, d, v, c) ==
    Grows(m, m2, d) /\ get_page(m2, d, v) # 0 /\ m2.cell[get_page(m2, d, v)] = c

LEMMA FillFacts ==
    ASSUME NEW m, NEW R, Owned(m, R), NEW d \in R, NEW v \in VPage, get_page(m, d, v) = 0,
           NEW m1, PageAdded(m, R, m1, d, v), NEW q, q = get_page(m1, d, v), q # 0,
           NEW c, NEW m2, PageWritten(m1, R, m2, d, q, c)
    PROVE  PageFilled(m, m2, d, v, c)
<1>1. /\ m2.entry = m1.entry /\ m2.cell = [m1.cell EXCEPT ![q] = c] /\ q \in Page
      /\ Owned(m1, R) /\ m1.cell \in [Page -> [Offset -> Value]]
  BY MemFacts DEF PageWritten, PageAdded, Owned
<1>2. \A w \in VPage : get_page(m2, d, w) = get_page(m1, d, w)
  BY <1>1, SameTables
<1>3. m2.cell[q] = c /\ \A p \in Page : p # q => m2.cell[p] = m1.cell[p]
  BY <1>1
<1>4. ASSUME NEW w \in VPage, get_page(m, d, w) # 0
      PROVE  /\ get_page(m2, d, w) = get_page(m, d, w)
             /\ m2.cell[get_page(m, d, w)] = m.cell[get_page(m, d, w)]
  <2>1. /\ w # v /\ get_page(m1, d, w) = get_page(m, d, w)
        /\ m1.cell[get_page(m, d, w)] = m.cell[get_page(m, d, w)]
    BY <1>4 DEF PageAdded
  <2>2. get_page(m1, d, w) # q
    BY <1>1, <1>4, <2>1, PathUnique
  <2>3. get_page(m1, d, w) \in Page
    <3>1. Apart(m1, R) /\ Path(m1, R, d, w)
      BY <1>1, LevelsApart, PathFacts DEF Owned
    <3>2. QED
      BY <1>4, <2>1, <3>1 DEF Apart, Path
  <2>4. QED
    BY <1>2, <1>3, <2>1, <2>2, <2>3
<1>5. QED
  BY <1>2, <1>3, <1>4 DEF PageFilled, Grows

\* A page with bytes of the file, or with zeros, has been added.
PageLoaded ==
    LET v   == op.start \div PGSIZE
        off == op.start % PGSIZE
    IN  \E size \in Nat : \E c :
          /\ SameLoad("file", op.start + size) /\ size <= FileEnd - op.start /\ size <= PGSIZE - off
          /\ PageFilled(mem, mem', op.mm.pgdir, v, c)
          /\ \A i \in Offset : i \in off .. off + size - 1 => c[i] = v * PGSIZE + i

PageCleared ==
    /\ SameLoad("bss", op.start + PGSIZE)
    /\ PageFilled(mem, mem', op.mm.pgdir, op.start \div PGSIZE, [i \in Offset |-> Zeroed])

\* Segments says nothing of the memory.
LEMMA SegmentsKept ==
    ASSUME Segments, op # Idle, op.call = "exec", op.stage \in {"segment", "file", "bss", "stack"},
           op'.stage = op.stage, op'.seg = op.seg, op'.prog = op.prog, op'.mm = op.mm
    PROVE  Segments'
<1>1. /\ Seen <= Len(op.prog) /\ (op.stage = "stack" => op.seg > Len(op.prog))
      /\ \A i \in 1 .. Seen : \E j \in DOMAIN op.mm.areas : op.mm.areas[j] = SegArea(i)
      /\ \A i, j \in 1 .. Seen : i # j => PagesOf(SegArea(i)) \cap PagesOf(SegArea(j)) = {}
  BY DEF Segments, Is
<1>2. Seen' = Seen /\ \A i : SegArea(i)' = SegArea(i)
  BY DEF Seen, SegArea
<1>3. QED
  BY <1>1, <1>2 DEF Segments

\* The segment in progress is one of the program, with an area of its own.
LEMMA InSegment ==
    ASSUME MmInv, op.call = "exec", op.stage \in {"file", "bss"}
    PROVE  /\ op.seg \in 1 .. Len(op.prog) /\ op # Idle /\ op \in ExecOp /\ op.start \in Nat
           /\ \E j \in DOMAIN op.mm.areas : op.mm.areas[j] = SegArea(op.seg)
           /\ Segment.va \in Nat /\ Segment.filesz \in Nat /\ Segment.memsz \in Nat
           /\ FileEnd \in Nat /\ MemEnd \in Nat /\ FileEnd = Segment.va + Segment.filesz
           /\ MemEnd = Segment.va + Segment.memsz /\ FileEnd <= MemEnd /\ MemEnd <= USTACKTOP
           /\ IsArea(SegArea(op.seg))
           /\ \A a \in Segment.va .. MemEnd - 1 : a \div PGSIZE \in PagesOf(SegArea(op.seg))
<1>1. Types /\ Segments
  BY DEF MmInv, Loads
<1>2. op # Idle /\ op \in ExecOp /\ op.seg \in Nat \ {0} /\ Len(op.prog) \in Nat /\ op.start \in Nat
  BY <1>1, SegFacts
<1>3. /\ op.seg <= Len(op.prog)
      /\ \A i \in 1 .. op.seg : \E j \in DOMAIN op.mm.areas : op.mm.areas[j] = SegArea(i)
  BY <1>1, <1>2 DEF Segments, Is, Seen
<1>4. op.seg \in 1 .. Len(op.prog) /\ op.seg \in 1 .. op.seg
  BY <1>2, <1>3
<1>5. /\ Segment.va \in Nat /\ Segment.filesz \in Nat /\ Segment.memsz \in Nat
      /\ Segment.filesz <= Segment.memsz /\ Segment.va + Segment.memsz <= USTACKTOP
      /\ IsArea(SegArea(op.seg))
      /\ \A a \in Segment.va .. Segment.va + Segment.memsz - 1 :
           a \div PGSIZE \in PagesOf(SegArea(op.seg))
  BY <1>1, <1>4, SegFacts DEF Segment
<1>6. FileEnd = Segment.va + Segment.filesz /\ MemEnd = Segment.va + Segment.memsz
  BY DEF FileEnd, MemEnd
<1>7. /\ FileEnd \in Nat /\ MemEnd \in Nat /\ FileEnd <= MemEnd /\ MemEnd <= USTACKTOP
  BY <1>5, <1>6
<1>8. \E j \in DOMAIN op.mm.areas : op.mm.areas[j] = SegArea(op.seg)
  BY <1>3, <1>4
<1>9. \A a \in Segment.va .. MemEnd - 1 : a \div PGSIZE \in PagesOf(SegArea(op.seg))
  BY <1>5, <1>6
<1>10. QED
  BY <1>2, <1>4, <1>5, <1>6, <1>7, <1>8, <1>9

\* The file's part of a segment gets its pages, each at an address that has none.
LEMMA LoadPageInv ==
    ASSUME MmInv, LoadPage
    PROVE  MmInv' /\ SpacesKept /\ (op' = Idle \/ PageLoaded)
<1> DEFINE d    == op.mm.pgdir
           v    == op.start \div PGSIZE
           off  == op.start % PGSIZE
           size == Min({FileEnd - op.start, PGSIZE - off})
           m    == pgdir_alloc_page(mem, d, v)
           q    == get_page(m, d, v)
           c    == [i \in Offset |-> IF i \in off .. off + size - 1 THEN v * PGSIZE + i
                                     ELSE m.cell[q][i]]
           area == SegArea(op.seg)
<1>1. /\ Types /\ Holders /\ Owned(mem, Roots) /\ Loads /\ ~panic
      /\ op.call = "exec" /\ op.stage = "file" /\ op.start < FileEnd
  BY DEF MmInv, LoadPage, At
<1>2. /\ op.seg \in 1 .. Len(op.prog) /\ op # Idle /\ op \in ExecOp /\ op.start \in Nat
      /\ \E j \in DOMAIN op.mm.areas : op.mm.areas[j] = area
      /\ Segment.va \in Nat /\ FileEnd \in Nat /\ MemEnd \in Nat /\ FileEnd <= MemEnd
      /\ MemEnd <= USTACKTOP /\ IsArea(area)
      /\ \A a \in Segment.va .. MemEnd - 1 : a \div PGSIZE \in PagesOf(area)
  BY <1>1, InSegment
<1>3. /\ op.start \in Segment.va .. FileEnd
      /\ op.start = Segment.va \/ op.start = FileEnd \/ op.start % PGSIZE = 0
      /\ \A w \in PagesOf(area) :
           get_page(mem, d, w) # 0 => op.start # Segment.va /\ w * PGSIZE < op.start
  BY <1>1, <1>2 DEF Loads, FilePart, Is
<1>4. PGSIZE \in Nat \ {0} /\ NVirtual \in Nat /\ USTACKTOP = NVirtual * PGSIZE
  BY MmAssumption, NVirtualFacts
<1>5. v \in Nat /\ off \in 0 .. PGSIZE - 1 /\ op.start = PGSIZE * v + off
  BY <1>2, <1>4, DivFacts
<1>6. v \in PagesOf(area)
  BY <1>1, <1>2, <1>3
<1>7. get_page(mem, d, v) = 0
  <2>1. SUFFICES ASSUME get_page(mem, d, v) # 0 PROVE FALSE
    OBVIOUS
  <2>2. op.start # Segment.va /\ v * PGSIZE < op.start
    BY <1>3, <1>6, <2>1
  <2>3. off = 0
    BY <1>1, <1>3, <2>2
  <2> HIDE DEF v, off
  <2>4. QED
    BY <1>2, <1>4, <1>5, <2>2, <2>3
<1>8. PICK j \in DOMAIN op.mm.areas : op.mm.areas[j] = area
  BY <1>2
<1> HIDE DEF v, off, area, m
<1>9. /\ v \in VPage /\ PageAdded(mem, Roots, m, d, v) /\ Within(mem, Roots, m, d)
      /\ Owned(m, Roots) /\ SpaceOK(m, op.mm, DOMAIN op.mm.areas, DOMAIN op.mm.areas)
      /\ d \in Roots
  BY <1>1, <1>2, <1>6, <1>7, <1>8, AllocFacts, BuiltFacts DEF m
<1>10. CASE LoadFails(m)
  BY <1>1, <1>9, <1>10, LoadFailsInv DEF LoadFails, Die
<1>10a. CASE LoadGivesUp(m)
  BY <1>1, <1>9, <1>10a, LoadGivesUpInv DEF LoadGivesUp
<1>11. CASE q # 0 /\ Loading([m EXCEPT !.cell[q] = c], [op EXCEPT !.start = @ + size])
  <2>1. /\ mem' = [m EXCEPT !.cell[q] = c] /\ op' = [op EXCEPT !.start = @ + size]
        /\ UNCHANGED <<mm, pgdir, alive, current, satp, panic, image, lost>>
    BY <1>11 DEF Loading
  <2>2. /\ size \in Nat \ {0} /\ size <= FileEnd - op.start /\ size <= PGSIZE - off
        /\ size = FileEnd - op.start \/ size = PGSIZE - off
    <3> DEFINE S == {FileEnd - op.start, PGSIZE - off}
    <3>1. S \subseteq Nat \ {0} /\ S # {}
      BY <1>1, <1>2, <1>4, <1>5
    <3>2. Min(S) \in S /\ \A x \in S : Min(S) <= x
      <4> HIDE DEF S
      <4>1. S \subseteq Nat
        BY <3>1
      <4>2. QED
        BY <3>1, <4>1, MinIsMember
    <3>3. QED
      BY <3>1, <3>2
  <2> HIDE DEF size
  <2>3. q \in Page /\ m.cell[q] \in [Offset -> Value]
    <3>1. m \in MemType /\ Apart(m, Roots) /\ Path(m, Roots, d, v)
      BY <1>9, LevelsApart, PathFacts DEF Owned
    <3>2. q \in Page
      BY <1>11, <3>1 DEF Path, Apart
    <3>3. QED
      BY <3>1, <3>2, MemFacts
  <2>4. c \in [Offset -> Value]
    <3>1. ASSUME NEW i \in Offset
          PROVE  v * PGSIZE + i \in Value
      <4>1. v \in 0 .. NVirtual - 1 /\ i \in 0 .. PGSIZE - 1
        BY <1>9 DEF VPage, Offset
      <4>2. v * PGSIZE <= (NVirtual - 1) * PGSIZE
        BY <1>4, <4>1
      <4>3. (NVirtual - 1) * PGSIZE = NVirtual * PGSIZE - PGSIZE
        BY <1>4
      <4>4. v * PGSIZE \in Nat /\ NVirtual * PGSIZE \in Nat
        BY <1>4, <4>1
      <4>5. v * PGSIZE + i \in 0 .. USTACKTOP - 1
        BY <1>4, <4>1, <4>2, <4>3, <4>4
      <4>6. QED
        BY <4>5 DEF Value
    <3>2. QED
      BY <2>3, <3>1
  <2> DEFINE first == off
             last == off + size - 1
  <2>5. \A i \in Offset : i \in first .. last => c[i] = v * PGSIZE + i
    BY DEF c
  <2> HIDE DEF c, q
  <2>6. Within(m, Roots, mem', d) /\ mem'.entry = m.entry /\ PageFilled(mem, mem', d, v, c)
    <3>1. q = get_page(m, d, v) /\ q # 0
      BY <1>11 DEF q
    <3>2. mem' = Rewritten(m, q, c)
      BY <2>1 DEF Rewritten
    <3>3. PageWritten(m, Roots, mem', d, q, c)
      BY ONLY <1>9, <2>4, <3>1, <3>2, WriteFacts
    <3>4. PageFilled(mem, mem', d, v, c)
      BY ONLY <1>1, <1>7, <1>9, <3>1, <3>3, FillFacts
    <3>5. QED
      BY <3>3, <3>4 DEF PageWritten
  <2>7. Within(mem, Roots, mem', d)
    BY <1>9, <2>6, WithinTwice
  <2>8. SpaceOK(mem', op.mm, DOMAIN op.mm.areas, DOMAIN op.mm.areas)
    BY <1>9, <2>6, SameTables, SpaceKept
  <2>9. /\ op' \in ExecOp /\ op'.stage = "file" /\ op'.mm = op.mm /\ op'.seg = op.seg
        /\ op'.prog = op.prog /\ op'.start = op.start + size /\ op'.call = "exec"
    BY <1>1, <1>2, <2>1, <2>2 DEF ExecOp
  <2>10. Constant /\ Built' /\ op' # Idle
    BY <1>1, <2>1, <2>7, <2>8, <2>9, LoadStep DEF Types
  <2>11. Segments'
    BY <1>1, <1>2, <2>9, SegmentsKept DEF Loads
  <2>12. FilePart'
    <3>1. Segment' = Segment /\ FileEnd' = FileEnd /\ SegArea(op.seg)' = area
      BY <2>9 DEF Segment, FileEnd, SegArea, area
    <3>2. op.start + size \in Segment.va .. FileEnd /\ op.start + size # Segment.va
      BY <1>2, <1>3, <2>2
    <3>3. op.start + size = FileEnd \/ (op.start + size) % PGSIZE = 0
      <4>1. CASE size = FileEnd - op.start
        BY <1>2, <4>1
      <4>2. CASE size = PGSIZE - off
        <5>1. op.start + size = PGSIZE * (v + 1) + 0
          BY <1>2, <1>4, <1>5, <4>2
        <5>2. (PGSIZE * (v + 1) + 0) % PGSIZE = 0
          BY <1>4, <1>5, DivUnique
        <5>3. QED
          BY <5>1, <5>2
      <4>3. QED
        BY <2>2, <4>1, <4>2
    <3>4. ASSUME NEW w \in PagesOf(area), get_page(mem', d, w) # 0
          PROVE  w * PGSIZE < op.start + size
      <4>1. w \in VPage
        BY <1>2, AreaFacts
      <4>2. CASE w = v
        <5>1. v * PGSIZE <= op.start
          BY <1>2, <1>4, <1>5
        <5>2. v * PGSIZE \in Nat
          BY <1>4, <1>5
        <5>3. QED
          BY <1>2, <2>2, <4>2, <5>1, <5>2
      <4>3. CASE w # v
        <5>1. get_page(mem', d, w) = get_page(m, d, w)
          BY <2>6, SameTables
        <5>2. get_page(m, d, w) = get_page(mem, d, w)
          BY <1>9, <4>1, <4>3 DEF PageAdded
        <5>3. w * PGSIZE < op.start
          BY <1>3, <3>4, <5>1, <5>2
        <5>4. w * PGSIZE \in Nat
          BY <1>4, <4>1 DEF VPage
        <5>5. QED
          BY <1>2, <2>2, <5>3, <5>4
      <4>4. QED
        BY <4>2, <4>3
    <3>5. QED
      BY <2>9, <3>1, <3>2, <3>3, <3>4 DEF FilePart
  <2>13. BssPart' /\ StackPart' /\ Copies'
    BY <2>9 DEF BssPart, StackPart, Is, Copies
  <2>14. PageLoaded
    <3>1. SameLoad("file", op.start + size)
      BY <2>9 DEF SameLoad
    <3>2. QED
      BY <2>2, <2>6, <2>5, <3>1 DEF PageLoaded, v, off
  <2>15. QED
    BY <2>10, <2>11, <2>12, <2>13, <2>14 DEF MmInv, Constant, Loads
<1>12. QED
  BY <1>10, <1>10a, <1>11 DEF LoadPage, m, v, off

\* Clearing the end of the last page of the file changes no mapping, and what comes
\* next starts with a page of its own.
LEMMA ClearRestInv ==
    ASSUME MmInv, ClearRest
    PROVE  MmInv' /\ SpacesKept
<1> DEFINE d    == op.mm.pgdir
           v    == op.start \div PGSIZE
           off  == op.start % PGSIZE
           q    == get_page(mem, d, v)
           cut  == FileEnd < MemEnd /\ off # 0
           c    == [i \in Offset |-> IF i >= off THEN Zeroed ELSE mem.cell[q][i]]
           area == SegArea(op.seg)
           next == IF cut THEN op.start - off + PGSIZE ELSE op.start
<1>1. /\ Types /\ Holders /\ Owned(mem, Roots) /\ Loads /\ ~panic
      /\ op.call = "exec" /\ op.stage = "file" /\ op.start >= FileEnd
      /\ Loading(IF cut /\ q # 0 THEN [mem EXCEPT !.cell[q] = c] ELSE mem,
                 [op EXCEPT !.stage = "bss", !.start = next])
  BY DEF MmInv, ClearRest, At
<1>2. /\ op.seg \in 1 .. Len(op.prog) /\ op # Idle /\ op \in ExecOp /\ op.start \in Nat
      /\ Segment.va \in Nat /\ FileEnd \in Nat /\ MemEnd \in Nat /\ FileEnd <= MemEnd
      /\ MemEnd <= USTACKTOP /\ IsArea(area)
      /\ \A a \in Segment.va .. MemEnd - 1 : a \div PGSIZE \in PagesOf(area)
  BY <1>1, InSegment
<1>3. /\ op.start \in Segment.va .. FileEnd
      /\ \A w \in PagesOf(area) :
           get_page(mem, d, w) # 0 => op.start # Segment.va /\ w * PGSIZE < op.start
  BY <1>1, <1>2 DEF Loads, FilePart, Is
<1>4. PGSIZE \in Nat \ {0} /\ NVirtual \in Nat
  BY MmAssumption, NVirtualFacts
<1>5. v \in Nat /\ off \in 0 .. PGSIZE - 1 /\ op.start = PGSIZE * v + off
  BY <1>2, <1>4, DivFacts
<1>6. SpaceOK(mem, op.mm, DOMAIN op.mm.areas, DOMAIN op.mm.areas) /\ d \in Roots
  BY <1>1, <1>2, BuiltFacts
<1>7. cut => v \in PagesOf(area) /\ v \in VPage
  <2>1. SUFFICES ASSUME cut PROVE v \in PagesOf(area)
    BY <1>2, AreaFacts
  <2>2. op.start \in Segment.va .. MemEnd - 1
    BY <1>1, <1>2, <1>3, <2>1
  <2>3. \A a \in Segment.va .. MemEnd - 1 : a \div PGSIZE \in PagesOf(area)
    BY <1>2
  <2>4. QED
    BY ONLY <2>2, <2>3
<1>8. /\ next \in Nat /\ next >= op.start /\ next >= FileEnd
      /\ FileEnd < MemEnd => next % PGSIZE = 0
  <2> HIDE DEF v, off
  <2>1. CASE cut
    <3>1. next = PGSIZE * (v + 1) + 0
      BY <1>2, <1>4, <1>5, <2>1
    <3>2. (PGSIZE * (v + 1) + 0) % PGSIZE = 0
      BY <1>4, <1>5, DivUnique
    <3>3. next \in Nat /\ next >= op.start
      <4>1. next = op.start - off + PGSIZE
        BY <2>1 DEF next
      <4>2. op.start \in Nat /\ off \in 0 .. PGSIZE - 1 /\ PGSIZE \in Nat
        BY <1>2, <1>4, <1>5
      <4>3. QED
        BY ONLY <4>1, <4>2
    <3>4. next % PGSIZE = 0
      BY <3>1, <3>2
    <3>5. QED
      BY <1>1, <1>2, <3>3, <3>4
  <2>2. CASE ~cut
    BY <1>1, <1>2, <2>2 DEF off
  <2>3. QED
    BY <2>1, <2>2
<1> HIDE DEF next, area
<1>9. /\ op' = [op EXCEPT !.stage = "bss", !.start = next]
      /\ UNCHANGED <<mm, pgdir, alive, current, satp, panic, image, lost>>
      /\ mem' = mem \/ (cut /\ q # 0 /\ mem' = [mem EXCEPT !.cell[q] = c])
  BY <1>1 DEF Loading
<1>10. Within(mem, Roots, mem', d) /\ mem'.entry = mem.entry
  <2>1. CASE mem' = mem
    BY <1>1, <2>1, NothingWithin
  <2>2. CASE cut /\ q # 0 /\ mem' = [mem EXCEPT !.cell[q] = c]
    <3>1. v \in VPage /\ q = get_page(mem, d, v) /\ q # 0
      BY <1>7, <2>2
    <3>2. q \in Page /\ mem.cell[q] \in [Offset -> Value]
      <4>1. mem \in MemType /\ Apart(mem, Roots) /\ Path(mem, Roots, d, v)
        BY <1>1, <1>6, <3>1, LevelsApart, PathFacts DEF Owned
      <4>2. q \in Page
        BY <3>1, <4>1 DEF Path, Apart
      <4>3. QED
        BY <4>1, <4>2, MemFacts
    <3>3. c \in [Offset -> Value]
      BY <3>2 DEF Value
    <3>4. mem' = Rewritten(mem, q, c)
      BY <2>2 DEF Rewritten
    <3> HIDE DEF v, c, q
    <3>5. PageWritten(mem, Roots, mem', d, q, c)
      BY ONLY <1>1, <1>6, <3>1, <3>3, <3>4, WriteFacts
    <3>6. QED
      BY <3>5 DEF PageWritten
  <2>3. QED
    BY <1>9, <2>1, <2>2
<1>11. SpaceOK(mem', op.mm, DOMAIN op.mm.areas, DOMAIN op.mm.areas)
  BY <1>6, <1>10, SameTables, SpaceKept
<1>12. /\ op' \in ExecOp /\ op'.stage = "bss" /\ op'.mm = op.mm /\ op'.seg = op.seg
       /\ op'.prog = op.prog /\ op'.start = next /\ op'.call = "exec"
  BY <1>1, <1>2, <1>8, <1>9 DEF ExecOp
<1>13. Constant /\ Built' /\ op' # Idle
  BY <1>1, <1>9, <1>10, <1>11, <1>12, LoadStep DEF Types
<1>14. Segments'
  <2>1. /\ op.seg <= Len(op.prog)
        /\ \A i \in 1 .. op.seg : \E j \in DOMAIN op.mm.areas : op.mm.areas[j] = SegArea(i)
        /\ \A i, j \in 1 .. op.seg : i # j => PagesOf(SegArea(i)) \cap PagesOf(SegArea(j)) = {}
    BY <1>1, <1>2 DEF Loads, Segments, Is, Seen
  <2>2. Seen' = op.seg /\ \A i : SegArea(i)' = SegArea(i)
    BY <1>12 DEF Seen, SegArea
  <2>3. QED
    BY <1>12, <2>1, <2>2 DEF Segments
<1>15. BssPart'
  <2>1. /\ Segment' = Segment /\ FileEnd' = FileEnd /\ MemEnd' = MemEnd
        /\ SegArea(op.seg)' = area
    BY <1>12 DEF Segment, FileEnd, MemEnd, SegArea, area
  <2>2. ASSUME NEW w \in PagesOf(area), get_page(mem', d, w) # 0
        PROVE  w * PGSIZE < next
    <3>1. w * PGSIZE < op.start
      BY <1>3, <1>10, <2>2, SameTables
    <3>2. w \in Nat
      BY <1>2, AreaFacts DEF VPage
    <3>3. w * PGSIZE \in Nat
      BY <1>4, <3>2
    <3>4. QED
      BY <1>2, <1>8, <3>1, <3>3
  <2>3. QED
    BY <1>8, <1>12, <2>1, <2>2 DEF BssPart
<1>16. FilePart' /\ StackPart' /\ Copies'
  BY <1>12 DEF FilePart, StackPart, Is, Copies
<1>17. QED
  BY <1>13, <1>14, <1>15, <1>16 DEF MmInv, Constant, Loads

\* A page of zeros, at an address that has none.
LEMMA ClearPageInv ==
    ASSUME MmInv, ClearPage
    PROVE  MmInv' /\ SpacesKept /\ (op' = Idle \/ PageCleared)
<1> DEFINE d    == op.mm.pgdir
           v    == op.start \div PGSIZE
           m    == pgdir_alloc_page(mem, d, v)
           q    == get_page(m, d, v)
           c    == [i \in Offset |-> Zeroed]
           area == SegArea(op.seg)
<1>1. /\ Types /\ Holders /\ Owned(mem, Roots) /\ Loads /\ ~panic
      /\ op.call = "exec" /\ op.stage = "bss" /\ FileEnd < MemEnd /\ op.start < MemEnd
  BY DEF MmInv, ClearPage, At
<1>2. /\ op.seg \in 1 .. Len(op.prog) /\ op # Idle /\ op \in ExecOp /\ op.start \in Nat
      /\ \E j \in DOMAIN op.mm.areas : op.mm.areas[j] = area
      /\ Segment.va \in Nat /\ Segment.filesz \in Nat /\ FileEnd = Segment.va + Segment.filesz
      /\ FileEnd \in Nat /\ MemEnd \in Nat /\ IsArea(area)
      /\ \A a \in Segment.va .. MemEnd - 1 : a \div PGSIZE \in PagesOf(area)
  BY <1>1, InSegment
<1>3. /\ op.start >= FileEnd /\ op.start % PGSIZE = 0
      /\ \A w \in PagesOf(area) : get_page(mem, d, w) # 0 => w * PGSIZE < op.start
  BY <1>1, <1>2 DEF Loads, BssPart, Is
<1>4. PGSIZE \in Nat \ {0} /\ NVirtual \in Nat
  BY MmAssumption, NVirtualFacts
<1>5. v \in Nat /\ op.start = PGSIZE * v
  <2>1. v \in Nat /\ op.start = PGSIZE * v + (op.start % PGSIZE)
    BY <1>2, <1>4, DivFacts
  <2>2. PGSIZE * v \in Nat /\ op.start = PGSIZE * v + 0
    BY <1>3, <1>4, <2>1
  <2> HIDE DEF v
  <2>3. QED
    BY <2>1, <2>2
<1>6. v \in PagesOf(area)
  <2>1. op.start \in Segment.va .. MemEnd - 1
    BY <1>1, <1>2, <1>3
  <2>2. QED
    BY <1>2, <2>1
<1>7. get_page(mem, d, v) = 0
  <2>1. SUFFICES ASSUME get_page(mem, d, v) # 0 PROVE FALSE
    OBVIOUS
  <2>2. v * PGSIZE < op.start
    BY <1>3, <1>6, <2>1
  <2> HIDE DEF v
  <2>3. QED
    BY <1>2, <1>4, <1>5, <2>2
<1>8. PICK j \in DOMAIN op.mm.areas : op.mm.areas[j] = area
  BY <1>2
<1> HIDE DEF v, area, m
<1>9. /\ v \in VPage /\ PageAdded(mem, Roots, m, d, v) /\ Within(mem, Roots, m, d)
      /\ Owned(m, Roots) /\ SpaceOK(m, op.mm, DOMAIN op.mm.areas, DOMAIN op.mm.areas)
      /\ d \in Roots
  BY <1>1, <1>2, <1>6, <1>7, <1>8, AllocFacts, BuiltFacts DEF m
<1>10. CASE LoadFails(m)
  BY <1>1, <1>9, <1>10, LoadFailsInv DEF LoadFails, Die
<1>11. CASE q # 0 /\ Loading([m EXCEPT !.cell[q] = c], [op EXCEPT !.start = @ + PGSIZE])
  <2>1. /\ mem' = [m EXCEPT !.cell[q] = c] /\ op' = [op EXCEPT !.start = @ + PGSIZE]
        /\ UNCHANGED <<mm, pgdir, alive, current, satp, panic, image, lost>>
    BY <1>11 DEF Loading
  <2>2. c \in [Offset -> Value]
    BY DEF Value
  <2> HIDE DEF c, q
  <2>3. Within(m, Roots, mem', d) /\ mem'.entry = m.entry /\ PageFilled(mem, mem', d, v, c)
    <3>1. q = get_page(m, d, v) /\ q # 0
      BY <1>11 DEF q
    <3>2. mem' = Rewritten(m, q, c)
      BY <2>1 DEF Rewritten
    <3>3. PageWritten(m, Roots, mem', d, q, c)
      BY ONLY <1>9, <2>2, <3>1, <3>2, WriteFacts
    <3>4. PageFilled(mem, mem', d, v, c)
      BY ONLY <1>1, <1>7, <1>9, <3>1, <3>3, FillFacts
    <3>5. QED
      BY <3>3, <3>4 DEF PageWritten
  <2>4. Within(mem, Roots, mem', d)
    BY <1>9, <2>3, WithinTwice
  <2>5. SpaceOK(mem', op.mm, DOMAIN op.mm.areas, DOMAIN op.mm.areas)
    BY <1>9, <2>3, SameTables, SpaceKept
  <2>6. /\ op' \in ExecOp /\ op'.stage = "bss" /\ op'.mm = op.mm /\ op'.seg = op.seg
        /\ op'.prog = op.prog /\ op'.start = op.start + PGSIZE /\ op'.call = "exec"
    <3>1. op.start + PGSIZE \in Nat /\ op \in ExecOp
      <4>1. op.start \in Nat /\ PGSIZE \in Nat /\ op \in ExecOp
        BY <1>2, <1>4
      <4>2. QED
        BY ONLY <4>1
    <3>2. op' = [op EXCEPT !.start = op.start + PGSIZE]
      BY <2>1
    <3>3. QED
      BY <1>1, <3>1, <3>2 DEF ExecOp
  <2>7. Constant /\ Built' /\ op' # Idle
    BY <1>1, <2>1, <2>4, <2>5, <2>6, LoadStep DEF Types
  <2>8. Segments'
    BY <1>1, <1>2, <2>6, SegmentsKept DEF Loads
  <2>9. BssPart'
    <3>1. /\ Segment' = Segment /\ FileEnd' = FileEnd /\ MemEnd' = MemEnd
          /\ SegArea(op.seg)' = area
      BY <2>6 DEF Segment, FileEnd, MemEnd, SegArea, area
    <3>2. op.start + PGSIZE >= FileEnd
      <4>1. op.start \in Nat /\ FileEnd \in Nat /\ op.start >= FileEnd /\ PGSIZE \in Nat
        BY <1>2, <1>3, <1>4
      <4>2. QED
        BY ONLY <4>1
    <3>3. (op.start + PGSIZE) % PGSIZE = 0
      <4>1. op.start + PGSIZE = PGSIZE * (v + 1) + 0
        BY <1>4, <1>5
      <4>2. (PGSIZE * (v + 1) + 0) % PGSIZE = 0
        BY <1>4, <1>5, DivUnique
      <4>3. QED
        BY <4>1, <4>2
    <3>4. ASSUME NEW w \in PagesOf(area), get_page(mem', d, w) # 0
          PROVE  w * PGSIZE < op.start + PGSIZE
      <4>1. w \in VPage
        BY <1>2, AreaFacts
      <4>2. CASE w = v
        BY <1>2, <1>4, <1>5, <4>2
      <4>3. CASE w # v
        <5>1. get_page(mem', d, w) = get_page(m, d, w)
          BY <2>3, SameTables
        <5>2. get_page(m, d, w) = get_page(mem, d, w)
          BY <1>9, <4>1, <4>3 DEF PageAdded
        <5>3. w * PGSIZE < op.start
          BY <1>3, <3>4, <5>1, <5>2
        <5>4. w * PGSIZE \in Nat
          BY <1>4, <4>1 DEF VPage
        <5>5. QED
          BY <1>2, <1>4, <5>3, <5>4
      <4>4. QED
        BY <4>2, <4>3
    <3>5. QED
      BY <2>6, <3>1, <3>2, <3>3, <3>4 DEF BssPart
  <2>10. FilePart' /\ StackPart' /\ Copies'
    BY <2>6 DEF FilePart, StackPart, Is, Copies
  <2>11. PageCleared
    <3>1. SameLoad("bss", op.start + PGSIZE)
      BY <2>6 DEF SameLoad
    <3>2. QED
      BY <2>3, <3>1 DEF PageCleared, v, c
  <2>12. QED
    BY <2>7, <2>8, <2>9, <2>10, <2>11 DEF MmInv, Constant, Loads
<1>12. QED
  BY <1>10, <1>11 DEF ClearPage, m, v

\* The next segment.
LEMMA SegmentDoneInv ==
    ASSUME MmInv, SegmentDone
    PROVE  MmInv'
<1>1. /\ Types /\ Holders /\ Owned(mem, Roots) /\ Loads
      /\ op.call = "exec" /\ op.stage = "bss" /\ mem' = mem
      /\ op' = [op EXCEPT !.stage = "segment", !.seg = @ + 1]
      /\ UNCHANGED <<mm, pgdir, alive, current, satp, panic, image, lost>>
  BY DEF MmInv, SegmentDone, At, Loading
<1>2. op.seg \in 1 .. Len(op.prog) /\ op # Idle /\ op \in ExecOp
  BY <1>1, InSegment
<1>3. /\ op' \in ExecOp /\ op'.stage = "segment" /\ op'.mm = op.mm /\ op'.seg = op.seg + 1
      /\ op'.prog = op.prog
  <2>1. op.seg \in Nat \ {0}
    BY <1>2 DEF ExecOp
  <2>2. op.seg + 1 \in Nat \ {0}
    BY ONLY <2>1
  <2>3. op' = [op EXCEPT !.stage = "segment", !.seg = op.seg + 1]
    BY <1>1
  <2>4. QED
    BY <1>2, <2>2, <2>3 DEF ExecOp
<1>4. /\ Within(mem, Roots, mem', op.mm.pgdir)
      /\ SpaceOK(mem', op.mm, DOMAIN op.mm.areas, DOMAIN op.mm.areas)
  BY <1>1, <1>2, NothingWithin, BuiltFacts
<1>5. Constant /\ Built' /\ op' # Idle
  BY <1>1, <1>3, <1>4, LoadStep DEF Types
<1>6. Segments'
  <2>1. /\ op.seg <= Len(op.prog)
        /\ \A i \in 1 .. op.seg : \E j \in DOMAIN op.mm.areas : op.mm.areas[j] = SegArea(i)
        /\ \A i, j \in 1 .. op.seg : i # j => PagesOf(SegArea(i)) \cap PagesOf(SegArea(j)) = {}
    BY <1>1, <1>2 DEF Loads, Segments, Is, Seen
  <2>2. Seen' = op.seg /\ \A i : SegArea(i)' = SegArea(i)
    BY <1>2, <1>3 DEF Seen, SegArea
  <2>3. QED
    BY <1>3, <2>1, <2>2 DEF Segments
<1>7. FilePart' /\ BssPart' /\ StackPart' /\ Copies'
  <2>1. op'.call = "exec"
    BY <1>3 DEF ExecOp
  <2>2. QED
    BY <1>3, <2>1 DEF FilePart, BssPart, StackPart, Is, Copies
<1>8. QED
  BY <1>5, <1>6, <1>7 DEF MmInv, Constant, Loads

\* A page of the stack, below those it has.
LEMMA StackPageInv ==
    ASSUME MmInv, StackPage
    PROVE  /\ MmInv' /\ SpacesKept
           /\ Grows(mem, mem', op.mm.pgdir) /\ SameLoad("stack", op'.start)
<1> DEFINE d == op.mm.pgdir
           v == op.start \div PGSIZE - 1
           m == pgdir_alloc_page(mem, d, v)
<1>1. /\ Types /\ Holders /\ Owned(mem, Roots) /\ Loads
      /\ op.call = "exec" /\ op.stage = "stack" /\ op.start > USTACKTOP - StackMapped * PGSIZE
  BY DEF MmInv, StackPage, At
<1>2. op # Idle /\ op \in ExecOp /\ op.start \in Nat
  BY <1>1, SegFacts
<1>3. /\ \E j \in DOMAIN op.mm.areas : op.mm.areas[j] = StackArea
      /\ \A i \in 1 .. Len(op.prog) : PagesOf(SegArea(i)) \cap PagesOf(StackArea) = {}
      /\ \E k \in 0 .. StackMapped : op.start = USTACKTOP - k * PGSIZE
      /\ \A w \in PagesOf(StackArea) : get_page(mem, d, w) # 0 => op.start <= w * PGSIZE
  BY <1>1, <1>2 DEF Loads, StackPart, Is
<1>4. /\ PGSIZE \in Nat \ {0} /\ USTACKTOP = NVirtual * PGSIZE
      /\ IsArea(StackArea) /\ PagesOf(StackArea) = NVirtual - USTACKPAGE .. NVirtual - 1
      /\ NVirtual \in Nat /\ USTACKPAGE \in 1 .. NVirtual /\ StackMapped \in 1 .. USTACKPAGE
  BY MmAssumption, NVirtualFacts, StackFacts
<1>5. PICK k \in 0 .. StackMapped : op.start = USTACKTOP - k * PGSIZE
  BY <1>3
<1>6. k < StackMapped
  <2>1. SUFFICES ASSUME k >= StackMapped PROVE FALSE
    BY <1>4
  <2>2. k = StackMapped
    BY <1>4, <2>1
  <2>3. QED
    BY <1>1, <1>2, <1>4, <1>5, <2>2
<1>7. v = NVirtual - k - 1 /\ op.start = (v + 1) * PGSIZE
  <2>1. NVirtual - k \in Nat
    BY <1>4, <1>6
  <2>2. op.start = PGSIZE * (NVirtual - k) + 0
    BY <1>4, <1>5
  <2>3. (PGSIZE * (NVirtual - k) + 0) \div PGSIZE = NVirtual - k
    BY <1>4, <2>1, DivUnique
  <2>4. v = NVirtual - k - 1
    BY <1>4, <2>1, <2>2, <2>3
  <2> HIDE DEF v
  <2>5. QED
    BY <1>4, <2>1, <2>2, <2>4
<1> HIDE DEF v
<1>8. v \in PagesOf(StackArea)
  BY <1>4, <1>6, <1>7
<1>9. v \in Nat /\ v * PGSIZE \in Nat /\ op.start = v * PGSIZE + PGSIZE
  BY <1>4, <1>6, <1>7
<1>10. get_page(mem, d, v) = 0
  BY <1>3, <1>4, <1>8, <1>9
<1>11. PICK j \in DOMAIN op.mm.areas : op.mm.areas[j] = StackArea
  BY <1>3
<1> HIDE DEF m
<1>12. /\ v \in VPage /\ PageAdded(mem, Roots, m, d, v) /\ Within(mem, Roots, m, d)
       /\ SpaceOK(m, op.mm, DOMAIN op.mm.areas, DOMAIN op.mm.areas) /\ d \in Roots
  BY <1>1, <1>2, <1>8, <1>10, <1>11, AllocFacts, BuiltFacts DEF m
<1>13. \A w \in VPage : w # v => get_page(m, d, w) = get_page(mem, d, w)
  BY <1>12 DEF PageAdded
<1>14. Grows(mem, m, d)
  BY <1>10, <1>12 DEF PageAdded, Grows
<1>15. CASE get_page(m, d, v) = 0 /\ Panic(m)
  <2>1. /\ mem' = m /\ op' = op /\ panic' \in BOOLEAN
        /\ UNCHANGED <<mm, pgdir, alive, current, satp, image, lost>>
    BY <1>15 DEF Panic
  <2>2. Constant /\ Built' /\ op' # Idle
    BY <1>1, <1>2, <1>12, <2>1, LoadStep
  <2>3. Segments' /\ FilePart' /\ BssPart' /\ Copies'
    BY <1>1, <1>2, <2>1, SegmentsKept DEF Loads, FilePart, BssPart, Is, Copies
  <2>4. StackPart'
    <3>1. ASSUME NEW w \in PagesOf(StackArea), get_page(m, d, w) # 0
          PROVE  op.start <= w * PGSIZE
      <4>1. w \in VPage /\ w # v
        BY <1>4, <1>15, <3>1, AreaFacts
      <4>2. QED
        BY <1>3, <1>13, <3>1, <4>1
    <3>2. SegArea(1)' = SegArea(1) /\ \A i : SegArea(i)' = SegArea(i)
      BY <2>1 DEF SegArea
    <3>3. QED
      BY <1>3, <2>1, <3>1, <3>2 DEF StackPart
  <2>5. QED
    BY <1>1, <1>14, <2>1, <2>2, <2>3, <2>4 DEF MmInv, Constant, Loads, SameLoad
<1>16. CASE Loading(m, [op EXCEPT !.start = @ - PGSIZE])
  <2>1. /\ mem' = m /\ op' = [op EXCEPT !.start = v * PGSIZE]
        /\ UNCHANGED <<mm, pgdir, alive, current, satp, panic, image, lost>>
    <3>1. op.start - PGSIZE = v * PGSIZE
      BY <1>4, <1>9
    <3>2. QED
      BY <1>16, <3>1 DEF Loading
  <2>2. /\ op' \in ExecOp /\ op'.stage = "stack" /\ op'.mm = op.mm /\ op'.seg = op.seg
        /\ op'.prog = op.prog /\ op'.start = v * PGSIZE /\ op'.call = "exec"
    BY <1>1, <1>2, <1>9, <2>1 DEF ExecOp
  <2>3. Constant /\ Built' /\ op' # Idle
    BY <1>1, <1>12, <2>1, <2>2, LoadStep DEF Types
  <2>4. Segments'
    BY <1>1, <1>2, <2>2, SegmentsKept DEF Loads
  <2>5. FilePart' /\ BssPart' /\ Copies'
    BY <2>2 DEF FilePart, BssPart, Is, Copies
  <2>6. StackPart'
    <3>1. ASSUME NEW w \in PagesOf(StackArea), get_page(m, d, w) # 0
          PROVE  v * PGSIZE <= w * PGSIZE
      <4>1. w \in VPage /\ w \in Nat /\ w * PGSIZE \in Nat
        BY <1>4, AreaFacts DEF VPage
      <4>2. CASE w = v
        BY <1>9, <4>2
      <4>3. CASE w # v
        <5>1. op.start <= w * PGSIZE
          BY <1>3, <1>13, <3>1, <4>1, <4>3
        <5>2. QED
          BY <1>4, <1>9, <4>1, <5>1
      <4>4. QED
        BY <4>2, <4>3
    <3>2. \A i : SegArea(i)' = SegArea(i)
      BY <2>2 DEF SegArea
    <3>3. k + 1 \in 0 .. StackMapped /\ v * PGSIZE = USTACKTOP - (k + 1) * PGSIZE
      BY <1>4, <1>6, <1>7
    <3>4. \E x \in 0 .. StackMapped : op'.start = USTACKTOP - x * PGSIZE
      BY <2>2, <3>3
    <3>5. \A w \in PagesOf(StackArea) : get_page(mem', op'.mm.pgdir, w) # 0 => op'.start <= w * PGSIZE
      BY <2>1, <2>2, <3>1
    <3>6. QED
      BY <1>3, <2>2, <3>2, <3>4, <3>5 DEF StackPart
  <2>7. QED
    BY <1>14, <2>1, <2>2, <2>3, <2>4, <2>5, <2>6 DEF MmInv, Constant, Loads, SameLoad
<1>17. QED
  BY <1>15, <1>16 DEF StackPage, m, v

\* The arguments are written to pages that the new address space has, and the
\* process gets it.
LEMMA LoadEndsInv ==
    ASSUME MmInv, LoadEnds
    PROVE  MmInv' /\ SpacesKept
<1> DEFINE d == op.mm.pgdir
           cells == USTACKTOP - op.arg .. USTACKTOP - 1
           page(a) == get_page(mem, d, a \div PGSIZE)
           C == [q \in Page |-> [i \in Offset |->
                   IF \E a \in cells : page(a) = q /\ a % PGSIZE = i
                     THEN Argument ELSE mem.cell[q][i]]]
<1>1. /\ Types /\ Holders /\ Owned(mem, Roots) /\ Held /\ Left(mem, Roots, lost)
      /\ op.call = "exec" /\ op.stage = "stack"
  BY DEF MmInv, LoadEnds, At
<1>2. op # Idle /\ op \in ExecOp /\ OpIs
  BY <1>1, OpFacts DEF OpIs
<1>3. CASE Panic(mem)
  BY <1>3, PanicInv
<1>4. CASE /\ ~ \E a \in cells : page(a) = 0
           /\ mem' = [mem EXCEPT !.cell = C]
           /\ mm' = [mm EXCEPT ![current] = op.mm] /\ pgdir' = [pgdir EXCEPT ![current] = d]
           /\ satp' = d /\ op' = Idle /\ UNCHANGED <<alive, current, panic, lost>>
  <2>1. /\ SpaceOK(mem, op.mm, DOMAIN op.mm.areas, DOMAIN op.mm.areas) /\ d \in Roots
        /\ d \in Page /\ d # Boot /\ mm[current] = NULL /\ current \in alive /\ current \in Proc
        /\ \A p \in Proc : mm[p] # NULL => mm[p].pgdir # d
    <3>1. SpaceOK(mem, op.mm, DOMAIN op.mm.areas, DOMAIN op.mm.areas)
      BY <1>1, <1>2, BuiltFacts
    <3>2. d \in Roots /\ d \in Page
      BY <1>1, <1>2, RootsFacts
    <3>3. d # Boot /\ mm[current] = NULL /\ \A p \in Proc : mm[p] # NULL => mm[p].pgdir # d
      BY <1>1, <1>2 DEF Holders
    <3>4. current \in alive /\ current \in Proc
      BY <1>1, <1>2 DEF Holders, Types
    <3>5. QED
      BY <3>1, <3>2, <3>3, <3>4
  <2>2. \A a \in cells : a \div PGSIZE \in VPage /\ page(a) \in Mapped(mem.entry, Roots)
    <3>1. SUFFICES ASSUME NEW a \in cells
                   PROVE  a \div PGSIZE \in VPage /\ page(a) \in Mapped(mem.entry, Roots)
      OBVIOUS
    <3>2. a \in Nat /\ a < PGSIZE * NVirtual /\ PGSIZE \in Nat \ {0} /\ NVirtual \in Nat
      <4>1. op.arg \in ArgSize
        BY <1>2 DEF ExecOp
      <4>2. op.arg \in 0 .. USTACKPAGE * PGSIZE
        BY <4>1, MmAssumption
      <4>3. /\ NVirtual \in Nat /\ PGSIZE \in Nat \ {0} /\ USTACKPAGE \in 1 .. NVirtual
            /\ USTACKTOP = NVirtual * PGSIZE /\ USTACKTOP \in Nat
        BY NVirtualFacts, StackFacts, MmAssumption
      <4>4. USTACKPAGE * PGSIZE <= NVirtual * PGSIZE /\ USTACKPAGE * PGSIZE \in Nat
        BY <4>3
      <4> DEFINE n == op.arg
      <4> HIDE DEF n
      <4>5. n \in Nat /\ n <= USTACKTOP /\ a \in USTACKTOP - n .. USTACKTOP - 1
        BY <4>2, <4>3, <4>4 DEF n
      <4>6. a \in Nat /\ a < USTACKTOP
        BY ONLY <4>3, <4>5
      <4>7. QED
        BY <4>3, <4>6
    <3>3. a \div PGSIZE \in VPage
      BY <3>2, DivBelow DEF VPage
    <3>4. Path(mem, Roots, d, a \div PGSIZE)
      BY <1>1, <2>1, <3>3, PathFacts DEF Owned
    <3>5. QED
      BY <1>4, <3>3, <3>4 DEF Path
  <2>3. /\ C \in [Page -> [Offset -> Value]]
        /\ \A q \in Page : q \notin Mapped(mem.entry, Roots) => C[q] = mem.cell[q]
        /\ \A q \in Page : C[q] # mem.cell[q] => \E v \in VPage : get_page(mem, d, v) = q
    <3>1. mem.cell \in [Page -> [Offset -> Value]]
      BY <1>1, MemFacts DEF Owned
    <3>2. Argument \in Value
      BY DEF Value
    <3>3. ASSUME NEW q \in Page, \A a \in cells : page(a) # q PROVE C[q] = mem.cell[q]
      <4>1. C[q] = [i \in Offset |-> mem.cell[q][i]]
        BY <3>3
      <4>2. QED
        BY <3>1, <4>1
    <3>4. ASSUME NEW q \in Page, C[q] # mem.cell[q]
          PROVE  \E v \in VPage : get_page(mem, d, v) = q
      <4>1. PICK a \in cells : page(a) = q
        BY <3>3, <3>4
      <4>2. QED
        BY <2>2, <4>1
    <3>5. ASSUME NEW q \in Page, q \notin Mapped(mem.entry, Roots) PROVE C[q] = mem.cell[q]
      BY <2>2, <3>3, <3>5
    <3> HIDE DEF cells, page
    <3>6. C \in [Page -> [Offset -> Value]]
      BY <3>1, <3>2
    <3>7. QED
      BY <3>4, <3>5, <3>6
  <2> HIDE DEF C
  <2>4. Written(mem, Roots, mem')
    BY <1>1, <1>4, <2>3, CellsWritten
  <2>5. mem'.entry = mem.entry /\ Owned(mem', Roots) /\ RestSame(mem, Roots, mem', Roots)
    BY <2>4 DEF Written
  <2>6. /\ mm'[current] = op.mm /\ \A p \in Proc : p # current => mm'[p] = mm[p]
        /\ op.mm \in MmType /\ op.mm # NULL
    BY <1>1, <1>2, <1>4, <2>1, MmAssumption DEF Types, OpIs
  <2>7. Types'
    BY <1>1, <1>2, <1>4, <2>1, <2>6 DEF Types
  <2>8. Roots' = Roots
    <3>1. Roots = {mm[p].pgdir : p \in {r \in Proc : mm[r] # NULL}} \cup {d}
      BY <1>2, <2>1 DEF Roots
    <3>2. Roots' = {mm'[p].pgdir : p \in {r \in Proc : mm'[r] # NULL}}
      BY <1>4 DEF Roots
    <3>3. QED
      BY <2>1, <2>6, <3>1, <3>2
  <2>9. Holders'
    <3>1. \A p \in Proc : p # current => (mm'[p] # NULL <=> mm[p] # NULL) /\ mm'[p] = mm[p]
      BY <2>6
    <3>2. \A p \in Proc : mm'[p] # NULL => p \in alive' /\ mm'[p].pgdir \in Page
      BY <1>1, <1>4, <2>1, <2>6 DEF Holders
    <3>3. \A p, r \in Proc :
            mm'[p] # NULL /\ mm'[r] # NULL /\ mm'[p].pgdir = mm'[r].pgdir => p = r
      BY <1>1, <2>1, <2>6 DEF Holders
    <3>4. \A p \in Proc : mm'[p] # NULL => pgdir'[p] = mm'[p].pgdir
      BY <1>1, <1>4, <2>1, <2>6 DEF Holders, Types
    <3>5. satp' = pgdir'[current']
      BY <1>1, <1>4, <2>1 DEF Types
    <3>6. QED
      BY <1>1, <1>4, <2>1, <3>2, <3>3, <3>4, <3>5 DEF Holders, Types
  <2>10. Held'
    <3>1. ASSUME NEW s, NEW S, NEW T, SpaceOK(mem, s, S, T)
          PROVE  SpaceOK(mem', s, S, T)
      BY <2>5, <3>1, SameTables, SpaceKept
    <3>2. QED
      BY <1>1, <2>1, <2>6, <3>1 DEF Held
  <2>11. Left(mem', Roots', lost')
    BY <1>1, <1>4, <2>5, <2>8, SameIsEmpty, LeftKept
  <2>12. Built' /\ Loads' /\ Copies'
    BY <1>4 DEF Built, Loads, Segments, FilePart, BssPart, StackPart, Is, Copies
  <2>13. SpacesKept
    <3>1. mem'.cell = C
      BY <1>1, <1>4, MemFacts DEF Owned
    <3>2. Within(mem, Roots, mem', d)
      BY <1>1, <2>1, <2>3, <2>4, <3>1, WrittenWithin
    <3>3. \A p \in Proc : mm[p] # NULL => mm[p].pgdir \in Roots \ {d}
      BY <1>1, <1>2, RootsFacts DEF Holders
    <3>4. QED
      BY <3>2, <3>3 DEF Within, Same, SpacesKept
  <2>14. QED
    BY <2>5, <2>7, <2>8, <2>9, <2>10, <2>11, <2>12, <2>13 DEF MmInv
<1>5. QED
  BY <1>3, <1>4 DEF LoadEnds

-----------------------------------------------------------------------------
\* Copying: do_fork.

\* The parent keeps its address space while it is copied.
LEMMA SourceFacts ==
    ASSUME MmInv, op.call = "fork"
    PROVE  /\ op # Idle /\ op \in ForkOp /\ Source \in MmType /\ Source # NULL
           /\ current \in Proc /\ current \in alive /\ op.child \notin alive /\ op.child \in Proc
           /\ SpaceOK(mem, Source, DOMAIN Source.areas, DOMAIN Source.areas)
           /\ AreasOK(Source.areas) /\ Source.pgdir \in Roots
           /\ Len(Source.areas) \in Nat /\ DOMAIN Source.areas = 1 .. Len(Source.areas)
<1>1. Types /\ Holders /\ Owned(mem, Roots) /\ Held
  BY DEF MmInv
<1>2. op # Idle /\ op \in ForkOp
  BY <1>1, OpFacts DEF OpIs
<1>3. mm[current] # NULL /\ op.child \notin alive /\ current \in alive
  BY <1>1, <1>2 DEF Holders
<1>4. current \in Proc /\ op.child \in Proc
  BY <1>1, <1>2, <1>3 DEF Types, ForkOp
<1>5. /\ mm[current] \in MmType /\ mm[current].pgdir \in Roots
      /\ SpaceOK(mem, mm[current], DOMAIN mm[current].areas, DOMAIN mm[current].areas)
  BY <1>1, <1>3, <1>4, RootsFacts DEF Held
<1>6. AreasOK(mm[current].areas)
  BY <1>5 DEF SpaceOK
<1>7. Len(mm[current].areas) \in Nat /\ DOMAIN mm[current].areas = 1 .. Len(mm[current].areas)
  BY <1>6 DEF AreasOK
<1>8. QED
  BY <1>2, <1>3, <1>4, <1>5, <1>6, <1>7 DEF Source

\* A step of copy_mm.
LEMMA ForkStep ==
    ASSUME MmInv, op.call = "fork", op.stage \in {"area", "copy"},
           op' \in ForkOp, op'.stage \in {"area", "copy"} \/ (op'.stage = "unmap" /\ op'.k = 1),
           op'.mm.pgdir = op.mm.pgdir, op'.child = op.child,
           panic' \in BOOLEAN, UNCHANGED <<mm, pgdir, alive, current, satp, image, lost>>,
           Within(mem, Roots, mem', op.mm.pgdir),
           SpaceOK(mem', op'.mm, DOMAIN op'.mm.areas, DOMAIN op'.mm.areas)
    PROVE  Constant /\ Built' /\ op' # Idle /\ Source' = Source /\ Loads'
<1>1. Types /\ op # Idle
  BY SourceFacts DEF MmInv
<1>2. op'.call = "fork" /\ op' # Idle
  BY DEF ForkOp, Idle
<1>3. Continues
  BY <1>1, <1>2 DEF Continues
<1>4. Constant
  BY <1>3, ContinueFacts
<1>5. Built'
  <2>1. AreasOK(op'.mm.areas)
    BY DEF SpaceOK
  <2>2. DOMAIN op'.mm.areas = 1 .. Len(op'.mm.areas)
    BY <2>1 DEF AreasOK
  <2>3. PagesLeft' = DOMAIN op'.mm.areas /\ TablesLeft' = DOMAIN op'.mm.areas
    BY <2>2 DEF PagesLeft, TablesLeft
  <2>4. QED
    BY <2>1, <2>3 DEF Built
<1>6. Source' = Source
  BY DEF Source
<1>7. Loads'
  BY <1>2, Elsewhere
<1>8. QED
  BY <1>2, <1>4, <1>5, <1>6, <1>7

\* copy_mm starts with a root, no areas, and the last area of the parent.
LEMMA ForkInv ==
    ASSUME MmInv, NEW c \in Proc, do_fork(c)
    PROVE  MmInv' /\ SpacesKept
<1> DEFINE q == Min(mem.free)
           n == Len(Source.areas)
<1>1. /\ Types /\ Holders /\ Owned(mem, Roots) /\ Held /\ op = Idle /\ Source # NULL
      /\ c \notin alive /\ mem.free # {} /\ current \in alive
      /\ mem' = [mem EXCEPT !.free = @ \ {q}, !.entry[q] = Empty]
      /\ op' = [call |-> "fork", stage |-> "area", child |-> c, k |-> Len(Source.areas),
                v |-> 0, mm |-> [NoMm EXCEPT !.pgdir = q]]
      /\ UNCHANGED <<mm, pgdir, alive, current, satp, panic, image, lost>>
  BY DEF MmInv, do_fork, Ready
<1>2. n \in Nat
  <2>1. AreasOK(Source.areas)
    BY <1>1 DEF Held, SpaceOK, Source, Types
  <2>2. QED
    BY <2>1 DEF AreasOK
<1>3. /\ op'.call = "fork" /\ op'.stage = "area" /\ op'.child = c /\ op'.k = n /\ op'.v = 0
      /\ op'.mm = [NoMm EXCEPT !.pgdir = q]
  BY <1>1
<1> HIDE DEF q
<1>4. op' # Idle
  BY <1>3 DEF Idle
<1>5. /\ Rooted(mem, Roots, mem', q) /\ q \in Page /\ Owned(mem', Roots')
      /\ Left(mem', Roots', lost') /\ Held' /\ Built' /\ SpacesKept
      /\ \A p \in Proc : mm[p] # NULL => mm[p].pgdir # q
      /\ op'.mm \in MmType /\ op'.mm.pgdir = q /\ op'.mm.areas = <<>>
  BY <1>1, <1>3, <1>4, RootInv DEF q
<1>6. op' \in ForkOp
  BY <1>1, <1>2, <1>5 DEF ForkOp
<1>7. Types'
  BY <1>1, <1>6 DEF Types
<1>8. Holders'
  <2>1. q # Boot
    BY <1>5, MmAssumption DEF Page, Boot
  <2>2. QED
    BY <1>1, <1>3, <1>4, <1>5, <2>1 DEF Holders, Source
<1>9. Copies'
  <2>1. Source' = Source /\ FirstCopied' = n + 1
    BY <1>1, <1>3 DEF Source, FirstCopied
  <2>2. n + 1 .. n = {} /\ n \in 0 .. n
    BY <1>2
  <2>3. \A v \in VPage : get_page(mem', q, v) = 0
    BY <1>5 DEF Rooted
  <2>4. QED
    BY <1>3, <1>5, <2>1, <2>2, <2>3 DEF Copies
<1>10. Loads'
  BY <1>3, <1>4, Elsewhere
<1>11. QED
  BY <1>5, <1>7, <1>8, <1>9, <1>10 DEF MmInv

\* The child gets an area of its parent, apart from those it has.
LEMMA DupMmapInv ==
    ASSUME MmInv, dup_mmap
    PROVE  MmInv'
<1> DEFINE area == Source.areas[op.k]
           n == Len(Source.areas)
           new == insert_vma_struct(op.mm.areas, area)
<1>1. /\ Types /\ Holders /\ Owned(mem, Roots) /\ Copies
      /\ op.call = "fork" /\ op.stage = "area" /\ op.k > 0 /\ mem' = mem
      /\ op' = [op EXCEPT !.stage = "copy", !.v = area[1], !.mm.areas = new]
      /\ UNCHANGED <<mm, pgdir, alive, current, satp, panic, image, lost>>
  BY DEF MmInv, dup_mmap, At, Loading
<1>2. /\ op # Idle /\ op \in ForkOp /\ Source # NULL
      /\ AreasOK(Source.areas) /\ n \in Nat /\ DOMAIN Source.areas = 1 .. n
  BY <1>1, SourceFacts
<1>3. /\ op.k \in 0 .. n /\ FirstCopied = op.k + 1
      /\ \A i \in DOMAIN op.mm.areas : \E j \in op.k + 1 .. n : op.mm.areas[i] = Source.areas[j]
      /\ \A j \in op.k + 1 .. n : \E i \in DOMAIN op.mm.areas : op.mm.areas[i] = Source.areas[j]
      /\ \A v \in VPage : get_page(mem, op.mm.pgdir, v) # 0 => Visited(v)
  BY <1>1, <1>2 DEF Copies, FirstCopied
<1>4. op.k \in 1 .. n
  BY <1>1, <1>3
<1>5. IsArea(area) /\ area[1] \in Nat
  <2>1. IsArea(area)
    BY <1>2, <1>4 DEF AreasOK
  <2>2. QED
    BY <2>1 DEF IsArea
<1>6. /\ SpaceOK(mem, op.mm, DOMAIN op.mm.areas, DOMAIN op.mm.areas) /\ AreasOK(op.mm.areas)
  BY <1>1, <1>2, BuiltFacts
<1>7. ~Overlaps(op.mm.areas, area)
  <2>1. SUFFICES ASSUME NEW i \in DOMAIN op.mm.areas
                 PROVE  PagesOf(op.mm.areas[i]) \cap PagesOf(area) = {}
    BY DEF Overlaps
  <2>2. PICK j \in op.k + 1 .. n : op.mm.areas[i] = Source.areas[j]
    BY <1>3
  <2>3. j \in 1 .. n /\ j # op.k
    BY <1>2, <1>4
  <2>4. QED
    BY <1>2, <1>4, <2>2, <2>3 DEF AreasOK
<1> HIDE DEF area
<1>8. AreaInserted(op.mm.areas, new, area)
  BY <1>5, <1>6, <1>7, InsertVmaFacts
<1> HIDE DEF new
<1>9. new \in Seq((0 .. NVirtual) \X (0 .. NVirtual))
  BY <1>8 DEF AreaInserted, AreasOK
<1> DEFINE s == [op.mm EXCEPT !.areas = new]
<1>10. op.mm \in MmType
  BY <1>2 DEF ForkOp
<1>11. s \in MmType /\ s.pgdir = op.mm.pgdir /\ s.areas = new
  BY <1>9, <1>10 DEF MmType
<1>12. op' = [op EXCEPT !.stage = "copy", !.v = area[1], !.mm = s]
  BY <1>1
<1> HIDE DEF s
<1>13. /\ op' \in ForkOp /\ op'.stage = "copy" /\ op'.v = area[1] /\ op'.mm = s /\ op'.k = op.k
       /\ op'.child = op.child
  BY <1>2, <1>5, <1>11, <1>12 DEF ForkOp
<1>14. SpaceOK(mem', op'.mm, DOMAIN op'.mm.areas, DOMAIN op'.mm.areas)
  BY <1>1, <1>6, <1>8, <1>11, <1>13, SpaceInserted
<1>15. Within(mem, Roots, mem', op.mm.pgdir)
  BY <1>1, NothingWithin
<1>16. Constant /\ Built' /\ op' # Idle /\ Source' = Source /\ Loads'
  BY <1>1, <1>11, <1>13, <1>14, <1>15, ForkStep DEF Types
<1>17. Copies'
  <2>1. FirstCopied' = op.k
    BY <1>13 DEF FirstCopied
  <2>2. \A i \in DOMAIN new : \E j \in op.k .. n : new[i] = Source.areas[j]
    <3>1. SUFFICES ASSUME NEW i \in DOMAIN new PROVE \E j \in op.k .. n : new[i] = Source.areas[j]
      OBVIOUS
    <3>2. CASE new[i] = area
      BY <1>4, <3>2 DEF area
    <3>3. CASE new[i] # area
      <4>1. PICK x \in DOMAIN op.mm.areas : new[i] = op.mm.areas[x]
        BY <1>8, <3>3 DEF AreaInserted
      <4>2. PICK j \in op.k + 1 .. n : op.mm.areas[x] = Source.areas[j]
        BY <1>3
      <4>3. j \in op.k .. n
        BY <1>4
      <4>4. QED
        BY <4>1, <4>2, <4>3
    <3>4. QED
      BY <3>2, <3>3
  <2>3. \A j \in op.k .. n : \E i \in DOMAIN new : new[i] = Source.areas[j]
    <3>1. SUFFICES ASSUME NEW j \in op.k .. n PROVE \E i \in DOMAIN new : new[i] = Source.areas[j]
      OBVIOUS
    <3>2. CASE j = op.k
      BY <1>8, <3>2 DEF AreaInserted, area
    <3>3. CASE j # op.k
      <4>1. j \in op.k + 1 .. n
        BY <1>4, <3>3
      <4>2. PICK x \in DOMAIN op.mm.areas : op.mm.areas[x] = Source.areas[j]
        BY <1>3, <4>1
      <4>3. QED
        BY <1>8, <4>2 DEF AreaInserted
    <3>4. QED
      BY <3>2, <3>3
  <2>4. \A v \in VPage : get_page(mem', op'.mm.pgdir, v) # 0 => Visited(v)'
    <3>1. SUFFICES ASSUME NEW v \in VPage, get_page(mem, op.mm.pgdir, v) # 0
                   PROVE  \E j \in op.k + 1 .. n : v \in PagesOf(Source.areas[j])
      BY <1>1, <1>11, <1>13, <1>16 DEF Visited
    <3>2. Visited(v)
      BY <1>3, <3>1
    <3>3. QED
      BY <1>1, <3>2 DEF Visited
  <2>5. Source.areas[op.k][1] <= op'.v
    BY <1>5, <1>13 DEF area
  <2>6. QED
    BY <1>4, <1>11, <1>13, <1>16, <2>1, <2>2, <2>3, <2>4, <2>5 DEF Copies
<1>18. QED
  BY <1>16, <1>17 DEF MmInv, Constant

\* dup_mmap comes to the next area.
LEMMA AreaCopiedInv ==
    ASSUME MmInv, AreaCopied
    PROVE  MmInv'
<1> DEFINE n == Len(Source.areas)
<1>1. /\ Types /\ Owned(mem, Roots) /\ Copies
      /\ op.call = "fork" /\ op.stage = "copy" /\ op.v >= Source.areas[op.k][2] /\ mem' = mem
      /\ op' = [op EXCEPT !.stage = "area", !.k = @ - 1]
      /\ UNCHANGED <<mm, pgdir, alive, current, satp, panic, image, lost>>
  BY DEF MmInv, AreaCopied, At, Loading
<1>2. /\ op # Idle /\ op \in ForkOp /\ AreasOK(Source.areas) /\ n \in Nat
      /\ DOMAIN Source.areas = 1 .. n
  BY <1>1, SourceFacts
<1>3. /\ op.k \in 1 .. n /\ FirstCopied = op.k
      /\ \A i \in DOMAIN op.mm.areas : \E j \in op.k .. n : op.mm.areas[i] = Source.areas[j]
      /\ \A j \in op.k .. n : \E i \in DOMAIN op.mm.areas : op.mm.areas[i] = Source.areas[j]
      /\ \A v \in VPage : get_page(mem, op.mm.pgdir, v) # 0 => Visited(v)
  <2>1. op.k \in 0 .. n /\ op.k > 0 /\ FirstCopied = op.k
    BY <1>1, <1>2 DEF Copies, FirstCopied
  <2>2. op.k \in 1 .. n
    BY <2>1
  <2>3. QED
    BY <1>1, <1>2, <2>1, <2>2 DEF Copies
<1>4. op.k - 1 \in Nat /\ (op.k - 1) + 1 = op.k /\ op.k - 1 \in 0 .. n
  BY <1>2, <1>3
<1>5. /\ op' \in ForkOp /\ op'.stage = "area" /\ op'.mm = op.mm /\ op'.k = op.k - 1
      /\ op'.child = op.child
  BY <1>1, <1>2, <1>4 DEF ForkOp
<1>6. /\ Within(mem, Roots, mem', op.mm.pgdir)
      /\ SpaceOK(mem', op'.mm, DOMAIN op'.mm.areas, DOMAIN op'.mm.areas)
  BY <1>1, <1>2, <1>5, NothingWithin, BuiltFacts
<1>7. Constant /\ Built' /\ op' # Idle /\ Source' = Source /\ Loads'
  BY <1>1, <1>5, <1>6, ForkStep DEF Types
<1>8. Copies'
  <2>1. FirstCopied' = op.k
    BY <1>4, <1>5 DEF FirstCopied
  <2>2. \A v \in VPage : get_page(mem', op'.mm.pgdir, v) # 0 => Visited(v)'
    <3>1. SUFFICES ASSUME NEW v \in VPage, get_page(mem, op.mm.pgdir, v) # 0
                   PROVE  \E j \in op.k .. n : v \in PagesOf(Source.areas[j])
      BY <1>1, <1>4, <1>5, <1>7 DEF Visited
    <3>2. CASE \E j \in op.k + 1 .. n : v \in PagesOf(Source.areas[j])
      <4>1. PICK j \in op.k + 1 .. n : v \in PagesOf(Source.areas[j])
        BY <3>2
      <4>2. j \in op.k .. n
        BY <1>3
      <4>3. QED
        BY <4>1, <4>2
    <3>3. CASE v \in PagesOf(Source.areas[op.k])
      BY <1>3, <3>3
    <3>4. Visited(v)
      BY <1>3, <3>1
    <3>5. QED
      BY <3>2, <3>3, <3>4 DEF Visited
  <2>3. QED
    BY <1>3, <1>4, <1>5, <1>7, <2>1, <2>2 DEF Copies
<1>9. QED
  BY <1>7, <1>8 DEF MmInv, Constant

\* copy_range is in an area that parent and child have in common.
LEMMA InArea ==
    ASSUME MmInv, op.call = "fork", op.stage = "copy"
    PROVE  LET n == Len(Source.areas)
           IN  /\ op.k \in 1 .. n /\ n \in Nat /\ op.v \in Nat
               /\ Source.areas[op.k][1] <= op.v /\ IsArea(Source.areas[op.k])
               /\ \A i \in DOMAIN op.mm.areas : \E j \in op.k .. n : op.mm.areas[i] = Source.areas[j]
               /\ \A j \in op.k .. n : \E i \in DOMAIN op.mm.areas : op.mm.areas[i] = Source.areas[j]
               /\ \A v \in VPage : get_page(mem, op.mm.pgdir, v) # 0 => Visited(v)
<1> DEFINE n == Len(Source.areas)
<1>1. Copies /\ op # Idle /\ op \in ForkOp /\ AreasOK(Source.areas) /\ n \in Nat
      /\ DOMAIN Source.areas = 1 .. n
  BY SourceFacts DEF MmInv
<1>2. /\ op.k \in 0 .. n /\ op.k > 0 /\ FirstCopied = op.k /\ Source.areas[op.k][1] <= op.v
      /\ \A i \in DOMAIN op.mm.areas : \E j \in FirstCopied .. n : op.mm.areas[i] = Source.areas[j]
      /\ \A j \in FirstCopied .. n : \E i \in DOMAIN op.mm.areas : op.mm.areas[i] = Source.areas[j]
      /\ \A v \in VPage : get_page(mem, op.mm.pgdir, v) # 0 => Visited(v)
  BY <1>1 DEF Copies, FirstCopied
<1>3. op.k \in 1 .. n /\ op.v \in Nat
  BY <1>1, <1>2 DEF ForkOp
<1>4. IsArea(Source.areas[op.k])
  BY <1>1, <1>3 DEF AreasOK
<1>5. QED
  BY <1>1, <1>2, <1>3, <1>4

\* It goes on to higher pages, having mapped at most pages it has passed.
LEMMA CopyAdvances ==
    ASSUME MmInv, op.call = "fork", op.stage = "copy", op' \in ForkOp,
           op'.stage = "copy", op'.k = op.k, op'.mm = op.mm, op'.v >= op.v, Source' = Source,
           \A w \in VPage : get_page(mem', op.mm.pgdir, w) # 0 =>
             \/ get_page(mem, op.mm.pgdir, w) # 0
             \/ w \in PagesOf(Source.areas[op.k]) /\ w < op'.v
    PROVE  Copies'
<1> DEFINE n == Len(Source.areas)
           d == op.mm.pgdir
<1>1. /\ op.k \in 1 .. n /\ n \in Nat /\ op.v \in Nat /\ Source.areas[op.k][1] <= op.v
      /\ IsArea(Source.areas[op.k])
      /\ \A i \in DOMAIN op.mm.areas : \E j \in op.k .. n : op.mm.areas[i] = Source.areas[j]
      /\ \A j \in op.k .. n : \E i \in DOMAIN op.mm.areas : op.mm.areas[i] = Source.areas[j]
      /\ \A v \in VPage : get_page(mem, op.mm.pgdir, v) # 0 => Visited(v)
  BY InArea
<1>2. op'.v \in Nat /\ Source.areas[op.k][1] \in Nat
  BY <1>1 DEF ForkOp, IsArea
<1>3. ASSUME NEW w \in VPage, get_page(mem', d, w) # 0
      PROVE  \/ \E j \in op.k + 1 .. n : w \in PagesOf(Source.areas[j])
             \/ w \in PagesOf(Source.areas[op.k]) /\ w < op'.v
  <2>1. w \in Nat
    BY NVirtualFacts DEF VPage
  <2>2. CASE get_page(mem, d, w) # 0
    <3>1. Visited(w)
      BY <1>1, <2>2
    <3>2. QED
      BY <1>1, <1>2, <2>1, <3>1 DEF Visited
  <2>3. QED
    BY <1>3, <2>2
<1>4. FirstCopied' = op.k
  BY DEF FirstCopied
<1>5. \A w \in VPage : get_page(mem', op'.mm.pgdir, w) # 0 => Visited(w)'
  BY <1>3 DEF Visited
<1>6. op.k \in 0 .. n /\ op.k > 0 /\ Source.areas[op.k][1] <= op'.v
  BY <1>1, <1>2
<1>7. QED
  BY <1>1, <1>4, <1>5, <1>6 DEF Copies

\* A copy of page q, at the same address of the child.
Copied(m, d, v, q) == page_insert(Taken(m, Min(m.free), m.cell[q]), d, Min(m.free), v)

PageCopied(m, R, m2, d, v, q) ==
    /\ Within(m, R, m2, d) /\ Owned(m2, R)
    /\ \A w \in VPage :
         /\ TableOf(m2, d, w) = TableOf(m, d, w)
         /\ get_page(m2, d, w) = IF w = v THEN Min(m.free) ELSE get_page(m, d, w)
    /\ m2.cell = [m.cell EXCEPT ![Min(m.free)] = m.cell[q]]
    /\ Min(m.free) \in m.free

LEMMA CopyFacts ==
    ASSUME NEW m, NEW R, Owned(m, R), NEW d \in R, NEW v \in VPage, NEW q \in Page,
           m.free # {}, TableOf(m, d, v) # 0, get_page(m, d, v) = 0
    PROVE  PageCopied(m, R, Copied(m, d, v, q), d, v, q)
<1> DEFINE nq == Min(m.free)
           m0 == Taken(m, nq, m.cell[q])
           m2 == Copied(m, d, v, q)
<1>1. m \in MemType /\ Apart(m, R) /\ \A p \in m.free : m.ref[p] = 0
  BY LevelsApart DEF Owned
<1>2. m.free \subseteq Page /\ m.cell \in [Page -> [Offset -> Value]]
  BY <1>1, MemFacts
<1>3. nq \in m.free /\ nq \in Page
  <2>1. m.free \subseteq Nat
    BY <1>2, MmAssumption DEF Page
  <2>2. QED
    BY <1>2, <2>1, MinIsMember
<1>4. m.cell[q] \in [Offset -> Value]
  BY <1>2
<1> HIDE DEF nq
<1>5. /\ Owned(m0, R) /\ m0.entry = m.entry /\ m0.free = m.free \ {nq} /\ m0.ref = m.ref
      /\ m0.cell = [m.cell EXCEPT ![nq] = m.cell[q]]
  BY <1>3, <1>4, TakePage
<1> HIDE DEF m0
<1>6. /\ nq \notin m0.free /\ nq \notin Live(m0.entry, R) \cup Mapped(m0.entry, R)
      /\ m0.ref[nq] = 0
  BY <1>1, <1>3, <1>5 DEF Apart
<1>7. TableOf(m0, d, v) # 0 /\ get_page(m0, d, v) = 0
  BY <1>5, SameTables
<1>8. m2 = page_insert(m0, d, nq, v)
  BY DEF Copied, m0, nq
<1> HIDE DEF m2
<1>9. PageInserted(m0, R, m2, d, nq, v)
  BY <1>3, <1>5, <1>6, <1>7, <1>8, PageInsertFacts
<1>10. /\ Owned(m2, R) /\ Untouched(m0, R, m2, R) /\ m2.free = m0.free
       /\ Mapped(m2.entry, R) = Mapped(m0.entry, R) \cup {nq} /\ m2.cell = m0.cell
       /\ Live(m2.entry, R) = Live(m0.entry, R)
       /\ \A e \in R : \A w \in VPage :
            /\ TableOf(m2, e, w) = TableOf(m0, e, w)
            /\ get_page(m2, e, w) = IF e = d /\ w = v THEN nq ELSE get_page(m0, e, w)
  BY <1>9 DEF PageInserted
<1>11. \A e \in R : \A w \in VPage :
            /\ TableOf(m2, e, w) = TableOf(m, e, w)
            /\ get_page(m2, e, w) = IF e = d /\ w = v THEN nq ELSE get_page(m, e, w)
  BY <1>5, <1>10, SameTables
<1>12. \A p \in Page : p # nq => m2.cell[p] = m.cell[p]
  BY <1>2, <1>5, <1>10
<1>13. RestEmpty(m, R, m2, R)
  <2>1. Cleaned(m, R, m2, R)
    BY <1>5, <1>10, <1>12 DEF Untouched, Cleaned
  <2>2. NoneGained(m, R, m2, R)
    BY <1>3, <1>5, <1>10 DEF NoneGained
  <2>3. QED
    BY <2>1, <2>2 DEF RestEmpty
<1>14. ASSUME NEW e \in R \ {d} PROVE Same(m, m2, e)
  <2>1. ASSUME NEW w \in VPage, get_page(m, e, w) # 0
        PROVE  m2.cell[get_page(m, e, w)] = m.cell[get_page(m, e, w)]
    <3>1. Path(m, R, e, w)
      BY <1>1, PathFacts DEF Owned
    <3>2. get_page(m, e, w) \in Page /\ get_page(m, e, w) # nq
      BY <1>1, <1>3, <2>1, <3>1 DEF Path, Apart
    <3>3. QED
      BY <1>12, <3>2
  <2>2. QED
    BY <1>11, <2>1 DEF Same, Kept
<1>15. Within(m, R, m2, d)
  BY <1>10, <1>13, <1>14 DEF Within
<1>16. QED
  BY <1>3, <1>5, <1>10, <1>11, <1>15 DEF PageCopied, m2, nq

\* Page w of the parent has a copy.
HasCopy(m, m2, s, d, w) ==
    get_page(m2, d, w) # 0 /\ m2.cell[get_page(m2, d, w)] = m.cell[get_page(m, s, w)]

\* The pages that copy_range passes are not mapped in the parent, or copied.
RangeCopied ==
    \/ op'.stage = "unmap"
    \/ /\ op'.call = "fork" /\ op'.stage = "copy" /\ op'.mm.pgdir = op.mm.pgdir /\ op'.k = op.k
       /\ op'.v \in Nat /\ Source' = Source /\ Grows(mem, mem', op.mm.pgdir)
       /\ \A w \in PagesOf(Source.areas[op.k]) : w < op'.v =>
            \/ w < op.v \/ get_page(mem, Source.pgdir, w) = 0
            \/ HasCopy(mem, mem', Source.pgdir, op.mm.pgdir, w)

\* Pages with the same table.
LEMMA NoTable ==
    ASSUME NEW m, NEW d, NEW v \in VPage, TableOf(m, d, v) = 0,
           NEW w \in VPage, v <= w, w < (v \div NPTEENTRY + 1) * NPTEENTRY
    PROVE  get_page(m, d, w) = 0
<1> DEFINE N == NPTEENTRY
           x == v \div N
           y == w \div N
<1>1. N \in Nat \ {0} /\ v \in Nat /\ w \in Nat
  BY MmAssumption DEF VPage
<1>2. x \in Nat /\ y \in Nat /\ v >= N * x /\ w < (x + 1) * N
  <2>1. x \in Nat /\ y \in Nat /\ v = N * x + (v % N) /\ v % N \in 0 .. N - 1
    BY <1>1, DivFacts
  <2> HIDE DEF x
  <2>2. N * x \in Nat
    BY <1>1, <2>1
  <2>3. QED
    BY <1>1, <2>1, <2>2 DEF x
<1>3. y = x
  <2> DEFINE r == w - N * x
  <2> HIDE DEF x, y
  <2>1. N * x \in Nat /\ (x + 1) * N = N * x + N
    BY <1>1, <1>2
  <2>2. r \in 0 .. N - 1 /\ w = N * x + r
    BY <1>1, <1>2, <2>1
  <2> HIDE DEF r
  <2>3. (N * x + r) \div N = x
    BY <1>1, <1>2, <2>2, DivUnique
  <2>4. QED
    BY <2>2, <2>3 DEF y
<1>4. PDX1(w) = PDX1(v) /\ PDX0(w) = PDX0(v)
  <2>1. /\ x = N * PDX1(v) + PDX0(v) /\ y = N * PDX1(w) + PDX0(w)
        /\ PDX1(v) \in Index /\ PDX0(v) \in Index /\ PDX1(w) \in Index /\ PDX0(w) \in Index
    BY IndexFacts
  <2>2. /\ PDX1(v) \in Nat /\ PDX1(w) \in Nat
        /\ PDX0(v) \in 0 .. N - 1 /\ PDX0(w) \in 0 .. N - 1
    BY <1>1, <2>1 DEF Index
  <2> HIDE DEF x, y, N
  <2>3. x \div N = PDX1(v) /\ x % N = PDX0(v)
    BY <1>1, <2>1, <2>2, DivUnique
  <2>4. y \div N = PDX1(w) /\ y % N = PDX0(w)
    BY <1>1, <2>1, <2>2, DivUnique
  <2>5. QED
    BY <1>3, <2>3, <2>4
<1>5. TableOf(m, d, w) = 0
  BY <1>4 DEF TableOf
<1>6. QED
  BY <1>5 DEF get_page, Follow

\* One turn of copy_range.
LEMMA CopyRangeInv ==
    ASSUME MmInv, copy_range
    PROVE  MmInv' /\ SpacesKept /\ RangeCopied
<1> DEFINE d  == op.mm.pgdir
           v  == op.v
           q  == get_page(mem, Source.pgdir, v)
           m  == get_pte(mem, d, v)
           A  == op.mm.areas
           n  == Len(Source.areas)
           next == (v \div NPTEENTRY + 1) * NPTEENTRY
<1>1. /\ Types /\ Owned(mem, Roots) /\ Copies
      /\ op.call = "fork" /\ op.stage = "copy" /\ v < Source.areas[op.k][2]
  BY DEF MmInv, copy_range, At
<1>2. /\ op # Idle /\ op \in ForkOp /\ Source.pgdir \in Roots
  BY <1>1, SourceFacts
<1>3. /\ op.k \in 1 .. n /\ n \in Nat /\ v \in Nat
      /\ Source.areas[op.k][1] <= v /\ IsArea(Source.areas[op.k])
      /\ \A i \in DOMAIN A : \E j \in op.k .. n : A[i] = Source.areas[j]
      /\ \A j \in op.k .. n : \E i \in DOMAIN A : A[i] = Source.areas[j]
      /\ \A w \in VPage : get_page(mem, d, w) # 0 => Visited(w)
      /\ AreasOK(Source.areas) /\ DOMAIN Source.areas = 1 .. n
  BY <1>1, InArea, SourceFacts
<1>4. SpaceOK(mem, op.mm, DOMAIN A, DOMAIN A) /\ AreasOK(A) /\ d \in Roots
  BY <1>1, <1>2, BuiltFacts
<1>5. v \in PagesOf(Source.areas[op.k]) /\ v \in VPage
  <2>1. v \in PagesOf(Source.areas[op.k])
    BY <1>1, <1>3 DEF PagesOf, IsArea
  <2>2. QED
    BY <1>3, <2>1, AreaFacts
<1>6. get_page(mem, d, v) = 0
  <2>1. SUFFICES ASSUME get_page(mem, d, v) # 0 PROVE FALSE
    OBVIOUS
  <2>2. Visited(v)
    BY <1>3, <1>5, <2>1
  <2>3. ~(v < v)
    BY <1>3
  <2>4. PICK j \in op.k + 1 .. n : v \in PagesOf(Source.areas[j])
    BY <2>2, <2>3 DEF Visited
  <2>5. j \in 1 .. n /\ j # op.k
    BY <1>3
  <2>6. QED
    BY <1>3, <1>5, <2>4, <2>5 DEF AreasOK
<1>7. PICK i \in DOMAIN A : A[i] = Source.areas[op.k]
  <2>1. op.k \in op.k .. n
    BY <1>3
  <2>2. QED
    BY <1>3, <2>1
<1>8. v + 1 \in Nat /\ v < v + 1 /\ next \in Nat /\ v < next
  <2> DEFINE x == v \div NPTEENTRY
             r == v % NPTEENTRY
  <2>1. /\ NPTEENTRY \in Nat \ {0} /\ x \in Nat /\ r \in 0 .. NPTEENTRY - 1
        /\ v = NPTEENTRY * x + r /\ next = (x + 1) * NPTEENTRY
    BY <1>3, MmAssumption, DivFacts
  <2> HIDE DEF x, r, next
  <2>2. next = NPTEENTRY * x + NPTEENTRY /\ NPTEENTRY * x \in Nat
    BY <2>1
  <2>3. QED
    BY <1>3, <2>1, <2>2
<1> HIDE DEF next
\* The page of the parent is skipped.
<1>9. ASSUME NEW x \in {v + 1, next}, Loading(mem, [op EXCEPT !.v = x]),
             \A w \in PagesOf(Source.areas[op.k]) :
               v <= w /\ w < x => get_page(mem, Source.pgdir, w) = 0
      PROVE  MmInv' /\ SpacesKept /\ RangeCopied
  <2>1. /\ mem' = mem /\ op' = [op EXCEPT !.v = x] /\ x \in Nat /\ v < x
        /\ UNCHANGED <<mm, pgdir, alive, current, satp, panic, image, lost>>
    BY <1>8, <1>9 DEF Loading
  <2>2. /\ op' \in ForkOp /\ op'.stage = "copy" /\ op'.mm = op.mm /\ op'.k = op.k
        /\ op'.child = op.child /\ op'.v = x
    BY <1>1, <1>2, <2>1 DEF ForkOp
  <2>3. /\ Within(mem, Roots, mem', d)
        /\ SpaceOK(mem', op'.mm, DOMAIN op'.mm.areas, DOMAIN op'.mm.areas)
    BY <1>1, <1>4, <2>1, <2>2, NothingWithin
  <2>4. Constant /\ Built' /\ op' # Idle /\ Source' = Source /\ Loads'
    BY <1>1, <2>1, <2>2, <2>3, ForkStep DEF Types
  <2>5. op'.v >= op.v
    BY <1>3, <2>1, <2>2
  <2>6. Copies'
    BY <1>1, <2>1, <2>2, <2>4, <2>5, CopyAdvances
  <2>7. RangeCopied
    <3>1. \A w \in PagesOf(Source.areas[op.k]) : w < op'.v =>
            w < op.v \/ get_page(mem, Source.pgdir, w) = 0
      <4>1. SUFFICES ASSUME NEW w \in PagesOf(Source.areas[op.k]), w < x, ~(w < v)
                     PROVE  get_page(mem, Source.pgdir, w) = 0
        BY <2>2
      <4>2. w \in Nat
        BY <1>3, AreaFacts DEF VPage
      <4>3. v <= w
        BY <1>3, <4>1, <4>2
      <4>4. QED
        BY <1>9, <4>1, <4>3
    <3>2. op'.call = "fork" /\ op'.v \in Nat
      BY <2>1, <2>2 DEF ForkOp
    <3>3. Grows(mem, mem', d)
      BY <2>1 DEF Grows
    <3>4. QED
      BY <2>2, <2>4, <3>1, <3>2, <3>3 DEF RangeCopied
  <2>8. QED
    BY <2>4, <2>6, <2>7 DEF MmInv, Constant
\* Tables for the page of the child.
<1>10. TablesAdded(mem, Roots, m, d, v)
  BY <1>1, <1>4, <1>5, GetPteFacts
<1> HIDE DEF m
<1>11. /\ Within(mem, Roots, m, d) /\ Owned(m, Roots)
       /\ \A w \in VPage : get_page(m, d, w) = get_page(mem, d, w)
       /\ \A w \in VPage : \/ TableOf(m, d, w) = TableOf(mem, d, w)
                           \/ PDX1(w) = PDX1(v) /\ PDX0(w) = PDX0(v)
       /\ Kept(mem, m, d) /\ Kept(mem, m, Source.pgdir)
  <2>1. Within(mem, Roots, m, d)
    BY <1>10, StepsWithin
  <2>2. Kept(mem, m, d) /\ Kept(mem, m, Source.pgdir)
    BY <1>2, <1>4, <1>10 DEF TablesAdded
  <2>3. QED
    BY <1>4, <1>10, <2>1, <2>2 DEF TablesAdded, Kept
<1>12. SpaceOK(m, op.mm, DOMAIN A, DOMAIN A)
  <2>1. PagesIn(m, d, A, DOMAIN A)
    BY <1>4, <1>11 DEF SpaceOK, PagesIn
  <2>2. TablesIn(m, d, A, DOMAIN A)
    BY <1>4, <1>5, <1>7, <1>11 DEF SpaceOK, TablesIn
  <2>3. QED
    BY <1>4, <2>1, <2>2 DEF SpaceOK
<1>13. CASE Loading(m, [op EXCEPT !.stage = "unmap", !.k = 1])
  <2>1. /\ mem' = m /\ op' = [op EXCEPT !.stage = "unmap", !.k = 1]
        /\ UNCHANGED <<mm, pgdir, alive, current, satp, panic, image, lost>>
    BY <1>13 DEF Loading
  <2>2. /\ op' \in ForkOp /\ op'.stage = "unmap" /\ op'.mm = op.mm /\ op'.k = 1
        /\ op'.child = op.child
    BY <1>1, <1>2, <2>1 DEF ForkOp
  <2>3. Constant /\ Built' /\ op' # Idle /\ Loads'
    BY <1>1, <1>11, <1>12, <2>1, <2>2, ForkStep DEF Types
  <2>4. Copies'
    BY <2>2, <2>3, Elsewhere
  <2>5. QED
    BY <2>2, <2>3, <2>4 DEF MmInv, Constant, RangeCopied
<1>14. CASE Panic(m)
  <2>1. /\ mem' = m /\ op' = op /\ panic' \in BOOLEAN
        /\ UNCHANGED <<mm, pgdir, alive, current, satp, image, lost>>
    BY <1>14 DEF Panic
  <2>2. Constant /\ Built' /\ op' # Idle /\ Source' = Source /\ Loads'
    BY <1>1, <1>2, <1>11, <1>12, <2>1, ForkStep
  <2>3. op'.v >= op.v
    BY <1>3, <2>1
  <2>4. Copies'
    BY <1>1, <1>2, <1>11, <2>1, <2>2, <2>3, CopyAdvances
  <2>5. RangeCopied
    <3>1. Grows(mem, mem', d)
      BY <1>11, <2>1 DEF Grows, Kept
    <3>2. QED
      BY <1>1, <1>3, <2>1, <2>2, <3>1 DEF RangeCopied
  <2>6. QED
    BY <2>2, <2>4, <2>5 DEF MmInv, Constant
<1>15. CASE /\ q # 0 /\ TableOf(m, d, v) # 0 /\ m.free # {}
            /\ Loading(Copied(m, d, v, q), [op EXCEPT !.v = @ + 1])
  <2>1. /\ mem' = Copied(m, d, v, q) /\ op' = [op EXCEPT !.v = v + 1]
        /\ UNCHANGED <<mm, pgdir, alive, current, satp, panic, image, lost>>
    BY <1>15 DEF Loading
  <2>2. q \in Page
    <3>1. Apart(mem, Roots) /\ Path(mem, Roots, Source.pgdir, v)
      BY <1>1, <1>2, <1>5, LevelsApart, PathFacts DEF Owned
    <3>2. QED
      BY <1>15, <3>1 DEF Apart, Path
  <2> HIDE DEF q
  <2>3. get_page(m, d, v) = 0
    BY <1>5, <1>6, <1>11
  <2>4. PageCopied(m, Roots, mem', d, v, q)
    BY <1>4, <1>5, <1>11, <1>15, <2>1, <2>2, <2>3, CopyFacts
  <2>5. /\ Within(m, Roots, mem', d)
        /\ \A w \in VPage : /\ TableOf(mem', d, w) = TableOf(m, d, w)
                            /\ w # v => get_page(mem', d, w) = get_page(mem, d, w)
    BY <1>11, <2>4 DEF PageCopied
  <2>6. Within(mem, Roots, mem', d)
    BY <1>11, <2>5, WithinTwice
  <2>7. SpaceOK(mem', op.mm, DOMAIN A, DOMAIN A)
    <3>1. PagesIn(mem', d, A, DOMAIN A)
      BY <1>4, <1>5, <1>7, <2>5 DEF SpaceOK, PagesIn
    <3>2. TablesIn(mem', d, A, DOMAIN A)
      BY <1>12, <2>5 DEF SpaceOK, TablesIn
    <3>3. QED
      BY <1>4, <3>1, <3>2 DEF SpaceOK
  <2>8. /\ op' \in ForkOp /\ op'.stage = "copy" /\ op'.mm = op.mm /\ op'.k = op.k
        /\ op'.child = op.child /\ op'.v = v + 1
    BY <1>1, <1>2, <1>8, <2>1 DEF ForkOp
  <2>9. Constant /\ Built' /\ op' # Idle /\ Source' = Source /\ Loads'
    BY <1>1, <2>1, <2>6, <2>7, <2>8, ForkStep DEF Types
  <2>10. op'.v >= op.v /\ v < op'.v
    BY <1>3, <2>8
  <2>11. \A w \in VPage : get_page(mem', op.mm.pgdir, w) # 0 =>
             \/ get_page(mem, op.mm.pgdir, w) # 0
             \/ w \in PagesOf(Source.areas[op.k]) /\ w < op'.v
    BY <1>5, <2>5, <2>10
  <2>12. Copies'
    BY <1>1, <2>8, <2>9, <2>10, <2>11, CopyAdvances
  <2>13. RangeCopied
    <3> DEFINE nq == Min(m.free)
    <3>1. /\ nq \in m.free /\ m.free \subseteq Page /\ nq # 0
          /\ m.cell \in [Page -> [Offset -> Value]] /\ mem'.cell = [m.cell EXCEPT ![nq] = m.cell[q]]
          /\ \A w \in VPage : get_page(mem', d, w) = IF w = v THEN nq ELSE get_page(m, d, w)
      <4>1. nq \in m.free /\ m.free \subseteq Page /\ m.cell \in [Page -> [Offset -> Value]]
        BY <1>11, <2>4, MemFacts DEF PageCopied, Owned
      <4>2. nq # 0
        BY <4>1, MmAssumption DEF Page
      <4>3. QED
        BY <2>4, <4>1, <4>2 DEF PageCopied
    <3> HIDE DEF nq
    <3>2. HasCopy(mem, mem', Source.pgdir, d, v)
      <4>1. mem'.cell[nq] = m.cell[q]
        BY <3>1
      <4>2. q = get_page(mem, Source.pgdir, v) /\ q # 0
        BY <1>15 DEF q
      <4>3. m.cell[q] = mem.cell[q]
        BY <1>5, <1>11, <4>2 DEF Kept
      <4>4. QED
        BY <1>5, <3>1, <4>1, <4>2, <4>3 DEF HasCopy
    <3>3. Grows(mem, mem', d)
      <4>1. SUFFICES ASSUME NEW w \in VPage, get_page(mem, d, w) # 0
                     PROVE  /\ get_page(mem', d, w) = get_page(mem, d, w)
                            /\ mem'.cell[get_page(mem, d, w)] = mem.cell[get_page(mem, d, w)]
        BY DEF Grows
      <4>2. w # v /\ get_page(mem', d, w) = get_page(m, d, w)
        BY <1>6, <3>1, <4>1
      <4>3. /\ get_page(m, d, w) = get_page(mem, d, w)
            /\ m.cell[get_page(mem, d, w)] = mem.cell[get_page(mem, d, w)]
        BY <1>11, <4>1 DEF Kept
      <4>4. get_page(m, d, w) \in Page /\ get_page(m, d, w) # nq
        <5>1. Apart(m, Roots) /\ Path(m, Roots, d, w)
          BY <1>4, <1>11, LevelsApart, PathFacts DEF Owned
        <5>2. QED
          BY <3>1, <4>1, <4>3, <5>1 DEF Apart, Path
      <4>5. QED
        BY <3>1, <4>2, <4>3, <4>4
    <3>4. \A w \in PagesOf(Source.areas[op.k]) : w < v + 1 => w < v \/ w = v
      <4>1. \A w \in PagesOf(Source.areas[op.k]) : w \in Nat
        BY <1>3, AreaFacts DEF VPage
      <4>2. QED
        BY <1>3, <4>1
    <3>5. op'.call = "fork" /\ op'.v \in Nat
      BY <1>8, <2>8 DEF ForkOp
    <3>6. QED
      BY <2>8, <2>9, <3>2, <3>3, <3>4, <3>5 DEF RangeCopied
  <2>14. QED
    BY <2>9, <2>12, <2>13 DEF MmInv, Constant
<1>16. \/ /\ TableOf(mem, Source.pgdir, v) = 0
          /\ Loading(mem, [op EXCEPT !.v = next])
       \/ get_page(mem, Source.pgdir, v) = 0 /\ Loading(mem, [op EXCEPT !.v = v + 1])
       \/ Loading(m, [op EXCEPT !.stage = "unmap", !.k = 1]) \/ Panic(m)
       \/ /\ q # 0 /\ TableOf(m, d, v) # 0 /\ m.free # {}
          /\ Loading(Copied(m, d, v, q), [op EXCEPT !.v = @ + 1])
  BY DEF copy_range, Copied, Taken, m, next
<1>17. CASE TableOf(mem, Source.pgdir, v) = 0 /\ Loading(mem, [op EXCEPT !.v = next])
  <2>1. ASSUME NEW w \in PagesOf(Source.areas[op.k]), v <= w, w < next
        PROVE  get_page(mem, Source.pgdir, w) = 0
    <3>1. w \in VPage
      BY <1>3, AreaFacts
    <3>2. QED
      BY <1>5, <1>17, <2>1, <3>1, NoTable DEF next
  <2>2. QED
    BY <1>9, <1>17, <2>1
<1>18. CASE get_page(mem, Source.pgdir, v) = 0 /\ Loading(mem, [op EXCEPT !.v = v + 1])
  <2>1. ASSUME NEW w \in PagesOf(Source.areas[op.k]), v <= w, w < v + 1
        PROVE  get_page(mem, Source.pgdir, w) = 0
    <3>1. w \in Nat
      BY <1>3, AreaFacts DEF VPage
    <3>2. w = v
      BY <1>3, <2>1, <3>1
    <3>3. QED
      BY <1>18, <3>2
  <2>2. QED
    BY <1>9, <1>18, <2>1
<1>19. QED
  BY <1>13, <1>14, <1>15, <1>16, <1>17, <1>18

\* The child gets its address space, or copy_files fails and the clean-up loses it.
LEMMA CopyEndsInv ==
    ASSUME MmInv, CopyEnds
    PROVE  MmInv'
<1> DEFINE d == op.mm.pgdir
           c == op.child
<1>1. /\ Types /\ Holders /\ Owned(mem, Roots) /\ Held /\ Left(mem, Roots, lost)
      /\ op.call = "fork" /\ op.stage = "area" /\ op' = Idle
      /\ UNCHANGED <<mem, current, satp, panic>>
  BY DEF MmInv, CopyEnds, At
<1>2. op # Idle /\ op \in ForkOp /\ c \in Proc /\ c \notin alive /\ OpIs /\ current \in alive
  BY <1>1, SourceFacts, OpFacts
<1>3. /\ SpaceOK(mem, op.mm, DOMAIN op.mm.areas, DOMAIN op.mm.areas) /\ d \in Roots
      /\ d \in Page /\ d # Boot /\ op.mm \in MmType /\ op.mm # NULL
      /\ \A p \in Proc : mm[p] # NULL => mm[p].pgdir # d
  <2>1. d \in Roots /\ d \in Page
    BY <1>1, <1>2, RootsFacts
  <2>2. d # Boot /\ \A p \in Proc : mm[p] # NULL => mm[p].pgdir # d
    BY <1>1, <1>2 DEF Holders
  <2>3. op.mm \in MmType /\ op.mm # NULL
    BY <1>2, MmAssumption DEF OpIs
  <2>4. QED
    BY <1>1, <1>2, <2>1, <2>2, <2>3, BuiltFacts
<1>4. Built' /\ Loads' /\ Copies'
  BY <1>1 DEF Built, Loads, Segments, FilePart, BssPart, StackPart, Is, Copies
<1>5. mm[c] = NULL
  BY <1>1, <1>2 DEF Holders
<1>6. CASE /\ alive' = alive \cup {c} /\ mm' = [mm EXCEPT ![c] = op.mm]
           /\ pgdir' = [pgdir EXCEPT ![c] = d] /\ lost' = lost
  <2>1. /\ mm'[c] = op.mm /\ \A p \in Proc : p # c => mm'[p] = mm[p]
        /\ pgdir'[c] = d /\ \A p \in Proc : p # c => pgdir'[p] = pgdir[p]
    BY <1>1, <1>2, <1>6 DEF Types
  <2>2. Types'
    BY <1>1, <1>2, <1>3, <1>6 DEF Types
  <2>3. Roots' = Roots
    <3>1. Roots = {mm[p].pgdir : p \in {r \in Proc : mm[r] # NULL}} \cup {d}
      BY <1>2, <1>3 DEF Roots
    <3>2. Roots' = {mm'[p].pgdir : p \in {r \in Proc : mm'[r] # NULL}}
      BY <1>1 DEF Roots
    <3>3. QED
      BY <1>2, <1>3, <1>5, <2>1, <3>1, <3>2
  <2>4. Holders'
    <3>1. \A p \in Proc : mm'[p] # NULL => p \in alive' /\ mm'[p].pgdir \in Page
      BY <1>1, <1>3, <1>6, <2>1 DEF Holders
    <3>2. \A p, r \in Proc :
            mm'[p] # NULL /\ mm'[r] # NULL /\ mm'[p].pgdir = mm'[r].pgdir => p = r
      BY <1>1, <1>3, <2>1 DEF Holders
    <3>3. alive \subseteq Proc /\ current \in Proc /\ current # c
      BY <1>1, <1>2 DEF Types
    <3>4. \A p \in Proc : mm'[p] # NULL => pgdir'[p] = mm'[p].pgdir
      BY <1>1, <1>3, <2>1 DEF Holders
    <3>5. current' \in alive' /\ satp' = pgdir'[current']
      BY <1>1, <1>2, <1>6, <2>1, <3>3 DEF Holders
    <3>6. QED
      BY <1>1, <3>1, <3>2, <3>4, <3>5 DEF Holders
  <2>5. Held'
    BY <1>1, <1>2, <1>3, <2>1 DEF Held
  <2>6. QED
    BY <1>1, <1>4, <1>6, <2>2, <2>3, <2>4, <2>5 DEF MmInv
<1>7. CASE lost' = lost \cup Reach(mem, d) /\ UNCHANGED <<mm, pgdir, alive, image>>
  <2>1. Gone(mem, mem, Roots, d, lost \cup Reach(mem, d))
    BY <1>1, <1>3, DropGone
  <2>2. Owned(mem', Roots') /\ Left(mem', Roots', lost') /\ Held'
    BY <1>1, <1>2, <1>7, <2>1, GoneRest
  <2>3. lost' \subseteq Page
    <3>1. mem \in MemType /\ lost \subseteq Page
      BY <1>1 DEF Owned, Types
    <3>2. QED
      BY <1>3, <1>7, <3>1, ReachIsPages
  <2>4. Types'
    BY <1>1, <1>7, <2>3 DEF Types
  <2>5. Holders'
    BY <1>1, <1>7 DEF Holders
  <2>6. QED
    BY <1>4, <2>2, <2>4, <2>5 DEF MmInv
<1>8. QED
  BY <1>6, <1>7 DEF CopyEnds

-----------------------------------------------------------------------------
\* What user code finds at an address.

\* Where a process has contents of memory, there are addresses, and without an
\* address space it has none.
Images ==
    /\ DOMAIN image = Proc
    /\ \A p \in Proc : DOMAIN image[p] \subseteq 0 .. USTACKTOP - 1
    /\ \A p \in Proc : mm[p] = NULL => DOMAIN image[p] = {}

\* An address of a program or its arguments is one of user memory.
LEMMA LoadedDomain ==
    ASSUME NEW prog \in Program, NEW n \in ArgSize
    PROVE  DOMAIN Loaded(prog, n) \subseteq 0 .. USTACKTOP - 1
<1>1. /\ USTACKTOP \in Nat /\ PGSIZE \in Nat \ {0} /\ NVirtual \in Nat
      /\ USTACKPAGE \in 1 .. NVirtual /\ n \in 0 .. USTACKPAGE * PGSIZE
      /\ USTACKTOP = NVirtual * PGSIZE
  BY MmAssumption, NVirtualFacts
<1>2. USTACKPAGE * PGSIZE <= NVirtual * PGSIZE /\ USTACKPAGE * PGSIZE \in Nat
  BY <1>1
<1>3. n \in Nat /\ n <= USTACKTOP
  BY <1>1, <1>2
<1>4. \A i \in DOMAIN prog :
        prog[i].va .. prog[i].va + prog[i].memsz - 1 \subseteq 0 .. USTACKTOP - 1
  BY ProgramFacts
<1>5. DOMAIN Loaded(prog, n)
        = (UNION {prog[i].va .. prog[i].va + prog[i].memsz - 1 : i \in DOMAIN prog})
            \cup (USTACKTOP - n .. USTACKTOP - 1)
  BY DEF Loaded
<1> DEFINE S(i) == prog[i].va .. prog[i].va + prog[i].memsz - 1
           A    == USTACKTOP - n .. USTACKTOP - 1
<1>6. \A i \in DOMAIN prog : S(i) \subseteq 0 .. USTACKTOP - 1
  BY <1>4
<1>7. A \subseteq 0 .. USTACKTOP - 1
  BY <1>1, <1>3
<1>8. DOMAIN Loaded(prog, n) = (UNION {S(i) : i \in DOMAIN prog}) \cup A
  BY <1>5
<1> HIDE DEF S, A
<1>9. (UNION {S(i) : i \in DOMAIN prog}) \subseteq 0 .. USTACKTOP - 1
  BY <1>6
<1>10. QED
  BY <1>7, <1>8, <1>9

\* Each call keeps track of what the process will find.
LEMMA ImagesInv ==
    ASSUME MmInv, Images, [Next]_vars
    PROVE  Images'
<1>1. Types /\ DOMAIN mm = Proc
  BY DEF MmInv, Types
<1>2. ASSUME UNCHANGED <<mm, image>>
      PROVE  Images'
  BY <1>2 DEF Images
<1>3. ASSUME Leave
      PROVE  Images'
  <2>1. mm' = [mm EXCEPT ![current] = NULL] /\ image' = [image EXCEPT ![current] = <<>>]
    BY <1>3 DEF Leave
  <2>2. DOMAIN <<>> = {}
    OBVIOUS
  <2>3. QED
    BY <1>1, <2>1, <2>2 DEF Images
<1>4. CASE LoadEnds
  <2>1. \/ UNCHANGED <<mm, image>>
        \/ /\ mm' = [mm EXCEPT ![current] = op.mm]
           /\ image' = [image EXCEPT ![current] = Loaded(op.prog, op.arg)]
    BY <1>4 DEF LoadEnds, Panic
  <2>2. op.prog \in Program /\ op.arg \in ArgSize /\ op.mm \in MmType /\ op.mm # NULL
    <3>1. op.call = "exec"
      BY <1>4 DEF LoadEnds, At
    <3>2. op \in ExecOp
      BY <1>1, <3>1, OpFacts DEF OpIs
    <3>3. QED
      BY <3>2, MmAssumption DEF ExecOp
  <2>3. DOMAIN Loaded(op.prog, op.arg) \subseteq 0 .. USTACKTOP - 1
    BY <2>2, LoadedDomain
  <2>4. QED
    BY <1>1, <1>2, <2>1, <2>2, <2>3 DEF Images
<1>5. CASE CopyEnds
  <2>1. \/ UNCHANGED <<mm, image>>
        \/ /\ mm' = [mm EXCEPT ![op.child] = op.mm]
           /\ image' = [image EXCEPT ![op.child] = image[current]]
    BY <1>5 DEF CopyEnds
  <2>2. op.mm # NULL /\ current \in Proc
    <3>1. op.call = "fork"
      BY <1>5 DEF CopyEnds, At
    <3>2. op.mm \in MmType /\ current \in alive
      BY <1>1, <3>1, SourceFacts, OpFacts DEF OpIs
    <3>3. QED
      BY <1>1, <3>2, MmAssumption DEF Types
  <2>3. QED
    BY <1>1, <1>2, <2>1, <2>2 DEF Images
<1>6. CASE \E a \in StoreAt : Store(a)
  <2>1. PICK a \in StoreAt : mm' = mm /\ image' = [image EXCEPT ![current][a] = Stored]
    BY <1>6 DEF Store
  <2>2. /\ DOMAIN image' = DOMAIN image
        /\ \A p \in DOMAIN image : DOMAIN image'[p] = DOMAIN image[p]
    BY <2>1
  <2>3. QED
    BY <2>1, <2>2 DEF Images
<1>6a. CASE \E a \in StoreAt : StoreAstray(a)
  <2>1. PICK a \in StoreAt : StoreAstray(a)
    BY <1>6a
  <2>2. /\ mm' = mm /\ DOMAIN image' = Proc
        /\ \A p \in Proc : DOMAIN image'[p] \subseteq DOMAIN image[p]
    BY <2>1 DEF StoreAstray
  <2>3. QED
    BY <2>2 DEF Images
<1>7. CASE do_exit
  BY <1>3, <1>7 DEF do_exit
<1>8. CASE \E prog \in Program, n \in ArgSize : do_execve(prog, n)
  BY <1>3, <1>8 DEF do_execve
<1>9. CASE schedule \/ ExitAstray \/ UnmapArea \/ ExitArea \/ put_pgdir \/ (\E c \in Proc : do_fork(c))
  BY <1>2, <1>9 DEF schedule, ExitAstray, UnmapArea, ExitArea, put_pgdir, do_fork
<1>10. CASE setup_pgdir \/ NextSegment \/ MapStack
  BY <1>2, <1>10 DEF setup_pgdir, NextSegment, MapStack, mm_map, Loading, LoadFails, Panic
<1>11. CASE LoadPage \/ ClearRest \/ ClearPage \/ SegmentDone \/ StackPage
  BY <1>2, <1>11 DEF LoadPage, ClearRest, ClearPage, SegmentDone, StackPage, Loading, LoadFails,
                     LoadGivesUp, Panic
<1>12. CASE dup_mmap \/ copy_range \/ AreaCopied
  BY <1>2, <1>12 DEF dup_mmap, copy_range, AreaCopied, Loading, Panic
<1>13. CASE UNCHANGED vars
  BY <1>2, <1>13 DEF vars
<1>14. QED
  BY <1>4, <1>5, <1>6, <1>6a, <1>7, <1>8, <1>9, <1>10, <1>11, <1>12, <1>13 DEF Next

\* Without an address space the processor has no user page to write to.
LEMMA StoreAddress ==
    ASSUME MmInv, Images, NEW a, Store(a)
    PROVE  /\ a \in 0 .. USTACKTOP - 1 /\ a \div PGSIZE \in VPage /\ a % PGSIZE \in Offset
           /\ current \in Proc /\ mm[current] # NULL /\ satp = mm[current].pgdir /\ satp \in Roots
<1>1. /\ Types /\ Holders /\ Owned(mem, Roots) /\ op = Idle /\ current \in alive
      /\ a \in DOMAIN image[current]
  BY DEF MmInv, Store, Ready
<1>2. current \in Proc
  BY <1>1 DEF Types
<1>3. a \in 0 .. USTACKTOP - 1 /\ mm[current] # NULL
  BY <1>1, <1>2 DEF Images
<1>4. satp = mm[current].pgdir
  BY <1>1, <1>2, <1>3 DEF Holders
<1>5. satp \in Roots
  BY <1>1, <1>2, <1>3, <1>4, RootsFacts
<1>6. a \in Nat /\ PGSIZE \in Nat \ {0} /\ NVirtual \in Nat /\ a < PGSIZE * NVirtual
  BY <1>3, MmAssumption, NVirtualFacts
<1>7. a \div PGSIZE \in 0 .. NVirtual - 1 /\ a % PGSIZE \in 0 .. PGSIZE - 1
  BY <1>6, DivFacts, DivBelow
<1>8. QED
  BY <1>2, <1>3, <1>4, <1>5, <1>7 DEF VPage, Offset

\* A write to user memory is a write to a page that the process has to itself.
StoredIn(a) ==
    LET q == get_page(mem, satp, a \div PGSIZE)
    IN  PageWritten(mem, Roots, mem', satp, q, [mem.cell[q] EXCEPT ![a % PGSIZE] = Stored])

LEMMA StoreInv ==
    ASSUME MmInv, Images, NEW a, Store(a)
    PROVE  MmInv' /\ StoredIn(a)
<1> DEFINE v == a \div PGSIZE
           q == get_page(mem, satp, v)
           c == [mem.cell[q] EXCEPT ![a % PGSIZE] = Stored]
<1>1. /\ Types /\ Holders /\ Owned(mem, Roots) /\ Held /\ Built /\ Left(mem, Roots, lost)
      /\ op = Idle /\ q # 0 /\ mem' = [mem EXCEPT !.cell[q][a % PGSIZE] = Stored]
      /\ UNCHANGED <<mm, pgdir, alive, current, satp, op, panic, lost>>
  BY DEF MmInv, Store, Ready
<1>2. /\ v \in VPage /\ a % PGSIZE \in Offset /\ satp \in Roots
      /\ current \in Proc /\ mm[current] # NULL /\ satp = mm[current].pgdir
  BY StoreAddress
<1>3. q \in Page /\ mem.cell[q] \in [Offset -> Value] /\ mem \in MemType
  <2>1. mem \in MemType /\ Apart(mem, Roots) /\ Path(mem, Roots, satp, v)
    BY <1>1, <1>2, LevelsApart, PathFacts DEF Owned
  <2>2. q \in Page
    BY <1>1, <2>1 DEF Path, Apart
  <2>3. QED
    BY <2>1, <2>2, MemFacts
<1>4. c \in [Offset -> Value]
  BY <1>2, <1>3 DEF Value
<1>5. mem' = Rewritten(mem, q, c)
  BY <1>1 DEF Rewritten
<1>6. PageWritten(mem, Roots, mem', satp, q, c)
  <2> HIDE DEF c, v, q
  <2>1. q = get_page(mem, satp, v)
    BY DEF q
  <2>2. QED
    BY ONLY <1>1, <1>2, <1>4, <1>5, <2>1, WriteFacts
<1>7. Within(mem, Roots, mem', satp) /\ mem'.entry = mem.entry
  BY <1>6 DEF PageWritten
<1>8. Types' /\ Holders' /\ Roots' = Roots
  BY <1>1 DEF Types, Holders, Roots
<1>9. Owned(mem', Roots') /\ Left(mem', Roots', lost')
  <2>1. RestEmpty(mem, Roots, mem', Roots) /\ Owned(mem', Roots)
    BY <1>7 DEF Within
  <2>2. QED
    BY <1>1, <1>8, <2>1, LeftKept
<1>10. Held'
  <2>1. SUFFICES ASSUME NEW p \in Proc, mm[p] # NULL
                 PROVE  SpaceOK(mem', mm[p], DOMAIN mm[p].areas, DOMAIN mm[p].areas)
    BY <1>1 DEF Held
  <2>2. SpaceOK(mem, mm[p], DOMAIN mm[p].areas, DOMAIN mm[p].areas)
    BY <1>1, <2>1 DEF Held
  <2>3. QED
    BY <1>7, <2>2, SameTables, SpaceKept
<1>11. Built' /\ Loads' /\ Copies'
  BY <1>1 DEF Built, Loads, Segments, FilePart, BssPart, StackPart, Is, Copies
<1>12. StoredIn(a)
  BY <1>6 DEF StoredIn
<1>13. QED
  BY <1>8, <1>9, <1>10, <1>11, <1>12 DEF MmInv

\* A cell of a page that somebody has mapped, or that is lost, is nobody's table and not free.
LEMMA CellStored ==
    ASSUME NEW m, NEW R, NEW L, Owned(m, R), Left(m, R, L), NEW q \in Page,
           q \in Mapped(m.entry, R) \cup L, NEW c \in [Offset -> Value],
           NEW m2, m2 = Rewritten(m, q, c)
    PROVE  /\ Owned(m2, R) /\ Left(m2, R, L) /\ m2.entry = m.entry
           /\ m2.cell = [m.cell EXCEPT ![q] = c]
<1>1. /\ m \in MemType /\ R \subseteq Page /\ R \cap m.free = {} /\ OneReferrer(m, R)
      /\ \A p \in m.free : m.ref[p] = 0 /\ m.cell[p] = Fresh
      /\ \A t \in Live(m.entry, R) : m.cell[t] = Fresh
      /\ Apart(m, R)
  BY LevelsApart DEF Owned
<1>2. /\ m.free \subseteq Page /\ m.ref \in [Page -> 0 .. 2]
      /\ m.entry \in [Page -> [Index -> 0 .. NPages]] /\ m.cell \in [Page -> [Offset -> Value]]
      /\ m = [free |-> m.free, ref |-> m.ref, entry |-> m.entry, cell |-> m.cell]
  BY <1>1, MemFacts
<1>3. m2 = [free |-> m.free, ref |-> m.ref, entry |-> m.entry, cell |-> [m.cell EXCEPT ![q] = c]]
  BY <1>2 DEF Rewritten
<1>4. /\ m2 \in MemType /\ m2.free = m.free /\ m2.ref = m.ref /\ m2.entry = m.entry
      /\ m2.cell = [m.cell EXCEPT ![q] = c]
  BY <1>2, <1>3 DEF MemType
<1>5. q \notin m.free /\ q \notin Live(m.entry, R)
  BY <1>1 DEF Apart, Live, Left
<1>6. /\ \A p \in m.free : m2.cell[p] = Fresh
      /\ \A t \in Live(m.entry, R) : m2.cell[t] = Fresh
  BY <1>1, <1>2, <1>4, <1>5 DEF Apart
<1>7. OneReferrer(m2, R)
  BY <1>1, <1>4 DEF OneReferrer
<1>8. Owned(m2, R)
  BY <1>1, <1>4, <1>6, <1>7 DEF Owned
<1>9. Left(m2, R, L)
  BY <1>2, <1>4 DEF Left
<1>10. QED
  BY <1>4, <1>8, <1>9

\* A write through the table that the root of a process astray has become.
StoredAstray(a) ==
    LET q == get_page(mem, satp, a \div PGSIZE)
    IN  /\ q \in Page /\ mem'.entry = mem.entry /\ mem.cell \in [Page -> [Offset -> Value]]
        /\ mem'.cell = [mem.cell EXCEPT ![q] = [mem.cell[q] EXCEPT ![a % PGSIZE] = Stored]]

LEMMA StoreAstrayInv ==
    ASSUME MmInv, NEW a \in StoreAt, StoreAstray(a)
    PROVE  MmInv' /\ StoredAstray(a)
<1> DEFINE v == a \div PGSIZE
           q == get_page(mem, satp, v)
           c == [mem.cell[q] EXCEPT ![a % PGSIZE] = Stored]
<1>1. /\ Types /\ Holders /\ Owned(mem, Roots) /\ Held /\ Built /\ Left(mem, Roots, lost)
      /\ op = Idle /\ q # 0 /\ mem' = [mem EXCEPT !.cell[q][a % PGSIZE] = Stored]
      /\ OwnersOf(satp) # {} \/ q \in lost
      /\ UNCHANGED <<mm, pgdir, alive, current, satp, op, panic, lost>>
  BY DEF MmInv, StoreAstray, Ready
<1>2. v \in VPage /\ a % PGSIZE \in Offset
  <2>1. a \in 0 .. USTACKTOP - 1
    BY MmAssumption
  <2>2. QED
    BY <2>1, AddressFacts
<1>3. q \in Page /\ q \in Mapped(mem.entry, Roots) \cup lost
  <2>1. CASE q \in lost
    BY <1>1, <2>1 DEF Types
  <2>2. CASE OwnersOf(satp) # {}
    <3>1. satp \in Roots
      BY <1>1, <2>2, RootsFacts DEF OwnersOf
    <3>2. Apart(mem, Roots) /\ Path(mem, Roots, satp, v)
      BY <1>1, <1>2, <3>1, LevelsApart, PathFacts DEF Owned
    <3>3. QED
      BY <1>1, <3>2 DEF Apart, Path
  <2>3. QED
    BY <1>1, <2>1, <2>2
<1>4. mem.cell \in [Page -> [Offset -> Value]] /\ c \in [Offset -> Value]
  <2>1. mem.cell \in [Page -> [Offset -> Value]]
    BY <1>1, MemFacts DEF Owned
  <2>2. QED
    BY <1>2, <1>3, <2>1 DEF Value
<1>5. mem' = Rewritten(mem, q, c)
  BY <1>1 DEF Rewritten
<1>6. /\ Owned(mem', Roots) /\ Left(mem', Roots, lost) /\ mem'.entry = mem.entry
      /\ mem'.cell = [mem.cell EXCEPT ![q] = c]
  <2> HIDE DEF c, q
  <2>1. Owned(mem, Roots) /\ Left(mem, Roots, lost)
    BY <1>1
  <2>2. QED
    BY ONLY <1>3, <1>4, <1>5, <2>1, CellStored
<1>7. Types' /\ Holders' /\ Roots' = Roots
  BY <1>1 DEF Types, Holders, Roots
<1>8. Held'
  <2>1. SUFFICES ASSUME NEW p \in Proc, mm[p] # NULL
                 PROVE  SpaceOK(mem', mm[p], DOMAIN mm[p].areas, DOMAIN mm[p].areas)
    BY <1>1 DEF Held
  <2>2. SpaceOK(mem, mm[p], DOMAIN mm[p].areas, DOMAIN mm[p].areas)
    BY <1>1, <2>1 DEF Held
  <2>3. QED
    BY <1>6, <2>2, SameTables, SpaceKept
<1>9. Built' /\ Loads' /\ Copies'
  BY <1>1 DEF Built, Loads, Segments, FilePart, BssPart, StackPart, Is, Copies
<1>10. StoredAstray(a)
  BY <1>3, <1>4, <1>6 DEF StoredAstray
<1>11. QED
  BY <1>1, <1>6, <1>7, <1>8, <1>9, <1>10 DEF MmInv

\* No page is anybody's when the first process starts.
LEMMA InitInv ==
    ASSUME Init
    PROVE  MmInv /\ Images
<1>1. /\ mem = [free |-> Page, ref |-> [q \in Page |-> 0],
                entry |-> [q \in Page |-> Empty], cell |-> [q \in Page |-> Fresh]]
      /\ mm = [p \in Proc |-> NULL] /\ pgdir = [p \in Proc |-> Boot] /\ satp = Boot
      /\ op = Idle /\ panic = FALSE /\ image = [p \in Proc |-> <<>>] /\ lost = {}
  BY DEF Init
<1>2. PICK p \in Proc : alive = {p} /\ current = p
  BY DEF Init
<1>3. Types
  BY <1>1, <1>2 DEF Types
<1>4. Roots = {}
  BY <1>1 DEF Roots
<1>5. Holders
  BY <1>1, <1>2 DEF Holders
<1>6. Dirs(mem.entry, {}) = {} /\ Leaves(mem.entry, {}) = {} /\ Live(mem.entry, {}) = {}
  BY DEF Dirs, Leaves, Live, Level
<1>7. mem \in MemType
  <2>1. Empty \in [Index -> 0 .. NPages]
    BY MmAssumption DEF Empty
  <2>2. Fresh \in [Offset -> Value]
    BY DEF Fresh, Value
  <2>3. QED
    BY <1>1, <2>1, <2>2 DEF MemType
<1>8. Owned(mem, Roots)
  BY <1>1, <1>4, <1>6, <1>7 DEF Owned, OneReferrer
<1>9. Held /\ Built /\ Left(mem, Roots, lost) /\ Loads /\ Copies
  BY <1>1 DEF Held, Built, Left, Loads, Segments, FilePart, BssPart, StackPart, Is, Copies
<1>10. Images
  <2>1. DOMAIN <<>> = {}
    OBVIOUS
  <2>2. QED
    BY <1>1, <2>1 DEF Images
<1>11. QED
  BY <1>3, <1>4, <1>5, <1>8, <1>9, <1>10 DEF MmInv

\* Every step of every call.
LEMMA NextInv ==
    ASSUME MmInv, Images, [Next]_vars
    PROVE  MmInv' /\ Images'
<1>1. Images'
  BY ImagesInv
<1>2. CASE schedule \/ do_exit \/ ExitAstray
  BY <1>1, <1>2, ScheduleInv, ExitInv, ExitAstrayInv
<1>3. CASE \E prog \in Program, n \in ArgSize : do_execve(prog, n)
  BY <1>1, <1>3, ExecveInv
<1>4. CASE \E c \in Proc : do_fork(c)
  BY <1>1, <1>4, ForkInv
<1>5. CASE \E a \in StoreAt : Store(a) \/ StoreAstray(a)
  BY <1>1, <1>5, StoreInv, StoreAstrayInv
<1>6. CASE UnmapArea \/ ExitArea \/ put_pgdir
  BY <1>1, <1>6, UnmapAreaInv, ExitAreaInv, PutPgdirInv
<1>7. CASE setup_pgdir \/ NextSegment \/ LoadPage \/ ClearRest \/ ClearPage
  BY <1>1, <1>7, SetupInv, NextSegmentInv, LoadPageInv, ClearRestInv, ClearPageInv
<1>8. CASE SegmentDone \/ MapStack \/ StackPage \/ LoadEnds
  BY <1>1, <1>8, SegmentDoneInv, MapStackInv, StackPageInv, LoadEndsInv
<1>9. CASE dup_mmap \/ copy_range \/ AreaCopied \/ CopyEnds
  BY <1>1, <1>9, DupMmapInv, CopyRangeInv, AreaCopiedInv, CopyEndsInv
<1>10. CASE UNCHANGED vars
  <2>1. /\ mem' = mem /\ mm' = mm /\ pgdir' = pgdir /\ alive' = alive /\ current' = current
        /\ satp' = satp /\ op' = op /\ panic' = panic /\ lost' = lost
    BY <1>10 DEF vars
  <2>2. Types' /\ Holders' /\ Roots' = Roots /\ Held' /\ Built' /\ Loads' /\ Copies'
    <3>1. Types' /\ Holders' /\ Roots' = Roots /\ Held'
      BY <2>1 DEF MmInv, Types, Holders, Roots, Held
    <3>2. Built'
      BY <2>1 DEF MmInv, Built, PagesLeft, TablesLeft
    <3>3. Copies'
      BY <2>1 DEF MmInv, Copies, FirstCopied, Visited, Source
    <3>4. Loads'
      BY <2>1 DEF MmInv, Loads, Segments, FilePart, BssPart, StackPart, Is, Seen, SegArea,
                  Segment, FileEnd, MemEnd
    <3>5. QED
      BY <3>1, <3>2, <3>3, <3>4
  <2>3. QED
    BY <1>1, <2>1, <2>2 DEF MmInv
<1>11. QED
  BY <1>1, <1>2, <1>3, <1>4, <1>5, <1>6, <1>7, <1>8, <1>9, <1>10 DEF Next

-----------------------------------------------------------------------------
\* What the invariant shows.

\* There is one root for each process with an address space, and one for the call.
LEMMA CountRoots ==
    ASSUME MmInv
    PROVE  Cardinality(Roots) = Cardinality({p \in Proc : mm[p] # NULL})
             + (IF op = Idle \/ op.mm.pgdir = Boot THEN 0 ELSE 1)
<1> DEFINE P == {p \in Proc : mm[p] # NULL}
           A == {mm[p].pgdir : p \in P}
           f == [p \in P |-> mm[p].pgdir]
<1>1. /\ \A p, r \in Proc :
           mm[p] # NULL /\ mm[r] # NULL /\ mm[p].pgdir = mm[r].pgdir => p = r
      /\ op # Idle => \A p \in Proc : mm[p] # NULL => mm[p].pgdir # op.mm.pgdir
  BY DEF MmInv, Holders
<1>2. IsFiniteSet(P)
  BY FS_Subset, MmAssumption
<1>3. IsFiniteSet(A) /\ Cardinality(A) = Cardinality(P)
  <2>1. f \in Bijection(P, A)
    BY <1>1 DEF Bijection, Injection, Surjection, IsInjective
  <2>2. ExistsBijection(P, A)
    BY <2>1 DEF ExistsBijection
  <2> HIDE DEF P, A
  <2>3. QED
    BY <1>2, <2>2, FS_Bijection
<1>4. Cardinality(A) \in Nat
  BY <1>3, FS_CardinalityType
<1>5. CASE op = Idle \/ op.mm.pgdir = Boot
  <2>1. Roots = A
    BY <1>5 DEF Roots
  <2> HIDE DEF P, A
  <2>2. Cardinality(Roots) = Cardinality(P) + 0
    BY <1>3, <1>4, <2>1
  <2>3. QED
    BY <1>5, <2>2 DEF P
<1>6. CASE op # Idle /\ op.mm.pgdir # Boot
  <2>1. Roots = A \cup {op.mm.pgdir} /\ op.mm.pgdir \notin A
    BY <1>1, <1>6 DEF Roots
  <2> HIDE DEF P, A
  <2>2. Cardinality(Roots) = Cardinality(P) + 1
    BY <1>3, <1>4, <2>1, FS_AddElement
  <2>3. QED
    BY <1>6, <2>2 DEF P
<1>7. QED
  BY <1>5, <1>6

\* The processor has the root of the current process, or the kernel's, or the
\* process is astray.
LEMMA SatpFacts ==
    ASSUME MmInv
    PROVE  SatpLive
<1>1. /\ Types /\ Holders /\ Owned(mem, Roots)
  BY DEF MmInv
<1>2. ASSUME satp # Boot, mm[current] # NULL
      PROVE  satp = mm[current].pgdir /\ satp \notin mem.free
  <2>1. current \in alive /\ current \in Proc
    BY <1>1, <1>2 DEF Holders, Types
  <2>2. satp = mm[current].pgdir
    BY <1>1, <1>2, <2>1 DEF Holders
  <2>3. satp \in Roots /\ Roots \cap mem.free = {}
    BY <1>1, <1>2, <2>1, <2>2, RootsFacts DEF Owned
  <2>4. QED
    BY <2>2, <2>3
<1>3. ASSUME satp # Boot, mm[current] = NULL
      PROVE  op = Idle /\ Astray(current) /\ satp = pgdir[current]
  BY <1>1, <1>3 DEF Holders, Astray
<1>4. Ready /\ mm[current] # NULL => satp = mm[current].pgdir
  BY <1>1 DEF Ready, Holders, Types
<1>5. \A p \in alive \ {current} : mm[p] # NULL => pgdir[p] = mm[p].pgdir
  BY <1>1 DEF Holders, Types
<1>6. QED
  BY <1>2, <1>3, <1>4, <1>5 DEF SatpLive

\* The entries that PagesOwnedOnce speaks of are those of the levels.
LEMMA EntriesFacts ==
    ASSUME MmInv, NEW e \in Entries
    PROVE  e[1] \in Live(mem.entry, Roots) /\ e[2] \in Index /\ mem.entry[e[1]][e[2]] # 0
<1>1. /\ mem \in MemType /\ Roots \in SUBSET Page
  BY RootsFacts DEF MmInv
<1>2. /\ e[1] \in UNION {Tables(d) : d \in Roots} /\ e[2] \in Index
      /\ mem.entry[e[1]][e[2]] # 0
  BY DEF Entries
<1>3. PICK d \in Roots : e[1] \in Tables(d)
  BY <1>2
<1> DEFINE dirs == {mem.entry[d][i] : i \in Index} \ {0}
<1>4. dirs \subseteq Dirs(mem.entry, Roots)
  BY <1>1, LevelHas DEF Dirs
<1>5. Dirs(mem.entry, Roots) \in SUBSET Page
  BY DEF Dirs, Level
<1>6. {mem.entry[t][i] : t \in dirs, i \in Index} \ {0} \subseteq Leaves(mem.entry, Roots)
  <2> HIDE DEF dirs
  <2>1. SUFFICES ASSUME NEW t \in dirs, NEW i \in Index, mem.entry[t][i] # 0
                 PROVE  mem.entry[t][i] \in Leaves(mem.entry, Roots)
    OBVIOUS
  <2>2. QED
    BY <1>1, <1>4, <1>5, <2>1, LevelHas DEF Leaves, Dirs
<1>7. Tables(d) = {d} \cup dirs \cup ({mem.entry[t][i] : t \in dirs, i \in Index} \ {0})
  BY DEF Tables
<1> HIDE DEF dirs
<1>8. e[1] \in Live(mem.entry, Roots)
  BY <1>3, <1>4, <1>6, <1>7 DEF Live
<1>9. QED
  BY <1>2, <1>8

\* One referrer each, by the levels; one root each, by counting.
LEMMA OwnedOnce ==
    ASSUME MmInv
    PROVE  PagesOwnedOnce
<1>1. Types /\ Owned(mem, Roots) /\ mem \in MemType
  BY DEF MmInv, Owned
<1>2. TypeOK
  BY <1>1, MemFacts DEF TypeOK, Types
<1>3. Roots \cap mem.free = {} /\ OneReferrer(mem, Roots)
  BY <1>1 DEF Owned
<1>4. ASSUME NEW e \in Entries
      PROVE  LET q == mem.entry[e[1]][e[2]]
             IN  /\ q \notin mem.free \cup Roots
                 /\ mem.ref[q] = 1
                 /\ \A f \in Entries : mem.entry[f[1]][f[2]] = q => f = e
  <2>1. e[1] \in Live(mem.entry, Roots) /\ e[2] \in Index /\ mem.entry[e[1]][e[2]] # 0
    BY EntriesFacts
  <2>2. \A f \in Entries : f[1] \in Live(mem.entry, Roots) /\ f[2] \in Index
    BY EntriesFacts
  <2>3. \A f \in Entries : f = <<f[1], f[2]>>
    BY DEF Entries
  <2>4. QED
    BY <1>3, <2>1, <2>2, <2>3 DEF OneReferrer
<1>5. QED
  BY <1>2, <1>3, <1>4, CountRoots, SatpFacts DEF PagesOwnedOnce

\* What the levels have is what can be reached from the roots.
LEMMA NothingElse ==
    ASSUME MmInv
    PROVE  ExitUnmaps
<1>1. Types /\ Holders /\ Owned(mem, Roots) /\ Left(mem, Roots, lost)
  BY DEF MmInv
<1>2. mem \in MemType /\ Roots \in SUBSET Page
  BY <1>1, RootsFacts
<1>3. OnPaths(mem, Roots)
  BY <1>2, OnSomePath
<1>4. 0 \in Index /\ 0 \notin Page
  BY MmAssumption DEF Index, Page
<1>5. ASSUME NEW q \in Live(mem.entry, Roots) \cup Mapped(mem.entry, Roots)
      PROVE  \E d \in Roots : q \in Reach(mem, d)
  <2>0. q \in Page
    BY <1>2 DEF Live, Mapped, Dirs, Leaves, Level
  <2>1. CASE q \in Roots
    <3>1. 0 \in VPage
      BY NVirtualFacts DEF VPage
    <3>2. QED
      BY <1>2, <2>1, <3>1, ReachHas
  <2>2. CASE q \in Dirs(mem.entry, Roots)
    <3>1. PICK d \in Roots : \E v \in VPage : mem.entry[d][PDX1(v)] = q
      BY <1>3, <2>2 DEF OnPaths
    <3>2. QED
      BY <1>2, <1>4, <2>0, <3>1, ReachHas
  <2>3. CASE q \in Leaves(mem.entry, Roots)
    <3>1. PICK d \in Roots : \E v \in VPage : TableOf(mem, d, v) = q
      BY <1>3, <1>4, <2>3 DEF OnPaths
    <3>2. QED
      BY <1>2, <1>4, <2>0, <3>1, ReachHas
  <2>4. CASE q \in Mapped(mem.entry, Roots)
    <3>1. PICK d \in Roots : \E v \in VPage : get_page(mem, d, v) = q
      BY <1>3, <2>4 DEF OnPaths
    <3>2. QED
      BY <1>2, <1>4, <2>0, <3>1, ReachHas
  <2>5. QED
    BY <2>1, <2>2, <2>3, <2>4 DEF Live
<1>6. ASSUME NEW q \in Page \ (mem.free \cup lost \cup (UNION {Reach(mem, d) : d \in Roots}))
      PROVE  mem.entry[q] = Empty /\ mem.cell[q] = Fresh
  <2>1. q \notin Live(mem.entry, Roots) \cup Mapped(mem.entry, Roots)
    BY <1>5, <1>6
  <2>2. QED
    BY <1>1, <1>6, <2>1 DEF Left
<1>7. QED
  BY <1>6 DEF ExitUnmaps

-----------------------------------------------------------------------------
\* What load_icode has written stays, and is completed page by page.

\* Addresses of a page.
LEMMA InPage ==
    ASSUME NEW a \in Nat, NEW v \in Nat, PGSIZE * v <= a, a < PGSIZE * v + PGSIZE
    PROVE  a \div PGSIZE = v /\ a % PGSIZE = a - PGSIZE * v
<1> DEFINE r == a - PGSIZE * v
<1>1. PGSIZE \in Nat \ {0} /\ PGSIZE * v \in Nat
  <2>1. PGSIZE \in Nat \ {0}
    BY ONLY MmAssumption
  <2>2. QED
    BY ONLY <2>1, v \in Nat
<1>2. r \in 0 .. PGSIZE - 1 /\ a = PGSIZE * v + r
  BY <1>1
<1> HIDE DEF r
<1>3. (PGSIZE * v + r) \div PGSIZE = v /\ (PGSIZE * v + r) % PGSIZE = r
  BY <1>1, <1>2, DivUnique
<1>4. QED
  BY <1>2, <1>3 DEF r

\* A new page completes a segment up to another address.
LEMMA FilledMore ==
    ASSUME NEW m, NEW m2, NEW d, NEW prog \in Program, NEW i \in DOMAIN prog,
           NEW start \in Nat, NEW stop \in Nat, NEW c, NEW v \in Nat,
           PGSIZE * v <= start, stop <= PGSIZE * v + PGSIZE,
           PageFilled(m, m2, d, v, c), Filled(m, d, prog, i, start),
           \A a \in prog[i].va .. prog[i].va + prog[i].memsz - 1 :
             a >= start /\ a < stop => c[a - PGSIZE * v] = Byte(prog, i, a)
    PROVE  Filled(m2, d, prog, i, stop)
<1>1. SUFFICES ASSUME NEW a \in prog[i].va .. prog[i].va + prog[i].memsz - 1, a < stop
               PROVE  Shows(m2, d, a, Byte(prog, i, a))
  BY DEF Filled
<1>2. a \in Nat
  BY ProgramFacts
<1>3. CASE a < start
  <2>1. Filled(m2, d, prog, i, start)
    BY FilledGrows DEF PageFilled
  <2>2. QED
    BY <1>3, <2>1 DEF Filled
<1>4. CASE a >= start
  <2>1. PGSIZE * v \in Nat /\ PGSIZE \in Nat
    <3>1. PGSIZE \in Nat
      BY ONLY MmAssumption
    <3>2. QED
      BY ONLY <3>1, v \in Nat
  <2>2. PGSIZE * v <= a /\ a < PGSIZE * v + PGSIZE
    BY <1>1, <1>2, <1>4, <2>1
  <2>3. a \div PGSIZE = v /\ a % PGSIZE = a - PGSIZE * v
    BY <1>2, <2>2, InPage
  <2>4. c[a - PGSIZE * v] = Byte(prog, i, a)
    BY <1>1, <1>4
  <2>5. QED
    BY <2>3, <2>4 DEF PageFilled, Shows
<1>5. QED
  BY <1>2, <1>3, <1>4

\* Where load_icode stands.
LEMMA LoadFacts ==
    ASSUME MmInv, LoadData, op.call = "exec", op.stage \in {"segment", "file", "bss", "stack"}
    PROVE  /\ op.prog \in Program /\ DOMAIN op.prog = 1 .. Len(op.prog) /\ op \in ExecOp
           /\ Len(op.prog) \in Nat /\ op.seg \in Nat \ {0} /\ op.start \in Nat /\ op # Idle
           /\ \A i \in 1 .. Len(op.prog) :
                i < op.seg => Filled(mem, op.mm.pgdir, op.prog, i, USTACKTOP)
           /\ op.stage \in {"file", "bss"} =>
                Filled(mem, op.mm.pgdir, op.prog, op.seg, op.start)
<1>1. /\ op \in ExecOp /\ op # Idle /\ Len(op.prog) \in Nat /\ op.seg \in Nat \ {0}
      /\ op.start \in Nat /\ DOMAIN op.prog = 1 .. Len(op.prog)
  BY SegFacts DEF MmInv
<1>2. op.prog \in Program
  BY <1>1 DEF ExecOp
<1>3. QED
  BY <1>1, <1>2 DEF LoadData, Is

\* The call is elsewhere.
LEMMA NotLoading ==
    ASSUME op' = Idle \/ op'.call # "exec" \/ op'.stage \in {"unmap", "range", "setup"}
    PROVE  LoadData'
BY DEF LoadData, Is

\* Segments that are complete stay so when the address space grows.
LEMMA LoadGrows ==
    ASSUME MmInv, LoadData, op.call = "exec", op.stage \in {"segment", "file", "bss", "stack"},
           NEW stage, NEW start, SameLoad(stage, start), Grows(mem, mem', op.mm.pgdir),
           stage \in {"file", "bss"} => Filled(mem', op.mm.pgdir, op.prog, op.seg, start)
    PROVE  LoadData'
<1>1. /\ op.prog \in Program /\ DOMAIN op.prog = 1 .. Len(op.prog)
      /\ \A i \in 1 .. Len(op.prog) :
                i < op.seg => Filled(mem, op.mm.pgdir, op.prog, i, USTACKTOP)
  BY LoadFacts
<1>2. \A i \in 1 .. Len(op.prog) :
        i < op.seg => Filled(mem', op.mm.pgdir, op.prog, i, USTACKTOP)
  BY <1>1, FilledGrows
<1>3. QED
  BY <1>2 DEF LoadData, SameLoad

\* Nothing has been written.
LEMMA StaysFilled ==
    ASSUME mem' = mem
    PROVE  Grows(mem, mem', op.mm.pgdir)
BY DEF Grows

\* The header of a segment is read; the pages of the file come next.
LEMMA NextSegmentData ==
    ASSUME MmInv, LoadData, NextSegment
    PROVE  LoadData'
<1>1. /\ op.call = "exec" /\ op.stage = "segment" /\ op.seg <= Len(op.prog) /\ mem' = mem
  BY DEF NextSegment, At, mm_map, LoadFails, Panic, Loading
<1>2. op' = Idle \/ op' = op \/ SameLoad("file", Segment.va)
  BY NextSegmentInv
<1>3. Grows(mem, mem', op.mm.pgdir)
  BY <1>1, StaysFilled
<1>4. CASE op' = op
  <2>1. SameLoad("segment", op.start)
    BY <1>1, <1>4 DEF SameLoad
  <2>2. QED
    BY <1>1, <1>3, <2>1, LoadGrows
<1>5. CASE SameLoad("file", Segment.va)
  <2>1. op.prog \in Program /\ op.seg \in DOMAIN op.prog
    BY <1>1, LoadFacts
  <2>2. /\ op.prog[op.seg].va \in Nat /\ op.prog[op.seg].memsz \in Nat
    BY <2>1, ProgramFacts
  <2> DEFINE va == op.prog[op.seg].va
             last == va + op.prog[op.seg].memsz - 1
  <2>3. \A a \in va .. last : ~(a < va)
    BY <2>2
  <2>4. Segment.va = va
    BY DEF Segment
  <2>5. Filled(mem', op.mm.pgdir, op.prog, op.seg, Segment.va)
    BY <2>3, <2>4 DEF Filled
  <2>6. QED
    BY <1>1, <1>3, <1>5, <2>5, LoadGrows
<1>6. QED
  BY <1>2, <1>4, <1>5, NotLoading

\* The area of the stack adds nothing to the segments, nor do its pages.
LEMMA StackData ==
    ASSUME MmInv, LoadData, MapStack \/ StackPage
    PROVE  LoadData'
<1>1. CASE MapStack
  <2>1. op.call = "exec" /\ op.stage = "segment" /\ mem' = mem
    BY <1>1 DEF MapStack, At, mm_map, LoadFails, Panic, Loading
  <2>2. op' = Idle \/ op' = op \/ SameLoad("stack", USTACKTOP)
    BY <1>1, MapStackInv
  <2>3. op' = Idle \/ SameLoad("segment", op.start) \/ SameLoad("stack", USTACKTOP)
    BY <2>1, <2>2 DEF SameLoad
  <2>4. QED
    BY <2>1, <2>3, StaysFilled, LoadGrows, NotLoading
<1>2. CASE StackPage
  <2>1. op.call = "exec" /\ op.stage = "stack"
    BY <1>2 DEF StackPage, At
  <2>2. Grows(mem, mem', op.mm.pgdir) /\ SameLoad("stack", op'.start)
    BY <1>2, StackPageInv
  <2>3. QED
    BY <2>1, <2>2, LoadGrows
<1>3. QED
  BY <1>1, <1>2

\* A page with bytes of the file.
LEMMA LoadPageData ==
    ASSUME MmInv, LoadData, LoadPage
    PROVE  LoadData'
<1> DEFINE v   == op.start \div PGSIZE
           off == op.start % PGSIZE
           d   == op.mm.pgdir
<1>1. op.call = "exec" /\ op.stage = "file" /\ op.start < FileEnd
  BY DEF LoadPage, At
<1>2. op' = Idle \/ PageLoaded
  BY LoadPageInv
<1>3. CASE PageLoaded
  <2>1. PICK size \in Nat : \E c :
          /\ SameLoad("file", op.start + size) /\ size <= FileEnd - op.start /\ size <= PGSIZE - off
          /\ PageFilled(mem, mem', d, v, c)
          /\ \A i \in Offset : i \in off .. off + size - 1 => c[i] = v * PGSIZE + i
    BY <1>3 DEF PageLoaded
  <2>2. PICK c :
          /\ SameLoad("file", op.start + size) /\ size <= FileEnd - op.start /\ size <= PGSIZE - off
          /\ PageFilled(mem, mem', d, v, c)
          /\ \A i \in Offset : i \in off .. off + size - 1 => c[i] = v * PGSIZE + i
    BY <2>1
  <2>3. /\ op.prog \in Program /\ op.seg \in DOMAIN op.prog /\ op.start \in Nat
        /\ Filled(mem, d, op.prog, op.seg, op.start)
        /\ FileEnd \in Nat /\ FileEnd = op.prog[op.seg].va + op.prog[op.seg].filesz
    BY <1>1, LoadFacts, InSegment DEF Segment
  <2>4. /\ PGSIZE \in Nat \ {0} /\ v \in Nat /\ off \in 0 .. PGSIZE - 1
        /\ op.start = PGSIZE * v + off
    BY <2>3, MmAssumption, DivFacts
  <2> DEFINE stop == op.start + size
  <2> HIDE DEF v, off
  <2>5. PGSIZE * v \in Nat /\ v * PGSIZE = PGSIZE * v
    BY <2>4
  <2>6. /\ stop \in Nat /\ PGSIZE * v <= op.start /\ stop <= PGSIZE * v + PGSIZE
        /\ stop <= FileEnd
    BY <2>2, <2>3, <2>4, <2>5
  <2>7. ASSUME NEW a \in op.prog[op.seg].va .. op.prog[op.seg].va + op.prog[op.seg].memsz - 1,
               a >= op.start, a < stop
        PROVE  c[a - PGSIZE * v] = Byte(op.prog, op.seg, a)
    <3>1. a \in Nat
      BY <2>3, ProgramFacts
    <3> DEFINE i == a - PGSIZE * v
    <3>2. i \in off .. off + size - 1 /\ i \in Offset /\ v * PGSIZE + i = a
      BY <2>2, <2>3, <2>4, <2>5, <2>7, <3>1 DEF Offset
    <3> HIDE DEF i
    <3>3. c[i] = a
      BY <2>2, <3>2
    <3>4. Byte(op.prog, op.seg, a) = a
      BY <2>3, <2>6, <2>7, <3>1 DEF Byte
    <3>5. QED
      BY <3>3, <3>4 DEF i
  <2> HIDE DEF stop
  <2>8. Filled(mem', d, op.prog, op.seg, stop)
    BY <2>2, <2>3, <2>4, <2>6, <2>7, FilledMore
  <2>9. SameLoad("file", stop) /\ Grows(mem, mem', d)
    BY <2>2 DEF stop, PageFilled
  <2>10. QED
    BY <1>1, <2>8, <2>9, LoadGrows
<1>4. QED
  BY <1>2, <1>3, NotLoading

\* A page of zeros.
LEMMA ClearPageData ==
    ASSUME MmInv, LoadData, ClearPage
    PROVE  LoadData'
<1> DEFINE v == op.start \div PGSIZE
           d == op.mm.pgdir
           c == [i \in Offset |-> Zeroed]
<1>1. op.call = "exec" /\ op.stage = "bss" /\ FileEnd < MemEnd
  BY DEF ClearPage, At
<1>2. op' = Idle \/ PageCleared
  BY ClearPageInv
<1>3. CASE PageCleared
  <2>1. SameLoad("bss", op.start + PGSIZE) /\ PageFilled(mem, mem', d, v, c)
    BY <1>3 DEF PageCleared
  <2>2. /\ op.prog \in Program /\ op.seg \in DOMAIN op.prog /\ op.start \in Nat /\ op # Idle
        /\ Filled(mem, d, op.prog, op.seg, op.start)
        /\ FileEnd \in Nat /\ FileEnd = op.prog[op.seg].va + op.prog[op.seg].filesz
    BY <1>1, LoadFacts, InSegment DEF Segment
  <2>3. op.start >= FileEnd /\ op.start % PGSIZE = 0
    BY <1>1, <2>2 DEF MmInv, Loads, BssPart, Is
  <2>4. PGSIZE \in Nat \ {0} /\ v \in Nat /\ op.start = PGSIZE * v
    <3>1. PGSIZE \in Nat \ {0} /\ v \in Nat /\ op.start = PGSIZE * v + (op.start % PGSIZE)
      BY <2>2, MmAssumption, DivFacts
    <3> HIDE DEF v
    <3>2. PGSIZE * v \in Nat
      BY <3>1
    <3>3. QED
      BY <2>3, <3>1, <3>2
  <2> DEFINE stop == op.start + PGSIZE
  <2> HIDE DEF v
  <2>5. PGSIZE * v \in Nat /\ stop \in Nat /\ PGSIZE * v <= op.start /\ stop <= PGSIZE * v + PGSIZE
    BY <2>2, <2>4
  <2>6. ASSUME NEW a \in op.prog[op.seg].va .. op.prog[op.seg].va + op.prog[op.seg].memsz - 1,
               a >= op.start, a < stop
        PROVE  c[a - PGSIZE * v] = Byte(op.prog, op.seg, a)
    <3>1. a \in Nat
      BY <2>2, ProgramFacts
    <3>2. a - PGSIZE * v \in Offset
      BY <2>2, <2>4, <2>5, <2>6, <3>1 DEF Offset
    <3>3. Byte(op.prog, op.seg, a) = Zeroed
      BY <2>2, <2>3, <2>6, <3>1 DEF Byte
    <3>4. QED
      BY <3>2, <3>3
  <2> HIDE DEF stop, c
  <2>7. Filled(mem', d, op.prog, op.seg, stop)
    BY <2>1, <2>2, <2>4, <2>5, <2>6, FilledMore
  <2>8. SameLoad("bss", stop) /\ Grows(mem, mem', d)
    BY <2>1 DEF stop, PageFilled
  <2>9. QED
    BY <1>1, <2>7, <2>8, LoadGrows
<1>4. QED
  BY <1>2, <1>3, NotLoading

\* A segment is complete.
LEMMA SegmentDoneData ==
    ASSUME MmInv, LoadData, SegmentDone
    PROVE  LoadData'
<1>1. /\ op.call = "exec" /\ op.stage = "bss" /\ ~(FileEnd < MemEnd /\ op.start < MemEnd)
      /\ mem' = mem /\ op' = [op EXCEPT !.stage = "segment", !.seg = @ + 1]
  BY DEF SegmentDone, At, Loading
<1>2. /\ op.seg \in 1 .. Len(op.prog) /\ op # Idle /\ op \in ExecOp /\ op.start \in Nat
      /\ FileEnd \in Nat /\ MemEnd \in Nat /\ FileEnd <= MemEnd /\ MemEnd <= USTACKTOP
      /\ MemEnd = op.prog[op.seg].va + op.prog[op.seg].memsz
  BY <1>1, InSegment DEF Segment
<1>3. op.start >= MemEnd
  <2>1. op.start >= FileEnd
    BY <1>1, <1>2 DEF MmInv, Loads, BssPart, Is
  <2>2. QED
    BY <1>1, <1>2, <2>1
<1>4. /\ op'.prog = op.prog /\ op'.seg = op.seg + 1 /\ op'.mm = op.mm /\ op'.stage = "segment"
  BY <1>1, <1>2 DEF ExecOp
<1>5. /\ \A i \in 1 .. Len(op.prog) :
                i < op.seg => Filled(mem, op.mm.pgdir, op.prog, i, USTACKTOP)
      /\ Filled(mem, op.mm.pgdir, op.prog, op.seg, op.start)
      /\ op.seg \in Nat \ {0} /\ op.prog \in Program /\ op.seg \in DOMAIN op.prog
  BY <1>1, <1>2, LoadFacts
<1>6. Filled(mem, op.mm.pgdir, op.prog, op.seg, USTACKTOP)
  <2>1. ASSUME NEW a \in op.prog[op.seg].va .. op.prog[op.seg].va + op.prog[op.seg].memsz - 1
        PROVE  a < op.start
    <3> DEFINE va == op.prog[op.seg].va
               size == op.prog[op.seg].memsz
    <3>1. va \in Nat /\ size \in Nat
      BY <1>5, ProgramFacts
    <3>2. a \in va .. va + size - 1 /\ MemEnd = va + size
      BY <1>2
    <3> HIDE DEF va, size
    <3>3. QED
      BY <1>2, <1>3, <3>1, <3>2
  <2>2. QED
    BY <1>5, <2>1 DEF Filled
<1>7. \A i \in 1 .. Len(op.prog) : i < op.seg + 1 => i < op.seg \/ i = op.seg
  BY <1>5
<1>8. QED
  BY <1>1, <1>4, <1>5, <1>6, <1>7 DEF LoadData

\* Writing one page leaves the rest of the address space alone.
OtherPages(m, m2, d, v) ==
    \A a \in 0 .. USTACKTOP - 1 :
      a \div PGSIZE # v => \A x : Shows(m, d, a, x) => Shows(m2, d, a, x)

LEMMA ShowsKept ==
    ASSUME NEW m, NEW R, Owned(m, R), NEW d \in R, NEW v \in VPage, NEW q, q = get_page(m, d, v),
           q # 0, NEW c, NEW m2, m2.entry = m.entry, m2.cell = [m.cell EXCEPT ![q] = c]
    PROVE  OtherPages(m, m2, d, v)
<1> SUFFICES ASSUME NEW a \in 0 .. USTACKTOP - 1, a \div PGSIZE # v, NEW x, Shows(m, d, a, x)
             PROVE  Shows(m2, d, a, x)
  BY DEF OtherPages
<1> DEFINE w == a \div PGSIZE
           p == get_page(m, d, w)
<1>1. w \in VPage
  BY AddressFacts
<1>2. p # 0 /\ m.cell[p][a % PGSIZE] = x
  BY DEF Shows
<1>3. p # q
  BY <1>1, <1>2, PathUnique
<1>4. get_page(m2, d, w) = p
  BY SameTables
<1>5. p \in Page /\ m.cell \in [Page -> [Offset -> Value]]
  <2>1. Apart(m, R) /\ Path(m, R, d, w)
    BY <1>1, LevelsApart, PathFacts DEF Owned
  <2>2. QED
    BY <1>2, <2>1, MemFacts DEF Apart, Path, Owned
<1>6. m2.cell[p] = m.cell[p]
  BY <1>3, <1>5
<1>7. QED
  BY <1>2, <1>4, <1>6 DEF Shows

\* The end of the last page of the file is cleared, and belongs to no other segment.
LEMMA ClearRestData ==
    ASSUME MmInv, LoadData, ClearRest, BssAligned
    PROVE  LoadData'
<1> DEFINE d    == op.mm.pgdir
           v    == op.start \div PGSIZE
           off  == op.start % PGSIZE
           q    == get_page(mem, d, v)
           cut  == FileEnd < MemEnd /\ off # 0
           c    == [i \in Offset |-> IF i >= off THEN Zeroed ELSE mem.cell[q][i]]
           next == IF cut THEN op.start - off + PGSIZE ELSE op.start
           prog == op.prog
           seg  == op.seg
<1>1. /\ op.call = "exec" /\ op.stage = "file" /\ op.start >= FileEnd
      /\ mem' = (IF cut /\ q # 0 THEN [mem EXCEPT !.cell[q] = c] ELSE mem)
      /\ op' = [op EXCEPT !.stage = "bss", !.start = next]
  BY DEF ClearRest, At, Loading
<1>2. /\ prog \in Program /\ seg \in DOMAIN prog /\ op.start \in Nat /\ op # Idle /\ op \in ExecOp
      /\ seg \in 1 .. Len(prog) /\ DOMAIN prog = 1 .. Len(prog)
      /\ Filled(mem, d, prog, seg, op.start)
      /\ \A i \in 1 .. Len(prog) : i < seg => Filled(mem, d, prog, i, USTACKTOP)
  BY <1>1, LoadFacts, InSegment
<1>3. /\ FileEnd \in Nat /\ FileEnd = prog[seg].va + prog[seg].filesz
      /\ MemEnd \in Nat /\ MemEnd = prog[seg].va + prog[seg].memsz /\ MemEnd <= USTACKTOP
      /\ \A a \in prog[seg].va .. MemEnd - 1 : a \div PGSIZE \in PagesOf(SegArea(seg))
      /\ prog[seg].va \in Nat /\ prog[seg].filesz \in Nat /\ IsArea(SegArea(seg))
      /\ prog[seg].memsz \in Nat
  BY <1>1, InSegment DEF Segment
<1>4. op.start = FileEnd
  <2>1. op.start \in Segment.va .. FileEnd
    BY <1>1, <1>2 DEF MmInv, Loads, FilePart, Is
  <2>2. QED
    BY <1>1, <1>2, <1>3, <2>1 DEF Segment
<1>5. /\ PGSIZE \in Nat \ {0} /\ v \in Nat /\ off \in 0 .. PGSIZE - 1
      /\ op.start = PGSIZE * v + off
  BY <1>2, MmAssumption, DivFacts
<1>6. SameLoad("bss", next)
  BY <1>1, <1>2 DEF SameLoad, ExecOp
<1> HIDE DEF v, off, q, next, c
<1>7. CASE ~cut
  <2>1. mem' = mem /\ next = op.start
    BY <1>1, <1>7 DEF next
  <2>2. Filled(mem', d, prog, seg, next)
    BY <1>2, <2>1
  <2>3. QED
    BY <1>1, <1>6, <2>1, <2>2, StaysFilled, LoadGrows
<1>8. CASE cut
  <2>1. PGSIZE * v \in Nat /\ next = PGSIZE * v + PGSIZE
    <3>1. PGSIZE * v \in Nat
      BY ONLY <1>5
    <3>2. QED
      BY <1>5, <1>8, <3>1 DEF next
  <2>2. prog[seg].va < FileEnd
    <3>1. SUFFICES ASSUME prog[seg].filesz = 0 PROVE FALSE
      BY <1>3
    <3>2. prog[seg].va % PGSIZE = 0
      BY <1>2, <3>1 DEF BssAligned
    <3>3. op.start = prog[seg].va
      BY <1>3, <1>4, <3>1
    <3>4. QED
      BY <1>8, <3>2, <3>3 DEF off
  <2>3. /\ FileEnd - 1 \in prog[seg].va .. MemEnd - 1 /\ FileEnd - 1 \in Nat
        /\ (FileEnd - 1) \div PGSIZE = v
    <3>1. FileEnd - 1 \in prog[seg].va .. MemEnd - 1 /\ FileEnd - 1 \in Nat
      BY <1>3, <1>8, <2>2
    <3>2. PGSIZE * v <= FileEnd - 1 /\ FileEnd - 1 < PGSIZE * v + PGSIZE
      BY <1>4, <1>5, <1>8, <2>1
    <3>3. QED
      BY <1>5, <3>1, <3>2, InPage
  <2>4. q # 0
    <3>1. FileEnd - 1 < op.start
      BY <1>3, <1>4
    <3>2. FileEnd - 1 \in prog[seg].va .. prog[seg].va + prog[seg].memsz - 1
      BY <1>3, <2>3
    <3>3. Shows(mem, d, FileEnd - 1, Byte(prog, seg, FileEnd - 1))
      BY <1>2, <3>1, <3>2 DEF Filled
    <3>4. QED
      BY <2>3, <3>3 DEF Shows, q
  <2>5. v \in PagesOf(SegArea(seg)) /\ v \in VPage
    BY <1>3, <2>3, AreaFacts
  <2>6. /\ Owned(mem, Roots) /\ d \in Roots /\ mem.cell \in [Page -> [Offset -> Value]]
        /\ mem \in MemType
    BY <1>1, <1>2, BuiltFacts, MemFacts DEF Owned
  <2>7. q \in Page
    <3>1. Apart(mem, Roots) /\ Path(mem, Roots, d, v)
      BY <2>5, <2>6, LevelsApart, PathFacts DEF Owned
    <3>2. QED
      BY <2>4, <3>1 DEF Apart, Path, q
  <2>8. mem'.entry = mem.entry /\ mem'.cell = [mem.cell EXCEPT ![q] = c]
    BY <1>1, <1>8, <2>4, <2>6, MemFacts
  <2>9. ASSUME NEW a \in 0 .. USTACKTOP - 1, a \div PGSIZE # v, NEW x, Shows(mem, d, a, x)
        PROVE  Shows(mem', d, a, x)
    <3>1. q = get_page(mem, d, v)
      BY DEF q
    <3>2. OtherPages(mem, mem', d, v)
      BY ONLY <2>4, <2>5, <2>6, <2>8, <3>1, ShowsKept
    <3>3. QED
      BY <2>9, <3>2 DEF OtherPages
  <2>10. Filled(mem', d, prog, seg, next)
    <3>1. SUFFICES ASSUME NEW a \in prog[seg].va .. prog[seg].va + prog[seg].memsz - 1, a < next
                   PROVE  Shows(mem', d, a, Byte(prog, seg, a))
      BY DEF Filled
    <3>2. a \in 0 .. USTACKTOP - 1 /\ a \in Nat
      <4>1. prog \in Program /\ seg \in DOMAIN prog
        BY <1>2
      <4>2. /\ prog[seg].va .. prog[seg].va + prog[seg].memsz - 1 \subseteq 0 .. USTACKTOP - 1
            /\ USTACKTOP \in Nat
        BY <4>1, ProgramFacts
      <4>3. QED
        BY ONLY <3>1, <4>2
    <3>3. a < op.start => Shows(mem, d, a, Byte(prog, seg, a))
      <4>1. Filled(mem, d, prog, seg, op.start)
        BY <1>2
      <4>2. QED
        BY ONLY <3>1, <4>1 DEF Filled
    <3>4. CASE a < PGSIZE * v
      <4>1. a \div PGSIZE # v
        <5>1. SUFFICES ASSUME a \div PGSIZE = v PROVE FALSE
          OBVIOUS
        <5>2. a = PGSIZE * v + (a % PGSIZE) /\ a % PGSIZE \in Nat
          BY <1>5, <3>2, <5>1, DivFacts
        <5>3. QED
          BY <2>1, <3>2, <3>4, <5>2
      <4>2. a < op.start
        BY <1>5, <2>1, <3>2, <3>4
      <4>3. QED
        BY <2>9, <3>2, <3>3, <4>1, <4>2
    <3>5. CASE a >= PGSIZE * v
      <4>1. a \div PGSIZE = v /\ a % PGSIZE = a - PGSIZE * v
        BY <1>5, <2>1, <3>1, <3>2, <3>5, InPage
      <4>2. get_page(mem', d, v) = q
        BY <2>8, SameTables DEF q
      <4>3. mem'.cell[q] = c
        BY <2>6, <2>7, <2>8
      <4> DEFINE i == a - PGSIZE * v
      <4>4. i \in Offset
        BY <1>5, <2>1, <3>1, <3>2, <3>5 DEF Offset
      <4>5. CASE a < op.start
        <5>1. ~(i >= off)
          BY <1>5, <2>1, <3>2, <4>5
        <5>2. c[i] = mem.cell[q][i]
          BY <4>4, <5>1 DEF c
        <5>3. mem.cell[q][i] = Byte(prog, seg, a)
          BY <3>3, <4>1, <4>5 DEF Shows, q
        <5>4. QED
          BY <2>4, <4>1, <4>2, <4>3, <5>2, <5>3 DEF Shows
      <4>6. CASE a >= op.start
        <5>1. i >= off
          BY <1>5, <2>1, <3>2, <4>6
        <5>2. c[i] = Zeroed
          BY <4>4, <5>1 DEF c
        <5>3. Byte(prog, seg, a) = Zeroed
          BY <1>3, <1>4, <3>2, <4>6 DEF Byte
        <5>4. QED
          BY <2>4, <4>1, <4>2, <4>3, <5>2, <5>3 DEF Shows
      <4>7. QED
        BY <1>2, <3>2, <4>5, <4>6
    <3>6. QED
      BY <2>1, <3>2, <3>4, <3>5
  <2>11. ASSUME NEW i \in 1 .. Len(prog), i < seg
         PROVE  Filled(mem', d, prog, i, USTACKTOP)
    <3>1. SUFFICES ASSUME NEW a \in prog[i].va .. prog[i].va + prog[i].memsz - 1, a < USTACKTOP
                   PROVE  Shows(mem', d, a, Byte(prog, i, a))
      BY DEF Filled
    <3>2. a \in 0 .. USTACKTOP - 1
      BY <1>2, ProgramFacts
    <3>3. Shows(mem, d, a, Byte(prog, i, a))
      BY <1>2, <2>11, <3>1 DEF Filled
    <3>4. a \div PGSIZE \in PagesOf(SegArea(i))
      BY <1>1, <3>1, SegFacts DEF MmInv
    <3>5. PagesOf(SegArea(i)) \cap PagesOf(SegArea(seg)) = {}
      <4>1. Seen = seg /\ i \in 1 .. seg /\ seg \in 1 .. seg /\ i # seg
        BY <1>1, <1>2, <2>11 DEF Seen
      <4>2. QED
        BY <1>1, <1>2, <4>1 DEF MmInv, Loads, Segments, Is
    <3>6. a \div PGSIZE # v
      BY <2>5, <3>4, <3>5
    <3>7. QED
      BY <2>9, <3>2, <3>3, <3>6
  <2>12. QED
    BY <1>6, <2>10, <2>11 DEF LoadData, SameLoad
<1>9. QED
  BY <1>7, <1>8

-----------------------------------------------------------------------------
\* What fork has copied stays equal, while the parent waits.

\* The call is elsewhere.
LEMMA NotCopying ==
    ASSUME op' = Idle \/ op'.call # "fork" \/ op'.stage \in {"unmap", "range"}
    PROVE  CopyData'
BY DEF CopyData

\* A step of copy_mm that comes to pages that the parent lacks, or copies them.
LEMMA CopyKept ==
    ASSUME MmInv, CopyData, op.call = "fork", op.stage \in {"area", "copy"},
           op'.mm.pgdir = op.mm.pgdir, Source' = Source,
           Grows(mem, mem', op.mm.pgdir), Kept(mem, mem', Source.pgdir),
           \A v \in VPage : Visited(v)' =>
             \/ Visited(v) \/ get_page(mem, Source.pgdir, v) = 0
             \/ HasCopy(mem, mem', Source.pgdir, op.mm.pgdir, v)
    PROVE  CopyData'
<1> DEFINE s == Source.pgdir
           d == op.mm.pgdir
<1>1. op # Idle
  BY SourceFacts
<1>2. ASSUME NEW v \in VPage, Visited(v)', get_page(mem', s, v) # 0
      PROVE  /\ get_page(mem', d, v) # 0
             /\ mem'.cell[get_page(mem', d, v)] = mem'.cell[get_page(mem', s, v)]
  <2>1. /\ get_page(mem', s, v) = get_page(mem, s, v) /\ get_page(mem, s, v) # 0
        /\ mem'.cell[get_page(mem, s, v)] = mem.cell[get_page(mem, s, v)]
    BY <1>2 DEF Kept
  <2>2. CASE Visited(v)
    <3>1. /\ get_page(mem, d, v) # 0
          /\ mem.cell[get_page(mem, d, v)] = mem.cell[get_page(mem, s, v)]
      BY <1>1, <2>1, <2>2 DEF CopyData
    <3>2. /\ get_page(mem', d, v) = get_page(mem, d, v)
          /\ mem'.cell[get_page(mem, d, v)] = mem.cell[get_page(mem, d, v)]
      BY <3>1 DEF Grows
    <3>3. QED
      BY <2>1, <3>1, <3>2
  <2>3. CASE HasCopy(mem, mem', s, d, v)
    BY <2>1, <2>3 DEF HasCopy
  <2>4. QED
    BY <1>2, <2>1, <2>2, <2>3
<1>3. QED
  BY <1>2 DEF CopyData

\* At first dup_mmap has come to no page.
LEMMA ForkData ==
    ASSUME MmInv, NEW c \in Proc, do_fork(c)
    PROVE  CopyData'
<1> DEFINE n == Len(Source.areas)
<1>1. /\ Types /\ Held /\ Source # NULL /\ current \in alive
      /\ op'.k = n /\ op'.stage = "area" /\ Source' = Source
  BY DEF MmInv, do_fork, Ready, Source
<1>2. n \in Nat
  <2>1. AreasOK(Source.areas)
    BY <1>1 DEF Held, SpaceOK, Source, Types
  <2>2. QED
    BY <2>1 DEF AreasOK
<1>3. n + 1 .. n = {}
  BY <1>2
<1>4. \A v : ~Visited(v)'
  BY <1>1, <1>3 DEF Visited
<1>5. QED
  BY <1>4 DEF CopyData

\* dup_mmap begins and ends an area.
LEMMA AreaData ==
    ASSUME MmInv, CopyData, dup_mmap \/ AreaCopied
    PROVE  CopyData'
<1> DEFINE n == Len(Source.areas)
<1>1. /\ op.call = "fork" /\ op.stage \in {"area", "copy"} /\ mem' = mem /\ Source' = Source
  BY DEF dup_mmap, AreaCopied, At, Loading, Source
<1>2. /\ op # Idle /\ op \in ForkOp /\ AreasOK(Source.areas) /\ n \in Nat
      /\ DOMAIN Source.areas = 1 .. n
  BY <1>1, SourceFacts
<1>3. /\ Grows(mem, mem', op.mm.pgdir) /\ Kept(mem, mem', Source.pgdir)
      /\ op.k \in 0 .. n
  BY <1>1, <1>2 DEF Grows, Kept, MmInv, Copies
<1>4. CASE dup_mmap
  <2> DEFINE area == Source.areas[op.k]
             new == insert_vma_struct(op.mm.areas, area)
  <2>1. op' = [op EXCEPT !.stage = "copy", !.v = area[1], !.mm.areas = new] /\ op.k > 0
        /\ op.stage = "area"
    BY <1>4 DEF dup_mmap, At, Loading
  <2> HIDE DEF new
  <2>2. op.mm \in MmType
    BY <1>2 DEF ForkOp
  <2>3. /\ op'.mm.pgdir = op.mm.pgdir /\ op'.k = op.k /\ op'.stage = "copy" /\ op'.v = area[1]
    <3> DEFINE s == [op.mm EXCEPT !.areas = new]
    <3>1. op' = [op EXCEPT !.stage = "copy", !.v = area[1], !.mm = s]
      BY <2>1
    <3>2. s.pgdir = op.mm.pgdir
      BY <2>2 DEF MmType
    <3> HIDE DEF s, area
    <3>3. QED
      BY <1>2, <3>1, <3>2 DEF ForkOp
  <2>4. IsArea(area)
    <3>1. op.k \in 1 .. n
      BY ONLY <1>2, <1>3, <2>1
    <3>2. op.k \in DOMAIN Source.areas
      BY ONLY <1>2, <3>1
    <3>3. QED
      BY ONLY <1>2, <3>2 DEF AreasOK, area
  <2>5. \A v \in PagesOf(area) : ~(v < area[1])
    BY <2>4 DEF IsArea, PagesOf
  <2>6. \A v \in VPage : Visited(v)' => Visited(v)
    BY <1>1, <2>3, <2>5 DEF Visited
  <2>7. QED
    BY <1>1, <1>3, <2>3, <2>6, CopyKept
<1>5. CASE AreaCopied
  <2>1. /\ op.stage = "copy" /\ op.v >= Source.areas[op.k][2]
        /\ op' = [op EXCEPT !.stage = "area", !.k = @ - 1]
    BY <1>5 DEF AreaCopied, At, Loading
  <2>2. op.k \in 1 .. n /\ op.v \in Nat /\ IsArea(Source.areas[op.k])
    BY <1>1, <2>1, InArea
  <2>3. op'.k = op.k - 1 /\ op'.stage = "area" /\ op'.mm = op.mm /\ (op.k - 1) + 1 = op.k
    BY <1>2, <2>1, <2>2 DEF ForkOp
  <2>4. \A v \in PagesOf(Source.areas[op.k]) : v < op.v
    BY <2>1, <2>2 DEF PagesOf, IsArea
  <2>5. \A j \in op.k .. n : j = op.k \/ j \in op.k + 1 .. n
    BY <1>2, <2>2
  <2>6. \A v \in VPage : Visited(v)' => Visited(v)
    BY <1>1, <2>1, <2>3, <2>4, <2>5 DEF Visited
  <2>7. QED
    BY <1>1, <1>3, <2>3, <2>6, CopyKept
<1>6. QED
  BY <1>4, <1>5

\* One turn of copy_range.
LEMMA CopyRangeData ==
    ASSUME MmInv, CopyData, copy_range
    PROVE  CopyData'
<1>1. op.call = "fork" /\ op.stage = "copy"
  BY DEF copy_range, At
<1>2. SpacesKept /\ RangeCopied
  BY CopyRangeInv
<1>3. CASE op'.stage = "unmap"
  BY <1>3, NotCopying
<1>4. CASE op'.stage # "unmap"
  <2>1. /\ op'.call = "fork" /\ op'.stage = "copy" /\ op'.mm.pgdir = op.mm.pgdir /\ op'.k = op.k
        /\ op'.v \in Nat /\ Source' = Source /\ Grows(mem, mem', op.mm.pgdir)
        /\ \A w \in PagesOf(Source.areas[op.k]) : w < op'.v =>
             \/ w < op.v \/ get_page(mem, Source.pgdir, w) = 0
             \/ HasCopy(mem, mem', Source.pgdir, op.mm.pgdir, w)
    BY <1>2, <1>4 DEF RangeCopied
  <2>2. Kept(mem, mem', Source.pgdir)
    BY <1>1, <1>2, SourceFacts DEF SpacesKept, Source
  <2>3. \A v \in VPage : Visited(v)' =>
             \/ Visited(v) \/ get_page(mem, Source.pgdir, v) = 0
             \/ HasCopy(mem, mem', Source.pgdir, op.mm.pgdir, v)
    BY <1>1, <2>1 DEF Visited
  <2>4. QED
    BY <1>1, <2>1, <2>2, <2>3, CopyKept
<1>5. QED
  BY <1>3, <1>4

-----------------------------------------------------------------------------
\* Every process finds what it should.

\* The space with root d contains the memory image im.
Exact(m, d, im) == \A a \in DOMAIN im : Shows(m, d, a, im[a])

\* Nothing that a call does to other address spaces changes this one.
LEMMA OthersExact ==
    ASSUME Images, ImageExact, SpacesKept, NEW p \in Proc, mm'[p] = mm[p], image'[p] = image[p]
    PROVE  Exact(mem', mm'[p].pgdir, image'[p])
<1> DEFINE d == mm[p].pgdir
<1>1. SUFFICES ASSUME NEW a \in DOMAIN image[p]
               PROVE  Shows(mem', d, a, image[p][a])
  BY DEF Exact
<1>2. a \in 0 .. USTACKTOP - 1 /\ mm[p] # NULL
  BY <1>1 DEF Images
<1>3. a \div PGSIZE \in VPage
  BY <1>2, AddressFacts
<1>4. Shows(mem, d, a, image[p][a])
  BY <1>1 DEF ImageExact, Shows
<1>5. Kept(mem, mem', d)
  BY <1>2 DEF SpacesKept
<1>6. QED
  BY <1>3, <1>4, <1>5 DEF Kept, Shows

\* The image of one process is new.
LEMMA OneNew ==
    ASSUME Images, ImageExact, SpacesKept, NEW r \in Proc,
           \A p \in Proc \ {r} : mm'[p] = mm[p] /\ image'[p] = image[p],
           Exact(mem', mm'[r].pgdir, image'[r])
    PROVE  ImageExact'
<1>1. \A p \in Proc : Exact(mem', mm'[p].pgdir, image'[p])
  BY OthersExact
<1>2. QED
  BY <1>1 DEF ImageExact, Exact, Shows

\* No image is.
LEMMA NoneNew ==
    ASSUME Images, ImageExact, SpacesKept, mm' = mm, image' = image
    PROVE  ImageExact'
<1>1. \A p \in Proc : Exact(mem', mm'[p].pgdir, image'[p])
  BY OthersExact
<1>2. QED
  BY <1>1 DEF ImageExact, Exact, Shows

\* A process that leaves its address space finds nothing.
LEMMA LeaveData ==
    ASSUME Types, Images, ImageExact, Leave, mem' = mem, current \in Proc
    PROVE  ImageExact'
<1>1. SpacesKept
  BY DEF SpacesKept, Kept
<1>2. DOMAIN image = Proc /\ DOMAIN mm = Proc
  BY DEF Images, Types
<1>3. /\ \A p \in Proc \ {current} : mm'[p] = mm[p] /\ image'[p] = image[p]
      /\ image'[current] = <<>>
  BY <1>2 DEF Leave
<1>4. DOMAIN <<>> = {}
  OBVIOUS
<1>5. Exact(mem', mm'[current].pgdir, image'[current])
  BY <1>3, <1>4 DEF Exact
<1>6. QED
  BY <1>1, <1>3, <1>5, OneNew

\* A write changes what the process finds at that address, and nothing else.
LEMMA StoreData ==
    ASSUME MmInv, Images, ImageExact, NEW a, Store(a)
    PROVE  ImageExact'
<1> DEFINE v == a \div PGSIZE
           q == get_page(mem, satp, v)
           c == [mem.cell[q] EXCEPT ![a % PGSIZE] = Stored]
           im == image[current]
<1>1. /\ Types /\ Owned(mem, Roots) /\ q # 0 /\ mm' = mm /\ a \in DOMAIN im
      /\ image' = [image EXCEPT ![current][a] = Stored]
  BY DEF MmInv, Store, Ready
<1>2. /\ a \in 0 .. USTACKTOP - 1 /\ v \in VPage /\ a % PGSIZE \in Offset
      /\ current \in Proc /\ mm[current] # NULL /\ satp = mm[current].pgdir /\ satp \in Roots
  BY StoreAddress
<1>3. PageWritten(mem, Roots, mem', satp, q, c)
  BY StoreInv DEF StoredIn
<1>4. /\ Within(mem, Roots, mem', satp) /\ mem'.entry = mem.entry
      /\ mem'.cell = [mem.cell EXCEPT ![q] = c] /\ q \in Page
  BY <1>3 DEF PageWritten
<1>5. mem.cell \in [Page -> [Offset -> Value]] /\ DOMAIN image = Proc
  BY <1>1, MemFacts DEF Owned, Images
<1>6. /\ \A p \in Proc \ {current} : image'[p] = image[p]
      /\ image'[current] = [im EXCEPT ![a] = Stored]
  BY <1>1, <1>2, <1>5
<1>7. ASSUME NEW p \in Proc \ {current}
      PROVE  Exact(mem', mm'[p].pgdir, image'[p])
  <2> DEFINE d == mm[p].pgdir
  <2>1. SUFFICES ASSUME NEW b \in DOMAIN image[p]
                 PROVE  Shows(mem', d, b, image[p][b])
    BY <1>1, <1>6 DEF Exact
  <2>2. b \in 0 .. USTACKTOP - 1 /\ mm[p] # NULL
    BY <2>1 DEF Images
  <2>3. b \div PGSIZE \in VPage
    BY <2>2, AddressFacts
  <2>4. Shows(mem, d, b, image[p][b])
    BY <2>1 DEF ImageExact, Shows
  <2>5. d \in Roots /\ d # satp
    BY <1>1, <1>2, <2>2, RootsFacts DEF MmInv, Holders
  <2>6. Kept(mem, mem', d)
    BY <1>4, <2>5 DEF Within, Same
  <2>7. QED
    BY <2>3, <2>4, <2>6 DEF Kept, Shows
<1>8. Exact(mem', satp, image'[current])
  <2>1. ASSUME NEW b \in DOMAIN im
        PROVE  Shows(mem', satp, b, [im EXCEPT ![a] = Stored][b])
    <3> DEFINE x == IF b = a THEN Stored ELSE im[b]
    <3>1. [im EXCEPT ![a] = Stored][b] = x
      BY <1>1
    <3>2. Shows(mem, satp, b, im[b]) /\ b \in 0 .. USTACKTOP - 1
      BY <1>2, <2>1 DEF ImageExact, Shows, Images
    <3>3. CASE b \div PGSIZE # v
      <4>1. OtherPages(mem, mem', satp, v)
        <5>1. q = get_page(mem, satp, v)
          OBVIOUS
        <5> HIDE DEF q, c, v
        <5>2. QED
          BY ONLY <1>1, <1>2, <1>4, <5>1, ShowsKept
      <4>2. b # a
        BY <3>3
      <4>3. QED
        BY <3>1, <3>2, <3>3, <4>1, <4>2 DEF OtherPages
    <3>4. CASE b \div PGSIZE = v
      <4>1. get_page(mem', satp, v) = q
        BY <1>4, SameTables
      <4>2. mem'.cell[q] = c
        BY <1>4, <1>5
      <4>3. b % PGSIZE \in Offset /\ mem.cell[q][b % PGSIZE] = im[b] /\ mem.cell[q] \in [Offset -> Value]
        BY <1>4, <1>5, <3>2, <3>4, AddressFacts DEF Shows
      <4>4. b # a => b % PGSIZE # a % PGSIZE
        <5>1. /\ b = PGSIZE * (b \div PGSIZE) + (b % PGSIZE)
              /\ a = PGSIZE * (a \div PGSIZE) + (a % PGSIZE)
          BY <1>2, <3>2, AddressFacts
        <5>2. QED
          BY <3>4, <5>1
      <4>5. c[b % PGSIZE] = x
        BY <1>2, <4>3, <4>4
      <4> HIDE DEF c, q, x, v
      <4>6. QED
        BY <1>1, <3>1, <3>4, <4>1, <4>2, <4>5 DEF Shows
    <3>5. QED
      BY <3>3, <3>4
  <2>2. DOMAIN image'[current] = DOMAIN im
    BY <1>6
  <2>3. QED
    BY <1>6, <2>1, <2>2 DEF Exact
<1>9. \A p \in Proc : Exact(mem', mm'[p].pgdir, image'[p])
  BY <1>1, <1>2, <1>7, <1>8
<1>10. QED
  BY <1>9 DEF ImageExact, Exact, Shows

\* A write of a process that is astray changes that cell, which nobody counts on any more.
LEMMA StoreAstrayData ==
    ASSUME MmInv, Images, ImageExact, NEW a \in StoreAt, StoreAstray(a)
    PROVE  ImageExact'
<1> DEFINE q == get_page(mem, satp, a \div PGSIZE)
           Spoiled(p) == {b \in DOMAIN image[p] :
                            /\ get_page(mem, mm[p].pgdir, b \div PGSIZE) = q
                            /\ b % PGSIZE = a % PGSIZE}
<1>1. /\ Types /\ Holders /\ Owned(mem, Roots) /\ mm' = mm
      /\ image' = [p \in Proc |-> [b \in DOMAIN image[p] \ Spoiled(p) |-> image[p][b]]]
  BY DEF MmInv, StoreAstray
<1>2. /\ q \in Page /\ mem'.entry = mem.entry /\ mem.cell \in [Page -> [Offset -> Value]]
      /\ mem'.cell = [mem.cell EXCEPT ![q] = [mem.cell[q] EXCEPT ![a % PGSIZE] = Stored]]
  BY StoreAstrayInv DEF StoredAstray
<1>3. ASSUME NEW p \in Proc, NEW b \in DOMAIN image'[p]
      PROVE  Shows(mem', mm'[p].pgdir, b, image'[p][b])
  <2> DEFINE x == get_page(mem, mm[p].pgdir, b \div PGSIZE)
  <2>1. /\ b \in DOMAIN image[p] /\ b \notin Spoiled(p) /\ image'[p][b] = image[p][b]
    BY <1>1, <1>3
  <2>2. /\ x # q \/ b % PGSIZE # a % PGSIZE
        /\ x # 0 /\ mem.cell[x][b % PGSIZE] = image[p][b]
    BY <2>1 DEF ImageExact
  <2>3. b \in 0 .. USTACKTOP - 1 /\ mm[p] # NULL
    BY <2>1 DEF Images
  <2>4. b \div PGSIZE \in VPage /\ b % PGSIZE \in Offset /\ mm[p].pgdir \in Roots
    BY <1>1, <2>3, AddressFacts, RootsFacts
  <2>5. x \in Page
    <3>1. Apart(mem, Roots) /\ Path(mem, Roots, mm[p].pgdir, b \div PGSIZE)
      BY <1>1, <2>4, LevelsApart, PathFacts DEF Owned
    <3>2. QED
      BY <2>2, <3>1 DEF Apart, Path
  <2>6. get_page(mem', mm'[p].pgdir, b \div PGSIZE) = x
    BY <1>1, <1>2, SameTables
  <2> HIDE DEF x, q, Spoiled
  <2>7. mem'.cell[x][b % PGSIZE] = mem.cell[x][b % PGSIZE]
    BY <1>2, <2>2, <2>4, <2>5
  <2>8. QED
    BY <2>1, <2>2, <2>6, <2>7 DEF Shows
<1>4. QED
  BY <1>3 DEF ImageExact, Shows


\* The child finds what its parent does.
LEMMA CopyEndsData ==
    ASSUME MmInv, Images, ImageExact, CopyData, CopyEnds
    PROVE  ImageExact'
<1> DEFINE s == Source.pgdir
           d == op.mm.pgdir
           c == op.child
           n == Len(Source.areas)
<1>1. /\ op.call = "fork" /\ op.stage = "area" /\ op.k = 0 /\ mem' = mem
      /\ \/ /\ mm' = [mm EXCEPT ![c] = op.mm] /\ image' = [image EXCEPT ![c] = image[current]]
         \/ mm' = mm /\ image' = image
  BY DEF CopyEnds, At
<1>2. /\ op # Idle /\ current \in Proc /\ c \in Proc /\ n \in Nat /\ DOMAIN Source.areas = 1 .. n
      /\ SpaceOK(mem, Source, DOMAIN Source.areas, DOMAIN Source.areas)
  BY <1>1, SourceFacts
<1>3. SpacesKept
  BY <1>1 DEF SpacesKept, Kept
<1>4. CASE mm' = mm /\ image' = image
  BY <1>3, <1>4, NoneNew
<1>5. CASE mm' = [mm EXCEPT ![c] = op.mm] /\ image' = [image EXCEPT ![c] = image[current]]
  <2>1. /\ mm'[c] = op.mm /\ image'[c] = image[current]
        /\ \A p \in Proc \ {c} : mm'[p] = mm[p] /\ image'[p] = image[p]
    BY <1>2, <1>5 DEF Images, MmInv, Types
  <2>2. Exact(mem', d, image[current])
    <3>1. SUFFICES ASSUME NEW a \in DOMAIN image[current]
                   PROVE  Shows(mem, d, a, image[current][a])
      BY <1>1 DEF Exact
    <3> DEFINE v == a \div PGSIZE
    <3>2. Shows(mem, s, a, image[current][a])
      BY <1>2 DEF ImageExact, Shows, Source
    <3>3. v \in VPage
      <4>1. a \in 0 .. USTACKTOP - 1
        BY <1>2 DEF Images
      <4>2. QED
        BY <4>1, AddressFacts
    <3>4. get_page(mem, s, v) # 0
      BY <3>2 DEF Shows
    <3>5. \E j \in 1 .. n : v \in PagesOf(Source.areas[j])
      BY <1>2, <3>3, <3>4 DEF SpaceOK, PagesIn
    <3>6. Visited(v)
      BY <1>1, <3>5 DEF Visited
    <3>7. /\ get_page(mem, d, v) # 0
          /\ mem.cell[get_page(mem, d, v)] = mem.cell[get_page(mem, s, v)]
      BY <1>1, <1>2, <3>3, <3>4, <3>6 DEF CopyData
    <3>8. QED
      BY <3>2, <3>7 DEF Shows
  <2>3. QED
    BY <1>2, <1>3, <2>1, <2>2, OneNew
<1>6. QED
  BY <1>1, <1>4, <1>5

\* Segments that share no page share no address.
LEMMA OneSegment ==
    ASSUME MmInv, op.call = "exec", op.stage = "stack",
           NEW i \in 1 .. Len(op.prog),
           NEW a \in op.prog[i].va .. op.prog[i].va + op.prog[i].memsz - 1
    PROVE  Byte(op.prog, i, a)
             = IF \E j \in DOMAIN op.prog :
                    a \in op.prog[j].va .. op.prog[j].va + op.prog[j].filesz - 1
                 THEN a ELSE Zeroed
<1>1. /\ op \in ExecOp /\ op # Idle /\ Len(op.prog) \in Nat /\ op.seg \in Nat \ {0}
      /\ DOMAIN op.prog = 1 .. Len(op.prog)
      /\ \A j \in 1 .. Len(op.prog) :
           LET s == op.prog[j]
           IN  /\ s.va \in Nat /\ s.filesz \in Nat /\ s.memsz \in Nat
               /\ s.filesz <= s.memsz /\ s.memsz > 0 /\ s.va + s.memsz <= USTACKTOP
               /\ IsArea(SegArea(j))
               /\ \A b \in s.va .. s.va + s.memsz - 1 :
                    b \in 0 .. USTACKTOP - 1 /\ b \div PGSIZE \in PagesOf(SegArea(j))
  BY SegFacts DEF MmInv
<1>2. \A j, k \in 1 .. Len(op.prog) : j # k => PagesOf(SegArea(j)) \cap PagesOf(SegArea(k)) = {}
  <2>1. Segments /\ Is({"segment", "file", "bss", "stack"})
    BY <1>1 DEF MmInv, Loads, Is
  <2>2. op.seg - 1 = Len(op.prog) /\ Seen = op.seg - 1
    <3>1. Seen = op.seg - 1
      BY DEF Seen
    <3>2. Seen <= Len(op.prog) /\ op.seg > Len(op.prog)
      BY <2>1 DEF Segments
    <3>3. QED
      BY <1>1, <3>1, <3>2
  <2>3. QED
    BY <2>1, <2>2 DEF Segments
<1>3. ASSUME NEW j \in 1 .. Len(op.prog),
             a \in op.prog[j].va .. op.prog[j].va + op.prog[j].filesz - 1
      PROVE  i = j
  <2> DEFINE va == op.prog[j].va
             f == op.prog[j].filesz
             s == op.prog[j].memsz
  <2>1. va \in Nat /\ f \in Nat /\ s \in Nat /\ f <= s /\ a \in va .. va + f - 1
    BY <1>1, <1>3
  <2> HIDE DEF va, f, s
  <2>2. a \in va .. va + s - 1
    BY <2>1
  <2>3. a \div PGSIZE \in PagesOf(SegArea(j)) /\ a \div PGSIZE \in PagesOf(SegArea(i))
    BY <1>1, <2>2 DEF va, s
  <2>4. QED
    BY <1>2, <2>3
<1>4. a < op.prog[i].va + op.prog[i].filesz
        <=> a \in op.prog[i].va .. op.prog[i].va + op.prog[i].filesz - 1
  <2> DEFINE va == op.prog[i].va
             f == op.prog[i].filesz
             s == op.prog[i].memsz
  <2>1. va \in Nat /\ f \in Nat /\ s \in Nat /\ f <= s /\ a \in va .. va + s - 1
    BY <1>1
  <2> HIDE DEF va, f, s
  <2>2. a < va + f <=> a \in va .. va + f - 1
    BY <2>1
  <2>3. QED
    BY <2>2 DEF va, f
<1>5. QED
  BY <1>1, <1>3, <1>4 DEF Byte

\* The arguments are added to the segments: the program finds what it should.
LEMMA LoadEndsData ==
    ASSUME MmInv, Images, ImageExact, LoadData, LoadEnds
    PROVE  LoadData' /\ ImageExact'
<1> DEFINE d == op.mm.pgdir
           cells == USTACKTOP - op.arg .. USTACKTOP - 1
           page(a) == get_page(mem, d, a \div PGSIZE)
           C == [q \in Page |-> [i \in Offset |->
                   IF \E a \in cells : page(a) = q /\ a % PGSIZE = i
                     THEN Argument ELSE mem.cell[q][i]]]
           im == Loaded(op.prog, op.arg)
<1>1. op.call = "exec" /\ op.stage = "stack" /\ SpacesKept
  BY LoadEndsInv DEF LoadEnds, At
<1>2. /\ op.prog \in Program /\ DOMAIN op.prog = 1 .. Len(op.prog) /\ op \in ExecOp
      /\ Len(op.prog) \in Nat /\ op.seg \in Nat \ {0} /\ op.start \in Nat /\ op # Idle
      /\ \A i \in 1 .. Len(op.prog) :
           i < op.seg => Filled(mem, op.mm.pgdir, op.prog, i, USTACKTOP)
  BY <1>1, LoadFacts
<1>3. CASE Panic(mem)
  <2>1. mem' = mem /\ mm' = mm /\ image' = image /\ op' = op
    BY <1>3 DEF Panic
  <2>2. SameLoad("stack", op.start)
    BY <1>1, <2>1 DEF SameLoad
  <2>3. QED
    BY <1>1, <2>1, <2>2, StaysFilled, LoadGrows, NoneNew
<1>4. CASE /\ ~ \E a \in cells : page(a) = 0
           /\ mem' = [mem EXCEPT !.cell = C] /\ mm' = [mm EXCEPT ![current] = op.mm]
           /\ image' = [image EXCEPT ![current] = im] /\ op' = Idle
  <2>1. /\ Types /\ Owned(mem, Roots) /\ d \in Roots /\ current \in Proc
        /\ mem \in MemType /\ DOMAIN mm = Proc /\ DOMAIN image = Proc
        /\ op.seg > Len(op.prog)
    <3>1. Types /\ Owned(mem, Roots) /\ Holders
      BY DEF MmInv
    <3>2. current \in Proc
      BY <1>1, <1>2, <3>1 DEF Holders, Types
    <3>3. d \in Roots /\ mem \in MemType
      BY <1>1, <1>2, <3>1, RootsFacts
    <3>4. DOMAIN mm = Proc /\ DOMAIN image = Proc
      BY <3>1 DEF Types, Images
    <3>5. op.seg > Len(op.prog)
      BY <1>1, <1>2 DEF MmInv, Loads, Segments, Is
    <3>6. QED
      BY <3>1, <3>2, <3>3, <3>4, <3>5
  <2>2. mem'.entry = mem.entry /\ mem'.cell = C
    BY <1>4, <2>1, MemFacts
  <2>3. \A v : get_page(mem', d, v) = get_page(mem, d, v)
    BY <2>2, SameTables
  <2>4. /\ op.arg \in ArgSize /\ DOMAIN im \subseteq 0 .. USTACKTOP - 1
        /\ DOMAIN im = (UNION {op.prog[i].va .. op.prog[i].va + op.prog[i].memsz - 1 :
                                 i \in DOMAIN op.prog}) \cup cells
        /\ \A a \in DOMAIN im :
             im[a] = IF a \in cells THEN Argument
                     ELSE IF \E j \in DOMAIN op.prog :
                               a \in op.prog[j].va .. op.prog[j].va + op.prog[j].filesz - 1
                       THEN a ELSE Zeroed
    <3>1. op.arg \in ArgSize
      BY <1>2 DEF ExecOp
    <3>2. DOMAIN im \subseteq 0 .. USTACKTOP - 1
      BY <1>2, <3>1, LoadedDomain
    <3>3. QED
      BY <3>1, <3>2 DEF Loaded
  <2> HIDE DEF im, cells
  <2>5. \A a \in cells : a \in 0 .. USTACKTOP - 1 /\ a \in DOMAIN im
    BY <2>4
  <2>6. ASSUME NEW a \in DOMAIN im, a \in cells
        PROVE  Shows(mem', d, a, im[a])
    <3>1. a \div PGSIZE \in VPage /\ a % PGSIZE \in Offset
      BY <2>4, AddressFacts
    <3>2. page(a) # 0 /\ page(a) \in Page
      <4>1. Apart(mem, Roots)
        BY <2>1, LevelsApart
      <4>2. Path(mem, Roots, d, a \div PGSIZE)
        BY <2>1, <3>1, PathFacts DEF Owned
      <4>3. page(a) # 0
        BY <1>4, <2>6
      <4>4. QED
        BY <4>1, <4>2, <4>3 DEF Path, Apart
    <3>3. C[page(a)][a % PGSIZE] = Argument
      BY <2>6, <3>1, <3>2
    <3>4. QED
      BY <2>2, <2>3, <2>4, <2>6, <3>2, <3>3 DEF Shows
  <2>7. ASSUME NEW a \in DOMAIN im, a \notin cells
        PROVE  Shows(mem', d, a, im[a])
    <3>1. PICK i \in 1 .. Len(op.prog) :
            a \in op.prog[i].va .. op.prog[i].va + op.prog[i].memsz - 1
      BY <1>2, <2>4, <2>7
    <3>2. im[a] = Byte(op.prog, i, a)
      BY <1>1, <2>4, <2>7, <3>1, OneSegment
    <3>3. Shows(mem, d, a, im[a])
      <4>1. i < op.seg
        BY <1>2, <2>1, <3>1
      <4>2. a < USTACKTOP
        <5>1. a \in 0 .. USTACKTOP - 1 /\ USTACKTOP \in Nat
          BY <2>4, NVirtualFacts
        <5>2. QED
          BY ONLY <5>1
      <4>3. QED
        BY <1>2, <3>1, <3>2, <4>1, <4>2 DEF Filled
    <3>4. /\ a \in 0 .. USTACKTOP - 1 /\ a \div PGSIZE \in VPage /\ a % PGSIZE \in Offset
          /\ a = PGSIZE * (a \div PGSIZE) + (a % PGSIZE)
      BY <2>4, AddressFacts
    <3>5. page(a) # 0 /\ page(a) \in Page
      <4>1. Apart(mem, Roots)
        BY <2>1, LevelsApart
      <4>2. Path(mem, Roots, d, a \div PGSIZE)
        BY <2>1, <3>4, PathFacts DEF Owned
      <4>3. page(a) # 0
        BY <3>3 DEF Shows
      <4>4. QED
        BY <4>1, <4>2, <4>3 DEF Path, Apart
    <3>6. ASSUME NEW b \in cells, page(b) = page(a), b % PGSIZE = a % PGSIZE
          PROVE  FALSE
      <4>1. b \div PGSIZE \in VPage /\ b = PGSIZE * (b \div PGSIZE) + (b % PGSIZE)
        BY <2>5, AddressFacts
      <4>2. b \div PGSIZE = a \div PGSIZE
        BY <2>1, <3>4, <3>5, <3>6, <4>1, PathUnique
      <4>3. b = a
        BY <3>4, <3>6, <4>1, <4>2
      <4>4. QED
        BY <2>7, <4>3
    <3>7. C[page(a)][a % PGSIZE] = mem.cell[page(a)][a % PGSIZE]
      BY <3>4, <3>5, <3>6
    <3>8. QED
      BY <2>2, <2>3, <3>3, <3>7 DEF Shows
  <2>8. /\ mm'[current] = op.mm /\ image'[current] = im
        /\ \A p \in Proc \ {current} : mm'[p] = mm[p] /\ image'[p] = image[p]
    BY <1>4, <2>1
  <2>9. Exact(mem', d, im)
    BY <2>6, <2>7 DEF Exact
  <2>10. ImageExact'
    <3> HIDE DEF C
    <3>1. Exact(mem', mm'[current].pgdir, image'[current])
      BY <2>8, <2>9
    <3>2. QED
      BY <1>1, <2>1, <2>8, <3>1, OneNew
  <2>11. QED
    BY <1>4, <2>10, NotLoading
<1>5. QED
  BY <1>3, <1>4 DEF LoadEnds

\* A step of load_icode changes neither what the processes find nor their address
\* spaces, and copies nothing.
LEMMA LoadStays ==
    ASSUME MmInv, \/ setup_pgdir \/ NextSegment \/ LoadPage \/ ClearRest \/ ClearPage
                  \/ SegmentDone \/ MapStack \/ StackPage
    PROVE  mm' = mm /\ image' = image /\ CopyData'
<1>1. op.call = "exec"
  BY DEF setup_pgdir, NextSegment, LoadPage, ClearRest, ClearPage, SegmentDone, MapStack,
         StackPage, At
<1>2. op \in ExecOp
  BY <1>1, SegFacts DEF MmInv
<1>3. "call" \in DOMAIN op
  BY <1>2 DEF ExecOp
<1>4. ASSUME NEW m, LoadFails(m) \/ LoadGivesUp(m) \/ Panic(m)
      PROVE  mm' = mm /\ image' = image /\ (op' = Idle \/ op'.call = "exec")
  BY <1>1, <1>4 DEF LoadFails, LoadGivesUp, Panic, Die
<1>5. ASSUME NEW m, NEW rec, Loading(m, rec), rec.call = "exec"
      PROVE  mm' = mm /\ image' = image /\ (op' = Idle \/ op'.call = "exec")
  BY <1>5 DEF Loading
<1>6. ASSUME NEW stage, NEW start, NEW seg, NEW s, NEW areas
      PROVE  /\ [op EXCEPT !.start = start].call = "exec"
             /\ [op EXCEPT !.stage = stage, !.start = start].call = "exec"
             /\ [op EXCEPT !.stage = stage, !.seg = seg].call = "exec"
             /\ [op EXCEPT !.stage = stage, !.mm = s].call = "exec"
             /\ [[op EXCEPT !.stage = stage, !.start = start] EXCEPT !.mm.areas = areas].call
                  = "exec"
  BY <1>1, <1>3
<1>7. ASSUME NEW area, NEW stage, NEW start,
             mm_map(area, [op EXCEPT !.stage = stage, !.start = start])
      PROVE  mm' = mm /\ image' = image /\ (op' = Idle \/ op'.call = "exec")
  <2> DEFINE next == [op EXCEPT !.stage = stage, !.start = start]
             areas == insert_vma_struct(next.mm.areas, area)
  <2>1. [next EXCEPT !.mm.areas = areas].call = "exec"
    BY <1>6
  <2>2. \/ LoadFails(mem) \/ Panic(mem)
        \/ Loading(mem, [next EXCEPT !.mm.areas = areas])
    BY <1>7 DEF mm_map
  <2> HIDE DEF next, areas
  <2>3. QED
    BY <1>4, <1>5, <2>1, <2>2
<1>8. mm' = mm /\ image' = image /\ (op' = Idle \/ op'.call = "exec")
  <2>1. CASE setup_pgdir
    <3>1. CASE LoadFails(mem)
      BY <1>4, <3>1
    <3>2. CASE ~LoadFails(mem)
      BY <1>1, <1>3, <2>1, <3>2 DEF setup_pgdir, Loading
    <3>3. QED
      BY <3>1, <3>2
  <2>2. CASE NextSegment \/ MapStack
    BY <1>4, <1>7, <2>2 DEF NextSegment, MapStack
  <2>3. CASE LoadPage \/ ClearPage \/ StackPage
    BY <1>4, <1>5, <1>6, <2>3 DEF LoadPage, ClearPage, StackPage
  <2>4. CASE ClearRest \/ SegmentDone
    BY <1>1, <1>3, <2>4 DEF ClearRest, SegmentDone, Loading
  <2>5. QED
    BY <2>1, <2>2, <2>3, <2>4
<1>9. QED
  BY <1>8, NotCopying

\* load_icode begins with no segment.
LEMMA SetupData ==
    ASSUME MmInv, setup_pgdir
    PROVE  LoadData'
<1> DEFINE q == Min(mem.free)
<1>1. op.call = "exec" /\ op.stage = "setup"
  BY DEF setup_pgdir, At
<1>2. op \in ExecOp
  BY <1>1, SegFacts DEF MmInv
<1>3. CASE op' = Idle
  BY <1>3, NotLoading
<1>4. CASE op' = [op EXCEPT !.stage = "segment", !.mm = [NoMm EXCEPT !.pgdir = q]]
  <2>1. op'.stage = "segment" /\ op'.seg = 1
    BY <1>1, <1>2, <1>4 DEF ExecOp
  <2>2. \A i \in 1 .. Len(op'.prog) : ~(i < op'.seg)
    BY <2>1
  <2>3. QED
    BY <2>1, <2>2 DEF LoadData
<1>5. QED
  BY <1>3, <1>4 DEF setup_pgdir, LoadFails, Die, Loading

\* Each step of load_icode.
LEMMA LoadingData ==
    ASSUME MmInv, Images, LoadData, ImageExact, BssAligned,
           \/ setup_pgdir \/ NextSegment \/ LoadPage \/ ClearRest \/ ClearPage
           \/ SegmentDone \/ MapStack \/ StackPage
    PROVE  LoadData' /\ CopyData' /\ ImageExact'
<1>1. mm' = mm /\ image' = image /\ CopyData'
  BY LoadStays
<1>2. LoadData'
  BY SetupData, NextSegmentData, LoadPageData, ClearRestData, ClearPageData, SegmentDoneData,
     StackData
<1>3. SpacesKept
  <2>1. CASE NextSegment \/ MapStack \/ SegmentDone
    <3>1. mem' = mem
      BY <2>1 DEF NextSegment, MapStack, SegmentDone, mm_map, LoadFails, Panic, Loading
    <3>2. QED
      BY <3>1 DEF SpacesKept, Kept
  <2>2. QED
    BY <2>1, SetupInv, LoadPageInv, ClearRestInv, ClearPageInv, StackPageInv
<1>4. QED
  BY <1>1, <1>2, <1>3, NoneNew

\* Each step of copy_mm.
LEMMA CopyingData ==
    ASSUME MmInv, Images, CopyData, ImageExact, dup_mmap \/ copy_range \/ AreaCopied \/ CopyEnds
    PROVE  LoadData' /\ CopyData' /\ ImageExact'
<1>1. op.call = "fork"
  BY DEF dup_mmap, copy_range, AreaCopied, CopyEnds, At
<1>2. op \in ForkOp
  <2>1. Types /\ op # Idle
    BY <1>1, OpFacts DEF MmInv
  <2>2. QED
    BY <1>1, <2>1, OpFacts DEF OpIs
<1>3. "call" \in DOMAIN op
  BY <1>2 DEF ForkOp
<1>4. CASE CopyEnds
  <2>1. op' = Idle
    BY <1>4 DEF CopyEnds
  <2>2. QED
    BY <1>4, <2>1, CopyEndsData, NotLoading, NotCopying
<1>5. CASE dup_mmap \/ AreaCopied
  <2>1. mm' = mm /\ image' = image /\ mem' = mem /\ op'.call = "fork"
    BY <1>1, <1>3, <1>5 DEF dup_mmap, AreaCopied, Loading
  <2>2. SpacesKept
    BY <2>1 DEF SpacesKept, Kept
  <2>3. QED
    BY <1>5, <2>1, <2>2, AreaData, NoneNew, NotLoading
<1>6. CASE copy_range
  <2>1. mm' = mm /\ image' = image /\ op'.call = "fork"
    <3>1. ASSUME NEW m, NEW rec, Loading(m, rec),
                 \/ \E v : rec = [op EXCEPT !.v = v]
                 \/ \E stage, k : rec = [op EXCEPT !.stage = stage, !.k = k]
          PROVE  mm' = mm /\ image' = image /\ op'.call = "fork"
      BY <1>1, <1>3, <3>1 DEF Loading
    <3>2. ASSUME NEW m, Panic(m)
          PROVE  mm' = mm /\ image' = image /\ op'.call = "fork"
      BY <1>1, <3>2 DEF Panic
    <3>3. QED
      BY <1>6, <3>1, <3>2 DEF copy_range
  <2>2. QED
    BY <1>6, <2>1, CopyRangeInv, CopyRangeData, NoneNew, NotLoading
<1>7. QED
  BY <1>4, <1>5, <1>6

\* The calls begin, and address spaces are dismantled.
LEMMA OtherData ==
    ASSUME MmInv, Images, LoadData, CopyData, ImageExact,
           \/ schedule \/ do_exit \/ ExitAstray \/ UnmapArea \/ ExitArea \/ put_pgdir
           \/ \E prog \in Program, n \in ArgSize : do_execve(prog, n)
           \/ \E c \in Proc : do_fork(c)
           \/ \E a \in StoreAt : Store(a) \/ StoreAstray(a)
    PROVE  LoadData' /\ CopyData' /\ ImageExact'
<1>1. Types
  BY DEF MmInv
<1>2. CASE schedule \/ ExitAstray \/ \E a \in StoreAt : Store(a) \/ StoreAstray(a)
  <2>1. op' = Idle
    BY <1>2 DEF schedule, ExitAstray, Die, Store, StoreAstray, Ready
  <2>2. CASE schedule \/ ExitAstray
    <3>1. mem' = mem /\ mm' = mm /\ image' = image
      BY <2>2 DEF schedule, ExitAstray
    <3>2. SpacesKept
      BY <3>1 DEF SpacesKept, Kept
    <3>3. QED
      BY <2>1, <3>1, <3>2, NoneNew, NotLoading, NotCopying
  <2>3. CASE \E a \in StoreAt : Store(a) \/ StoreAstray(a)
    BY <2>1, <2>3, StoreData, StoreAstrayData, NotLoading, NotCopying
  <2>4. QED
    BY <1>2, <2>2, <2>3
<1>3. CASE do_exit \/ \E prog \in Program, n \in ArgSize : do_execve(prog, n)
  <2>1. /\ Leave /\ mem' = mem /\ current \in Proc /\ op'.call \in {"exit", "exec"}
        /\ op'.stage \in {"unmap", "setup"}
    BY <1>1, <1>3 DEF do_exit, do_execve, Ready, Types
  <2>2. QED
    BY <1>1, <2>1, LeaveData, NotLoading, NotCopying
<1>4. CASE \E c \in Proc : do_fork(c)
  <2>1. PICK c \in Proc : do_fork(c)
    BY <1>4
  <2>2. mm' = mm /\ image' = image /\ op'.call = "fork"
    BY <2>1 DEF do_fork
  <2>3. QED
    BY <2>1, <2>2, ForkInv, ForkData, NoneNew, NotLoading
<1>5. CASE UnmapArea \/ ExitArea \/ put_pgdir
  <2>1. op \in ExitOp \cup ExecOp \cup ForkOp /\ op # Idle
    BY <1>1, <1>5, OpFacts DEF OpIs, UnmapArea, ExitArea, put_pgdir
  <2>2. {"call", "stage"} \subseteq DOMAIN op
    BY <2>1 DEF ExitOp, ExecOp, ForkOp
  <2>3. mm' = mm /\ image' = image
    BY <1>5 DEF UnmapArea, ExitArea, put_pgdir
  <2>4. op' = Idle \/ op'.stage \in {"unmap", "range"} \/ (op'.stage = "setup" /\ op'.call # "fork")
    <3>1. CASE UnmapArea \/ ExitArea
      BY <2>2, <3>1 DEF UnmapArea, ExitArea
    <3>2. CASE put_pgdir
      BY <2>2, <3>2 DEF put_pgdir, Die
    <3>3. QED
      BY <1>5, <3>1, <3>2
  <2>5. SpacesKept
    BY <1>5, UnmapAreaInv, ExitAreaInv, PutPgdirInv
  <2>6. QED
    BY <2>3, <2>4, <2>5, NoneNew, NotLoading, NotCopying
<1>6. QED
  BY <1>2, <1>3, <1>4, <1>5

\* Every step of every call keeps the contents of memory as they should be.
LEMMA NextData ==
    ASSUME MmInv, Images, LoadData, CopyData, ImageExact, BssAligned, [Next]_vars
    PROVE  LoadData' /\ CopyData' /\ ImageExact'
<1>1. CASE \/ setup_pgdir \/ NextSegment \/ LoadPage \/ ClearRest \/ ClearPage
           \/ SegmentDone \/ MapStack \/ StackPage
  BY <1>1, LoadingData
<1>2. CASE LoadEnds
  <2>1. op.call = "exec" /\ (op' = op \/ op' = Idle)
    BY <1>2 DEF LoadEnds, At, Panic
  <2>2. CopyData'
    BY <2>1, NotCopying
  <2>3. QED
    BY <1>2, <2>2, LoadEndsData
<1>3. CASE dup_mmap \/ copy_range \/ AreaCopied \/ CopyEnds
  BY <1>3, CopyingData
<1>4. CASE \/ schedule \/ do_exit \/ ExitAstray \/ UnmapArea \/ ExitArea \/ put_pgdir
           \/ \E prog \in Program, n \in ArgSize : do_execve(prog, n)
           \/ \E c \in Proc : do_fork(c)
           \/ \E a \in StoreAt : Store(a) \/ StoreAstray(a)
  BY <1>4, OtherData
<1>5. CASE UNCHANGED vars
  <2>1. mem' = mem /\ mm' = mm /\ op' = op /\ image' = image /\ current' = current
    BY <1>5 DEF vars
  <2>2. ImageExact'
    BY <2>1 DEF ImageExact
  <2>3. LoadData'
    BY <2>1 DEF LoadData, Is
  <2>4. CopyData'
    <3>1. Source' = Source /\ \A v : Visited(v)' = Visited(v)
      BY <2>1 DEF Source, Visited
    <3>2. QED
      BY <2>1, <3>1 DEF CopyData
  <2>5. QED
    BY <2>2, <2>3, <2>4
<1>6. QED
  BY <1>1, <1>2, <1>3, <1>4, <1>5 DEF Next

-----------------------------------------------------------------------------
\* The inductive invariant of the address spaces: the three levels of their tables,
\* who holds which root, which areas the pages of each lie in, how far the call in
\* progress has come, and that nothing which a load gave up is in use (proc.c, pmm.c,
\* vmm.c).  A process whose load was given up runs on whatever its old root is now.
THEOREM MmInvariant == Spec => [](MmInv /\ Images)
<1>1. Init => MmInv /\ Images
  BY InitInv
<1>2. (MmInv /\ Images) /\ [Next]_vars => (MmInv /\ Images)'
  BY NextInv
<1>3. QED
  BY <1>1, <1>2, PTL DEF Spec

\* A page of user memory and a table have one referrer and page_ref 1, no root is
\* free or shared, and a process that has an mm runs on its own root, through
\* load_icode and copy_mm with their failures, exit_mmap and context switches (pmm.c,
\* vmm.c, proc.c).  satp holds a root that is not in use only while a process runs whose
\* exec has reported success without a program, and never while a call is in progress.
THEOREM PagesOwned == Spec => []PagesOwnedOnce
<1>1. MmInv => PagesOwnedOnce
  BY OwnedOnce
<1>2. QED
  BY <1>1, MmInvariant, PTL

\* After exit_mmap nothing mapped is left: unmap_range finds each page of the process,
\* because its pages lie in its areas; of what exit_range then leaves behind, nothing
\* is mapped: those are empty tables (vmm.c, pmm.c).
THEOREM Unmapped == Spec => []ExitUnmaps
<1>1. MmInv => ExitUnmaps
  BY NothingElse
<1>2. QED
  BY <1>1, MmInvariant, PTL
\* User code finds at each address what its program, its parent or it itself put
\* there: load_icode fills the segments page by page, copy_range gives the child a
\* page of its own with the parent's contents, and nothing that other processes and
\* calls do to page tables, page_ref or free memory reaches a page that is mapped
\* (proc.c, pmm.c, vmm.c).  A segment that is only cleared has to start with a page.
\* Cells that a process without an mm has written to are no longer promised (StoreAstray).
THEOREM ImagesExact == ASSUME BssAligned PROVE Spec => []ImageExact
<1> DEFINE Inv == MmInv /\ Images /\ LoadData /\ CopyData /\ ImageExact
<1>1. Init => Inv
  <2>1. SUFFICES ASSUME Init PROVE Inv
    OBVIOUS
  <2>2. MmInv /\ Images
    BY <2>1, InitInv
  <2>3. LoadData /\ CopyData
    BY <2>1 DEF Init, LoadData, CopyData, Is
  <2>4. ImageExact
    <3>1. \A p \in Proc : DOMAIN image[p] = {}
      BY <2>1, <2>2 DEF Init, Images
    <3>2. QED
      BY <3>1 DEF ImageExact
  <2>5. QED
    BY <2>2, <2>3, <2>4
<1>2. Inv /\ [Next]_vars => Inv'
  BY NextInv, NextData
<1>3. Inv => ImageExact
  OBVIOUS
<1> HIDE DEF Inv
<1>4. QED
  BY <1>1, <1>2, <1>3, PTL DEF Spec
=============================================================================
