----------------------------- MODULE FilesProofs -----------------------------
(***************************************************************************)
(* The counts of every inode are exact, descriptors keep their file and    *)
(* nothing unsaved is dropped, for every directory tree, number of         *)
(* processes, descriptors and inodes in memory.                            *)
(*                                                                         *)
(* A call takes and gives back references one at a time.  Good relates     *)
(* the inodes in memory to what is owed at such a point: R counts the      *)
(* references of each inode and O how often it is open, those that the     *)
(* call in progress holds included.  Every function of the VFS is a lemma  *)
(* about Good with R and O before and after; between calls R and O are     *)
(* what descriptor tables and current directories say.                     *)
(*                                                                         *)
(* The console input device, a file to its readers, is the second part.    *)
(***************************************************************************)
EXTENDS Files, Stdin, KernelLemmas

Ino == Dir \cup File \cup Dev \cup {NULL}

NodeRec ==
    [ino : Ino, ref_count : Int, open_count : Int, reclaim_count : Int,
     dirty : BOOLEAN, lost : Int]

FsType == [node : [Node -> NodeRec], list : SUBSET Slot, bootfs : Slot]

\* The reference of the boot directory and of the device list.
Base(c, n) == IF n = c.bootfs \/ n \in Dev THEN 1 ELSE 0

\* The record i of inode n is right when r references and o opens are owed.
NodeGood(i, base, n, r, o) ==
    /\ 0 <= o /\ o <= r
    /\ i.ino # NULL =>
         /\ i.open_count = o /\ i.ref_count = r + i.lost + base
         /\ i.ref_count > 0 /\ i.lost >= 0
         /\ n \in Slot => i.reclaim_count = 1
    /\ i.ino = NULL => r = 0
    /\ i.dirty => o > 0 /\ n \in Slot
    /\ n \in Dev => i.ino = n

\* The list of the SFS inodes in memory.
ListGood(c) ==
    /\ c.list = {n \in Slot : c.node[n].ino # NULL}
    /\ \A m, n \in c.list : c.node[m].ino = c.node[n].ino => m = n
    /\ c.node[c.bootfs].ino \in Dir

Good(c, R, O) ==
    /\ c \in FsType /\ R \in [Node -> Int] /\ O \in [Node -> Int]
    /\ \A n \in Node : NodeGood(c.node[n], Base(c, n), n, R[n], O[n])
    /\ ListGood(c)

Add(R, n, k) == [R EXCEPT ![n] = @ + k]

\* An inode that is referenced throughout keeps its name.
Same(c, d, R) == \A m \in Node : R[m] > 0 => d.node[m].ino = c.node[m].ino

With(c, n, i) == [c EXCEPT !.node[n] = i]

-----------------------------------------------------------------------------
\* What Good says of one inode.
LEMMA GoodFacts ==
    ASSUME NEW c, NEW R, NEW O, Good(c, R, O), NEW n \in Node
    PROVE  /\ c \in FsType /\ c.node[n] \in NodeRec /\ c.bootfs \in Slot
           /\ NULL \notin Node /\ R[n] \in Int /\ O[n] \in Int /\ Base(c, n) \in {0, 1}
           /\ NodeGood(c.node[n], Base(c, n), n, R[n], O[n])
BY FilesAssumption DEF Good, FsType, Base

\* R2 and R differ at n only.
Elsewhere(R, R2, n) == R2 \in [Node -> Int] /\ \A m \in Node : m # n => R2[m] = R[m]

\* Changing one function value.
LEMMA AddFacts ==
    ASSUME NEW R \in [Node -> Int], NEW n \in Node, NEW k \in Int
    PROVE  /\ Add(R, n, k) \in [Node -> Int]
           /\ Add(R, n, k)[n] = R[n] + k
           /\ \A m \in Node : m # n => Add(R, n, k)[m] = R[m]
           /\ Elsewhere(R, Add(R, n, k), n)
BY DEF Add, Elsewhere

\* Changing one inode.
LEMMA WithFacts ==
    ASSUME NEW c \in FsType, NEW n \in Node, NEW i \in NodeRec
    PROVE  /\ With(c, n, i) \in FsType
           /\ With(c, n, i).node[n] = i
           /\ \A m \in Node : m # n => With(c, n, i).node[m] = c.node[m]
           /\ With(c, n, i).list = c.list /\ With(c, n, i).bootfs = c.bootfs
BY DEF With, FsType

\* An inode is changed that stays in memory, and nothing else.
LEMMA ChangeGood ==
    ASSUME NEW c, NEW R, NEW O, Good(c, R, O), NEW n \in Node, NEW i \in NodeRec,
           NEW R2, NEW O2, Elsewhere(R, R2, n), Elsewhere(O, O2, n),
           i.ino = c.node[n].ino, NodeGood(i, Base(c, n), n, R2[n], O2[n])
    PROVE  /\ Good(With(c, n, i), R2, O2)
           /\ \A m \in Node : With(c, n, i).node[m].ino = c.node[m].ino
<1> DEFINE d == With(c, n, i)
<1>1. c \in FsType /\ c.bootfs \in Slot /\ Slot \subseteq Node /\ c.list \subseteq Slot
  BY DEF Good, FsType, Node
<1>2. /\ d \in FsType /\ d.node[n] = i /\ \A m \in Node : m # n => d.node[m] = c.node[m]
      /\ d.list = c.list /\ d.bootfs = c.bootfs
  BY <1>1, WithFacts
<1> HIDE DEF d
<1>3. \A m \in Node : d.node[m].ino = c.node[m].ino /\ Base(d, m) = Base(c, m)
  BY <1>2 DEF Base
<1>4. ListGood(d)
  BY <1>1, <1>2, <1>3 DEF Good, ListGood
<1>5. ASSUME NEW m \in Node PROVE NodeGood(d.node[m], Base(d, m), m, R2[m], O2[m])
  <2>1. CASE m = n
    BY <1>2, <1>3, <2>1
  <2>2. CASE m # n
    BY <1>2, <1>3, <2>2 DEF Good, Elsewhere
  <2>3. QED
    BY <2>1, <2>2
<1>6. Good(d, R2, O2)
  BY <1>2, <1>4, <1>5 DEF Good, Elsewhere
<1>7. QED
  BY <1>3, <1>6 DEF d

\* inode_ref_inc of an inode in memory.
LEMMA IncGood ==
    ASSUME NEW c, NEW R, NEW O, Good(c, R, O), NEW n \in Node, c.node[n].ino # NULL
    PROVE  /\ Good(inode_ref_inc(c, n), Add(R, n, 1), O)
           /\ \A m \in Node : inode_ref_inc(c, n).node[m].ino = c.node[m].ino
<1> DEFINE i == [c.node[n] EXCEPT !.ref_count = @ + 1]
<1>1. /\ c.node[n] \in NodeRec /\ R[n] \in Int /\ O[n] \in Int /\ Base(c, n) \in {0, 1}
      /\ NodeGood(c.node[n], Base(c, n), n, R[n], O[n])
      /\ R \in [Node -> Int] /\ O \in [Node -> Int]
  BY GoodFacts DEF Good
<1>2. inode_ref_inc(c, n) = With(c, n, i)
  BY DEF inode_ref_inc, With
<1>3. i \in NodeRec /\ i.ino = c.node[n].ino
  BY <1>1 DEF NodeRec
<1>4. NodeGood(i, Base(c, n), n, R[n] + 1, O[n])
  BY <1>1 DEF NodeGood, NodeRec
<1>5. Elsewhere(R, Add(R, n, 1), n) /\ Add(R, n, 1)[n] = R[n] + 1
  BY <1>1, AddFacts
<1>6. Elsewhere(O, O, n)
  BY <1>1 DEF Elsewhere
<1> HIDE DEF i
<1>7. QED
  BY <1>2, <1>3, <1>4, <1>5, <1>6, ChangeGood

\* inode_open_inc of an inode that the caller holds a reference to.
LEMMA OpenIncGood ==
    ASSUME NEW c, NEW R, NEW O, Good(c, R, O), NEW n \in Node, O[n] < R[n]
    PROVE  /\ Good(inode_open_inc(c, n), R, Add(O, n, 1))
           /\ \A m \in Node : inode_open_inc(c, n).node[m].ino = c.node[m].ino
<1> DEFINE i == [c.node[n] EXCEPT !.open_count = @ + 1]
<1>1. /\ c.node[n] \in NodeRec /\ R[n] \in Int /\ O[n] \in Int /\ Base(c, n) \in {0, 1}
      /\ NodeGood(c.node[n], Base(c, n), n, R[n], O[n])
      /\ R \in [Node -> Int] /\ O \in [Node -> Int]
  BY GoodFacts DEF Good
<1>2. inode_open_inc(c, n) = With(c, n, i)
  BY DEF inode_open_inc, With
<1>3. i \in NodeRec /\ i.ino = c.node[n].ino
  BY <1>1 DEF NodeRec
<1>4. NodeGood(i, Base(c, n), n, R[n], O[n] + 1)
  BY <1>1 DEF NodeGood, NodeRec
<1>5. Elsewhere(O, Add(O, n, 1), n) /\ Add(O, n, 1)[n] = O[n] + 1
  <2>1. O \in [Node -> Int] /\ 1 \in Int
    BY <1>1
  <2>2. QED
    BY ONLY <2>1, n \in Node, AddFacts
<1>6. Elsewhere(R, R, n)
  BY <1>1 DEF Elsewhere
<1> HIDE DEF i
<1>7. QED
  BY <1>2, <1>3, <1>4, <1>5, <1>6, ChangeGood

\* sfs_fsync.
LEMMA SyncGood ==
    ASSUME NEW c, NEW R, NEW O, Good(c, R, O), NEW n \in Node
    PROVE  /\ Good(sfs_fsync(c, n), R, O)
           /\ \A m \in Node : sfs_fsync(c, n).node[m].ino = c.node[m].ino
<1> DEFINE i == [c.node[n] EXCEPT !.dirty = FALSE]
<1>1. /\ c.node[n] \in NodeRec /\ R[n] \in Int /\ O[n] \in Int /\ Base(c, n) \in {0, 1}
      /\ NodeGood(c.node[n], Base(c, n), n, R[n], O[n])
      /\ R \in [Node -> Int] /\ O \in [Node -> Int]
  BY GoodFacts DEF Good
<1>2. sfs_fsync(c, n) = With(c, n, i)
  BY DEF sfs_fsync, With
<1>3. i \in NodeRec /\ i.ino = c.node[n].ino
  BY <1>1 DEF NodeRec
<1>4. NodeGood(i, Base(c, n), n, R[n], O[n])
  BY <1>1 DEF NodeGood, NodeRec
<1>5. Elsewhere(O, O, n) /\ Elsewhere(R, R, n)
  BY <1>1 DEF Elsewhere
<1> HIDE DEF i
<1>6. QED
  BY <1>2, <1>3, <1>4, <1>5, ChangeGood

\* n is freed and leaves the list.
Without(c, n) == [With(c, n, Freed) EXCEPT !.list = @ \ {n}]

\* An inode to which nothing is owed leaves memory.
LEMMA KillGood ==
    ASSUME NEW c, NEW R, NEW O, Good(c, R, O), NEW n \in Node, R[n] = 1, O[n] = 0,
           Base(c, n) = 0
    PROVE  /\ Good(Without(c, n), Add(R, n, -1), O)
           /\ \A m \in Node : m # n => Without(c, n).node[m].ino = c.node[m].ino
<1> DEFINE d == Without(c, n)
           R2 == Add(R, n, -1)
<1>1. /\ c \in FsType /\ c.bootfs \in Slot /\ Slot \subseteq Node /\ c.list \subseteq Slot
      /\ NULL \notin Node /\ R \in [Node -> Int] /\ O \in [Node -> Int]
  BY FilesAssumption DEF Good, FsType, Node
<1>2. n \notin Dev /\ n # c.bootfs /\ n \in Slot
  BY DEF Base, Node
<1>3. Freed \in NodeRec /\ Freed.ino = NULL
  BY DEF Freed, NodeRec, Ino
<1>4. /\ d \in FsType /\ d.node[n] = Freed /\ d.list = c.list \ {n} /\ d.bootfs = c.bootfs
      /\ \A m \in Node : m # n => d.node[m] = c.node[m]
  <2>1. PICK w : w = With(c, n, Freed)
    OBVIOUS
  <2>2. /\ w \in FsType /\ w.node[n] = Freed /\ w.list = c.list /\ w.bootfs = c.bootfs
        /\ \A m \in Node : m # n => w.node[m] = c.node[m]
    BY <1>1, <1>3, <2>1, WithFacts
  <2>3. d = [w EXCEPT !.list = @ \ {n}]
    BY <2>1 DEF Without
  <2>4. d \in FsType /\ d.node = w.node /\ d.list = w.list \ {n} /\ d.bootfs = w.bootfs
    BY ONLY <2>2, <2>3 DEF FsType
  <2>5. QED
    BY <2>2, <2>4
<1> HIDE DEF d
<1>5. /\ R2 \in [Node -> Int] /\ R2[n] = 0 /\ \A m \in Node : m # n => R2[m] = R[m]
  <2>1. -1 \in Int /\ R[n] + (-1) = 0
    OBVIOUS
  <2>2. QED
    BY <1>1, <2>1, AddFacts
<1> HIDE DEF R2
<1>6. ASSUME NEW m \in Node PROVE NodeGood(d.node[m], Base(d, m), m, R2[m], O[m])
  <2>1. CASE m = n
    BY <1>2, <1>3, <1>4, <1>5, <2>1, FilesAssumption DEF NodeGood, Freed
  <2>2. CASE m # n
    <3>1. Base(d, m) = Base(c, m)
      BY <1>4 DEF Base
    <3>2. QED
      BY <1>4, <1>5, <2>2, <3>1 DEF Good
  <2>3. QED
    BY <2>1, <2>2
<1>7. ListGood(d)
  <2>1. ListGood(c)
    BY DEF Good
  <2>2. d.list = {m \in Slot : d.node[m].ino # NULL}
    BY <1>1, <1>2, <1>3, <1>4, <2>1 DEF ListGood
  <2>3. d.node[d.bootfs].ino \in Dir
    BY <1>1, <1>2, <1>4, <2>1 DEF ListGood
  <2>4. \A a, b \in d.list : d.node[a].ino = d.node[b].ino => a = b
    BY <1>1, <1>4, <2>1 DEF ListGood
  <2>5. QED
    BY <2>2, <2>3, <2>4 DEF ListGood
<1>8. Good(d, R2, O)
  BY <1>1, <1>4, <1>5, <1>6, <1>7 DEF Good
<1>9. QED
  BY <1>4, <1>8 DEF d, R2

\* Of two changes to an inode the second one counts.
LEMMA WithTwice ==
    ASSUME NEW c \in FsType, NEW n \in Node, NEW i \in NodeRec, NEW j \in NodeRec
    PROVE  /\ With(With(c, n, i), n, j) = With(c, n, j)
           /\ inode_kill([With(c, n, i) EXCEPT !.list = @ \ {n}], n) = Without(c, n)
<1>1. PICK f, l, b : c = [node |-> f, list |-> l, bootfs |-> b] /\ f \in [Node -> NodeRec]
  BY DEF FsType
<1>2. PICK g : g = [f EXCEPT ![n] = i]
  OBVIOUS
<1>3. /\ [g EXCEPT ![n] = j] = [f EXCEPT ![n] = j]
      /\ [g EXCEPT ![n] = Freed] = [f EXCEPT ![n] = Freed]
  BY <1>1, <1>2
<1>4. /\ With(c, n, i) = [node |-> g, list |-> l, bootfs |-> b]
      /\ With(c, n, j) = [node |-> [f EXCEPT ![n] = j], list |-> l, bootfs |-> b]
      /\ With(c, n, Freed) = [node |-> [f EXCEPT ![n] = Freed], list |-> l, bootfs |-> b]
  BY <1>1, <1>2 DEF With
<1>5. PICK w : w = With(c, n, i)
  OBVIOUS
<1>6. With(With(c, n, i), n, j) = With(c, n, j)
  BY ONLY <1>3, <1>4 DEF With
<1>7. inode_kill([With(c, n, i) EXCEPT !.list = @ \ {n}], n)
        = [node |-> [f EXCEPT ![n] = Freed], list |-> l \ {n}, bootfs |-> b]
  <2>1. PICK v : v = [node |-> g, list |-> l \ {n}, bootfs |-> b]
    OBVIOUS
  <2>2. w = [node |-> g, list |-> l, bootfs |-> b]
    BY <1>4, <1>5
  <2>3. [w EXCEPT !.list = @ \ {n}] = v
    BY ONLY <2>1, <2>2
  <2>4. inode_kill(v, n) = [v EXCEPT !.node[n] = Freed]
    BY DEF inode_kill
  <2>5. [v EXCEPT !.node[n] = Freed]
          = [node |-> [g EXCEPT ![n] = Freed], list |-> l \ {n}, bootfs |-> b]
    BY ONLY <2>1
  <2>6. QED
    BY ONLY <1>3, <1>5, <2>3, <2>4, <2>5
<1>8. Without(c, n) = [node |-> [f EXCEPT ![n] = Freed], list |-> l \ {n}, bootfs |-> b]
  BY ONLY <1>4 DEF Without
<1>9. QED
  BY <1>6, <1>7, <1>8

\* What is known of an inode when its last reference goes.
LEMMA LastReference ==
    ASSUME NEW i \in NodeRec, NEW b \in {0, 1}, NEW n \in Node, NEW r \in Int, NEW o \in Int,
           NodeGood(i, b, n, r, o), o < r, i.ref_count - 1 = 0
    PROVE  r = 1 /\ o = 0 /\ b = 0 /\ (n \in Slot => i.reclaim_count = 1)
BY DEF NodeGood, NodeRec

\* inode_ref_dec of a reference that no open descriptor holds.
LEMMA DecGood ==
    ASSUME NEW c, NEW R, NEW O, Good(c, R, O), NEW n \in Node, O[n] < R[n]
    PROVE  /\ Good(inode_ref_dec(c, n), Add(R, n, -1), O)
           /\ Same(c, inode_ref_dec(c, n), Add(R, n, -1))
<1> DEFINE i == [c.node[n] EXCEPT !.ref_count = @ - 1]
           c1 == With(c, n, i)
           r == inode_ref_dec(c, n)
           R2 == Add(R, n, -1)
<1>1. /\ c.node[n] \in NodeRec /\ R[n] \in Int /\ O[n] \in Int /\ Base(c, n) \in {0, 1}
      /\ NodeGood(c.node[n], Base(c, n), n, R[n], O[n])
      /\ R \in [Node -> Int] /\ O \in [Node -> Int] /\ c \in FsType
  BY GoodFacts DEF Good
<1>2. c1 = [c EXCEPT !.node[n].ref_count = @ - 1]
  BY DEF With
<1>3. i \in NodeRec /\ i.ino = c.node[n].ino /\ i.ref_count = c.node[n].ref_count - 1
  BY <1>1 DEF NodeRec
<1>4. /\ c1 \in FsType /\ c1.node[n] = i
  BY <1>1, <1>3, WithFacts
<1>5. Elsewhere(R, R2, n) /\ R2[n] = R[n] - 1
  <2>1. R \in [Node -> Int] /\ -1 \in Int /\ R[n] + (-1) = R[n] - 1
    BY <1>1
  <2>2. QED
    BY ONLY <2>1, n \in Node, AddFacts
<1>6. CASE i.ref_count # 0
  <2>1. r = c1
    BY <1>2, <1>4, <1>6 DEF inode_ref_dec
  <2>2. NodeGood(i, Base(c, n), n, R[n] - 1, O[n])
    BY <1>1, <1>6 DEF NodeGood, NodeRec
  <2>3. Elsewhere(O, O, n)
    BY <1>1 DEF Elsewhere
  <2> HIDE DEF i, R2
  <2>4. Good(c1, R2, O) /\ \A m \in Node : c1.node[m].ino = c.node[m].ino
    BY <1>3, <1>5, <2>2, <2>3, ChangeGood
  <2>5. QED
    BY <2>1, <2>4 DEF Same, R2
<1>7. CASE i.ref_count = 0
  <2>1. /\ R[n] = 1 /\ O[n] = 0 /\ Base(c, n) = 0 /\ n \in Slot
        /\ c.node[n].reclaim_count = 1
    <3>1. /\ R[n] = 1 /\ O[n] = 0 /\ Base(c, n) = 0
          /\ n \in Slot => c.node[n].reclaim_count = 1
      <4>1. c.node[n].ref_count - 1 = 0
        BY <1>3, <1>7
      <4>2. QED
        BY <1>1, <4>1, LastReference
    <3>2. QED
      BY <3>1 DEF Base, Node
  <2>2. r = sfs_reclaim(c1, n)
    BY <1>2, <1>4, <1>7 DEF inode_ref_dec
  <2>3. r = Without(c, n)
    <3>0. PICK q \in NodeRec : q = i
      BY <1>3
    <3>1. q.reclaim_count = 1 /\ q.ref_count = 0
      BY <1>3, <1>7, <2>1, <3>0
    <3>2. PICK j : j = [q EXCEPT !.reclaim_count = @ - 1]
      OBVIOUS
    <3>3. PICK k : k = [j EXCEPT !.dirty = FALSE]
      OBVIOUS
    <3>4. j \in NodeRec /\ k \in NodeRec /\ j.reclaim_count = 0 /\ j.ref_count = 0
      <4>1. j \in NodeRec /\ j.reclaim_count = 0 /\ j.ref_count = 0
        BY ONLY q \in NodeRec, <3>1, <3>2 DEF NodeRec
      <4>2. k \in NodeRec
        BY ONLY <3>3, <4>1 DEF NodeRec
      <4>3. QED
        BY <4>1, <4>2
    <3> HIDE DEF i
    <3>5. c1 = With(c, n, q)
      BY <3>0
    <3>6. PICK c2 : c2 = With(c, n, j)
      OBVIOUS
    <3>7. c2 \in FsType /\ c2.node[n] = j
      BY <1>1, <3>4, <3>6, WithFacts
    <3>8. [c1 EXCEPT !.node[n].reclaim_count = @ - 1] = c2
      <4>1. c1.node[n] = q
        BY <1>1, <3>5, WithFacts
      <4>2. [c1 EXCEPT !.node[n].reclaim_count = @ - 1] = With(c1, n, j)
        BY <3>2, <4>1 DEF With
      <4>3. With(c1, n, j) = With(c, n, j)
        <5>1. c \in FsType /\ q \in NodeRec /\ j \in NodeRec
          BY <1>1, <3>4
        <5>2. With(With(c, n, q), n, j) = With(c, n, j)
          BY ONLY <5>1, n \in Node, WithTwice
        <5>3. QED
          BY ONLY <3>5, <5>2
      <4>4. QED
        BY <3>6, <4>2, <4>3
    <3>9. sfs_reclaim(c1, n) = inode_kill([sfs_fsync(c2, n) EXCEPT !.list = @ \ {n}], n)
      BY <3>4, <3>7, <3>8 DEF sfs_reclaim
    <3>10. sfs_fsync(c2, n) = With(c, n, k)
      <4>1. sfs_fsync(c2, n) = With(c2, n, k)
        BY <3>3, <3>7 DEF sfs_fsync, With
      <4>2. With(c2, n, k) = With(c, n, k)
        BY <1>1, <3>4, <3>6, WithTwice
      <4>3. QED
        BY <4>1, <4>2
    <3>11. inode_kill([With(c, n, k) EXCEPT !.list = @ \ {n}], n) = Without(c, n)
      BY <1>1, <3>4, WithTwice
    <3>12. QED
      BY <2>2, <3>9, <3>10, <3>11
  <2>4. Good(r, R2, O) /\ \A m \in Node : m # n => r.node[m].ino = c.node[m].ino
    <3> HIDE DEF r
    <3>1. /\ Good(Without(c, n), Add(R, n, -1), O)
          /\ \A m \in Node : m # n => Without(c, n).node[m].ino = c.node[m].ino
      BY <2>1, KillGood
    <3>2. QED
      BY <2>3, <3>1
  <2> HIDE DEF r, R2
  <2>5. Same(c, r, R2)
    BY <1>5, <2>1, <2>4 DEF Same
  <2>6. QED
    BY <2>4, <2>5 DEF r, R2
<1>8. QED
  BY <1>6, <1>7

\* inode_open_dec of an open inode: the last close leaves nothing unsaved.
LEMMA OpenDecGood ==
    ASSUME NEW c, NEW R, NEW O, Good(c, R, O), NEW n \in Node, O[n] > 0
    PROVE  /\ Good(inode_open_dec(c, n), R, Add(O, n, -1))
           /\ \A m \in Node : inode_open_dec(c, n).node[m].ino = c.node[m].ino
<1> DEFINE i == [c.node[n] EXCEPT !.open_count = @ - 1]
           O2 == Add(O, n, -1)
<1>1. /\ c.node[n] \in NodeRec /\ R[n] \in Int /\ O[n] \in Int /\ Base(c, n) \in {0, 1}
      /\ NodeGood(c.node[n], Base(c, n), n, R[n], O[n])
      /\ R \in [Node -> Int] /\ O \in [Node -> Int] /\ c \in FsType
  BY GoodFacts DEF Good
<1>2. [c EXCEPT !.node[n].open_count = @ - 1] = With(c, n, i)
  BY DEF With
<1>3. /\ i \in NodeRec /\ i.ino = c.node[n].ino /\ i.dirty = c.node[n].dirty
      /\ i.open_count = c.node[n].open_count - 1 /\ i.ref_count = c.node[n].ref_count
      /\ i.lost = c.node[n].lost /\ i.reclaim_count = c.node[n].reclaim_count
  BY <1>1 DEF NodeRec
<1> HIDE DEF i
<1>4. PICK c1 : c1 = With(c, n, i)
  OBVIOUS
<1>5. c1 \in FsType /\ c1.node[n] = i
  BY <1>1, <1>3, <1>4, WithFacts
<1>6. Elsewhere(O, O2, n) /\ O2[n] = O[n] - 1
  <2>1. O \in [Node -> Int] /\ -1 \in Int /\ O[n] + (-1) = O[n] - 1
    BY <1>1
  <2>2. QED
    BY ONLY <2>1, n \in Node, AddFacts
<1>7. Elsewhere(R, R, n)
  BY <1>1 DEF Elsewhere
<1> HIDE DEF O2
<1>8. i.open_count = O[n] - 1
  BY <1>1, <1>3 DEF NodeGood
<1>9. CASE i.open_count = 0 /\ n \notin Dev
  <2>1. PICK j : j = [i EXCEPT !.dirty = FALSE]
    OBVIOUS
  <2>2. /\ j \in NodeRec /\ j.ino = i.ino /\ ~j.dirty
        /\ j.open_count = i.open_count /\ j.ref_count = i.ref_count
        /\ j.lost = i.lost /\ j.reclaim_count = i.reclaim_count
    BY ONLY <1>3, <2>1 DEF NodeRec
  <2>3. NodeGood(j, Base(c, n), n, R[n], O[n] - 1)
    BY <1>1, <1>3, <1>8, <2>2 DEF NodeGood, NodeRec
  <2>4. inode_open_dec(c, n) = sfs_fsync(c1, n)
    BY <1>2, <1>4, <1>5, <1>9 DEF inode_open_dec
  <2>5. sfs_fsync(c1, n) = With(c1, n, j)
    BY <1>5, <2>1 DEF sfs_fsync, With
  <2>6. With(c1, n, j) = With(c, n, j)
    <3>1. c \in FsType /\ i \in NodeRec /\ j \in NodeRec
      BY <1>1, <1>3, <2>2
    <3>2. With(With(c, n, i), n, j) = With(c, n, j)
      BY ONLY <3>1, n \in Node, WithTwice
    <3>3. QED
      BY ONLY <1>4, <3>2
  <2>7. Good(With(c, n, j), R, O2) /\ \A m \in Node : With(c, n, j).node[m].ino = c.node[m].ino
    BY <1>3, <1>6, <1>7, <2>2, <2>3, ChangeGood
  <2>8. QED
    BY <2>4, <2>5, <2>6, <2>7 DEF O2
<1>10. CASE ~(i.open_count = 0 /\ n \notin Dev)
  <2>1. inode_open_dec(c, n) = c1
    BY <1>2, <1>4, <1>5, <1>10 DEF inode_open_dec
  <2>2. NodeGood(i, Base(c, n), n, R[n], O[n] - 1)
    BY <1>1, <1>3, <1>8, <1>10, FilesAssumption DEF NodeGood, NodeRec
  <2>3. Good(c1, R, O2) /\ \A m \in Node : c1.node[m].ino = c.node[m].ino
    BY <1>3, <1>4, <1>6, <1>7, <2>2, ChangeGood
  <2>4. QED
    BY <2>1, <2>3 DEF O2
<1>11. QED
  BY <1>9, <1>10

\* vfs_close of one of the descriptors of an inode.
LEMMA CloseGood ==
    ASSUME NEW c, NEW R, NEW O, Good(c, R, O), NEW n \in Node, O[n] > 0
    PROVE  /\ Good(vfs_close(c, n), Add(R, n, -1), Add(O, n, -1))
           /\ Same(c, vfs_close(c, n), Add(R, n, -1))
<1>1. PICK c1, O1 : c1 = inode_open_dec(c, n) /\ O1 = Add(O, n, -1)
  OBVIOUS
<1>2. Good(c1, R, O1) /\ \A m \in Node : c1.node[m].ino = c.node[m].ino
  BY <1>1, OpenDecGood
<1>3. R[n] \in Int /\ O[n] \in Int /\ O[n] <= R[n] /\ O \in [Node -> Int] /\ -1 \in Int
  BY GoodFacts DEF NodeGood, Good
<1>4. O1[n] = O[n] + (-1)
  BY ONLY <1>1, <1>3, n \in Node, AddFacts
<1>5. O1[n] < R[n]
  BY <1>3, <1>4
<1>6. /\ Good(inode_ref_dec(c1, n), Add(R, n, -1), O1)
      /\ Same(c1, inode_ref_dec(c1, n), Add(R, n, -1))
  BY ONLY <1>2, <1>5, n \in Node, DecGood
<1>7. vfs_close(c, n) = inode_ref_dec(c1, n)
  BY <1>1 DEF vfs_close
<1>8. QED
  BY <1>1, <1>2, <1>6, <1>7 DEF Same

\* An inode that is not in memory is read into a free slot, with one reference.
LEMMA CreateGood ==
    ASSUME NEW c, NEW R, NEW O, Good(c, R, O), NEW n \in Slot, c.node[n].ino = NULL,
           NEW ino \in Dir \cup File, \A m \in c.list : c.node[m].ino # ino
    PROVE  /\ Good(sfs_create_inode(c, n, ino), Add(R, n, 1), O)
           /\ sfs_create_inode(c, n, ino).node[n].ino = ino
           /\ Same(c, sfs_create_inode(c, n, ino), R)
<1> DEFINE d == sfs_create_inode(c, n, ino)
           R2 == Add(R, n, 1)
<1>0. n \in Node
  BY DEF Node
<1>1. /\ c \in FsType /\ c.bootfs \in Slot /\ Slot \subseteq Node /\ c.list \subseteq Slot
      /\ NULL \notin Node /\ R \in [Node -> Int] /\ O \in [Node -> Int]
      /\ ino # NULL /\ ino \in Ino /\ n \notin Dev
  BY FilesAssumption DEF Good, FsType, Node, Ino
<1>2. ListGood(c)
  BY DEF Good
<1>3. n # c.bootfs
  BY <1>2, FilesAssumption DEF ListGood
<1>4. R[n] = 0 /\ O[n] = 0
  BY <1>0, GoodFacts DEF NodeGood
<1>5. PICK i : i = [Freed EXCEPT !.ino = ino, !.ref_count = 1, !.reclaim_count = 1]
  OBVIOUS
<1>6. /\ i \in NodeRec /\ i.ino = ino /\ i.ref_count = 1 /\ i.reclaim_count = 1
      /\ i.open_count = 0 /\ ~i.dirty /\ i.lost = 0
  <2>1. i = [ino |-> ino, ref_count |-> 1, open_count |-> 0, reclaim_count |-> 1,
             dirty |-> FALSE, lost |-> 0]
    BY ONLY <1>5 DEF Freed
  <2>2. QED
    BY ONLY <1>1, <2>1 DEF NodeRec
<1>7. /\ d \in FsType /\ d.node[n] = i /\ d.list = c.list \cup {n} /\ d.bootfs = c.bootfs
      /\ \A m \in Node : m # n => d.node[m] = c.node[m]
  <2>1. d = [c EXCEPT !.node[n] = i, !.list = @ \cup {n}]
    BY <1>5 DEF sfs_create_inode
  <2>2. PICK f, l, b : /\ c = [node |-> f, list |-> l, bootfs |-> b]
                        /\ f \in [Node -> NodeRec] /\ l \in SUBSET Slot /\ b \in Slot
    BY <1>1 DEF FsType
  <2>3. PICK g : g = [f EXCEPT ![n] = i]
    OBVIOUS
  <2>4. d = [node |-> g, list |-> l \cup {n}, bootfs |-> b]
    BY ONLY <2>1, <2>2, <2>3
  <2>5. g \in [Node -> NodeRec] /\ g[n] = i /\ \A m \in Node : m # n => g[m] = f[m]
    BY ONLY <1>0, <1>6, <2>2, <2>3
  <2>6. QED
    BY ONLY <2>2, <2>4, <2>5, n \in Slot DEF FsType
<1>8. /\ R2 \in [Node -> Int] /\ R2[n] = 1 /\ \A m \in Node : m # n => R2[m] = R[m]
  <2>1. R \in [Node -> Int] /\ 1 \in Int /\ R[n] + 1 = 1
    BY <1>1, <1>4
  <2>2. QED
    BY ONLY <1>0, <2>1, AddFacts
<1> HIDE DEF d, R2
<1>9. ASSUME NEW m \in Node PROVE NodeGood(d.node[m], Base(d, m), m, R2[m], O[m])
  <2>1. CASE m = n
    BY <1>1, <1>3, <1>4, <1>6, <1>7, <1>8, <2>1 DEF NodeGood, Base
  <2>2. CASE m # n
    <3>1. Base(d, m) = Base(c, m)
      BY <1>7 DEF Base
    <3>2. QED
      BY <1>7, <1>8, <2>2, <3>1 DEF Good
  <2>3. QED
    BY <2>1, <2>2
<1>10. ListGood(d)
  <2>1. d.list = {m \in Slot : d.node[m].ino # NULL}
    BY <1>1, <1>2, <1>6, <1>7 DEF ListGood
  <2>2. d.node[d.bootfs].ino \in Dir
    BY <1>1, <1>2, <1>3, <1>7 DEF ListGood
  <2>3. \A a, b \in d.list : d.node[a].ino = d.node[b].ino => a = b
    BY <1>1, <1>2, <1>6, <1>7 DEF ListGood
  <2>4. QED
    BY <2>1, <2>2, <2>3 DEF ListGood
<1>11. Good(d, R2, O)
  BY <1>1, <1>7, <1>8, <1>9, <1>10 DEF Good
<1>12. Same(c, d, R)
  BY <1>4, <1>7 DEF Same
<1>13. QED
  BY <1>6, <1>7, <1>11, <1>12 DEF d, R2

\* What a lookup that starts from c hands back: one reference when it succeeds,
\* none when it fails.
Got(c, R, O, r) ==
    /\ r = [fs |-> r.fs, node |-> r.node, ret |-> r.ret]
    /\ r.ret # "panic"
    /\ r.ret = "0" => r.node \in Node /\ Good(r.fs, Add(R, r.node, 1), O)
    /\ r.ret # "0" => Good(r.fs, R, O)
    /\ Same(c, r.fs, R)

\* sfs_load_inode: the inode in memory with that name, which is the only one, or a new one.
LEMMA LoadGood ==
    ASSUME NEW c, NEW R, NEW O, Good(c, R, O), NEW ino \in Dir \cup File
    PROVE  /\ Got(c, R, O, sfs_load_inode(c, ino))
           /\ sfs_load_inode(c, ino).ret = "0" =>
                /\ sfs_load_inode(c, ino).node \in Slot
                /\ sfs_load_inode(c, ino).fs.node[sfs_load_inode(c, ino).node].ino = ino
<1> DEFINE cached == {n \in c.list : c.node[n].ino = ino}
           unused == {n \in Slot : c.node[n].ino = NULL}
           r == sfs_load_inode(c, ino)
<1>1. /\ c \in FsType /\ Slot \subseteq Node /\ c.list \subseteq Slot /\ ino # NULL
      /\ ListGood(c)
  BY FilesAssumption DEF Good, FsType, Node
<1>2. CASE cached # {}
  <2>1. PICK n : n = CHOOSE m \in cached : TRUE
    OBVIOUS
  <2>2. n \in c.list /\ c.node[n].ino = ino /\ n \in Slot /\ n \in Node
    BY <1>1, <1>2, <2>1
  <2>3. PICK c1 : c1 = inode_ref_inc(c, n)
    OBVIOUS
  <2>4. c.node[n] \in NodeRec /\ c.node[n].ref_count > 0
    BY <1>1, <2>2, GoodFacts DEF NodeGood
  <2>5. c1.node[n].ref_count # 1
    <3>1. c1.node[n].ref_count = c.node[n].ref_count + 1
      BY <1>1, <2>2, <2>3, <2>4 DEF inode_ref_inc, FsType, NodeRec
    <3>2. QED
      BY <2>4, <3>1 DEF NodeRec
  <2>6. r = [fs |-> c1, node |-> n, ret |-> "0"]
    BY <1>2, <2>1, <2>3, <2>5 DEF sfs_load_inode, Found
  <2>7. Good(c1, Add(R, n, 1), O) /\ \A m \in Node : c1.node[m].ino = c.node[m].ino
    BY <1>1, <2>2, <2>3, IncGood
  <2> HIDE DEF r
  <2>8. QED
    BY <2>2, <2>6, <2>7 DEF Got, Same, r
<1>3. CASE cached = {} /\ unused = {}
  <2>1. r = [fs |-> c, node |-> NULL, ret |-> "E_NO_MEM"]
    BY <1>3 DEF sfs_load_inode, Fails
  <2> HIDE DEF r
  <2>2. QED
    BY <2>1 DEF Got, Same, r
<1>4. CASE cached = {} /\ unused # {}
  <2>1. PICK n : n = CHOOSE m \in unused : TRUE
    OBVIOUS
  <2>2. n \in Slot /\ c.node[n].ino = NULL /\ n \in Node
    BY <1>1, <1>4, <2>1
  <2>3. PICK d : d = sfs_create_inode(c, n, ino)
    OBVIOUS
  <2>4. r = [fs |-> d, node |-> n, ret |-> "0"]
    BY <1>4, <2>1, <2>3 DEF sfs_load_inode, Found
  <2>5. Good(d, Add(R, n, 1), O) /\ d.node[n].ino = ino /\ Same(c, d, R)
    BY <1>4, <2>2, <2>3, CreateGood
  <2> HIDE DEF r
  <2>6. QED
    BY <2>2, <2>4, <2>5 DEF Got, r
<1>5. QED
  BY <1>2, <1>3, <1>4

\* Two changes of a count may be exchanged.
LEMMA AddCommutes ==
    ASSUME NEW R \in [Node -> Int], NEW m \in Node, NEW n \in Node
    PROVE  Add(Add(R, n, 1), m, 1) = Add(Add(R, m, 1), n, 1)
BY DEF Add

\* What is owed of one inode, and one more of another.
LEMMA OwedLeast ==
    ASSUME NEW c, NEW R, NEW O, Good(c, R, O), NEW n \in Node, NEW m \in Node
    PROVE  /\ R \in [Node -> Int] /\ Add(R, m, 1) \in [Node -> Int]
           /\ O[n] <= R[n] /\ O[n] <= Add(R, m, 1)[n]
           /\ \A k \in Node : R[k] > 0 => Add(R, m, 1)[k] > 0
<1>1. /\ R \in [Node -> Int] /\ O \in [Node -> Int]
      /\ \A k \in Node : 0 <= O[k] /\ O[k] <= R[k]
  BY DEF Good, NodeGood
<1>2. QED
  BY ONLY <1>1, m \in Node, n \in Node DEF Add

\* A call gives a reference back.
LEMMA GiveBack ==
    ASSUME NEW c, NEW R \in [Node -> Int], NEW O, NEW n \in Node, Good(c, Add(R, n, 1), O),
           O[n] <= R[n]
    PROVE  Good(inode_ref_dec(c, n), R, O) /\ Same(c, inode_ref_dec(c, n), R)
<1>1. PICK R1 : R1 = Add(R, n, 1)
  OBVIOUS
<1>2. R1[n] = R[n] + 1 /\ R1 \in [Node -> Int] /\ Add(R1, n, -1) = R
  <2>1. R1 \in [Node -> Int] /\ R1[n] = R[n] + 1 /\ \A m \in Node : m # n => R1[m] = R[m]
    BY <1>1 DEF Add
  <2>2. PICK k \in Int : k = -1
    OBVIOUS
  <2>3. PICK R3 : R3 = Add(R1, n, k)
    OBVIOUS
  <2>4. R3 \in [Node -> Int] /\ \A m \in Node : m # n => R3[m] = R[m]
    BY ONLY <2>1, <2>2, <2>3, n \in Node DEF Add
  <2>5. R3[n] = R[n]
    BY ONLY <2>1, <2>2, <2>3, n \in Node, R \in [Node -> Int] DEF Add
  <2>6. R3 = R
    BY <2>4, <2>5
  <2>7. QED
    BY <2>1, <2>2, <2>3, <2>6
<1>3. O[n] \in Int /\ R[n] \in Int
  BY DEF Good
<1>4. O[n] < R1[n]
  BY <1>2, <1>3
<1>5. Good(c, R1, O)
  BY <1>1
<1>6. /\ Good(inode_ref_dec(c, n), Add(R1, n, -1), O)
      /\ Same(c, inode_ref_dec(c, n), Add(R1, n, -1))
  BY ONLY <1>4, <1>5, n \in Node, DecGood
<1>7. QED
  BY <1>2, <1>6

\* sfs_lookup_once.
LEMMA LookupOnceGood ==
    ASSUME NEW c, NEW R, NEW O, Good(c, R, O), NEW n \in Node, c.node[n].ino \in Dir,
           NEW name, NEW oom
    PROVE  /\ Got(c, R, O, sfs_lookup_once(c, n, name, oom))
           /\ sfs_lookup_once(c, n, name, oom).ret = "0" =>
                /\ name \in DOMAIN Entry[c.node[n].ino]
                /\ sfs_lookup_once(c, n, name, oom).node \in Slot
                /\ sfs_lookup_once(c, n, name, oom).fs.node[
                     sfs_lookup_once(c, n, name, oom).node].ino = Entry[c.node[n].ino][name]
<1>1. PICK r : r = sfs_lookup_once(c, n, name, oom)
  OBVIOUS
<1>2. PICK d \in Dir : d = c.node[n].ino
  OBVIOUS
<1>3. CASE ~oom /\ name \in DOMAIN Entry[d]
  <2>1. PICK ino : ino = Entry[d][name]
    OBVIOUS
  <2>2. ino \in Dir \cup File
    BY <1>3, <2>1, FilesAssumption
  <2>3. r = sfs_load_inode(c, ino)
    BY <1>1, <1>2, <1>3, <2>1 DEF sfs_lookup_once
  <2>4. Got(c, R, O, r) /\ (r.ret = "0" => r.node \in Slot /\ r.fs.node[r.node].ino = ino)
    BY <2>2, <2>3, LoadGood
  <2>5. QED
    BY ONLY <1>1, <1>2, <1>3, <2>1, <2>4
<1>4. CASE oom \/ name \notin DOMAIN Entry[d]
  <2>1. \E ret \in {"E_NO_MEM", "E_NOENT"} : r = [fs |-> c, node |-> NULL, ret |-> ret]
    BY <1>1, <1>2, <1>4 DEF sfs_lookup_once, Fails
  <2>2. Got(c, R, O, r) /\ r.ret # "0"
    BY <2>1 DEF Got, Same
  <2>3. QED
    BY ONLY <1>1, <2>2
<1>5. QED
  BY <1>3, <1>4

\* The reference to the directory, or to the start of a path, is given back
\* whether the lookup succeeds or fails.
LEMMA ReleaseGood ==
    ASSUME NEW c, NEW R, NEW O, Good(c, R, O), NEW c1, NEW n \in Node, Same(c, c1, R),
           NEW r, Got(c1, Add(R, n, 1), O, r)
    PROVE  /\ Got(c, R, O, GivenBack(r, n))
           /\ GivenBack(r, n).ret = r.ret
<1>1. PICK d : d = inode_ref_dec(r.fs, n)
  OBVIOUS
<1>2. PICK q : q = GivenBack(r, n)
  OBVIOUS
<1>3. q = [fs |-> d, node |-> r.node, ret |-> r.ret]
  <2>1. PICK f, m, t : r = [fs |-> f, node |-> m, ret |-> t]
    BY DEF Got
  <2>2. GivenBack(r, n) = [fs |-> d, node |-> m, ret |-> t]
    BY ONLY <1>1, <2>1 DEF GivenBack
  <2>3. QED
    BY <1>2, <2>1, <2>2
<1>4. R \in [Node -> Int] /\ O[n] <= R[n] /\ \A k \in Node : R[k] > 0 => Add(R, n, 1)[k] > 0
  BY OwedLeast
<1>5. Same(c, r.fs, R)
  BY <1>4 DEF Got, Same
<1>6. CASE r.ret = "0"
  <2>1. PICK m \in Node : m = r.node /\ Good(r.fs, Add(Add(R, n, 1), m, 1), O)
    BY <1>6 DEF Got
  <2>2. PICK R2 : R2 = Add(R, m, 1)
    OBVIOUS
  <2>3. /\ R2 \in [Node -> Int] /\ O[n] <= R2[n] /\ Good(r.fs, Add(R2, n, 1), O)
        /\ \A k \in Node : R[k] > 0 => R2[k] > 0
    BY <1>4, <2>1, <2>2, OwedLeast, AddCommutes
  <2>4. Good(d, R2, O) /\ Same(r.fs, d, R2)
    BY <1>1, <2>3, GiveBack
  <2>5. Same(c, d, R)
    BY <1>5, <2>3, <2>4 DEF Same
  <2>6. Got(c, R, O, q)
    BY <1>3, <1>6, <2>1, <2>2, <2>4, <2>5 DEF Got
  <2>7. QED
    BY <1>1, <1>2, <1>3, <2>6
<1>7. CASE r.ret # "0"
  <2>1. Good(r.fs, Add(R, n, 1), O)
    BY <1>7 DEF Got
  <2>2. Good(d, R, O) /\ Same(r.fs, d, R)
    BY <1>1, <1>4, <2>1, GiveBack
  <2>3. Same(c, d, R)
    BY <1>5, <2>2 DEF Same
  <2>4. Got(c, R, O, q)
    BY <1>3, <1>7, <2>2, <2>3 DEF Got
  <2>5. QED
    BY <1>1, <1>2, <1>3, <2>4
<1>8. QED
  BY <1>6, <1>7

\* sfs_lookup.
LEMMA LookupGood ==
    ASSUME NEW c, NEW R, NEW O, Good(c, R, O), NEW n \in Node, c.node[n].ino \in Dir,
           NEW name, NEW oom
    PROVE  Got(c, R, O, sfs_lookup(c, n, name, oom))
<1>1. PICK c1, r : c1 = inode_ref_inc(c, n) /\ r = sfs_lookup_once(inode_ref_inc(c, n), n, name, oom)
  OBVIOUS
<1>2. c.node[n].ino # NULL
  BY FilesAssumption
<1>3. Good(c1, Add(R, n, 1), O) /\ \A m \in Node : c1.node[m].ino = c.node[m].ino
  BY <1>1, <1>2, IncGood
<1>4. Same(c, c1, R) /\ c1.node[n].ino \in Dir
  BY <1>3 DEF Same
<1>5. Got(c1, Add(R, n, 1), O, r)
  BY <1>1, <1>3, <1>4, LookupOnceGood
<1>6. Got(c, R, O, GivenBack(r, n))
  BY ONLY Good(c, R, O), n \in Node, <1>4, <1>5, ReleaseGood
<1>7. sfs_lookup(c, n, name, oom) = GivenBack(r, n)
  BY <1>1 DEF sfs_lookup
<1>8. QED
  BY ONLY <1>6, <1>7

\* get_device: every path that can be followed starts at a directory or a device.
LEMMA GetDeviceGood ==
    ASSUME NEW c, NEW R, NEW O, Good(c, R, O), NEW p, NEW path,
           pwd[p] \in Slot, c.node[pwd[p]].ino \in Dir
    PROVE  /\ Got(c, R, O, get_device(c, p, path))
           /\ get_device(c, p, path).ret = "0" =>
                \/ get_device(c, p, path).node \in Dev
                \/ get_device(c, p, path).fs.node[get_device(c, p, path).node].ino \in Dir
<1>1. PICK r : r = get_device(c, p, path)
  OBVIOUS
<1>2. /\ NULL \notin Dir /\ NULL \notin Node /\ Slot \subseteq Node /\ Dev \subseteq Node
      /\ SFS_BLKN_ROOT \in Dir /\ c.bootfs \in Slot /\ c.node[c.bootfs].ino \in Dir
  BY FilesAssumption DEF Good, ListGood, FsType, Node
<1>3. ASSUME NEW n \in Node, c.node[n].ino # NULL, n \in Dev \/ c.node[n].ino \in Dir,
             r = [fs |-> inode_ref_inc(c, n), node |-> n, ret |-> "0"]
      PROVE  Got(c, R, O, r) /\ (r.node \in Dev \/ r.fs.node[r.node].ino \in Dir)
  <2>1. PICK d : d = inode_ref_inc(c, n)
    OBVIOUS
  <2>2. Good(d, Add(R, n, 1), O) /\ \A m \in Node : d.node[m].ino = c.node[m].ino
    BY <1>3, <2>1, IncGood
  <2>3. r = [fs |-> d, node |-> n, ret |-> "0"]
    BY <1>3, <2>1
  <2>4. QED
    BY <1>3, <2>2, <2>3 DEF Got, Same
<1>4. CASE path.from = "cwd"
  <2>1. r = [fs |-> inode_ref_inc(c, pwd[p]), node |-> pwd[p], ret |-> "0"]
    BY <1>1, <1>4 DEF get_device, vfs_get_curdir, Found
  <2>2. PICK n \in Node : n = pwd[p]
    BY <1>2
  <2>3. Got(c, R, O, r) /\ (r.node \in Dev \/ r.fs.node[r.node].ino \in Dir)
    BY <1>2, <1>3, <2>1, <2>2
  <2>4. QED
    BY <1>1, <2>3
<1>5. CASE path.from # "cwd" /\ path.from = "boot"
  <2>1. r = [fs |-> inode_ref_inc(c, c.bootfs), node |-> c.bootfs, ret |-> "0"]
    BY <1>1, <1>5 DEF get_device, vfs_get_bootfs, Found
  <2>2. PICK n \in Node : n = c.bootfs
    BY <1>2
  <2>3. Got(c, R, O, r) /\ (r.node \in Dev \/ r.fs.node[r.node].ino \in Dir)
    BY <1>2, <1>3, <2>1, <2>2
  <2>4. QED
    BY <1>1, <2>3
<1>6. CASE path.from # "cwd" /\ path.from # "boot"
  <2>1. r = vfs_get_root(c, path.from)
    BY <1>1, <1>6 DEF get_device
  <2>2. CASE path.from = "fs"
    <3>1. r = sfs_load_inode(c, SFS_BLKN_ROOT)
      BY <2>1, <2>2 DEF vfs_get_root, sfs_get_root
    <3>2. /\ Got(c, R, O, r)
          /\ r.ret = "0" => r.node \in Slot /\ r.fs.node[r.node].ino = SFS_BLKN_ROOT
      BY <1>2, <3>1, LoadGood
    <3>3. QED
      BY ONLY <1>1, <1>2, <3>2
  <2>3. CASE path.from # "fs" /\ path.from \in Dev
    <3>1. PICK n \in Dev : n = path.from
      BY <2>3
    <3>2. r = [fs |-> inode_ref_inc(c, n), node |-> n, ret |-> "0"]
      BY <2>1, <2>3, <3>1 DEF vfs_get_root, Found
    <3>3. n \in Node /\ c.node[n].ino # NULL
      <4>1. n \in Node
        BY <1>2
      <4>2. NodeGood(c.node[n], Base(c, n), n, R[n], O[n])
        BY <4>1, GoodFacts
      <4>3. QED
        BY <1>2, <4>1, <4>2 DEF NodeGood
    <3>4. Got(c, R, O, r) /\ (r.node \in Dev \/ r.fs.node[r.node].ino \in Dir)
      BY <1>3, <3>2, <3>3
    <3>5. QED
      BY <1>1, <3>4
  <2>4. CASE path.from # "fs" /\ path.from \notin Dev
    <3>1. r = [fs |-> c, node |-> NULL, ret |-> "E_NO_DEV"]
      BY <2>1, <2>4 DEF vfs_get_root, Fails
    <3>2. Got(c, R, O, r) /\ r.ret # "0"
      BY <3>1 DEF Got, Same
    <3>3. QED
      BY ONLY <1>1, <3>2
  <2>5. QED
    BY <2>2, <2>3, <2>4
<1>7. QED
  BY <1>4, <1>5, <1>6

\* vfs_lookup: a lookup that succeeds leaves one reference more, one that fails
\* leaves every count as it was.
LEMMA VfsLookupGood ==
    ASSUME NEW c, NEW R, NEW O, Good(c, R, O), NEW p, NEW path, NEW oom,
           pwd[p] \in Slot, c.node[pwd[p]].ino \in Dir
    PROVE  Got(c, R, O, vfs_lookup(c, p, path, oom))
<1>1. PICK start : start = get_device(c, p, path)
  OBVIOUS
<1>2. /\ Got(c, R, O, start)
      /\ start.ret = "0" => start.node \in Dev \/ start.fs.node[start.node].ino \in Dir
  BY <1>1, GetDeviceGood
<1>3. CASE start.ret # "0" \/ path.name = NULL
  <2>1. vfs_lookup(c, p, path, oom) = start
    BY <1>1, <1>3 DEF vfs_lookup
  <2>2. QED
    BY <1>2, <2>1
<1>4. CASE start.ret = "0" /\ path.name # NULL
  <2>1. PICK n \in Node, c1 \in {start.fs} : n = start.node
    BY <1>2, <1>4 DEF Got
  <2>2. Good(c1, Add(R, n, 1), O) /\ Same(c, c1, R)
    BY <1>2, <1>4, <2>1 DEF Got
  <2>3. PICK r : r = IF n \in Dev THEN Fails(c1, "E_NOENT")
                                   ELSE sfs_lookup(c1, n, path.name, oom)
    OBVIOUS
  <2>4. vfs_lookup(c, p, path, oom) = GivenBack(r, n)
    BY <1>1, <1>4, <2>1, <2>3 DEF vfs_lookup
  <2>5. Got(c1, Add(R, n, 1), O, r)
    <3>1. CASE n \in Dev
      <4>1. r = [fs |-> c1, node |-> NULL, ret |-> "E_NOENT"]
        BY <2>3, <3>1 DEF Fails
      <4>2. QED
        BY <2>2, <4>1 DEF Got, Same
    <3>2. CASE n \notin Dev
      <4>1. r = sfs_lookup(c1, n, path.name, oom)
        BY <2>3, <3>2
      <4>2. c1.node[n].ino \in Dir
        BY <1>2, <1>4, <2>1, <3>2
      <4>3. QED
        BY <2>2, <4>1, <4>2, LookupGood
    <3>3. QED
      BY <3>1, <3>2
  <2>6. Got(c, R, O, GivenBack(r, n))
    BY ONLY Good(c, R, O), <2>2, <2>5, ReleaseGood
  <2>7. QED
    BY <2>4, <2>6
<1>5. QED
  BY <1>3, <1>4

\* The dirty mark of an open SFS inode may be set.
LEMMA DirtyGood ==
    ASSUME NEW c, NEW R, NEW O, Good(c, R, O), NEW n \in Node, NEW b \in BOOLEAN,
           O[n] > 0, b => n \in Slot
    PROVE  /\ Good([c EXCEPT !.node[n].dirty = b], R, O)
           /\ \A m \in Node : [c EXCEPT !.node[n].dirty = b].node[m].ino = c.node[m].ino
<1>1. PICK i : i = [c.node[n] EXCEPT !.dirty = b]
  OBVIOUS
<1>2. /\ c.node[n] \in NodeRec /\ R[n] \in Int /\ O[n] \in Int /\ Base(c, n) \in {0, 1}
      /\ NodeGood(c.node[n], Base(c, n), n, R[n], O[n])
      /\ R \in [Node -> Int] /\ O \in [Node -> Int]
  BY GoodFacts DEF Good
<1>3. [c EXCEPT !.node[n].dirty = b] = With(c, n, i)
  BY <1>1 DEF With
<1>4. /\ i \in NodeRec /\ i.ino = c.node[n].ino /\ i.dirty = b
      /\ i.open_count = c.node[n].open_count /\ i.ref_count = c.node[n].ref_count
      /\ i.lost = c.node[n].lost /\ i.reclaim_count = c.node[n].reclaim_count
  BY ONLY <1>1, <1>2, b \in BOOLEAN DEF NodeRec
<1>5. NodeGood(i, Base(c, n), n, R[n], O[n])
  BY <1>2, <1>4 DEF NodeGood, NodeRec
<1>6. Elsewhere(O, O, n) /\ Elsewhere(R, R, n)
  BY <1>2 DEF Elsewhere
<1>7. QED
  BY <1>3, <1>4, <1>5, <1>6, ChangeGood

\* One more reference to n is lost.
Lose(c, n) == [c EXCEPT !.node[n].lost = @ + 1]

\* A reference that no one will give back is counted as lost.
LEMMA LoseGood ==
    ASSUME NEW c, NEW R \in [Node -> Int], NEW O, NEW n \in Node, Good(c, Add(R, n, 1), O),
           O[n] <= R[n]
    PROVE  Good(Lose(c, n), R, O) /\ \A m \in Node : Lose(c, n).node[m].ino = c.node[m].ino
<1>1. PICK i : i = [c.node[n] EXCEPT !.lost = @ + 1]
  OBVIOUS
<1>2. PICK R1 : R1 = Add(R, n, 1)
  OBVIOUS
<1>3. R1[n] = R[n] + 1 /\ R[n] \in Int /\ Elsewhere(R1, R, n)
  BY ONLY <1>2, R \in [Node -> Int], n \in Node DEF Add, Elsewhere
<1>4. Good(c, R1, O)
  BY <1>2
<1>5. /\ c.node[n] \in NodeRec /\ O[n] \in Int /\ Base(c, n) \in {0, 1}
      /\ NodeGood(c.node[n], Base(c, n), n, R[n] + 1, O[n]) /\ O \in [Node -> Int]
  BY <1>3, <1>4, GoodFacts DEF Good
<1>6. Lose(c, n) = With(c, n, i)
  BY <1>1 DEF Lose, With
<1>7. /\ i \in NodeRec /\ i.ino = c.node[n].ino /\ i.dirty = c.node[n].dirty
      /\ i.open_count = c.node[n].open_count /\ i.ref_count = c.node[n].ref_count
      /\ i.lost = c.node[n].lost + 1 /\ i.reclaim_count = c.node[n].reclaim_count
  BY ONLY <1>1, <1>5 DEF NodeRec
<1>8. NodeGood(i, Base(c, n), n, R[n], O[n])
  <2>1. c.node[n].ino # NULL
    BY <1>3, <1>5 DEF NodeGood
  <2>2. QED
    BY <1>3, <1>5, <1>7, <2>1 DEF NodeGood, NodeRec
<1>9. Elsewhere(O, O, n)
  BY <1>5 DEF Elsewhere
<1>10. QED
  BY <1>3, <1>4, <1>6, <1>7, <1>8, <1>9, ChangeGood

\* Only an inode that is open has changes that the disk lacks.
Saved(c) == \A n \in Node : c.node[n].dirty => c.node[n].open_count > 0

\* Good includes it.
LEMMA GoodSaved ==
    ASSUME NEW c, NEW R, NEW O, Good(c, R, O)
    PROVE  Saved(c)
<1>1. ASSUME NEW n \in Node, c.node[n].dirty PROVE c.node[n].open_count > 0
  <2>1. /\ c.node[n] \in NodeRec /\ R[n] \in Int /\ O[n] \in Int /\ Base(c, n) \in {0, 1}
        /\ NodeGood(c.node[n], Base(c, n), n, R[n], O[n])
    BY GoodFacts
  <2>2. O[n] > 0 /\ c.node[n].ino # NULL
    BY <1>1, <2>1 DEF NodeGood
  <2>3. QED
    BY <2>1, <2>2 DEF NodeGood
<1>2. QED
  BY <1>1 DEF Saved

\* What an open that starts from c hands back: an inode that is referenced and
\* opened once more, or nothing.
Opens(c, R, O, r) ==
    /\ r = [fs |-> r.fs, node |-> r.node, ret |-> r.ret]
    /\ r.ret = "0" =>
         r.node \in Node /\ Good(r.fs, Add(R, r.node, 1), Add(O, r.node, 1))
    /\ r.ret # "0" /\ r.ret # "panic" => Good(r.fs, R, O)
    /\ Same(c, r.fs, R)
    /\ Saved(r.fs)

\* OpenFound.
LEMMA OpenFoundGood ==
    ASSUME NEW c, NEW R, NEW O, Good(c, R, O), NEW c1, NEW n \in Node, Same(c, c1, R),
           Good(c1, Add(R, n, 1), O), NEW fl, NEW cut
    PROVE  Opens(c, R, O, OpenFound(c1, n, fl, cut))
<1>1. PICK r : r = OpenFound(c1, n, fl, cut)
  OBVIOUS
<1>2. /\ R \in [Node -> Int] /\ O[n] <= R[n] /\ O[n] \in Int /\ R[n] \in Int
      /\ \A k \in Node : R[k] > 0 => Add(R, n, 1)[k] > 0
  BY OwedLeast DEF Good
<1>3. PICK R1 : R1 = Add(R, n, 1)
  OBVIOUS
<1>4. R1[n] = R[n] + 1
  BY ONLY <1>2, <1>3, n \in Node DEF Add
<1>5. PICK d : d = inode_open_inc(c1, n)
  OBVIOUS
<1>6. Good(d, R1, Add(O, n, 1)) /\ \A m \in Node : d.node[m].ino = c1.node[m].ino
  <2>1. Good(c1, R1, O) /\ O[n] < R1[n]
    BY <1>2, <1>3, <1>4
  <2>2. QED
    BY <1>5, <2>1, OpenIncGood
<1>7. CASE ~vop_open(c1, n, fl)
  <2>1. r = [fs |-> inode_ref_dec(c1, n), node |-> NULL, ret |-> "E_INVAL"]
    BY <1>1, <1>7 DEF OpenFound, Fails
  <2>2. PICK e : e = inode_ref_dec(c1, n)
    OBVIOUS
  <2>3. Good(e, R, O) /\ Same(c1, e, R)
    BY <1>2, <2>2, GiveBack
  <2>4. Saved(e) /\ Same(c, e, R)
    BY <2>3, GoodSaved DEF Same
  <2>5. QED
    BY <1>1, <2>1, <2>2, <2>3, <2>4 DEF Opens
<1>8. CASE vop_open(c1, n, fl) /\ (fl.trunc \/ fl.creat) /\ "truncate" \notin Ops(TypeOf(c1, n))
  <2>1. r = [fs |-> d, node |-> NULL, ret |-> "panic"]
    BY <1>1, <1>5, <1>8 DEF OpenFound, Fails
  <2>2. Saved(d) /\ Same(c, d, R)
    BY <1>6, GoodSaved DEF Same
  <2>3. QED
    BY <1>1, <2>1, <2>2 DEF Opens
<1>9. CASE vop_open(c1, n, fl) /\ ~((fl.trunc \/ fl.creat) /\ "truncate" \notin Ops(TypeOf(c1, n)))
  <2>1. PICK b \in BOOLEAN : b = (d.node[n].dirty \/ ((fl.trunc \/ fl.creat) /\ cut))
    OBVIOUS
  <2>2. PICK e : e = [d EXCEPT !.node[n].dirty = b]
    OBVIOUS
  <2>3. r = [fs |-> e, node |-> n, ret |-> "0"]
    <3>1. e = [d EXCEPT !.node[n].dirty = @ \/ ((fl.trunc \/ fl.creat) /\ cut)]
      BY ONLY <2>1, <2>2
    <3>2. QED
      BY <1>1, <1>5, <1>9, <3>1 DEF OpenFound, Found
  <2>4. PICK O1 : O1 = Add(O, n, 1)
    OBVIOUS
  <2>5. O1[n] = O[n] + 1
    BY <2>4 DEF Add, Good
  <2>6. O1[n] > 0
    <3>1. 0 <= O[n]
      BY DEF Good, NodeGood
    <3>2. QED
      BY <1>2, <2>5, <3>1
  <2>7. b => n \in Slot
    <3>1. d.node[n].dirty => n \in Slot
      BY <1>6 DEF Good, NodeGood
    <3>2. (fl.trunc \/ fl.creat) => n \notin Dev
      BY <1>9 DEF Ops, TypeOf
    <3>3. QED
      BY <2>1, <3>1, <3>2 DEF Node
  <2>8. Good(e, R1, O1) /\ \A m \in Node : e.node[m].ino = d.node[m].ino
    BY <1>6, <2>2, <2>4, <2>6, <2>7, DirtyGood
  <2>9. Saved(e) /\ Same(c, e, R)
    BY <1>6, <2>8, GoodSaved DEF Same
  <2>10. QED
    BY <1>1, <1>3, <2>3, <2>4, <2>8, <2>9 DEF Opens
<1>10. QED
  BY <1>7, <1>8, <1>9

\* vfs_open.
LEMMA VfsOpenGood ==
    ASSUME NEW c, NEW R, NEW O, Good(c, R, O), NEW p, NEW path, NEW fl, NEW oom, NEW cut,
           pwd[p] \in Slot, c.node[pwd[p]].ino \in Dir
    PROVE  Opens(c, R, O, vfs_open(c, p, path, fl, oom, cut))
<1>1. PICK q : q = vfs_open(c, p, path, fl, oom, cut)
  OBVIOUS
<1>2. CASE fl.trunc /\ fl.acc = "r"
  <2>1. q = [fs |-> c, node |-> NULL, ret |-> "E_INVAL"]
    BY <1>1, <1>2 DEF vfs_open, Fails
  <2>2. Opens(c, R, O, q)
    BY <2>1, GoodSaved DEF Opens, Same
  <2>3. QED
    BY <1>1, <2>2
<1>3. CASE ~(fl.trunc /\ fl.acc = "r")
  <2>1. PICK r : r = vfs_lookup(c, p, path, oom)
    OBVIOUS
  <2>2. Got(c, R, O, r)
    BY <2>1, VfsLookupGood
  <2>3. q = OpenLooked(r, fl, cut)
    BY <1>1, <1>3, <2>1 DEF vfs_open
  <2>4. CASE r.ret = "E_NOENT" /\ fl.creat
    <3>1. q = [fs |-> r.fs, node |-> NULL, ret |-> "panic"]
      BY <2>3, <2>4 DEF OpenLooked, Fails
    <3>2. Same(c, r.fs, R) /\ Saved(r.fs)
      BY <2>2, <2>4, GoodSaved DEF Got
    <3>3. Opens(c, R, O, q)
      BY <3>1, <3>2 DEF Opens
    <3>4. QED
      BY <1>1, <3>3
  <2>5. CASE ~(r.ret = "E_NOENT" /\ fl.creat) /\ r.ret # "0"
    <3>1. q = r
      BY <2>3, <2>5 DEF OpenLooked
    <3>2. Opens(c, R, O, r)
      BY <2>2, <2>5, GoodSaved DEF Got, Opens
    <3>3. QED
      BY <1>1, <3>1, <3>2
  <2>6. CASE r.ret = "0"
    <3>1. PICK n \in Node, c1 \in {r.fs} : n = r.node /\ Good(c1, Add(R, n, 1), O) /\ Same(c, c1, R)
      BY <2>2, <2>6 DEF Got
    <3>2. CASE fl.excl /\ fl.creat
      <4>1. PICK e : e = [c1 EXCEPT !.node[n].lost = @ + 1]
        OBVIOUS
      <4>2. q = [fs |-> e, node |-> NULL, ret |-> "E_EXISTS"]
        BY <2>3, <2>6, <3>1, <3>2, <4>1 DEF OpenLooked, Fails
      <4>3. R \in [Node -> Int] /\ O[n] <= R[n]
        BY OwedLeast
      <4>4. Good(e, R, O) /\ \A m \in Node : e.node[m].ino = c1.node[m].ino
        <5>1. Good(c1, Add(R, n, 1), O) /\ n \in Node
          BY <3>1
        <5>2. R \in [Node -> Int]
          BY <4>3
        <5>3. O[n] <= R[n]
          BY <4>3
        <5>4. e = Lose(c1, n)
          BY ONLY <4>1 DEF Lose
        <5>5. QED
          BY ONLY <5>1, <5>2, <5>3, <5>4, LoseGood
      <4>5. Same(c, e, R) /\ Saved(e)
        BY <3>1, <4>4, GoodSaved DEF Same
      <4>6. Opens(c, R, O, q)
        BY <4>2, <4>4, <4>5 DEF Opens
      <4>7. QED
        BY <1>1, <4>6
    <3>3. CASE ~(fl.excl /\ fl.creat)
      <4>1. q = OpenFound(c1, n, fl, cut)
        BY <2>3, <2>6, <3>1, <3>3 DEF OpenLooked
      <4>2. Opens(c, R, O, OpenFound(c1, n, fl, cut))
        BY <3>1, OpenFoundGood
      <4>3. QED
        BY <1>1, <4>1, <4>2
    <3>4. QED
      BY <3>2, <3>3
  <2>7. QED
    BY <2>4, <2>5, <2>6
<1>4. QED
  BY <1>2, <1>3

\* The walk of sfs_namefile after n turns: it holds a reference to the directory
\* it has reached, K - depth - n turns before the root at most, or it is done.
Walking(c, R, O, depth, K, n, w) ==
    /\ w = [fs |-> w.fs, node |-> w.node, done |-> w.done] /\ w.done \in BOOLEAN
    /\ Same(c, w.fs, R)
    /\ w.done => Good(w.fs, R, O)
    /\ ~w.done => /\ w.node \in Slot /\ w.fs.node[w.node].ino \in Dir
                  /\ Good(w.fs, Add(R, w.node, 1), O)
                  /\ depth[w.fs.node[w.node].ino] + n < K

\* Every step up comes nearer to the root.
Upward(depth, K) ==
    /\ depth \in [Dir -> 0 .. K - 1] /\ K \in Nat
    /\ \A d \in Dir : Entry[d][".."] = d \/ depth[Entry[d][".."]] < depth[d]

\* One turn up.
LEMMA UpTurnGood ==
    ASSUME NEW c, NEW R, NEW O, Good(c, R, O), NEW depth, NEW K, Upward(depth, K),
           NEW n \in Nat, NEW w, Walking(c, R, O, depth, K, n, w), NEW oom
    PROVE  Walking(c, R, O, depth, K, n + 1, UpTurn(w, oom))
<1>1. CASE w.done
  <2>1. UpTurn(w, oom) = w
    BY <1>1 DEF UpTurn
  <2>2. QED
    BY <1>1, <2>1 DEF Walking
<1>2. CASE ~w.done
  <2>1. PICK m \in Node, a \in {w.fs} : m = w.node /\ m \in Slot
    BY <1>2 DEF Walking, Node
  <2>2. w = [fs |-> a, node |-> m, done |-> FALSE]
    BY <1>2, <2>1 DEF Walking
  <2>3. PICK e \in Dir : e = a.node[m].ino
    BY <1>2, <2>1 DEF Walking
  <2>4. PICK R1 : R1 = Add(R, m, 1)
    OBVIOUS
  <2>5. Good(a, R1, O) /\ Same(c, a, R) /\ depth[e] + n < K
    BY <1>2, <2>1, <2>3, <2>4 DEF Walking
  <2>6. /\ R \in [Node -> Int] /\ R1 \in [Node -> Int] /\ O[m] <= R[m] /\ O[m] <= R1[m]
        /\ R1[m] > 0 /\ \A k \in Node : R[k] > 0 => R1[k] > 0
    <3>1. /\ R \in [Node -> Int] /\ R1 \in [Node -> Int] /\ O[m] <= R[m] /\ O[m] <= R1[m]
          /\ \A k \in Node : R[k] > 0 => R1[k] > 0
      BY <2>4, OwedLeast
    <3>2. R1[m] = R[m] + 1 /\ 0 <= O[m] /\ O[m] \in Int
      BY <2>4, <3>1 DEF Add, Good, NodeGood
    <3>3. QED
      BY <3>1, <3>2
  <2>7. PICK r : r = sfs_lookup_once(a, m, "..", oom)
    OBVIOUS
  <2>8. /\ Got(a, R1, O, r)
        /\ r.ret = "0" => r.node \in Slot /\ r.fs.node[r.node].ino = Entry[e][".."]
    BY <2>3, <2>5, <2>7, LookupOnceGood
  <2>9. PICK d : d = inode_ref_dec(r.fs, m)
    OBVIOUS
  <2>10. CASE r.ret # "0"
    <3>1. UpTurn(w, oom) = [w EXCEPT !.fs = d, !.done = TRUE]
      BY <2>2, <2>7, <2>9, <2>10 DEF UpTurn
    <3>2. UpTurn(w, oom) = [fs |-> d, node |-> m, done |-> TRUE]
      BY ONLY <2>2, <3>1
    <3>3. Good(r.fs, Add(R, m, 1), O)
      BY <2>4, <2>8, <2>10 DEF Got
    <3>4. Good(d, R, O) /\ Same(r.fs, d, R)
      BY <2>6, <2>9, <3>3, GiveBack
    <3>5. Same(c, d, R)
      BY <2>5, <2>6, <2>8, <3>4 DEF Same, Got
    <3>6. QED
      BY <3>2, <3>4, <3>5 DEF Walking
  <2>11. CASE r.ret = "0"
    <3>1. PICK q \in Node : q = r.node /\ q \in Slot /\ r.fs.node[q].ino = Entry[e][".."]
      BY <2>8, <2>11 DEF Node
    <3>2. Good(r.fs, Add(R1, q, 1), O) /\ Same(a, r.fs, R1)
      BY <2>8, <2>11, <3>1 DEF Got
    <3>3. CASE q = m
      <4>1. PICK d2 : d2 = inode_ref_dec(d, m)
        OBVIOUS
      <4>2. UpTurn(w, oom) = [w EXCEPT !.fs = d2, !.done = TRUE]
        BY <2>2, <2>7, <2>9, <2>11, <3>1, <3>3, <4>1 DEF UpTurn
      <4>3. UpTurn(w, oom) = [fs |-> d2, node |-> m, done |-> TRUE]
        BY ONLY <2>2, <4>2
      <4>4. Good(d, R1, O) /\ Same(r.fs, d, R1)
        BY <2>6, <2>9, <3>2, <3>3, GiveBack
      <4>5. Good(d2, R, O) /\ Same(d, d2, R)
        BY <2>4, <2>6, <4>1, <4>4, GiveBack
      <4>6. Same(c, d2, R)
        BY <2>5, <2>6, <3>2, <4>4, <4>5 DEF Same
      <4>7. QED
        BY <4>3, <4>5, <4>6 DEF Walking
    <3>4. CASE q # m
      <4>1. UpTurn(w, oom) = [w EXCEPT !.fs = d, !.node = q]
        BY <2>2, <2>7, <2>9, <2>11, <3>1, <3>4 DEF UpTurn
      <4>2. UpTurn(w, oom) = [fs |-> d, node |-> q, done |-> FALSE]
        BY ONLY <2>2, <4>1
      <4>3. PICK R2 : R2 = Add(R, q, 1)
        OBVIOUS
      <4>4. /\ R2 \in [Node -> Int] /\ O[m] <= R2[m]
            /\ \A k \in Node : R[k] > 0 => R2[k] > 0
        BY <4>3, OwedLeast
      <4>5. R2[q] > 0
        <5>1. R2[q] = R[q] + 1 /\ 0 <= O[q] /\ O[q] \in Int /\ O[q] <= R[q] /\ R[q] \in Int
          BY <2>6, <4>3 DEF Add, Good, NodeGood
        <5>2. QED
          BY <5>1
      <4>6. Good(r.fs, Add(R2, m, 1), O)
        BY <2>4, <2>6, <3>2, <4>3, AddCommutes
      <4>7. Good(d, R2, O) /\ Same(r.fs, d, R2)
        BY <2>9, <4>4, <4>6, GiveBack
      <4>8. Same(c, d, R)
        BY <2>5, <2>6, <3>2, <4>4, <4>7 DEF Same
      <4>9. d.node[q].ino = Entry[e][".."]
        BY <3>1, <4>5, <4>7 DEF Same
      <4>10. PICK u \in Dir : u = Entry[e][".."]
        BY TreeAssumption
      <4>11. u # e
        <5>1. r.fs.node[m].ino = e
          BY <2>3, <2>6, <3>2 DEF Same
        <5>2. \A x, y \in r.fs.list : r.fs.node[x].ino = r.fs.node[y].ino => x = y
          BY <3>2 DEF Good, ListGood
        <5>3. r.fs.list = {x \in Slot : r.fs.node[x].ino # NULL}
          BY <3>2 DEF Good, ListGood
        <5>4. e # NULL /\ u # NULL
          BY FilesAssumption
        <5>5. QED
          BY <2>1, <3>1, <3>4, <4>10, <5>1, <5>2, <5>3, <5>4
      <4>12. depth[u] + (n + 1) < K
        <5>1. depth[u] < depth[e] /\ depth[u] \in Int /\ depth[e] \in Int /\ K \in Int
          BY <4>10, <4>11 DEF Upward
        <5>2. QED
          BY <2>5, <5>1
      <4>13. QED
        BY <3>1, <4>2, <4>3, <4>7, <4>8, <4>9, <4>10, <4>12 DEF Walking
    <3>5. QED
      BY <3>3, <3>4
  <2>12. QED
    BY <2>10, <2>11
<1>3. QED
  BY <1>1, <1>2 DEF Walking

\* sfs_namefile: the walk to the root ends, whenever memory runs out, and all
\* that it referenced is given back.
LEMMA NamefileGood ==
    ASSUME NEW c, NEW R, NEW O, Good(c, R, O), NEW dir \in Slot, c.node[dir].ino \in Dir,
           NEW ooms
    PROVE  Good(sfs_namefile(c, dir, ooms), R, O) /\ Same(c, sfs_namefile(c, dir, ooms), R)
<1>1. PICK K \in Nat : K = Cardinality(Dir)
  BY FilesAssumption, FS_CardinalityType
<1>2. PICK depth : Upward(depth, K)
  BY <1>1, TreeAssumption DEF Upward
<1> DEFINE start == [fs |-> inode_ref_inc(c, dir), node |-> dir, done |-> FALSE]
           StepOf(g, n) == [i \in 0 .. n |-> IF i = 0 THEN start ELSE UpTurn(g[i - 1], ooms[i])]
           up == CHOOSE g : g = StepOf(g, K)
           T == {n \in Nat : \E g : g = StepOf(g, n)}
           Q == {n \in Nat : n <= K => Walking(c, R, O, depth, K, n, up[n])}
<1>3. sfs_namefile(c, dir, ooms) = up[K].fs
  BY <1>1 DEF sfs_namefile
<1>4. Walking(c, R, O, depth, K, 0, start)
  <2>1. PICK d : d = inode_ref_inc(c, dir)
    OBVIOUS
  <2>2. dir \in Node /\ c.node[dir].ino # NULL
    BY FilesAssumption DEF Node
  <2>3. Good(d, Add(R, dir, 1), O) /\ \A m \in Node : d.node[m].ino = c.node[m].ino
    BY <2>1, <2>2, IncGood
  <2>4. PICK e \in Dir : e = c.node[dir].ino
    OBVIOUS
  <2>5. depth[e] + 0 < K
    BY <1>2 DEF Upward
  <2>6. start = [fs |-> d, node |-> dir, done |-> FALSE]
    BY <2>1
  <2> HIDE DEF start
  <2>7. QED
    BY <2>2, <2>3, <2>4, <2>5, <2>6 DEF Walking, Same
<1> HIDE DEF start
<1>5. Nat \subseteq T
  <2>1. 0 \in T
    <3>1. PICK g : g = [i \in 0 .. 0 |-> start]
      OBVIOUS
    <3>2. g = StepOf(g, 0)
      BY <3>1
    <3>3. QED
      BY <3>2
  <2>2. ASSUME NEW n \in Nat, n \in T PROVE n + 1 \in T
    <3>1. PICK g : g = StepOf(g, n)
      BY <2>2
    <3>2. PICK h : h = [i \in 0 .. n + 1 |-> IF i = n + 1 THEN UpTurn(g[n], ooms[n + 1]) ELSE g[i]]
      OBVIOUS
    <3>3. ASSUME NEW i \in 0 .. n + 1
          PROVE  h[i] = IF i = 0 THEN start ELSE UpTurn(h[i - 1], ooms[i])
      <4>1. CASE i = n + 1
        <5>1. h[i] = UpTurn(g[n], ooms[i]) /\ h[i - 1] = g[n] /\ i # 0
          BY <3>2, <4>1
        <5>2. QED
          BY <5>1
      <4>2. CASE i # n + 1
        <5>1. h[i] = g[i] /\ (i # 0 => h[i - 1] = g[i - 1]) /\ i \in 0 .. n
          BY <3>2, <4>2
        <5>2. g[i] = IF i = 0 THEN start ELSE UpTurn(g[i - 1], ooms[i])
          BY <3>1, <5>1
        <5>3. QED
          BY <5>1, <5>2
      <4>3. QED
        BY <4>1, <4>2
    <3>4. h = StepOf(h, n + 1)
      BY <3>2, <3>3
    <3>5. QED
      BY <3>4
  <2> HIDE DEF T
  <2>3. QED
    BY <2>1, <2>2, InductionOverSets
<1>6. up = StepOf(up, K)
  <2>1. PICK g : g = StepOf(g, K)
    BY <1>1, <1>5
  <2> HIDE DEF StepOf
  <2>2. QED
    BY <2>1
<1> HIDE DEF up
<1>7. up[0] = start /\ \A i \in 1 .. K : up[i] = UpTurn(up[i - 1], ooms[i])
  BY <1>6
<1>8. Nat \subseteq Q
  <2>1. 0 \in Q
    BY <1>4, <1>7
  <2>2. ASSUME NEW n \in Nat, n \in Q PROVE n + 1 \in Q
    <3>1. SUFFICES ASSUME n + 1 <= K PROVE Walking(c, R, O, depth, K, n + 1, up[n + 1])
      OBVIOUS
    <3>2. Walking(c, R, O, depth, K, n, up[n]) /\ up[n + 1] = UpTurn(up[n], ooms[n + 1])
      BY <1>1, <1>7, <2>2, <3>1
    <3>3. PICK w, oom : w = up[n] /\ oom = ooms[n + 1]
      OBVIOUS
    <3>4. Walking(c, R, O, depth, K, n + 1, UpTurn(w, oom))
      BY <1>2, <3>2, <3>3, UpTurnGood
    <3>5. QED
      BY <3>2, <3>3, <3>4
  <2> HIDE DEF Q
  <2>3. QED
    BY <2>1, <2>2, InductionOverSets
<1>9. Walking(c, R, O, depth, K, K, up[K])
  BY <1>1, <1>8
<1>10. up[K].done
  <2>1. SUFFICES ASSUME ~up[K].done PROVE FALSE
    OBVIOUS
  <2>2. PICK e \in Dir : depth[e] + K < K
    BY <1>9, <2>1 DEF Walking
  <2>3. depth[e] \in 0 .. K - 1
    BY <1>2 DEF Upward
  <2>4. QED
    BY <1>1, <2>2, <2>3
<1>11. QED
  BY <1>3, <1>9, <1>10 DEF Walking

\* vfs_getcwd.
LEMMA GetcwdGood ==
    ASSUME NEW c, NEW R, NEW O, Good(c, R, O), NEW dir \in Slot, c.node[dir].ino \in Dir,
           NEW ooms
    PROVE  /\ Good(inode_ref_dec(sfs_namefile(inode_ref_inc(c, dir), dir, ooms), dir), R, O)
           /\ Same(c, inode_ref_dec(sfs_namefile(inode_ref_inc(c, dir), dir, ooms), dir), R)
<1>1. PICK c1 : c1 = inode_ref_inc(c, dir)
  OBVIOUS
<1>2. PICK c2 : c2 = sfs_namefile(c1, dir, ooms)
  OBVIOUS
<1>3. PICK c3 : c3 = inode_ref_dec(c2, dir)
  OBVIOUS
<1>4. dir \in Node /\ c.node[dir].ino # NULL
  BY FilesAssumption DEF Node
<1>5. Good(c1, Add(R, dir, 1), O) /\ \A m \in Node : c1.node[m].ino = c.node[m].ino
  BY <1>1, <1>4, IncGood
<1>6. Good(c2, Add(R, dir, 1), O) /\ Same(c1, c2, Add(R, dir, 1))
  BY <1>2, <1>4, <1>5, NamefileGood
<1>7. /\ R \in [Node -> Int] /\ O[dir] <= R[dir]
      /\ \A k \in Node : R[k] > 0 => Add(R, dir, 1)[k] > 0
  BY <1>4, OwedLeast
<1>8. Good(c3, R, O) /\ Same(c2, c3, R)
  BY <1>3, <1>4, <1>6, <1>7, GiveBack
<1>9. Same(c, c3, R)
  BY <1>5, <1>6, <1>7, <1>8 DEF Same
<1>10. QED
  BY <1>1, <1>2, <1>3, <1>8, <1>9

-----------------------------------------------------------------------------
(***************************************************************************)
(* What descriptor tables and current directories owe.                     *)
(***************************************************************************)
\* The descriptors of the tables ft that are open on n.
Names(ft, n) ==
    {d \in All \X Fd : ft[d[1]][d[2]].status = "FD_OPENED" /\ ft[d[1]][d[2]].node = n}

\* The processes whose current directory is n.
Cwds(pw, n) == {p \in All : pw[p] = n}

OpenOf(ft) == [n \in Node |-> Cardinality(Names(ft, n))]

RefsOf(ft, pw) == [n \in Node |-> Cardinality(Names(ft, n)) + Cardinality(Cwds(pw, n))]

\* There are finitely many of each.
LEMMA OwedFinite ==
    ASSUME NEW ft, NEW pw, NEW n
    PROVE  /\ IsFiniteSet(Names(ft, n)) /\ Cardinality(Names(ft, n)) \in Nat
           /\ IsFiniteSet(Cwds(pw, n)) /\ Cardinality(Cwds(pw, n)) \in Nat
           /\ OpenOf(ft) \in [Node -> Int] /\ RefsOf(ft, pw) \in [Node -> Int]
<1>1. IsFiniteSet(All)
  BY FilesAssumption, FS_AddElement DEF All
<1>2. IsFiniteSet(Fd)
  <2>1. 0 \in Int /\ FILES_STRUCT_NENTRY - 1 \in Int
    BY FilesAssumption
  <2>2. IsFiniteSet(0 .. FILES_STRUCT_NENTRY - 1)
    BY ONLY <2>1, FS_Interval
  <2>3. QED
    BY <2>2 DEF Fd
<1>3. IsFiniteSet(All \X Fd)
  BY <1>1, <1>2, FS_Product
<1>4. ASSUME NEW f, NEW m PROVE IsFiniteSet(Names(f, m)) /\ Cardinality(Names(f, m)) \in Nat
  <2>1. Names(f, m) \subseteq All \X Fd
    BY DEF Names
  <2>2. QED
    BY <1>3, <2>1, FS_Subset, FS_CardinalityType
<1>5. ASSUME NEW w, NEW m PROVE IsFiniteSet(Cwds(w, m)) /\ Cardinality(Cwds(w, m)) \in Nat
  <2>1. Cwds(w, m) \subseteq All
    BY DEF Cwds
  <2>2. QED
    BY <1>1, <2>1, FS_Subset, FS_CardinalityType
<1>6. QED
  BY <1>4, <1>5 DEF OpenOf, RefsOf

\* ft2 differs from ft in the one descriptor fd of p.
OneDiffers(ft, ft2, p, fd) ==
    \A a \in All, b \in Fd : a # p \/ b # fd => ft2[a][b] = ft[a][b]

\* One more descriptor is open.
LEMMA OneOpened ==
    ASSUME NEW ft, NEW ft2, NEW p \in All, NEW fd \in Fd, NEW n \in Node, NEW pw,
           OneDiffers(ft, ft2, p, fd), ft[p][fd].status # "FD_OPENED",
           ft2[p][fd].status = "FD_OPENED", ft2[p][fd].node = n
    PROVE  /\ OpenOf(ft2) = Add(OpenOf(ft), n, 1)
           /\ RefsOf(ft2, pw) = Add(RefsOf(ft, pw), n, 1)
<1>1. <<p, fd>> \in All \X Fd /\ <<p, fd>>[1] = p /\ <<p, fd>>[2] = fd
  OBVIOUS
<1>2. \A d \in All \X Fd : d[1] \in All /\ d[2] \in Fd /\ (d # <<p, fd>> => d[1] # p \/ d[2] # fd)
  OBVIOUS
<1>3. Names(ft2, n) = Names(ft, n) \cup {<<p, fd>>} /\ <<p, fd>> \notin Names(ft, n)
  BY <1>1, <1>2 DEF Names, OneDiffers
<1>4. \A m \in Node : m # n => Names(ft2, m) = Names(ft, m)
  <2>1. ASSUME NEW m \in Node, m # n, NEW d \in All \X Fd
        PROVE  d \in Names(ft2, m) <=> d \in Names(ft, m)
    <3>1. CASE d = <<p, fd>>
      BY <1>1, <2>1, <3>1 DEF Names
    <3>2. CASE d # <<p, fd>>
      <4>1. ft2[d[1]][d[2]] = ft[d[1]][d[2]]
        BY <1>2, <3>2 DEF OneDiffers
      <4>2. QED
        BY <4>1 DEF Names
    <3>3. QED
      BY <3>1, <3>2
  <2>2. \A m : Names(ft, m) \subseteq All \X Fd /\ Names(ft2, m) \subseteq All \X Fd
    BY DEF Names
  <2>3. QED
    BY <2>1, <2>2
<1>5. Cardinality(Names(ft2, n)) = Cardinality(Names(ft, n)) + 1
  <2>1. IsFiniteSet(Names(ft, n))
    BY OwedFinite
  <2>2. QED
    BY ONLY <1>3, <2>1, FS_AddElement
<1>6. OpenOf(ft) \in [Node -> Int] /\ RefsOf(ft, pw) \in [Node -> Int]
  BY OwedFinite
<1>7. ASSUME NEW m \in Node
      PROVE  /\ OpenOf(ft2)[m] = Add(OpenOf(ft), n, 1)[m]
             /\ RefsOf(ft2, pw)[m] = Add(RefsOf(ft, pw), n, 1)[m]
  <2>1. PICK a \in Nat, b \in Nat : a = Cardinality(Names(ft, m)) /\ b = Cardinality(Cwds(pw, m))
    BY OwedFinite
  <2>2. CASE m = n
    BY <1>5, <1>6, <2>1, <2>2 DEF OpenOf, RefsOf, Add
  <2>3. CASE m # n
    BY <1>4, <1>6, <2>1, <2>3 DEF OpenOf, RefsOf, Add
  <2>4. QED
    BY <2>2, <2>3
<1>8. QED
  BY <1>6, <1>7 DEF OpenOf, RefsOf, Add

\* The same descriptors are open.
LEMMA SameOpened ==
    ASSUME NEW ft, NEW ft2, NEW pw,
           \A a \in All, b \in Fd : ft2[a][b].status = ft[a][b].status /\ ft2[a][b].node = ft[a][b].node
    PROVE  OpenOf(ft2) = OpenOf(ft) /\ RefsOf(ft2, pw) = RefsOf(ft, pw)
<1>1. \A n : Names(ft2, n) = Names(ft, n)
  BY DEF Names
<1>2. QED
  BY <1>1 DEF OpenOf, RefsOf

\* A process without a current directory gets one.
LEMMA CwdSet ==
    ASSUME NEW ft, NEW pw, NEW pw2, NEW p \in All, NEW n \in Node, pw[p] # n, pw2[p] = n,
           pw[p] = NULL, \A a \in All : a # p => pw2[a] = pw[a]
    PROVE  RefsOf(ft, pw2) = Add(RefsOf(ft, pw), n, 1)
<1>1. Cwds(pw2, n) = Cwds(pw, n) \cup {p} /\ p \notin Cwds(pw, n)
  BY DEF Cwds
<1>2. \A m \in Node : m # n => Cwds(pw2, m) = Cwds(pw, m)
  BY FilesAssumption DEF Cwds
<1>3. Cardinality(Cwds(pw2, n)) = Cardinality(Cwds(pw, n)) + 1
  BY <1>1, OwedFinite, FS_AddElement
<1>4. RefsOf(ft, pw) \in [Node -> Int]
  BY OwedFinite
<1>5. ASSUME NEW m \in Node
      PROVE  RefsOf(ft, pw2)[m] = Add(RefsOf(ft, pw), n, 1)[m]
  <2>1. PICK a \in Nat, b \in Nat : a = Cardinality(Names(ft, m)) /\ b = Cardinality(Cwds(pw, m))
    BY OwedFinite
  <2>2. CASE m = n
    BY <1>3, <1>4, <2>1, <2>2 DEF RefsOf, Add
  <2>3. CASE m # n
    BY <1>2, <1>4, <2>1, <2>3 DEF RefsOf, Add
  <2>4. QED
    BY <2>2, <2>3
<1>6. QED
  BY <1>4, <1>5 DEF RefsOf, Add

\* A descriptor is closed whose reference and opening are the last of those owed.
LEMMA CloseBack ==
    ASSUME NEW c, NEW R \in [Node -> Int], NEW O \in [Node -> Int], NEW n \in Node,
           Good(c, Add(R, n, 1), Add(O, n, 1)), O[n] >= 0
    PROVE  Good(vfs_close(c, n), R, O) /\ Same(c, vfs_close(c, n), R)
<1>1. ASSUME NEW F \in [Node -> Int] PROVE Add(Add(F, n, 1), n, -1) = F
  <2>1. PICK G : G = Add(F, n, 1)
    OBVIOUS
  <2>2. G \in [Node -> Int] /\ G[n] = F[n] + 1 /\ \A m \in Node : m # n => G[m] = F[m]
    BY <2>1 DEF Add
  <2>3. PICK k \in Int : k = -1
    OBVIOUS
  <2>4. PICK H : H = Add(G, n, k)
    OBVIOUS
  <2>5. H \in [Node -> Int] /\ \A m \in Node : m # n => H[m] = F[m]
    BY ONLY <2>2, <2>3, <2>4, n \in Node DEF Add
  <2>6. H[n] = F[n]
    BY ONLY <2>2, <2>3, <2>4, n \in Node, F \in [Node -> Int] DEF Add
  <2>7. H = F
    BY <2>5, <2>6
  <2>8. QED
    BY <2>1, <2>3, <2>4, <2>7
<1>2. PICK R1, O1 : R1 = Add(R, n, 1) /\ O1 = Add(O, n, 1)
  OBVIOUS
<1>3. O1[n] > 0
  BY <1>2 DEF Add
<1>4. Good(c, R1, O1)
  BY <1>2
<1>5. /\ Good(vfs_close(c, n), Add(R1, n, -1), Add(O1, n, -1))
      /\ Same(c, vfs_close(c, n), Add(R1, n, -1))
  BY ONLY <1>3, <1>4, n \in Node, CloseGood
<1>6. QED
  BY <1>1, <1>2, <1>5

-----------------------------------------------------------------------------
(***************************************************************************)
(* Descriptor tables.  Whole says that the inodes c in memory, the tables  *)
(* ft and the current directories pw fit together.                         *)
(***************************************************************************)
FdRec ==
    [status : {"FD_NONE", "FD_OPENED"}, open_count : Int, node : Node \cup {NULL}, ino : Ino]

\* A descriptor is free, or names the file that was opened.
FdGood(f, c) ==
    IF f.status = "FD_OPENED"
      THEN f.node \in Node /\ c.node[f.node].ino = f.ino /\ f.open_count > 0
      ELSE f = FD_NONE

Whole(c, ft, pw) ==
    /\ ft \in [All -> [Fd -> FdRec]] /\ pw \in [All -> Slot \cup {NULL}]
    /\ Good(c, RefsOf(ft, pw), OpenOf(ft))
    /\ \A p \in All, fd \in Fd : FdGood(ft[p][fd], c)
    /\ \A p \in All : pw[p] # NULL => c.node[pw[p]].ino \in Dir

\* No descriptor of the table is in use by a read that sleeps.
Plain(tab) == \A fd \in Fd : tab[fd].open_count <= 1

Tables(ft, p, tab) == [ft EXCEPT ![p] = tab]

\* The free descriptor.
LEMMA FreeFd ==
    /\ FD_NONE \in FdRec /\ FD_NONE.status = "FD_NONE" /\ FD_NONE.open_count = 0
    /\ FD_NONE.status # "FD_OPENED" /\ \A c : FdGood(FD_NONE, c)
BY DEF FD_NONE, FdRec, Ino, FdGood

\* What descriptors and current directories name is referenced.
LEMMA Counted ==
    ASSUME NEW ft, NEW pw, NEW p \in All
    PROVE  /\ \A fd \in Fd : ft[p][fd].status = "FD_OPENED" /\ ft[p][fd].node \in Node
                => RefsOf(ft, pw)[ft[p][fd].node] > 0
           /\ pw[p] \in Node => RefsOf(ft, pw)[pw[p]] > 0
<1>1. ASSUME NEW n \in Node
      PROVE  /\ RefsOf(ft, pw)[n] = Cardinality(Names(ft, n)) + Cardinality(Cwds(pw, n))
             /\ Cardinality(Names(ft, n)) \in Nat /\ Cardinality(Cwds(pw, n)) \in Nat
             /\ Names(ft, n) # {} => Cardinality(Names(ft, n)) # 0
             /\ Cwds(pw, n) # {} => Cardinality(Cwds(pw, n)) # 0
  BY OwedFinite, FS_EmptySet DEF RefsOf
<1>2. ASSUME NEW fd \in Fd, ft[p][fd].status = "FD_OPENED", ft[p][fd].node \in Node
      PROVE  RefsOf(ft, pw)[ft[p][fd].node] > 0
  <2>1. PICK n \in Node : n = ft[p][fd].node
    BY <1>2
  <2>2. <<p, fd>> \in Names(ft, n)
    BY <1>2, <2>1 DEF Names
  <2>3. RefsOf(ft, pw)[n] > 0
    BY <1>1, <2>2
  <2>4. QED
    BY <2>1, <2>3
<1>3. ASSUME pw[p] \in Node PROVE RefsOf(ft, pw)[pw[p]] > 0
  <2>1. PICK n \in Node : n = pw[p]
    BY <1>3
  <2>2. p \in Cwds(pw, n)
    BY <2>1 DEF Cwds
  <2>3. RefsOf(ft, pw)[n] > 0
    BY <1>1, <2>2
  <2>4. QED
    BY <2>1, <2>3
<1>4. QED
  BY <1>2, <1>3

\* The inodes go from c to c2, and what is still named keeps its inode.
LEMMA WholeAgain ==
    ASSUME NEW c, NEW c2, NEW ft, NEW pw,
           ft \in [All -> [Fd -> FdRec]], pw \in [All -> Slot \cup {NULL}],
           Good(c2, RefsOf(ft, pw), OpenOf(ft)), Same(c, c2, RefsOf(ft, pw)),
           \A p \in All, fd \in Fd : FdGood(ft[p][fd], c),
           \A p \in All : pw[p] # NULL => c.node[pw[p]].ino \in Dir
    PROVE  Whole(c2, ft, pw)
<1>1. ASSUME NEW p \in All, NEW fd \in Fd PROVE FdGood(ft[p][fd], c2)
  <2>1. CASE FdGood(ft[p][fd], c) /\ ft[p][fd].status = "FD_OPENED"
    <3>1. PICK n \in Node : n = ft[p][fd].node
      BY <2>1 DEF FdGood
    <3>2. RefsOf(ft, pw)[n] > 0
      BY <2>1, <3>1, Counted
    <3>3. c2.node[n].ino = c.node[n].ino
      BY <3>2 DEF Same
    <3>4. QED
      BY <2>1, <3>1, <3>3 DEF FdGood
  <2>2. CASE FdGood(ft[p][fd], c) /\ ft[p][fd].status # "FD_OPENED"
    BY <2>2 DEF FdGood
  <2>3. QED
    BY <2>1, <2>2
<1>2. ASSUME NEW p \in All, pw[p] # NULL PROVE c2.node[pw[p]].ino \in Dir
  <2>1. PICK n \in Node : n = pw[p]
    BY <1>2 DEF Node
  <2>2. RefsOf(ft, pw)[n] > 0
    BY <2>1, Counted
  <2>3. QED
    BY <1>2, <2>1, <2>2 DEF Same
<1>3. QED
  BY <1>1, <1>2 DEF Whole

\* What the tables name stays while its references stay.
LEMMA NamesStay ==
    ASSUME NEW c, NEW c2, NEW ft, NEW pw, Whole(c, ft, pw), Same(c, c2, RefsOf(ft, pw))
    PROVE  /\ \A p \in All, fd \in Fd : FdGood(ft[p][fd], c2)
           /\ \A p \in All : pw[p] # NULL => c2.node[pw[p]].ino \in Dir
<1>1. ASSUME NEW p \in All, NEW fd \in Fd PROVE FdGood(ft[p][fd], c2)
  <2>0. FdGood(ft[p][fd], c)
    BY DEF Whole
  <2>1. CASE ft[p][fd].status = "FD_OPENED"
    <3>1. PICK n \in Node : n = ft[p][fd].node
      BY <2>0, <2>1 DEF FdGood
    <3>2. RefsOf(ft, pw)[n] > 0
      BY <2>1, <3>1, Counted
    <3>3. c2.node[n].ino = c.node[n].ino
      BY <3>2 DEF Same
    <3>4. QED
      BY <2>0, <2>1, <3>1, <3>3 DEF FdGood
  <2>2. CASE ft[p][fd].status # "FD_OPENED"
    BY <2>0, <2>2 DEF FdGood
  <2>3. QED
    BY <2>1, <2>2
<1>2. ASSUME NEW p \in All, pw[p] # NULL PROVE c2.node[pw[p]].ino \in Dir
  <2>1. PICK n \in Node : n = pw[p]
    BY <1>2 DEF Whole, Node
  <2>2. RefsOf(ft, pw)[n] > 0
    BY <2>1, Counted
  <2>3. QED
    BY <1>2, <2>1, <2>2 DEF Same, Whole
<1>3. QED
  BY <1>1, <1>2

\* The change of one table.
LEMMA TablesFacts ==
    ASSUME NEW ft \in [All -> [Fd -> FdRec]], NEW p \in All, NEW tab \in [Fd -> FdRec]
    PROVE  /\ Tables(ft, p, tab) \in [All -> [Fd -> FdRec]]
           /\ Tables(ft, p, tab)[p] = tab
           /\ \A a \in All : a # p => Tables(ft, p, tab)[a] = ft[a]
           /\ Tables(ft, p, ft[p]) = ft
           /\ \A tab2 : Tables(Tables(ft, p, tab), p, tab2) = Tables(ft, p, tab2)
BY DEF Tables

\* The inodes and the table of p when its descriptor fd is closed.
FdClosed(ft, pw, p, fd, d) ==
    /\ d = [fs |-> d.fs, tab |-> d.tab]
    /\ d.tab = [ft[p] EXCEPT ![fd] = FD_NONE]
    /\ Whole(d.fs, Tables(ft, p, d.tab), pw)

\* fd_array_close of a descriptor that nobody else holds.
LEMMA FdCloseGood ==
    ASSUME NEW c, NEW ft, NEW pw, Whole(c, ft, pw), NEW p \in All, NEW fd \in Fd,
           NEW tab, tab = ft[p], tab[fd].status = "FD_OPENED", tab[fd].open_count <= 1
    PROVE  FdClosed(ft, pw, p, fd, fd_array_close([fs |-> c, tab |-> tab], fd))
<1>1. PICK f \in FdRec : f = tab[fd]
  BY DEF Whole
<1>2. PICK n \in Node : n = f.node
  BY <1>1 DEF Whole, FdGood
<1>3. tab \in [Fd -> FdRec] /\ ft \in [All -> [Fd -> FdRec]] /\ pw \in [All -> Slot \cup {NULL}]
  BY DEF Whole
<1>4. PICK c2, tab2 : c2 = vfs_close(c, n) /\ tab2 = [tab EXCEPT ![fd] = FD_NONE]
  OBVIOUS
<1>5. fd_array_close([fs |-> c, tab |-> tab], fd) = [fs |-> c2, tab |-> tab2]
  <2>1. PICK g : g = [f EXCEPT !.status = "FD_CLOSED"]
    OBVIOUS
  <2>2. g.status = "FD_CLOSED" /\ g.node = n /\ ~(g.open_count > 1)
    <3>1. g.status = "FD_CLOSED" /\ g.node = f.node /\ g.open_count = f.open_count
      BY ONLY <2>1, f \in FdRec DEF FdRec
    <3>2. f.open_count <= 1 /\ f.open_count \in Int
      BY <1>1 DEF FdRec
    <3>3. QED
      BY <1>2, <3>1, <3>2
  <2>3. PICK tab1 : tab1 = [tab EXCEPT ![fd] = g]
    OBVIOUS
  <2>4. tab1[fd] = g /\ [tab1 EXCEPT ![fd] = FD_NONE] = tab2
    BY ONLY <1>3, <1>4, <2>3, fd \in Fd
  <2>5. PICK d, e : d = [fs |-> c, tab |-> tab] /\ e = [fs |-> c, tab |-> tab1]
    OBVIOUS
  <2>6. [d EXCEPT !.tab[fd].status = "FD_CLOSED"] = e
    BY ONLY <1>1, <2>1, <2>3, <2>5
  <2>7. fd_array_release(e, fd) = [fs |-> c2, tab |-> tab2]
    BY ONLY <1>4, <2>2, <2>4, <2>5 DEF fd_array_release
  <2>8. fd_array_close(d, fd) = fd_array_release(e, fd)
    BY <2>6 DEF fd_array_close
  <2>9. QED
    BY <2>5, <2>7, <2>8
<1>6. PICK ft2 : ft2 = Tables(ft, p, tab2)
  OBVIOUS
<1>7. tab2 \in [Fd -> FdRec] /\ tab2[fd] = FD_NONE /\ \A b \in Fd : b # fd => tab2[b] = tab[b]
  BY <1>3, <1>4, FreeFd
<1>8. /\ ft2 \in [All -> [Fd -> FdRec]] /\ ft2[p] = tab2
      /\ \A a \in All : a # p => ft2[a] = ft[a]
  BY <1>3, <1>6, <1>7, TablesFacts
<1>9. /\ OpenOf(ft) = Add(OpenOf(ft2), n, 1)
      /\ RefsOf(ft, pw) = Add(RefsOf(ft2, pw), n, 1)
  <2>1. OneDiffers(ft2, ft, p, fd)
    BY <1>7, <1>8 DEF OneDiffers
  <2>2. ft2[p][fd].status # "FD_OPENED"
    BY <1>7, <1>8, FreeFd
  <2>3. ft[p][fd].status = "FD_OPENED" /\ ft[p][fd].node = n
    BY <1>1, <1>2
  <2>4. QED
    BY ONLY <2>1, <2>2, <2>3, p \in All, fd \in Fd, n \in Node, OneOpened
<1>10. Good(c2, RefsOf(ft2, pw), OpenOf(ft2)) /\ Same(c, c2, RefsOf(ft2, pw))
  <2>1. PICK R \in [Node -> Int], O \in [Node -> Int] : R = RefsOf(ft2, pw) /\ O = OpenOf(ft2)
    BY OwedFinite
  <2>2. O[n] >= 0
    <3>1. PICK k \in Nat : k = Cardinality(Names(ft2, n))
      BY OwedFinite
    <3>2. QED
      BY ONLY <2>1, <3>1, n \in Node DEF OpenOf
  <2>3. Good(c, Add(R, n, 1), Add(O, n, 1))
    BY <1>9, <2>1 DEF Whole
  <2>4. Good(c2, R, O) /\ Same(c, c2, R)
    <3>1. R \in [Node -> Int] /\ O \in [Node -> Int]
      OBVIOUS
    <3>2. Good(vfs_close(c, n), R, O) /\ Same(c, vfs_close(c, n), R)
      BY ONLY <2>2, <2>3, <3>1, n \in Node, CloseBack
    <3>3. c2 = vfs_close(c, n)
      BY <1>4
    <3>4. QED
      BY ONLY <3>2, <3>3
  <2>5. QED
    BY <2>1, <2>4
<1>11. \A a \in All, b \in Fd : FdGood(ft2[a][b], c)
  BY <1>7, <1>8, FreeFd DEF Whole
<1>12. Whole(c2, ft2, pw)
  BY <1>3, <1>8, <1>10, <1>11, WholeAgain DEF Whole
<1>13. QED
  BY <1>4, <1>5, <1>6, <1>12 DEF FdClosed

\* The tables after the descriptors from k to i - 1 of p are closed.
ClosedTo(ft, p, pw, k, i, d) ==
    /\ d = [fs |-> d.fs, tab |-> d.tab] /\ d.tab \in [Fd -> FdRec]
    /\ Whole(d.fs, Tables(ft, p, d.tab), pw) /\ Plain(d.tab)
    /\ \A j \in Fd : k <= j /\ j < i => d.tab[j] = FD_NONE

\* CloseOpen of the next one.
LEMMA CloseOpenGood ==
    ASSUME NEW ft \in [All -> [Fd -> FdRec]], NEW p \in All, NEW pw, NEW k \in Int, NEW i \in Fd,
           NEW d, ClosedTo(ft, p, pw, k, i, d)
    PROVE  ClosedTo(ft, p, pw, k, i + 1, CloseOpen(d, i))
<1>1. PICK tab \in [Fd -> FdRec], c \in {d.fs} : tab = d.tab
  BY DEF ClosedTo
<1>2. PICK g : g = Tables(ft, p, tab)
  OBVIOUS
<1>3. /\ d = [fs |-> c, tab |-> tab] /\ Whole(c, g, pw) /\ Plain(tab)
      /\ \A j \in Fd : k <= j /\ j < i => tab[j] = FD_NONE
  BY <1>1, <1>2 DEF ClosedTo
<1>4. g[p] = tab /\ \A t : Tables(g, p, t) = Tables(ft, p, t)
  BY <1>1, <1>2, TablesFacts
<1>5. i \in Int /\ Fd \subseteq Int
  BY DEF Fd
<1>6. CASE tab[i].status = "FD_OPENED"
  <2>1. CloseOpen(d, i) = fd_array_close([fs |-> c, tab |-> tab], i)
    BY <1>3, <1>6 DEF CloseOpen
  <2>2. tab[i].open_count <= 1
    BY <1>3 DEF Plain
  <2>3. PICK tab2, c2 :
             /\ fd_array_close([fs |-> c, tab |-> tab], i) = [fs |-> c2, tab |-> tab2]
             /\ tab2 = [tab EXCEPT ![i] = FD_NONE]
             /\ Whole(c2, Tables(g, p, tab2), pw)
    <3>1. Whole(c, g, pw) /\ tab = g[p]
      BY <1>3, <1>4
    <3>2. FdClosed(g, pw, p, i, fd_array_close([fs |-> c, tab |-> tab], i))
      BY ONLY <1>6, <2>2, <3>1, p \in All, i \in Fd, FdCloseGood
    <3>3. QED
      BY <3>1, <3>2 DEF FdClosed
  <2>4. /\ tab2 \in [Fd -> FdRec] /\ tab2[i] = FD_NONE
        /\ \A j \in Fd : j # i => tab2[j] = tab[j]
    BY <1>1, <2>3, FreeFd
  <2>5. Plain(tab2)
    BY <1>3, <2>4, FreeFd DEF Plain
  <2>6. \A j \in Fd : k <= j /\ j < i + 1 => tab2[j] = FD_NONE
    <3>1. \A j \in Fd : j # i /\ j < i + 1 => j < i
      BY <1>5
    <3>2. QED
      BY <1>3, <2>4, <3>1
  <2>7. CloseOpen(d, i) = [fs |-> c2, tab |-> tab2] /\ Whole(c2, Tables(ft, p, tab2), pw)
    BY <1>4, <2>1, <2>3
  <2>8. QED
    BY <2>4, <2>5, <2>6, <2>7 DEF ClosedTo
<1>7. CASE tab[i].status # "FD_OPENED"
  <2>1. CloseOpen(d, i) = d
    BY <1>3, <1>7 DEF CloseOpen
  <2>2. tab[i] = FD_NONE
    BY <1>3, <1>4, <1>7 DEF Whole, FdGood
  <2>3. \A j \in Fd : k <= j /\ j < i + 1 => tab[j] = FD_NONE
    BY <1>3, <1>5, <2>2
  <2>4. QED
    BY <1>1, <2>1, <2>3 DEF ClosedTo
<1>8. QED
  BY <1>6, <1>7

\* ClosedFrom.
LEMMA ClosedFromGood ==
    ASSUME NEW c, NEW ft, NEW pw, Whole(c, ft, pw), NEW p \in All, Plain(ft[p]),
           NEW k \in 0 .. FILES_STRUCT_NENTRY
    PROVE  ClosedTo(ft, p, pw, k, FILES_STRUCT_NENTRY, ClosedFrom([fs |-> c, tab |-> ft[p]], k))
<1>1. PICK N \in Nat : N = FILES_STRUCT_NENTRY
  BY FilesAssumption
<1>2. PICK d : d = [fs |-> c, tab |-> ft[p]]
  OBVIOUS
<1> DEFINE StepOf(g, n) == [i \in k .. n |-> IF i = k THEN d ELSE CloseOpen(g[i - 1], i - 1)]
           closed == CHOOSE g : g = StepOf(g, N)
           T == {n \in Nat : k <= n => \E g : g = StepOf(g, n)}
           Q == {n \in Nat : k <= n /\ n <= N => ClosedTo(ft, p, pw, k, n, closed[n])}
<1>3. ClosedFrom(d, k) = closed[N]
  BY <1>1 DEF ClosedFrom
<1>4. k \in Nat /\ k <= N
  BY <1>1
<1>5. ft \in [All -> [Fd -> FdRec]]
  BY DEF Whole
<1>6. ClosedTo(ft, p, pw, k, k, d)
  <2>1. ft[p] \in [Fd -> FdRec]
    BY <1>5
  <2>2. Whole(c, Tables(ft, p, ft[p]), pw)
    BY <1>5, <2>1, TablesFacts
  <2>3. \A j \in Fd : ~(k <= j /\ j < k)
    BY <1>4 DEF Fd
  <2>4. QED
    BY <1>2, <2>1, <2>2, <2>3 DEF ClosedTo
<1>7. Nat \subseteq T
  <2>0. ASSUME k \in Nat PROVE \E g : g = StepOf(g, k)
    <3>1. PICK g : g = [i \in k .. k |-> d]
      OBVIOUS
    <3>2. g = StepOf(g, k)
      BY <2>0, <3>1
    <3>3. QED
      BY <3>2
  <2>1. 0 \in T
    <3>1. 0 >= k => k = 0
      BY <1>4
    <3>2. QED
      BY <1>4, <2>0, <3>1
  <2>2. ASSUME NEW n \in Nat, n \in T PROVE n + 1 \in T
    <3>1. CASE n + 1 < k
      BY <1>4, <3>1
    <3>2. CASE n + 1 = k
      BY <1>4, <2>0, <3>2
    <3>3. CASE k <= n
      <4>1. PICK g : g = StepOf(g, n)
        BY <2>2, <3>3
      <4>2. PICK h : h = [i \in k .. n + 1 |-> IF i = n + 1 THEN CloseOpen(g[n], n) ELSE g[i]]
        OBVIOUS
      <4>3. ASSUME NEW i \in k .. n + 1
            PROVE  h[i] = IF i = k THEN d ELSE CloseOpen(h[i - 1], i - 1)
        <5>1. CASE i = n + 1
          <6>1. h[i] = CloseOpen(g[n], n) /\ h[i - 1] = g[n] /\ i # k /\ i - 1 = n
            BY <1>4, <3>3, <4>2, <5>1
          <6>2. QED
            BY <6>1
        <5>2. CASE i # n + 1
          <6>1. h[i] = g[i] /\ (i # k => h[i - 1] = g[i - 1]) /\ i \in k .. n
            BY <1>4, <4>2, <5>2
          <6>2. g[i] = IF i = k THEN d ELSE CloseOpen(g[i - 1], i - 1)
            BY <4>1, <6>1
          <6>3. QED
            BY <6>1, <6>2
        <5>3. QED
          BY <5>1, <5>2
      <4>4. h = StepOf(h, n + 1)
        BY <4>2, <4>3
      <4>5. QED
        BY <4>4
    <3>4. QED
      BY <1>4, <3>1, <3>2, <3>3
  <2> HIDE DEF T
  <2>3. QED
    BY <2>1, <2>2, InductionOverSets
<1>8. closed = StepOf(closed, N)
  <2>1. PICK g : g = StepOf(g, N)
    BY <1>1, <1>4, <1>7
  <2> HIDE DEF StepOf
  <2>2. QED
    BY <2>1
<1> HIDE DEF closed
<1>9. closed[k] = d /\ \A i \in k + 1 .. N : closed[i] = CloseOpen(closed[i - 1], i - 1)
  BY <1>4, <1>8
<1>10. Nat \subseteq Q
  <2>1. 0 \in Q
    <3>1. 0 >= k => k = 0
      BY <1>4
    <3>2. QED
      BY <1>6, <1>9, <3>1
  <2>2. ASSUME NEW n \in Nat, n \in Q PROVE n + 1 \in Q
    <3>1. SUFFICES ASSUME k <= n + 1, n + 1 <= N PROVE ClosedTo(ft, p, pw, k, n + 1, closed[n + 1])
      OBVIOUS
    <3>2. CASE n + 1 = k
      BY <1>6, <1>9, <3>2
    <3>3. CASE n + 1 # k
      <4>1. k <= n /\ n <= N /\ n \in Fd /\ n + 1 \in k + 1 .. N
        BY <1>1, <1>4, <3>1, <3>3 DEF Fd
      <4>2. PICK w : w = closed[n]
        OBVIOUS
      <4>3. ClosedTo(ft, p, pw, k, n, w)
        BY <2>2, <4>1, <4>2
      <4>4. closed[n + 1] = CloseOpen(w, n)
        BY <1>9, <4>1, <4>2
      <4>5. k \in Int
        BY <1>4
      <4>6. ClosedTo(ft, p, pw, k, n + 1, CloseOpen(w, n))
        BY <1>5, <4>1, <4>3, <4>5, CloseOpenGood
      <4>7. QED
        BY <4>4, <4>6
    <3>4. QED
      BY <3>2, <3>3
  <2> HIDE DEF Q
  <2>3. QED
    BY <2>1, <2>2, InductionOverSets
<1>11. ClosedTo(ft, p, pw, k, N, closed[N])
  BY <1>1, <1>4, <1>10
<1>12. QED
  BY <1>1, <1>2, <1>3, <1>11

\* files_destroy: all that a process held is given back.
LEMMA DestroyGood ==
    ASSUME NEW c, NEW ft, NEW pw, Whole(c, ft, pw), NEW p \in All, Plain(ft[p]), pw[p] # NULL
    PROVE  Whole(files_destroy(c, ft[p], pw[p]), Tables(ft, p, fd_array_init),
                 [pw EXCEPT ![p] = NULL])
<1>1. /\ ft \in [All -> [Fd -> FdRec]] /\ pw \in [All -> Slot \cup {NULL}]
      /\ Good(c, RefsOf(ft, pw), OpenOf(ft))
  BY DEF Whole
<1>2. PICK n \in Node : n = pw[p] /\ n # NULL
  BY <1>1 DEF Node
<1>3. PICK pw2 : pw2 = [pw EXCEPT ![p] = NULL]
  OBVIOUS
<1>4. /\ pw2 \in [All -> Slot \cup {NULL}] /\ pw2[p] = NULL
      /\ \A a \in All : a # p => pw2[a] = pw[a]
  BY <1>1, <1>3
<1>5. PICK d : d = inode_ref_dec(c, n)
  OBVIOUS
<1>6. Whole(d, ft, pw2)
  <2>1. PICK R \in [Node -> Int], O \in [Node -> Int] : R = RefsOf(ft, pw2) /\ O = OpenOf(ft)
    BY OwedFinite
  <2>2. RefsOf(ft, pw) = Add(R, n, 1)
    BY <1>2, <1>4, <2>1, CwdSet
  <2>3. O[n] <= R[n]
    BY <2>1, OwedFinite DEF OpenOf, RefsOf
  <2>4. Good(d, R, O) /\ Same(c, d, R)
    BY <1>1, <1>5, <2>1, <2>2, <2>3, GiveBack
  <2>5. /\ \A a \in All, fd \in Fd : FdGood(ft[a][fd], c)
        /\ \A a \in All : pw2[a] # NULL => c.node[pw2[a]].ino \in Dir
    BY <1>4 DEF Whole
  <2>6. QED
    BY <1>1, <1>4, <2>1, <2>4, <2>5, WholeAgain
<1>7. PICK r : r = ClosedFrom([fs |-> d, tab |-> ft[p]], 0)
  OBVIOUS
<1>8. ClosedTo(ft, p, pw2, 0, FILES_STRUCT_NENTRY, r)
  <2>1. 0 \in 0 .. FILES_STRUCT_NENTRY
    BY FilesAssumption
  <2>2. QED
    BY <1>6, <1>7, <2>1, ClosedFromGood
<1>9. r.tab = fd_array_init
  <2>1. \A j \in Fd : r.tab[j] = FD_NONE
    BY <1>8, FilesAssumption DEF ClosedTo, Fd
  <2>2. r.tab \in [Fd -> FdRec]
    BY <1>8 DEF ClosedTo
  <2>3. QED
    BY <2>1, <2>2 DEF fd_array_init
<1>10. files_destroy(c, ft[p], pw[p]) = r.fs
  BY <1>2, <1>5, <1>7 DEF files_destroy
<1>11. QED
  BY <1>3, <1>8, <1>9, <1>10 DEF ClosedTo

\* fd_array_dup of an open descriptor.
LEMMA FdDupGood ==
    ASSUME NEW c, NEW R, NEW O, Good(c, R, O), NEW f, NEW n \in Node, f.node = n,
           c.node[n].ino # NULL
    PROVE  /\ Good(fd_array_dup(c, f), Add(R, n, 1), Add(O, n, 1))
           /\ \A m \in Node : fd_array_dup(c, f).node[m].ino = c.node[m].ino
<1>1. PICK c1, c2 : c1 = inode_ref_inc(c, n) /\ c2 = inode_open_inc(inode_ref_inc(c, n), n)
  OBVIOUS
<1>2. PICK R1 : R1 = Add(R, n, 1)
  OBVIOUS
<1>3. Good(c1, R1, O) /\ \A m \in Node : c1.node[m].ino = c.node[m].ino
  BY <1>1, <1>2, IncGood
<1>4. O[n] < R1[n]
  <2>1. R \in [Node -> Int] /\ O \in [Node -> Int] /\ O[n] <= R[n]
    BY DEF Good, NodeGood
  <2>2. R1[n] = R[n] + 1
    BY <1>2, <2>1 DEF Add
  <2>3. QED
    BY <2>1, <2>2
<1>5. Good(c2, R1, Add(O, n, 1)) /\ \A m \in Node : c2.node[m].ino = c1.node[m].ino
  BY <1>1, <1>3, <1>4, OpenIncGood
<1>6. fd_array_dup(c, f) = c2
  BY <1>1 DEF fd_array_dup
<1>7. QED
  BY <1>2, <1>3, <1>5, <1>6

\* The tables when q has the first i descriptors of p.
Half(ft, p, q, i) == Tables(ft, q, [fd \in Fd |-> IF fd < i THEN ft[p][fd] ELSE FD_NONE])

DupedTo(c0, ft, p, q, pw2, i, c) ==
    /\ Good(c, RefsOf(Half(ft, p, q, i), pw2), OpenOf(Half(ft, p, q, i)))
    /\ \A m \in Node : c.node[m].ino = c0.node[m].ino

\* DupOpen of the next descriptor.
LEMMA DupOpenGood ==
    ASSUME NEW c0, NEW ft, NEW pw, Whole(c0, ft, pw), NEW p \in All, NEW q \in All, NEW pw2,
           NEW i \in Fd, NEW c, DupedTo(c0, ft, p, q, pw2, i, c)
    PROVE  DupedTo(c0, ft, p, q, pw2, i + 1, DupOpen(c, ft[p][i]))
<1>1. ft \in [All -> [Fd -> FdRec]] /\ FdGood(ft[p][i], c0) /\ Good(c0, RefsOf(ft, pw), OpenOf(ft))
  BY DEF Whole
<1>2. PICK g, h : g = Half(ft, p, q, i) /\ h = Half(ft, p, q, i + 1)
  OBVIOUS
<1>3. /\ \A a \in All : a # q => g[a] = ft[a] /\ h[a] = ft[a]
      /\ \A b \in Fd : g[q][b] = (IF b < i THEN ft[p][b] ELSE FD_NONE)
      /\ \A b \in Fd : h[q][b] = (IF b < i + 1 THEN ft[p][b] ELSE FD_NONE)
  BY <1>1, <1>2 DEF Half, Tables
<1>4. i \in Int /\ Fd \subseteq Int
  BY DEF Fd
<1>5. /\ \A b \in Fd : b # i => h[q][b] = g[q][b]
      /\ g[q][i] = FD_NONE /\ h[q][i] = ft[p][i]
  BY <1>3, <1>4
<1>6. Good(c, RefsOf(g, pw2), OpenOf(g)) /\ \A m \in Node : c.node[m].ino = c0.node[m].ino
  BY <1>2 DEF DupedTo
<1>7. CASE ft[p][i].status = "FD_OPENED"
  <2>1. PICK f \in FdRec, n \in Node : f = ft[p][i] /\ n = f.node
    BY <1>1, <1>7 DEF FdGood
  <2>2. c0.node[n].ino # NULL
    <3>1. RefsOf(ft, pw)[n] > 0
      BY <1>7, <2>1, Counted
    <3>2. NodeGood(c0.node[n], Base(c0, n), n, RefsOf(ft, pw)[n], OpenOf(ft)[n])
      BY <1>1 DEF Good
    <3>3. QED
      BY <3>1, <3>2 DEF NodeGood
  <2>3. c.node[n].ino # NULL
    BY <1>6, <2>2
  <2>4. OneDiffers(g, h, q, i)
    BY <1>3, <1>5 DEF OneDiffers
  <2>5. g[q][i].status # "FD_OPENED" /\ h[q][i].status = "FD_OPENED" /\ h[q][i].node = n
    BY <1>5, <1>7, <2>1, FreeFd
  <2>6. OpenOf(h) = Add(OpenOf(g), n, 1) /\ RefsOf(h, pw2) = Add(RefsOf(g, pw2), n, 1)
    <3>1. \A w : OpenOf(h) = Add(OpenOf(g), n, 1) /\ RefsOf(h, w) = Add(RefsOf(g, w), n, 1)
      BY ONLY <2>4, <2>5, q \in All, i \in Fd, n \in Node, OneOpened
    <3>2. QED
      BY <3>1
  <2>7. PICK R, O : R = RefsOf(g, pw2) /\ O = OpenOf(g)
    OBVIOUS
  <2>8. PICK d : d = fd_array_dup(c, f)
    OBVIOUS
  <2>9. Good(d, Add(R, n, 1), Add(O, n, 1)) /\ \A m \in Node : d.node[m].ino = c.node[m].ino
    BY <1>6, <2>1, <2>3, <2>7, <2>8, FdDupGood
  <2>10. DupOpen(c, ft[p][i]) = d
    BY <1>7, <2>1, <2>8 DEF DupOpen
  <2>11. QED
    BY <1>2, <1>6, <2>6, <2>7, <2>9, <2>10 DEF DupedTo
<1>8. CASE ft[p][i].status # "FD_OPENED"
  <2>1. ft[p][i] = FD_NONE
    BY <1>1, <1>8 DEF FdGood
  <2>2. \A a \in All, b \in Fd : h[a][b].status = g[a][b].status /\ h[a][b].node = g[a][b].node
    BY <1>3, <1>5, <2>1
  <2>3. OpenOf(h) = OpenOf(g) /\ RefsOf(h, pw2) = RefsOf(g, pw2)
    BY <2>2, SameOpened
  <2>4. DupOpen(c, ft[p][i]) = c
    BY <1>8 DEF DupOpen
  <2>5. QED
    BY <1>2, <1>6, <2>3, <2>4 DEF DupedTo
<1>9. QED
  BY <1>7, <1>8

\* dup_files: the child's descriptors and its current directory are counted.
LEMMA DupFilesGood ==
    ASSUME NEW c, NEW ft, NEW pw, Whole(c, ft, pw), NEW p \in All, NEW q \in All,
           ft[q] = fd_array_init, pw[q] = NULL, pw[p] # NULL
    PROVE  Whole(dup_files(c, ft[p], pw[p]), Tables(ft, q, ft[p]), [pw EXCEPT ![q] = pw[p]])
<1>1. PICK N \in Nat : N = FILES_STRUCT_NENTRY
  BY FilesAssumption
<1>2. PICK dir, tab : dir = pw[p] /\ tab = ft[p]
  OBVIOUS
<1>3. PICK pw2 : pw2 = [pw EXCEPT ![q] = dir]
  OBVIOUS
<1>4. /\ ft \in [All -> [Fd -> FdRec]] /\ pw \in [All -> Slot \cup {NULL}]
      /\ Good(c, RefsOf(ft, pw), OpenOf(ft)) /\ dir \in Node /\ dir \in Slot
      /\ c.node[dir].ino \in Dir
  BY <1>2 DEF Whole, Node
<1>5. /\ pw2 \in [All -> Slot \cup {NULL}] /\ pw2[q] = dir
      /\ \A a \in All : a # q => pw2[a] = pw[a]
  BY <1>3, <1>4
<1>6. PICK start : start = inode_ref_inc(c, dir)
  OBVIOUS
<1> DEFINE StepOf(g, n) == [i \in 0 .. n |-> IF i = 0 THEN start ELSE DupOpen(g[i - 1], tab[i - 1])]
           duped == CHOOSE g : g = StepOf(g, N)
           T == {n \in Nat : \E g : g = StepOf(g, n)}
           Q == {n \in Nat : n <= N => DupedTo(c, ft, p, q, pw2, n, duped[n])}
<1>7. dup_files(c, tab, dir) = duped[N]
  BY <1>1, <1>6 DEF dup_files
<1>8. DupedTo(c, ft, p, q, pw2, 0, start)
  <2>1. PICK R : R = RefsOf(ft, pw)
    OBVIOUS
  <2>2. c.node[dir].ino # NULL
    BY <1>4, FilesAssumption
  <2>3. /\ Good(start, Add(R, dir, 1), OpenOf(ft))
        /\ \A m \in Node : start.node[m].ino = c.node[m].ino
    BY <1>4, <1>6, <2>1, <2>2, IncGood
  <2>4. pw[q] # dir
    BY <1>2
  <2>5. RefsOf(ft, pw2) = Add(RefsOf(ft, pw), dir, 1)
    <3>1. dir \in Node /\ pw2[q] = dir /\ \A a \in All : a # q => pw2[a] = pw[a]
      BY <1>4, <1>5
    <3>2. QED
      BY ONLY <2>4, <3>1, pw[q] = NULL, q \in All, CwdSet
  <2>6. Half(ft, p, q, 0) = ft
    <3>1. \A fd \in Fd : ~(fd < 0)
      BY DEF Fd
    <3>2. [fd \in Fd |-> IF fd < 0 THEN ft[p][fd] ELSE FD_NONE] = ft[q]
      BY <3>1 DEF fd_array_init
    <3>3. QED
      <4>1. ft \in [All -> [Fd -> FdRec]] /\ ft[q] \in [Fd -> FdRec]
        BY <1>4
      <4>2. Tables(ft, q, ft[q]) = ft
        BY ONLY <4>1, q \in All, TablesFacts
      <4>3. QED
        BY ONLY <3>2, <4>2 DEF Half
  <2>7. QED
    BY <2>1, <2>3, <2>5, <2>6 DEF DupedTo
<1>9. Nat \subseteq T
  <2>1. 0 \in T
    <3>1. PICK g : g = [i \in 0 .. 0 |-> start]
      OBVIOUS
    <3>2. g = StepOf(g, 0)
      BY <3>1
    <3>3. QED
      BY <3>2
  <2>2. ASSUME NEW n \in Nat, n \in T PROVE n + 1 \in T
    <3>1. PICK g : g = StepOf(g, n)
      BY <2>2
    <3>2. PICK h : h = [i \in 0 .. n + 1 |-> IF i = n + 1 THEN DupOpen(g[n], tab[n]) ELSE g[i]]
      OBVIOUS
    <3>3. ASSUME NEW i \in 0 .. n + 1
          PROVE  h[i] = IF i = 0 THEN start ELSE DupOpen(h[i - 1], tab[i - 1])
      <4>1. CASE i = n + 1
        <5>1. h[i] = DupOpen(g[n], tab[n]) /\ h[i - 1] = g[n] /\ i # 0 /\ i - 1 = n
          BY <3>2, <4>1
        <5>2. QED
          BY <5>1
      <4>2. CASE i # n + 1
        <5>1. h[i] = g[i] /\ (i # 0 => h[i - 1] = g[i - 1]) /\ i \in 0 .. n
          BY <3>2, <4>2
        <5>2. g[i] = IF i = 0 THEN start ELSE DupOpen(g[i - 1], tab[i - 1])
          BY <3>1, <5>1
        <5>3. QED
          BY <5>1, <5>2
      <4>3. QED
        BY <4>1, <4>2
    <3>4. h = StepOf(h, n + 1)
      BY <3>2, <3>3
    <3>5. QED
      BY <3>4
  <2> HIDE DEF T
  <2>3. QED
    BY <2>1, <2>2, InductionOverSets
<1>10. duped = StepOf(duped, N)
  <2>1. PICK g : g = StepOf(g, N)
    BY <1>1, <1>9
  <2> HIDE DEF StepOf
  <2>2. QED
    BY <2>1
<1> HIDE DEF duped
<1>11. duped[0] = start /\ \A i \in 1 .. N : duped[i] = DupOpen(duped[i - 1], tab[i - 1])
  BY <1>10
<1>12. Nat \subseteq Q
  <2>1. 0 \in Q
    BY <1>8, <1>11
  <2>2. ASSUME NEW n \in Nat, n \in Q PROVE n + 1 \in Q
    <3>1. SUFFICES ASSUME n + 1 <= N PROVE DupedTo(c, ft, p, q, pw2, n + 1, duped[n + 1])
      OBVIOUS
    <3>2. n <= N /\ n \in Fd /\ n + 1 \in 1 .. N
      BY <1>1, <3>1 DEF Fd
    <3>3. PICK w : w = duped[n]
      OBVIOUS
    <3>4. DupedTo(c, ft, p, q, pw2, n, w) /\ duped[n + 1] = DupOpen(w, ft[p][n])
      BY <1>2, <1>11, <2>2, <3>2, <3>3
    <3>5. DupedTo(c, ft, p, q, pw2, n + 1, DupOpen(w, ft[p][n]))
      BY <3>2, <3>4, DupOpenGood
    <3>6. QED
      BY <3>4, <3>5
  <2> HIDE DEF Q
  <2>3. QED
    BY <2>1, <2>2, InductionOverSets
<1>13. PICK d : d = duped[N]
  OBVIOUS
<1>14. DupedTo(c, ft, p, q, pw2, N, d)
  BY <1>1, <1>12, <1>13
<1>15. PICK ft2 : ft2 = Tables(ft, q, ft[p])
  OBVIOUS
<1>16. Half(ft, p, q, N) = ft2
  <2>1. \A fd \in Fd : fd < N
    BY <1>1 DEF Fd
  <2>2. ft[p] \in [Fd -> FdRec]
    BY <1>4
  <2>3. [fd \in Fd |-> IF fd < N THEN ft[p][fd] ELSE FD_NONE] = ft[p]
    BY <2>1, <2>2
  <2>4. QED
    BY <1>15, <2>3 DEF Half
<1>17. /\ ft2 \in [All -> [Fd -> FdRec]] /\ ft2[q] = ft[p]
       /\ \A a \in All : a # q => ft2[a] = ft[a]
  BY <1>4, <1>15, TablesFacts
<1>18. Good(d, RefsOf(ft2, pw2), OpenOf(ft2)) /\ Same(c, d, RefsOf(ft2, pw2))
  BY <1>14, <1>16 DEF DupedTo, Same
<1>19. /\ \A a \in All, fd \in Fd : FdGood(ft2[a][fd], c)
       /\ \A a \in All : pw2[a] # NULL => c.node[pw2[a]].ino \in Dir
  BY <1>4, <1>5, <1>17 DEF Whole
<1>20. Whole(d, ft2, pw2)
  BY <1>5, <1>17, <1>18, <1>19, WholeAgain
<1>21. QED
  BY <1>2, <1>3, <1>7, <1>13, <1>15, <1>20

\* fd_array_alloc: what it hands out is free.
LEMMA AllocGood ==
    ASSUME NEW tab, NEW fd, fd_array_alloc(tab, fd) # NULL
    PROVE  /\ fd_array_alloc(tab, fd) \in Fd
           /\ tab[fd_array_alloc(tab, fd)].status = "FD_NONE"
<1> DEFINE none == {i \in Fd : tab[i].status = "FD_NONE"}
<1>1. CASE fd = NO_FD
  <2>1. none # {} /\ fd_array_alloc(tab, fd) = Min(none)
    BY <1>1 DEF fd_array_alloc
  <2>2. none \subseteq Nat
    BY DEF Fd
  <2>3. \E n \in none : \A m \in none : n <= m
    BY <2>1, <2>2, LeastNatural
  <2>4. Min(none) \in none
    BY <2>3 DEF Min
  <2>5. QED
    BY <2>1, <2>4
<1>2. CASE fd # NO_FD
  BY <1>2 DEF fd_array_alloc
<1>3. QED
  BY <1>1, <1>2

\* fd_array_open of a free descriptor.
LEMMA FdOpenGood ==
    ASSUME NEW c, NEW ft, NEW pw, Whole(c, ft, pw), NEW p \in All, NEW fd \in Fd,
           ft[p][fd].status = "FD_NONE", NEW n \in Node, NEW c2, Same(c, c2, RefsOf(ft, pw)),
           NEW ino, ino = c2.node[n].ino,
           Good(c2, Add(RefsOf(ft, pw), n, 1), Add(OpenOf(ft), n, 1))
    PROVE  Whole(c2, Tables(ft, p, fd_array_open(ft[p], fd, n, ino)), pw)
<1>1. ft \in [All -> [Fd -> FdRec]] /\ pw \in [All -> Slot \cup {NULL}]
  BY DEF Whole
<1>2. PICK f : f = [status |-> "FD_OPENED", open_count |-> 1, node |-> n, ino |-> ino]
  OBVIOUS
<1>3. ino \in Ino
  BY DEF Good, FsType, NodeRec
<1>4. /\ f \in FdRec /\ f.status = "FD_OPENED" /\ f.node = n /\ f.ino = ino /\ f.open_count = 1
  BY <1>2, <1>3 DEF FdRec
<1>5. PICK tab2 : tab2 = [ft[p] EXCEPT ![fd] = f]
  OBVIOUS
<1>6. fd_array_open(ft[p], fd, n, ino) = tab2
  BY <1>2, <1>5 DEF fd_array_open
<1>7. tab2 \in [Fd -> FdRec] /\ tab2[fd] = f /\ \A b \in Fd : b # fd => tab2[b] = ft[p][b]
  BY <1>1, <1>4, <1>5
<1>8. PICK ft2 : ft2 = Tables(ft, p, tab2)
  OBVIOUS
<1>9. /\ ft2 \in [All -> [Fd -> FdRec]] /\ ft2[p] = tab2
      /\ \A a \in All : a # p => ft2[a] = ft[a]
  BY <1>1, <1>7, <1>8, TablesFacts
<1>10. OpenOf(ft2) = Add(OpenOf(ft), n, 1) /\ RefsOf(ft2, pw) = Add(RefsOf(ft, pw), n, 1)
  <2>1. OneDiffers(ft, ft2, p, fd)
    BY <1>7, <1>9 DEF OneDiffers
  <2>2. /\ ft[p][fd].status # "FD_OPENED" /\ ft2[p][fd].status = "FD_OPENED"
        /\ ft2[p][fd].node = n
    BY <1>4, <1>7, <1>9
  <2>3. \A w : OpenOf(ft2) = Add(OpenOf(ft), n, 1) /\ RefsOf(ft2, w) = Add(RefsOf(ft, w), n, 1)
    BY ONLY <2>1, <2>2, p \in All, fd \in Fd, n \in Node, OneOpened
  <2>4. QED
    BY <2>3
<1>11. Good(c2, RefsOf(ft2, pw), OpenOf(ft2))
  BY <1>10
<1>12. /\ \A a \in All, b \in Fd : FdGood(ft[a][b], c2)
       /\ \A a \in All : pw[a] # NULL => c2.node[pw[a]].ino \in Dir
  BY NamesStay
<1>13. ASSUME NEW a \in All, NEW b \in Fd PROVE FdGood(ft2[a][b], c2)
  <2>1. CASE a = p /\ b = fd
    <3>1. FdGood(f, c2)
      BY <1>4 DEF FdGood
    <3>2. QED
      BY <1>7, <1>9, <2>1, <3>1
  <2>2. CASE ~(a = p /\ b = fd)
    <3>1. ft2[a][b] = ft[a][b]
      BY <1>7, <1>9, <2>2
    <3>2. QED
      BY <1>12, <3>1
  <2>3. QED
    BY <2>1, <2>2
<1>14. Whole(c2, ft2, pw)
  BY <1>1, <1>9, <1>11, <1>12, <1>13 DEF Whole
<1>15. QED
  BY <1>6, <1>8, <1>14

\* What file_open hands back.
FileOpened(c, ft, pw, p, r) ==
    /\ Same(c, r.fs, RefsOf(ft, pw)) /\ Saved(r.fs)
    /\ r.ret = "0" =>
         /\ Whole(r.fs, Tables(ft, p, r.tab), pw) /\ r.tab \in [Fd -> FdRec]
         /\ Plain(ft[p]) => Plain(r.tab)
    /\ r.ret # "0" => r.tab = ft[p]
    /\ r.ret # "0" /\ r.ret # "panic" => Whole(r.fs, ft, pw)

\* file_open: the new descriptor is counted, a failed call changes no count.
LEMMA FileOpenGood ==
    ASSUME NEW c, NEW ft, Whole(c, ft, pwd), NEW p \in All, pwd[p] # NULL,
           NEW path, NEW fl, NEW oom, NEW cut
    PROVE  FileOpened(c, ft, pwd, p,
                      file_open([fs |-> c, tab |-> ft[p]], p, path, fl, oom, cut))
<1>1. PICK r : r = file_open([fs |-> c, tab |-> ft[p]], p, path, fl, oom, cut)
  OBVIOUS
<1>2. PICK R \in [Node -> Int], O \in [Node -> Int] : R = RefsOf(ft, pwd) /\ O = OpenOf(ft)
  BY OwedFinite
<1>3. Good(c, R, O) /\ pwd[p] \in Slot /\ c.node[pwd[p]].ino \in Dir /\ ft[p] \in [Fd -> FdRec]
  BY <1>2 DEF Whole
<1>4. PICK fd, v : fd = fd_array_alloc(ft[p], NO_FD) /\ v = vfs_open(c, p, path, fl, oom, cut)
  OBVIOUS
<1>5. Opens(c, R, O, v)
  BY <1>3, <1>4, VfsOpenGood
<1>6. CASE fd = NULL
  <2>1. r = [fs |-> c, tab |-> ft[p], ret |-> "E_MAX_OPEN", fd |-> NULL]
    BY <1>1, <1>4, <1>6 DEF file_open
  <2>2. Same(c, c, R) /\ Saved(c)
    BY <1>3, GoodSaved DEF Same
  <2>3. QED
    BY <1>1, <1>2, <2>1, <2>2 DEF FileOpened
<1>7. CASE fd # NULL /\ v.ret # "0"
  <2>1. r = [fs |-> v.fs, ret |-> v.ret, fd |-> fd, tab |-> ft[p]]
    BY <1>1, <1>4, <1>7 DEF file_open
  <2>2. Same(c, v.fs, R) /\ Saved(v.fs) /\ (v.ret # "panic" => Good(v.fs, R, O))
    BY <1>5, <1>7 DEF Opens
  <2>3. v.ret # "panic" => Whole(v.fs, ft, pwd)
    <3>1. SUFFICES ASSUME v.ret # "panic" PROVE Whole(v.fs, ft, pwd)
      OBVIOUS
    <3>2. Good(v.fs, RefsOf(ft, pwd), OpenOf(ft)) /\ Same(c, v.fs, RefsOf(ft, pwd))
      BY <1>2, <2>2, <3>1
    <3>3. /\ \A a \in All, b \in Fd : FdGood(ft[a][b], v.fs)
          /\ \A a \in All : pwd[a] # NULL => v.fs.node[pwd[a]].ino \in Dir
      BY <3>2, NamesStay
    <3>4. QED
      BY <3>2, <3>3 DEF Whole
  <2>4. QED
    BY <1>1, <1>2, <1>7, <2>1, <2>2, <2>3 DEF FileOpened
<1>8. CASE fd # NULL /\ v.ret = "0"
  <2>1. PICK n \in Node, c2 \in {v.fs} :
          n = v.node /\ Good(c2, Add(R, n, 1), Add(O, n, 1)) /\ Same(c, c2, R)
    BY <1>5, <1>8 DEF Opens
  <2>2. PICK ino, tab2 : ino = c2.node[n].ino /\ tab2 = fd_array_open(ft[p], fd, n, c2.node[n].ino)
    OBVIOUS
  <2>3. r = [fs |-> c2, ret |-> "0", fd |-> fd, tab |-> tab2]
    BY <1>1, <1>4, <1>8, <2>1, <2>2 DEF file_open
  <2>4. fd \in Fd /\ ft[p][fd].status = "FD_NONE"
    BY <1>4, <1>8, AllocGood
  <2>5. Whole(c2, Tables(ft, p, tab2), pwd)
    BY <1>2, <2>1, <2>2, <2>4, FdOpenGood
  <2>6. tab2 \in [Fd -> FdRec]
    <3>1. ino \in Ino
      BY <2>1, <2>2 DEF Good, FsType, NodeRec
    <3>2. PICK f : f = [status |-> "FD_OPENED", open_count |-> 1, node |-> n, ino |-> ino]
      OBVIOUS
    <3>3. f \in FdRec
      BY <3>1, <3>2 DEF FdRec
    <3>4. tab2 = [ft[p] EXCEPT ![fd] = f]
      BY <2>2, <3>2 DEF fd_array_open
    <3>5. QED
      BY <1>3, <3>3, <3>4
  <2>7. Plain(ft[p]) => Plain(tab2)
    BY <1>3, <2>2, <2>4 DEF Plain, fd_array_open
  <2>8. Saved(c2)
    BY <2>1, GoodSaved
  <2>9. QED
    BY <1>1, <1>2, <2>1, <2>3, <2>5, <2>6, <2>7, <2>8 DEF FileOpened
<1>9. QED
  BY <1>6, <1>7, <1>8

\* vfs_set_curdir and the lookup before it: the process gives its old directory
\* back and keeps the new one, and only when it is another directory.
LEMMA ChdirGood ==
    ASSUME NEW c, NEW ft, Whole(c, ft, pwd), NEW p \in All, pwd[p] # NULL,
           NEW r, Got(c, RefsOf(ft, pwd), OpenOf(ft), r), NEW n, n = r.node
    PROVE  /\ r.ret = "0" /\ n # pwd[p] /\ TypeOf(r.fs, n) = "dir" =>
                Whole(inode_ref_dec(inode_ref_dec(inode_ref_inc(r.fs, n), pwd[p]), n), ft,
                      [pwd EXCEPT ![p] = n])
           /\ r.ret = "0" => Whole(inode_ref_dec(r.fs, n), ft, pwd)
           /\ r.ret # "0" => Whole(r.fs, ft, pwd)
<1>1. PICK R \in [Node -> Int], O \in [Node -> Int] : R = RefsOf(ft, pwd) /\ O = OpenOf(ft)
  BY OwedFinite
<1>2. /\ Good(c, R, O) /\ ft \in [All -> [Fd -> FdRec]] /\ pwd \in [All -> Slot \cup {NULL}]
      /\ Got(c, R, O, r)
  BY <1>1 DEF Whole
<1>3. PICK a : a = r.fs
  OBVIOUS
<1>4. Same(c, a, R)
  BY <1>2, <1>3 DEF Got
<1>5. /\ \A q \in All, fd \in Fd : FdGood(ft[q][fd], a)
      /\ \A q \in All : pwd[q] # NULL => a.node[pwd[q]].ino \in Dir
  BY <1>1, <1>4, NamesStay
<1>6. ASSUME r.ret = "0" PROVE n \in Node /\ Good(a, Add(R, n, 1), O)
  BY <1>2, <1>3, <1>6 DEF Got
<1>7. ASSUME r.ret = "0" PROVE Whole(inode_ref_dec(a, n), ft, pwd)
  <2>1. PICK d : d = inode_ref_dec(a, n)
    OBVIOUS
  <2>2. n \in Node /\ Good(a, Add(R, n, 1), O)
    BY <1>6, <1>7
  <2>3. O[n] <= R[n]
    BY <1>2, <2>2, OwedLeast
  <2>4. Good(d, R, O) /\ Same(a, d, R)
    BY <2>1, <2>2, <2>3, GiveBack
  <2>5. Whole(d, ft, pwd)
    BY <1>1, <1>2, <1>5, <2>4, WholeAgain
  <2>6. QED
    BY <2>1, <2>5
<1>8. ASSUME r.ret # "0" PROVE Whole(a, ft, pwd)
  <2>1. Good(a, R, O)
    BY <1>2, <1>3, <1>8 DEF Got
  <2>2. QED
    BY <1>1, <1>2, <1>5, <2>1 DEF Whole
<1>9. ASSUME r.ret = "0", n # pwd[p], TypeOf(a, n) = "dir"
      PROVE  Whole(inode_ref_dec(inode_ref_dec(inode_ref_inc(a, n), pwd[p]), n), ft,
                   [pwd EXCEPT ![p] = n])
  <2>1. n \in Node /\ Good(a, Add(R, n, 1), O)
    BY <1>6, <1>9
  <2>2. a.node[n].ino \in Dir /\ n \in Slot
    BY <1>9, <2>1 DEF TypeOf, Node
  <2>3. PICK m \in Node : m = pwd[p]
    BY <1>2 DEF Node
  <2>4. PICK pw0, pw2 : pw0 = [pwd EXCEPT ![p] = NULL] /\ pw2 = [pwd EXCEPT ![p] = n]
    OBVIOUS
  <2>5. /\ pw0[p] = NULL /\ \A q \in All : q # p => pw0[q] = pwd[q] /\ pw2[q] = pwd[q]
        /\ pw2[p] = n /\ pw2 \in [All -> Slot \cup {NULL}]
    BY <1>2, <2>2, <2>4
  <2>6. PICK R0 \in [Node -> Int] : R0 = RefsOf(ft, pw0)
    BY OwedFinite
  <2>7. R = Add(R0, m, 1)
    <3>1. pw0[p] # m /\ pwd[p] = m /\ \A q \in All : q # p => pwd[q] = pw0[q]
      BY <2>3, <2>5
    <3>2. QED
      BY <1>1, <2>5, <2>6, <3>1, CwdSet
  <2>8. PICK R2 : R2 = Add(R0, n, 1)
    OBVIOUS
  <2>9. RefsOf(ft, pw2) = R2
    <3>1. pw0[p] # n /\ pw2[p] = n /\ \A q \in All : q # p => pw2[q] = pw0[q]
      BY <2>2, <2>5, FilesAssumption DEF Node
    <3>2. QED
      BY <2>1, <2>5, <2>6, <2>8, <3>1, CwdSet
  <2>10. \A k \in Node : O[k] <= R0[k] /\ O[k] \in Int
    BY <1>1, <2>6, OwedFinite DEF OpenOf, RefsOf
  <2>11. /\ R2 \in [Node -> Int] /\ \A k \in Node : O[k] <= R2[k]
         /\ Add(R2, n, 1) \in [Node -> Int] /\ \A k \in Node : O[k] <= Add(R2, n, 1)[k]
         /\ \A k \in Node : R2[k] > 0 => Add(R2, n, 1)[k] > 0
    <3>1. R2 \in [Node -> Int] /\ \A k \in Node : R2[k] = R0[k] + (IF k = n THEN 1 ELSE 0)
      BY ONLY <2>1, <2>8, R0 \in [Node -> Int] DEF Add
    <3>2. /\ Add(R2, n, 1) \in [Node -> Int]
          /\ \A k \in Node : Add(R2, n, 1)[k] = R2[k] + (IF k = n THEN 1 ELSE 0)
      BY ONLY <2>1, <3>1 DEF Add
    <3>3. ASSUME NEW k \in Node
          PROVE  /\ O[k] <= R2[k] /\ O[k] <= Add(R2, n, 1)[k]
                 /\ R2[k] > 0 => Add(R2, n, 1)[k] > 0
      BY <2>10, <3>1, <3>2
    <3>4. QED
      BY <3>1, <3>2, <3>3
  <2>12. PICK b, d, e : b = inode_ref_inc(a, n) /\ d = inode_ref_dec(inode_ref_inc(a, n), m)
                        /\ e = inode_ref_dec(inode_ref_dec(inode_ref_inc(a, n), m), n)
    OBVIOUS
  <2>13. Good(b, Add(Add(R, n, 1), n, 1), O) /\ \A k \in Node : b.node[k].ino = a.node[k].ino
    <3>1. PICK R1 : R1 = Add(R, n, 1)
      OBVIOUS
    <3>2. a.node[n].ino # NULL
      BY <2>2, FilesAssumption
    <3>3. Good(a, R1, O)
      BY <2>1, <3>1
    <3>4. Good(b, Add(R1, n, 1), O) /\ \A k \in Node : b.node[k].ino = a.node[k].ino
      BY <2>1, <2>12, <3>2, <3>3, IncGood
    <3>5. QED
      BY <3>1, <3>4
  <2>14. Add(Add(R, n, 1), n, 1) = Add(Add(R2, n, 1), m, 1)
    <3>1. Add(R, n, 1) = Add(R2, m, 1)
      BY <2>1, <2>7, <2>8, AddCommutes
    <3>2. Add(Add(R2, m, 1), n, 1) = Add(Add(R2, n, 1), m, 1)
      BY <2>1, <2>11, AddCommutes
    <3>3. QED
      BY <3>1, <3>2
  <2>15. Good(d, Add(R2, n, 1), O) /\ Same(b, d, Add(R2, n, 1))
    <3>1. PICK R3 \in [Node -> Int] : R3 = Add(R2, n, 1)
      BY <2>11
    <3>2. Good(b, Add(R3, m, 1), O) /\ O[m] <= R3[m]
      BY <2>11, <2>13, <2>14, <3>1
    <3>3. Good(d, R3, O) /\ Same(b, d, R3)
      BY <2>12, <3>2, GiveBack
    <3>4. QED
      BY <3>1, <3>3
  <2>16. Good(e, R2, O) /\ Same(d, e, R2)
    BY <2>1, <2>11, <2>12, <2>15, GiveBack
  <2>17. Same(a, e, R2)
    BY <2>11, <2>13, <2>15, <2>16 DEF Same
  <2>18. \A q \in All : pw2[q] # NULL => a.node[pw2[q]].ino \in Dir
    BY <1>5, <2>2, <2>5
  <2>19. Whole(e, ft, pw2)
    BY <1>1, <1>2, <1>5, <2>5, <2>9, <2>16, <2>17, <2>18, WholeAgain
  <2>20. QED
    BY <2>3, <2>4, <2>12, <2>19
<1>10. QED
  BY <1>3, <1>7, <1>8, <1>9

-----------------------------------------------------------------------------
(***************************************************************************)
(* The inductive invariant.                                                *)
(***************************************************************************)
\* Exactly one descriptor of the table is held by a read that sleeps.
HeldOnce(tab) ==
    \E fd \in Fd : tab[fd].open_count = 2 /\ \A b \in Fd : b # fd => tab[b].open_count <= 1

\* What the state of a process says of its table and its directory.
StatesOK(ft, pw, st) ==
    /\ st \in [User -> {"free", "thread", "user", "reading", "lost"}]
    /\ \A p \in User :
         /\ st[p] = "free" => ft[p] = fd_array_init /\ pw[p] = NULL
         /\ st[p] \in {"thread", "user", "reading"} => pw[p] # NULL
         /\ st[p] \in {"thread", "user"} => Plain(ft[p])
         /\ st[p] = "reading" => HeldOnce(ft[p])

FilesInv ==
    /\ NamesKept /\ NothingUnsaved /\ panic \in BOOLEAN
    /\ ~panic => Whole(fs, filesp, pwd) /\ StatesOK(filesp, pwd, life)

\* What Whole says of the names.
LEMMA WholeNames ==
    ASSUME NEW c, NEW ft, NEW pw, Whole(c, ft, pw)
    PROVE  /\ \A p \in All, fd \in Fd : FdGood(ft[p][fd], c)
           /\ \A p \in All : pw[p] # NULL => c.node[pw[p]].ino \in Dir
           /\ Saved(c)
BY GoodSaved DEF Whole

\* The names and the unsaved changes in terms of the state after a step.
LEMMA NamesAfter ==
    ASSUME \A p \in All, fd \in Fd : FdGood(filesp'[p][fd], fs'),
           \A p \in All : pwd'[p] # NULL => fs'.node[pwd'[p]].ino \in Dir,
           Saved(fs')
    PROVE  NamesKept' /\ NothingUnsaved'
<1>1. NothingUnsaved'
  BY DEF NothingUnsaved, Saved
<1>2. ASSUME NEW p \in All, NEW fd \in Fd, filesp'[p][fd].status = "FD_OPENED"
      PROVE  fs'.node[filesp'[p][fd].node].ino = filesp'[p][fd].ino
  BY <1>2 DEF FdGood
<1>3. \A d \in All \X Fd : d[1] \in All /\ d[2] \in Fd
  OBVIOUS
<1>4. QED
  BY <1>1, <1>2, <1>3 DEF NamesKept, Descriptor, Opened

\* A step after which everything fits together again.
LEMMA InvAfter ==
    ASSUME Whole(fs', filesp', pwd'), StatesOK(filesp', pwd', life'), panic' \in BOOLEAN
    PROVE  FilesInv'
<1>1. /\ \A p \in All, fd \in Fd : FdGood(filesp'[p][fd], fs')
      /\ \A p \in All : pwd'[p] # NULL => fs'.node[pwd'[p]].ino \in Dir
      /\ Saved(fs')
  <2>1. PICK c, ft, pw : c = fs' /\ ft = filesp' /\ pw = pwd'
    OBVIOUS
  <2>2. Whole(c, ft, pw)
    BY <2>1
  <2>3. /\ \A p \in All, fd \in Fd : FdGood(ft[p][fd], c)
        /\ \A p \in All : pw[p] # NULL => c.node[pw[p]].ino \in Dir
        /\ Saved(c)
    BY <2>2, WholeNames
  <2>4. QED
    BY <2>1, <2>3
<1>2. NamesKept' /\ NothingUnsaved'
  BY <1>1, NamesAfter
<1>3. QED
  BY <1>2 DEF FilesInv

\* A step that stops the kernel, with every name still in place.
LEMMA PanicAfter ==
    ASSUME Whole(fs, filesp, pwd), panic' = TRUE, filesp' = filesp, pwd' = pwd,
           Same(fs, fs', RefsOf(filesp, pwd)), Saved(fs')
    PROVE  FilesInv'
<1>1. PICK c, d, ft, pw : c = fs /\ d = fs' /\ ft = filesp /\ pw = pwd
  OBVIOUS
<1>2. Whole(c, ft, pw) /\ Same(c, d, RefsOf(ft, pw))
  BY <1>1
<1>3. /\ \A p \in All, fd \in Fd : FdGood(ft[p][fd], d)
      /\ \A p \in All : pw[p] # NULL => d.node[pw[p]].ino \in Dir
  BY <1>2, NamesStay
<1>4. NamesKept' /\ NothingUnsaved'
  BY <1>1, <1>3, NamesAfter
<1>5. QED
  BY <1>4 DEF FilesInv

\* What the invariant says when a process calls.
LEMMA CallerFacts ==
    ASSUME FilesInv, NEW p \in User, ~panic
    PROVE  /\ Whole(fs, filesp, pwd) /\ StatesOK(filesp, pwd, life) /\ p \in All
           /\ filesp \in [All -> [Fd -> FdRec]] /\ pwd \in [All -> Slot \cup {NULL}]
           /\ life[p] \in {"thread", "user"} => Plain(filesp[p]) /\ pwd[p] # NULL
           /\ panic \in BOOLEAN /\ panic = FALSE
BY DEF FilesInv, StatesOK, Whole, All

\* Init: nothing is open, and initproc and user_main share the root.
LEMMA InitInv == FilesInit => FilesInv
<1>1. SUFFICES ASSUME FilesInit PROVE FilesInv
  OBVIOUS
<1>2. /\ RootNode \in Slot /\ Slot \subseteq Node /\ Dev \subseteq Node /\ NULL \notin Node
      /\ NULL \notin Dir /\ RootNode \notin Dev /\ SFS_BLKN_ROOT \in Dir
      /\ user_main \in All /\ initproc \in All /\ user_main # initproc
  BY FilesAssumption DEF RootNode, Node, All
<1>3. PICK c, ft, pw : c = fs /\ ft = filesp /\ pw = pwd
  OBVIOUS
<1>4. PICK root \in Slot : root = RootNode
  BY <1>2
<1>5. ft = [p \in All |-> fd_array_init] /\ fd_array_init \in [Fd -> FdRec]
  BY <1>1, <1>3, FreeFd DEF FilesInit, fd_array_init
<1>6. /\ \A p \in All, fd \in Fd : ft[p][fd] = FD_NONE
      /\ ft \in [All -> [Fd -> FdRec]] /\ \A p \in All : ft[p] = fd_array_init
  BY <1>5 DEF fd_array_init
<1>7. /\ pw = [p \in All |-> IF p \in {initproc, user_main} THEN root ELSE NULL]
      /\ pw \in [All -> Slot \cup {NULL}]
  BY <1>1, <1>3, <1>4 DEF FilesInit
<1>8. \A n : Names(ft, n) = {} /\ Cardinality(Names(ft, n)) = 0
  <2>1. \A n : Names(ft, n) = {}
    BY <1>6, FreeFd DEF Names
  <2>2. QED
    BY <2>1, FS_EmptySet
<1>9. Cardinality(Cwds(pw, root)) = 2 /\ \A n \in Node : n # root => Cardinality(Cwds(pw, n)) = 0
  <2>1. Cwds(pw, root) = {initproc, user_main}
    BY <1>2, <1>4, <1>7 DEF Cwds
  <2>2. Cardinality({initproc, user_main}) = 2
    <3>1. Cardinality({initproc}) = 1 /\ IsFiniteSet({initproc})
      BY FS_Singleton
    <3>2. {initproc, user_main} = {initproc} \cup {user_main} /\ user_main \notin {initproc}
      BY <1>2
    <3>3. Cardinality({initproc} \cup {user_main}) = Cardinality({initproc}) + 1
      BY <3>1, <3>2, FS_AddElement
    <3>4. QED
      BY <3>1, <3>2, <3>3
  <2>3. ASSUME NEW n \in Node, n # root PROVE Cwds(pw, n) = {}
    BY <1>2, <1>4, <1>7, <2>3 DEF Cwds
  <2>4. QED
    BY <2>1, <2>2, <2>3, FS_EmptySet
<1>10. /\ RefsOf(ft, pw) = [n \in Node |-> IF n = root THEN 2 ELSE 0]
       /\ OpenOf(ft) = [n \in Node |-> 0]
  BY <1>8, <1>9 DEF RefsOf, OpenOf
<1>11. /\ c.list = {root} /\ c.bootfs = root
       /\ c.node = [n \in Node |->
            IF n \in Dev THEN [Freed EXCEPT !.ino = n, !.ref_count = 1]
            ELSE IF n = root
              THEN [Freed EXCEPT !.ino = SFS_BLKN_ROOT, !.ref_count = 3, !.reclaim_count = 1]
            ELSE Freed]
       /\ c = [node |-> c.node, list |-> c.list, bootfs |-> c.bootfs]
  BY <1>1, <1>3, <1>4 DEF FilesInit
<1>12. Freed \in NodeRec /\ Freed.ino = NULL /\ ~Freed.dirty
  BY DEF Freed, NodeRec, Ino
<1>13. ASSUME NEW n \in Dev
       PROVE  /\ c.node[n] \in NodeRec /\ c.node[n].ino = n /\ c.node[n].ref_count = 1
              /\ c.node[n].open_count = 0 /\ c.node[n].lost = 0 /\ ~c.node[n].dirty
  <2>1. PICK i : i = [Freed EXCEPT !.ino = n, !.ref_count = 1]
    OBVIOUS
  <2>2. i = [ino |-> n, ref_count |-> 1, open_count |-> 0, reclaim_count |-> 0,
             dirty |-> FALSE, lost |-> 0]
    BY ONLY <2>1 DEF Freed
  <2>3. c.node[n] = i
    BY <1>2, <1>11, <2>1
  <2>4. QED
    BY <2>2, <2>3 DEF NodeRec, Ino
<1>14. /\ c.node[root] \in NodeRec /\ c.node[root].ino = SFS_BLKN_ROOT
       /\ c.node[root].ref_count = 3 /\ c.node[root].reclaim_count = 1
       /\ c.node[root].open_count = 0 /\ c.node[root].lost = 0 /\ ~c.node[root].dirty
  <2>1. PICK i : i = [Freed EXCEPT !.ino = SFS_BLKN_ROOT, !.ref_count = 3, !.reclaim_count = 1]
    OBVIOUS
  <2>2. i = [ino |-> SFS_BLKN_ROOT, ref_count |-> 3, open_count |-> 0, reclaim_count |-> 1,
             dirty |-> FALSE, lost |-> 0]
    BY ONLY <2>1 DEF Freed
  <2>3. c.node[root] = i
    BY <1>2, <1>4, <1>11, <2>1
  <2>4. QED
    BY <1>2, <2>2, <2>3 DEF NodeRec, Ino
<1>15. \A n \in Node : n \notin Dev /\ n # root => c.node[n] = Freed
  BY <1>11
<1>16. c.list = {root} /\ c.bootfs = root
  BY <1>11
<1>17. c \in FsType
  <2>1. \A n \in Node : c.node[n] \in NodeRec
    BY <1>12, <1>13, <1>14, <1>15
  <2>2. PICK f : f = c.node
    OBVIOUS
  <2>3. f \in [Node -> NodeRec]
    BY <1>11, <2>1, <2>2
  <2>4. c = [node |-> f, list |-> {root}, bootfs |-> root]
    BY <1>11, <2>2
  <2>5. QED
    BY <2>3, <2>4 DEF FsType
<1>18. ASSUME NEW n \in Node
       PROVE  NodeGood(c.node[n], Base(c, n), n, RefsOf(ft, pw)[n], OpenOf(ft)[n])
  <2>1. CASE n \in Dev
    BY <1>2, <1>4, <1>10, <1>13, <2>1, FilesAssumption DEF NodeGood, Base
  <2>2. CASE n = root
    <3>1. Base(c, n) = 1 /\ n \notin Dev /\ n \in Slot
      BY <1>2, <1>4, <1>16, <2>2 DEF Base
    <3>2. RefsOf(ft, pw)[n] = 2 /\ OpenOf(ft)[n] = 0
      BY <1>10, <2>2
    <3>3. SFS_BLKN_ROOT # NULL
      BY <1>2
    <3>4. QED
      BY <1>14, <2>2, <3>1, <3>2, <3>3 DEF NodeGood
  <2>3. CASE n \notin Dev /\ n # root
    BY <1>10, <1>12, <1>15, <2>3 DEF NodeGood
  <2>4. QED
    BY <2>1, <2>2, <2>3
<1>19. ListGood(c)
  <2>1. \A n \in Slot : n # root => c.node[n].ino = NULL
    BY <1>2, <1>12, <1>15, FilesAssumption
  <2>2. c.node[root].ino # NULL /\ c.node[root].ino \in Dir
    BY <1>2, <1>14
  <2>3. QED
    BY ONLY <1>16, <2>1, <2>2, root \in Slot DEF ListGood
<1>20. Good(c, RefsOf(ft, pw), OpenOf(ft))
  BY <1>17, <1>18, <1>19, OwedFinite DEF Good
<1>21. Whole(c, ft, pw)
  <2>1. \A p \in All, fd \in Fd : FdGood(ft[p][fd], c)
    BY <1>6, FreeFd
  <2>2. \A p \in All : pw[p] # NULL => c.node[pw[p]].ino \in Dir
    BY <1>2, <1>7, <1>14
  <2>3. QED
    BY <1>6, <1>7, <1>20, <2>1, <2>2 DEF Whole
<1>22. StatesOK(ft, pw, life)
  <2>1. life = [p \in User |-> IF p = user_main THEN "thread" ELSE "free"]
    BY <1>1 DEF FilesInit
  <2>2. Plain(fd_array_init)
    BY FreeFd DEF Plain, fd_array_init
  <2>3. \A p \in User : p \in All /\ p # initproc
    BY FilesAssumption DEF All
  <2>4. root # NULL
    BY <1>2, <1>4
  <2>5. life \in [User -> {"free", "thread", "user", "reading", "lost"}]
    BY <2>1
  <2>6. ASSUME NEW p \in User
        PROVE  /\ life[p] = "free" => ft[p] = fd_array_init /\ pw[p] = NULL
               /\ life[p] # "free" => life[p] = "thread" /\ pw[p] # NULL /\ Plain(ft[p])
    <3>1. CASE p = user_main
      BY <1>6, <1>7, <2>1, <2>2, <2>3, <2>4, <3>1
    <3>2. CASE p # user_main
      BY <1>6, <1>7, <2>1, <2>3, <3>2
    <3>3. QED
      BY <3>1, <3>2
  <2>7. QED
    BY <2>5, <2>6 DEF StatesOK
<1>23. /\ \A p \in All, fd \in Fd : FdGood(ft[p][fd], c)
       /\ \A p \in All : pw[p] # NULL => c.node[pw[p]].ino \in Dir
       /\ Saved(c)
  BY <1>21, WholeNames
<1>24. NamesKept /\ NothingUnsaved
  <2>1. \A p \in All, fd \in Fd : filesp[p][fd].status # "FD_OPENED"
    BY <1>3, <1>6, FreeFd
  <2>2. \A d \in All \X Fd : d[1] \in All /\ d[2] \in Fd
    OBVIOUS
  <2>3. NothingUnsaved
    BY <1>3, <1>23 DEF NothingUnsaved, Saved
  <2>4. NamesKept
    BY <1>3, <1>23, <2>1, <2>2 DEF NamesKept, Descriptor, Opened
  <2>5. QED
    BY <2>3, <2>4
<1>25. QED
  BY <1>1, <1>3, <1>21, <1>22, <1>24 DEF FilesInv, FilesInit

-----------------------------------------------------------------------------
(***************************************************************************)
(* Every step preserves it: one lemma for each call.                       *)
(***************************************************************************)
\* What the state of one process says.
StateOK(tab, dir, s) ==
    /\ s \in {"free", "thread", "user", "reading", "lost"}
    /\ s = "free" => tab = fd_array_init /\ dir = NULL
    /\ s \in {"thread", "user", "reading"} => dir # NULL
    /\ s \in {"thread", "user"} => Plain(tab)
    /\ s = "reading" => HeldOnce(tab)

\* A step of p that leaves the other processes alone.
LEMMA OneProcess ==
    ASSUME NEW ft, NEW pw, NEW st, StatesOK(ft, pw, st), NEW p \in User, NEW ft2, NEW pw2, NEW st2,
           \A q \in User : q # p => ft2[q] = ft[q] /\ pw2[q] = pw[q] /\ st2[q] = st[q],
           DOMAIN st2 = User, st2 = [q \in User |-> st2[q]], StateOK(ft2[p], pw2[p], st2[p])
    PROVE  StatesOK(ft2, pw2, st2)
<1>1. \A q \in User : StateOK(ft[q], pw[q], st[q])
  BY DEF StatesOK, StateOK
<1>2. \A q \in User : StateOK(ft2[q], pw2[q], st2[q])
  BY <1>1
<1>3. QED
  BY <1>2 DEF StatesOK, StateOK

\* A call of p that changes its table, and of the state nothing else.
LEMMA TableStep ==
    ASSUME FilesInv, NEW p \in User, Calls(p), NEW c, NEW tab, Whole(c, Tables(filesp, p, tab), pwd),
           Plain(tab), tab \in [Fd -> FdRec],
           fs' = c, filesp' = [filesp EXCEPT ![p] = tab], UNCHANGED <<pwd, life>>,
           panic' = FALSE
    PROVE  FilesInv'
<1>1. /\ ~panic /\ life[p] = "user" /\ StatesOK(filesp, pwd, life)
      /\ filesp \in [All -> [Fd -> FdRec]] /\ p \in All /\ pwd[p] # NULL
      /\ \A q \in User : q \in All
  BY CallerFacts DEF Calls, All
<1>2. Whole(fs', filesp', pwd')
  BY DEF Tables
<1>3. StatesOK(filesp', pwd', life')
  <2>1. PICK ft, pw, st : ft = filesp /\ pw = pwd /\ st = life
    OBVIOUS
  <2>2. PICK ft2 : ft2 = [ft EXCEPT ![p] = tab]
    OBVIOUS
  <2>3. ft2[p] = tab /\ \A q \in User : q # p => ft2[q] = ft[q]
    BY <1>1, <2>1, <2>2
  <2>4. st \in [User -> {"free", "thread", "user", "reading", "lost"}]
    BY <1>1, <2>1 DEF StatesOK
  <2>5. StateOK(ft2[p], pw[p], st[p])
    BY <1>1, <2>1, <2>3 DEF StateOK
  <2>6. StatesOK(ft, pw, st)
    BY <1>1, <2>1
  <2>7. DOMAIN st = User /\ st = [q \in User |-> st[q]]
    BY <2>4
  <2>8. StatesOK(ft2, pw, st)
    BY ONLY <2>3, <2>5, <2>6, <2>7, p \in User, OneProcess
  <2>9. filesp' = ft2 /\ pwd' = pw /\ life' = st
    BY <2>1, <2>2
  <2>10. QED
    BY <2>8, <2>9
<1>4. QED
  BY <1>2, <1>3, InvAfter

\* A call that changes inodes only.
LEMMA InodeStep ==
    ASSUME FilesInv, NEW p \in User, Calls(p), NEW c, Whole(c, filesp, pwd),
           fs' = c, UNCHANGED <<filesp, pwd, life, panic>>
    PROVE  FilesInv'
<1>1. ~panic /\ panic \in BOOLEAN /\ StatesOK(filesp, pwd, life)
  BY CallerFacts DEF Calls
<1>2. Whole(fs', filesp', pwd') /\ StatesOK(filesp', pwd', life') /\ panic' \in BOOLEAN
  BY <1>1
<1>3. QED
  BY <1>2, InvAfter

\* sys_open.
LEMMA OpenStep ==
    ASSUME FilesInv, NEW p \in User, NEW path \in Path, NEW fl \in Flags, sys_open(p, path, fl)
    PROVE  FilesInv'
<1>1. /\ Calls(p) /\ Whole(fs, filesp, pwd) /\ p \in All /\ pwd[p] # NULL /\ Plain(filesp[p])
      /\ filesp \in [All -> [Fd -> FdRec]]
  BY CallerFacts DEF sys_open, Calls
<1>2. PICK oom, cut, r :
        /\ r = file_open([fs |-> fs, tab |-> filesp[p]], p, path, fl, oom, cut)
        /\ fs' = r.fs /\ filesp' = [filesp EXCEPT ![p] = r.tab] /\ panic' = (r.ret = "panic")
        /\ UNCHANGED <<pwd, life>>
  <2>1. PICK oom \in {path.name # NULL, FALSE}, cut \in {fl.trunc \/ fl.creat, FALSE} :
          \E r \in {file_open([fs |-> fs, tab |-> filesp[p]], p, path, fl, oom, cut)} :
            fs' = r.fs /\ filesp' = [filesp EXCEPT ![p] = r.tab] /\ panic' = (r.ret = "panic")
    BY ZenonT(60) DEF sys_open
  <2>2. UNCHANGED <<pwd, life>>
    BY DEF sys_open
  <2>3. PICK q : q = file_open([fs |-> fs, tab |-> filesp[p]], p, path, fl, oom, cut)
    OBVIOUS
  <2>4. fs' = q.fs /\ filesp' = [filesp EXCEPT ![p] = q.tab] /\ panic' = (q.ret = "panic")
    BY ONLY <2>1, <2>3
  <2>5. \E a, b, e : e = file_open([fs |-> fs, tab |-> filesp[p]], p, path, fl, a, b) /\ e = q
    BY ONLY <2>3, Zenon
  <2>6. QED
    BY ONLY <2>2, <2>4, <2>5
<1>3. PICK c, ft : c = fs /\ ft = filesp
  OBVIOUS
<1>4. FileOpened(c, ft, pwd, p, r)
  <2>1. Whole(c, ft, pwd) /\ r = file_open([fs |-> c, tab |-> ft[p]], p, path, fl, oom, cut)
    BY <1>1, <1>2, <1>3
  <2>2. QED
    BY <1>1, <2>1, FileOpenGood
<1>5. CASE r.ret = "0"
  <2>1. /\ Whole(r.fs, Tables(filesp, p, r.tab), pwd) /\ r.tab \in [Fd -> FdRec] /\ Plain(r.tab)
    BY <1>1, <1>3, <1>4, <1>5 DEF FileOpened
  <2>2. panic' = FALSE
    BY <1>2, <1>5
  <2>3. PICK d, tab : d = r.fs /\ tab = r.tab
    OBVIOUS
  <2>4. QED
    BY <1>1, <1>2, <2>1, <2>2, <2>3, TableStep
<1>6. CASE r.ret # "0"
  <2>1. filesp' = filesp
    <3>1. r.tab = filesp[p]
      BY <1>3, <1>4, <1>6 DEF FileOpened
    <3>2. QED
      BY <1>1, <1>2, <3>1
  <2>2. CASE r.ret = "panic"
    <3>1. Same(fs, fs', RefsOf(filesp, pwd)) /\ Saved(fs')
      BY <1>2, <1>3, <1>4 DEF FileOpened
    <3>2. panic' = TRUE
      BY <1>2, <2>2
    <3>3. QED
      BY <1>1, <1>2, <2>1, <3>1, <3>2, PanicAfter
  <2>3. CASE r.ret # "panic"
    <3>1. Whole(r.fs, filesp, pwd)
      BY <1>3, <1>4, <1>6, <2>3 DEF FileOpened
    <3>2. panic' = FALSE /\ panic = FALSE
      BY <1>1, <1>2, <2>3, CallerFacts DEF Calls
    <3>3. PICK d : d = r.fs
      OBVIOUS
    <3>4. QED
      BY <1>1, <1>2, <2>1, <3>1, <3>2, <3>3, InodeStep
  <2>4. QED
    BY <2>2, <2>3
<1>7. QED
  BY <1>5, <1>6

\* sys_close.
LEMMA CloseStep ==
    ASSUME FilesInv, NEW p \in User, NEW fd \in Fd, sys_close(p, fd)
    PROVE  FilesInv'
<1>1. /\ Calls(p) /\ Whole(fs, filesp, pwd) /\ p \in All /\ pwd[p] # NULL /\ Plain(filesp[p])
      /\ filesp \in [All -> [Fd -> FdRec]] /\ panic = FALSE
  BY CallerFacts DEF sys_close, Calls
<1>2. PICK c, ft, pw, tab : c = fs /\ ft = filesp /\ pw = pwd /\ tab = filesp[p]
  OBVIOUS
<1>3. PICK d : d = fd_array_close([fs |-> c, tab |-> tab], fd)
  OBVIOUS
<1>4. fs' = d.fs /\ filesp' = [filesp EXCEPT ![p] = d.tab] /\ UNCHANGED <<pwd, life, panic>>
  BY <1>2, <1>3 DEF sys_close
<1>5. FdClosed(ft, pw, p, fd, d)
  <2>1. /\ Whole(c, ft, pw) /\ tab = ft[p] /\ tab[fd].status = "FD_OPENED"
        /\ tab[fd].open_count <= 1
    BY <1>1, <1>2 DEF Plain, sys_close, Opened
  <2>2. QED
    BY <1>1, <1>3, <2>1, FdCloseGood
<1>6. PICK e, tab2 : e = d.fs /\ tab2 = d.tab
  OBVIOUS
<1>7. /\ Whole(e, Tables(filesp, p, tab2), pwd) /\ tab2 = [tab EXCEPT ![fd] = FD_NONE]
  BY <1>2, <1>5, <1>6 DEF FdClosed
<1>8. tab2 \in [Fd -> FdRec] /\ Plain(tab2)
  <2>1. tab \in [Fd -> FdRec] /\ Plain(tab)
    BY <1>1, <1>2
  <2>2. QED
    BY ONLY <1>7, <2>1, FreeFd, fd \in Fd DEF Plain
<1>9. QED
  BY <1>1, <1>4, <1>6, <1>7, <1>8, TableStep

\* MissingOp: the assertion fails before anything has changed.
LEMMA MissingOpStep ==
    ASSUME FilesInv, NEW p \in User, NEW fd \in Fd, MissingOp(p, fd)
    PROVE  FilesInv'
<1>1. Whole(fs, filesp, pwd)
  BY CallerFacts DEF MissingOp, Calls
<1>2. panic' = TRUE /\ fs' = fs /\ filesp' = filesp /\ pwd' = pwd
  BY DEF MissingOp
<1>3. Saved(fs') /\ Same(fs, fs', RefsOf(filesp, pwd))
  <2>1. Saved(fs)
    BY <1>1, WholeNames
  <2>2. QED
    BY <1>2, <2>1 DEF Same
<1>4. QED
  BY <1>1, <1>2, <1>3, PanicAfter

\* The inode of an open descriptor is open.
LEMMA OpenedFacts ==
    ASSUME NEW c, NEW ft, NEW pw, Whole(c, ft, pw), NEW p \in All, NEW fd \in Fd,
           ft[p][fd].status = "FD_OPENED"
    PROVE  /\ ft[p][fd] \in FdRec /\ ft[p][fd].node \in Node
           /\ c.node[ft[p][fd].node].ino = ft[p][fd].ino
           /\ OpenOf(ft)[ft[p][fd].node] > 0 /\ c.node[ft[p][fd].node].ino # NULL
           /\ Good(c, RefsOf(ft, pw), OpenOf(ft))
<1>1. /\ ft[p][fd] \in FdRec /\ ft[p][fd].node \in Node
      /\ c.node[ft[p][fd].node].ino = ft[p][fd].ino /\ Good(c, RefsOf(ft, pw), OpenOf(ft))
  BY DEF Whole, FdGood
<1>2. PICK n \in Node : n = ft[p][fd].node
  BY <1>1
<1>3. <<p, fd>> \in Names(ft, n)
  BY <1>2 DEF Names
<1>4. OpenOf(ft)[n] > 0
  <2>1. Cardinality(Names(ft, n)) \in Nat /\ Cardinality(Names(ft, n)) # 0
    BY <1>3, OwedFinite, FS_EmptySet
  <2>2. QED
    BY <2>1 DEF OpenOf
<1>5. c.node[n].ino # NULL
  <2>1. NodeGood(c.node[n], Base(c, n), n, RefsOf(ft, pw)[n], OpenOf(ft)[n])
    BY <1>1, GoodFacts
  <2>2. RefsOf(ft, pw)[n] # 0
    BY <1>4, OwedFinite DEF OpenOf, RefsOf
  <2>3. QED
    BY <2>1, <2>2 DEF NodeGood
<1>6. QED
  BY <1>1, <1>2, <1>4, <1>5

\* Modify.
LEMMA ModifyStep ==
    ASSUME FilesInv, NEW p \in User, NEW fd \in Fd, Modify(p, fd)
    PROVE  FilesInv'
<1>1. Calls(p) /\ Whole(fs, filesp, pwd) /\ p \in All
  BY CallerFacts DEF Modify, Calls
<1>2. PICK c, ft, pw : c = fs /\ ft = filesp /\ pw = pwd
  OBVIOUS
<1>3. Whole(c, ft, pw) /\ ft[p][fd].status = "FD_OPENED"
  BY <1>1, <1>2 DEF Modify, Opened
<1>4. PICK n \in Node : n = ft[p][fd].node /\ OpenOf(ft)[n] > 0
  BY <1>1, <1>3, OpenedFacts
<1>5. n \in Slot
  BY <1>2, <1>4 DEF Modify, TypeOf, Node
<1>6. PICK d : d = [c EXCEPT !.node[n].dirty = TRUE]
  OBVIOUS
<1>7. Good(d, RefsOf(ft, pw), OpenOf(ft)) /\ \A m \in Node : d.node[m].ino = c.node[m].ino
  <2>1. PICK b \in BOOLEAN : b = TRUE
    OBVIOUS
  <2>2. PICK R, O : R = RefsOf(ft, pw) /\ O = OpenOf(ft)
    OBVIOUS
  <2>3. Good(c, R, O) /\ O[n] > 0 /\ d = [c EXCEPT !.node[n].dirty = b]
    BY <1>3, <1>4, <1>6, <2>1, <2>2 DEF Whole
  <2>4. Good(d, R, O) /\ \A m \in Node : d.node[m].ino = c.node[m].ino
    BY ONLY <1>5, <2>3, n \in Node, b \in BOOLEAN, DirtyGood
  <2>5. QED
    BY <2>2, <2>4
<1>8. Same(c, d, RefsOf(ft, pw))
  BY <1>7 DEF Same
<1>9. Whole(d, ft, pw)
  BY <1>3, <1>7, <1>8, WholeAgain DEF Whole
<1>10. fs' = d /\ UNCHANGED <<filesp, pwd, life, panic>>
  BY <1>2, <1>4, <1>6 DEF Modify
<1>11. QED
  BY <1>1, <1>2, <1>9, <1>10, InodeStep

\* sys_fsync.
LEMMA FsyncStep ==
    ASSUME FilesInv, NEW p \in User, NEW fd \in Fd, sys_fsync(p, fd)
    PROVE  FilesInv'
<1>1. Calls(p) /\ Whole(fs, filesp, pwd) /\ p \in All
  BY CallerFacts DEF sys_fsync, Calls
<1>2. PICK c, ft, pw : c = fs /\ ft = filesp /\ pw = pwd
  OBVIOUS
<1>3. Whole(c, ft, pw) /\ ft[p][fd].status = "FD_OPENED"
  BY <1>1, <1>2 DEF sys_fsync, Opened
<1>4. PICK n \in Node : n = ft[p][fd].node
  BY <1>1, <1>3, OpenedFacts
<1>5. PICK d : d = sfs_fsync(c, n)
  OBVIOUS
<1>6. Good(d, RefsOf(ft, pw), OpenOf(ft)) /\ \A m \in Node : d.node[m].ino = c.node[m].ino
  BY <1>3, <1>5, SyncGood DEF Whole
<1>7. Same(c, d, RefsOf(ft, pw))
  BY <1>6 DEF Same
<1>8. Whole(d, ft, pw)
  BY <1>3, <1>6, <1>7, WholeAgain DEF Whole
<1>9. fs' = d /\ UNCHANGED <<filesp, pwd, life, panic>>
  BY <1>2, <1>4, <1>5 DEF sys_fsync
<1>10. QED
  BY <1>1, <1>2, <1>8, <1>9, InodeStep

\* sys_getcwd.
LEMMA GetcwdStep ==
    ASSUME FilesInv, NEW p \in User, sys_getcwd(p)
    PROVE  FilesInv'
<1>1. Calls(p) /\ Whole(fs, filesp, pwd) /\ p \in All /\ pwd[p] # NULL
  BY CallerFacts DEF sys_getcwd, Calls
<1>2. PICK c, ft, pw, dir : c = fs /\ ft = filesp /\ pw = pwd /\ dir = pwd[p]
  OBVIOUS
<1>3. Whole(c, ft, pw) /\ dir \in Slot /\ c.node[dir].ino \in Dir
  BY <1>1, <1>2 DEF Whole
<1>4. PICK ooms : fs' = inode_ref_dec(sfs_namefile(inode_ref_inc(c, dir), dir, ooms), dir)
  BY <1>2 DEF sys_getcwd
<1>5. PICK d : d = inode_ref_dec(sfs_namefile(inode_ref_inc(c, dir), dir, ooms), dir)
  OBVIOUS
<1>6. PICK R, O : R = RefsOf(ft, pw) /\ O = OpenOf(ft)
  OBVIOUS
<1>7. Good(c, R, O)
  BY <1>3, <1>6 DEF Whole
<1>8. Good(d, R, O) /\ Same(c, d, R)
  BY <1>3, <1>5, <1>7, GetcwdGood
<1>9. Whole(d, ft, pw)
  BY <1>3, <1>6, <1>8, WholeAgain DEF Whole
<1>10. fs' = d /\ UNCHANGED <<filesp, pwd, life, panic>>
  BY <1>4, <1>5 DEF sys_getcwd
<1>11. QED
  BY <1>1, <1>2, <1>9, <1>10, InodeStep

\* sys_dup.
LEMMA DupStep ==
    ASSUME FilesInv, NEW p \in User, NEW fd1 \in Fd, NEW fd2 \in Fd \cup {NO_FD},
           sys_dup(p, fd1, fd2)
    PROVE  FilesInv'
<1>1. /\ Calls(p) /\ Whole(fs, filesp, pwd) /\ p \in All /\ pwd[p] # NULL /\ Plain(filesp[p])
      /\ filesp \in [All -> [Fd -> FdRec]] /\ panic = FALSE
  BY CallerFacts DEF sys_dup, Calls
<1>2. PICK c, ft, pw, tab : c = fs /\ ft = filesp /\ pw = pwd /\ tab = filesp[p]
  OBVIOUS
<1>3. PICK f, to : f = tab[fd1] /\ to = fd_array_alloc(tab, fd2)
  OBVIOUS
<1>4. Whole(c, ft, pw) /\ tab = ft[p] /\ ft[p][fd1].status = "FD_OPENED" /\ to # NULL
  BY <1>1, <1>2, <1>3 DEF sys_dup, Opened
<1>5. PICK n \in Node : /\ n = f.node /\ f.ino = c.node[n].ino /\ c.node[n].ino # NULL
  BY <1>1, <1>3, <1>4, OpenedFacts
<1>6. to \in Fd /\ ft[p][to].status = "FD_NONE"
  BY <1>3, <1>4, AllocGood
<1>7. PICK R, O : R = RefsOf(ft, pw) /\ O = OpenOf(ft)
  OBVIOUS
<1>8. PICK d, ino : d = fd_array_dup(c, f) /\ ino = f.ino
  OBVIOUS
<1>9. Good(d, Add(R, n, 1), Add(O, n, 1)) /\ \A m \in Node : d.node[m].ino = c.node[m].ino
  <2>1. Good(c, R, O)
    BY <1>4, <1>7 DEF Whole
  <2>2. QED
    BY <1>5, <1>8, <2>1, FdDupGood
<1>10. PICK tab2 : tab2 = fd_array_open(tab, to, n, ino)
  OBVIOUS
<1>11. Whole(d, Tables(ft, p, tab2), pw)
  <2>1. Same(c, d, RefsOf(ft, pw)) /\ ino = d.node[n].ino
    BY <1>5, <1>8, <1>9 DEF Same
  <2>2. Good(d, Add(RefsOf(ft, pw), n, 1), Add(OpenOf(ft), n, 1))
    BY <1>7, <1>9
  <2>3. Whole(d, Tables(ft, p, fd_array_open(ft[p], to, n, ino)), pw)
    BY <1>1, <1>4, <1>6, <2>1, <2>2, FdOpenGood
  <2>4. QED
    BY <1>4, <1>10, <2>3
<1>12. tab2 \in [Fd -> FdRec] /\ Plain(tab2)
  <2>1. PICK g : g = [status |-> "FD_OPENED", open_count |-> 1, node |-> n, ino |-> ino]
    OBVIOUS
  <2>2. g \in FdRec /\ g.open_count = 1
    <3>1. ino \in Ino
      BY <1>5, <1>8, <1>9 DEF Good, FsType, NodeRec
    <3>2. QED
      BY <2>1, <3>1 DEF FdRec
  <2>3. tab2 = [tab EXCEPT ![to] = g]
    BY <1>10, <2>1 DEF fd_array_open
  <2>4. tab \in [Fd -> FdRec] /\ Plain(tab)
    BY <1>1, <1>2
  <2>5. tab2 \in [Fd -> FdRec] /\ \A b \in Fd : tab2[b] = IF b = to THEN g ELSE tab[b]
    BY <2>2, <2>3, <2>4
  <2>6. QED
    BY <2>2, <2>4, <2>5 DEF Plain
<1>13. /\ fs' = d /\ filesp' = [filesp EXCEPT ![p] = tab2] /\ UNCHANGED <<pwd, life, panic>>
  <2>1. /\ fs' = fd_array_dup(fs, f) /\ UNCHANGED <<pwd, life, panic>>
        /\ filesp' = [filesp EXCEPT ![p] = fd_array_open(@, to, f.node, f.ino)]
    BY <1>2, <1>3 DEF sys_dup
  <2>2. filesp' = [filesp EXCEPT ![p] = fd_array_open(tab, to, n, ino)]
    BY <1>2, <1>5, <1>8, <2>1
  <2>3. QED
    BY <1>2, <1>8, <1>10, <2>1, <2>2
<1>14. Whole(d, Tables(filesp, p, tab2), pwd)
  BY <1>2, <1>11
<1>15. QED
  BY <1>1, <1>12, <1>13, <1>14, TableStep

\* fs_cleanup: the disk has everything, and the kernel stops.
LEMMA CleanupStep ==
    ASSUME FilesInv, fs_cleanup
    PROVE  FilesInv'
<1>1. Whole(fs, filesp, pwd) /\ panic' = TRUE /\ filesp' = filesp /\ pwd' = pwd
  BY DEF FilesInv, fs_cleanup
<1>2. PICK c : c = fs
  OBVIOUS
<1>3. c \in FsType
  BY <1>1, <1>2 DEF Whole, Good
<1>4. PICK f : f = [n \in Node |-> [c.node[n] EXCEPT !.dirty = FALSE]]
  OBVIOUS
<1>5. \A n \in Node : f[n].ino = c.node[n].ino /\ f[n].dirty = FALSE
  <2>1. SUFFICES ASSUME NEW n \in Node PROVE f[n].ino = c.node[n].ino /\ f[n].dirty = FALSE
    OBVIOUS
  <2>2. PICK i \in NodeRec : i = c.node[n]
    BY <1>3 DEF FsType
  <2>3. PICK j : j = [i EXCEPT !.dirty = FALSE]
    OBVIOUS
  <2>4. j.ino = i.ino /\ j.dirty = FALSE
    BY ONLY <2>3, i \in NodeRec DEF NodeRec
  <2>5. f[n] = j
    BY <1>4, <2>2, <2>3
  <2>6. QED
    BY <2>2, <2>4, <2>5
<1>6. fs'.node = f
  <2>1. fs' = [c EXCEPT !.node = f]
    BY <1>2, <1>4 DEF fs_cleanup
  <2>2. QED
    BY <1>3, <2>1 DEF FsType
<1>7. Saved(fs') /\ Same(fs, fs', RefsOf(filesp, pwd))
  BY <1>2, <1>5, <1>6 DEF Saved, Same
<1>8. QED
  BY <1>1, <1>7, PanicAfter

\* A step of p that leaves the tables, directories and states of the others.
LEMMA ProcessStep ==
    ASSUME FilesInv, ~panic, NEW p \in User, NEW c, NEW tab \in [Fd -> FdRec], NEW dir, NEW s,
           Whole(c, Tables(filesp, p, tab), [pwd EXCEPT ![p] = dir]), StateOK(tab, dir, s),
           fs' = c, filesp' = [filesp EXCEPT ![p] = tab], pwd' = [pwd EXCEPT ![p] = dir],
           life' = [life EXCEPT ![p] = s], panic' = FALSE
    PROVE  FilesInv'
<1>1. /\ StatesOK(filesp, pwd, life) /\ p \in All /\ filesp \in [All -> [Fd -> FdRec]]
      /\ pwd \in [All -> Slot \cup {NULL}] /\ \A q \in User : q \in All
  BY CallerFacts DEF All
<1>2. Whole(fs', filesp', pwd')
  BY DEF Tables
<1>3. StatesOK(filesp', pwd', life')
  <2>1. PICK ft, pw, st : ft = filesp /\ pw = pwd /\ st = life
    OBVIOUS
  <2>2. PICK ft2, pw2, st2 :
          ft2 = [ft EXCEPT ![p] = tab] /\ pw2 = [pw EXCEPT ![p] = dir] /\ st2 = [st EXCEPT ![p] = s]
    OBVIOUS
  <2>3. st \in [User -> {"free", "thread", "user", "reading", "lost"}]
    BY <1>1, <2>1 DEF StatesOK
  <2>4. /\ ft2[p] = tab /\ pw2[p] = dir /\ st2[p] = s
        /\ \A q \in User : q # p => ft2[q] = ft[q] /\ pw2[q] = pw[q] /\ st2[q] = st[q]
    BY <1>1, <2>1, <2>2, <2>3
  <2>5. DOMAIN st2 = User /\ st2 = [q \in User |-> st2[q]]
    BY <2>2, <2>3
  <2>6. StatesOK(ft, pw, st)
    BY <1>1, <2>1
  <2>7. StateOK(ft2[p], pw2[p], st2[p])
    BY <2>4
  <2>8. StatesOK(ft2, pw2, st2)
    BY ONLY <2>4, <2>5, <2>6, <2>7, p \in User, OneProcess
  <2>9. filesp' = ft2 /\ pwd' = pw2 /\ life' = st2
    BY <2>1, <2>2
  <2>10. QED
    BY <2>8, <2>9
<1>4. QED
  BY <1>2, <1>3, InvAfter

\* The table with the holders of one open descriptor counted anew.
Held(tab, fd, k) == [tab EXCEPT ![fd].open_count = k]

\* Who holds a descriptor has no part in what is owed.
LEMMA HeldGood ==
    ASSUME NEW c, NEW ft, NEW pw, Whole(c, ft, pw), NEW p \in All, NEW fd \in Fd,
           ft[p][fd].status = "FD_OPENED", NEW k \in Int, k > 0
    PROVE  /\ Whole(c, Tables(ft, p, Held(ft[p], fd, k)), pw)
           /\ Held(ft[p], fd, k) \in [Fd -> FdRec]
           /\ Held(ft[p], fd, k)[fd].open_count = k
           /\ \A b \in Fd : b # fd => Held(ft[p], fd, k)[b] = ft[p][b]
<1>1. /\ ft \in [All -> [Fd -> FdRec]] /\ pw \in [All -> Slot \cup {NULL}]
      /\ Good(c, RefsOf(ft, pw), OpenOf(ft)) /\ \A a \in All, b \in Fd : FdGood(ft[a][b], c)
      /\ \A a \in All : pw[a] # NULL => c.node[pw[a]].ino \in Dir
  BY DEF Whole
<1>2. PICK f \in FdRec : f = ft[p][fd]
  BY <1>1
<1>3. PICK g : g = [f EXCEPT !.open_count = k]
  OBVIOUS
<1>4. /\ g \in FdRec /\ g.open_count = k /\ g.status = f.status /\ g.node = f.node /\ g.ino = f.ino
  BY ONLY <1>3, f \in FdRec, k \in Int DEF FdRec
<1>5. PICK tab2 : tab2 = Held(ft[p], fd, k)
  OBVIOUS
<1>6. tab2 = [ft[p] EXCEPT ![fd] = g]
  BY <1>2, <1>3, <1>5 DEF Held
<1>7. tab2 \in [Fd -> FdRec] /\ tab2[fd] = g /\ \A b \in Fd : b # fd => tab2[b] = ft[p][b]
  BY <1>1, <1>4, <1>6
<1>8. PICK ft2 : ft2 = Tables(ft, p, tab2)
  OBVIOUS
<1>9. /\ ft2 \in [All -> [Fd -> FdRec]] /\ ft2[p] = tab2 /\ \A a \in All : a # p => ft2[a] = ft[a]
  BY <1>1, <1>7, <1>8, TablesFacts
<1>10. ASSUME NEW a \in All, NEW b \in Fd
       PROVE  /\ ft2[a][b].status = ft[a][b].status /\ ft2[a][b].node = ft[a][b].node
              /\ FdGood(ft2[a][b], c)
  <2>1. CASE a = p /\ b = fd
    <3>1. ft2[a][b] = g /\ ft[a][b] = f
      BY <1>2, <1>7, <1>9, <2>1
    <3>2. FdGood(f, c) /\ f.status = "FD_OPENED"
      BY <1>1, <1>2
    <3>3. FdGood(g, c)
      BY <1>4, <3>2 DEF FdGood
    <3>4. QED
      BY <1>4, <3>1, <3>3
  <2>2. CASE ~(a = p /\ b = fd)
    <3>1. ft2[a][b] = ft[a][b]
      BY <1>7, <1>9, <2>2
    <3>2. QED
      BY <1>1, <3>1
  <2>3. QED
    BY <2>1, <2>2
<1>11. OpenOf(ft2) = OpenOf(ft) /\ RefsOf(ft2, pw) = RefsOf(ft, pw)
  BY <1>10, SameOpened
<1>12. Whole(c, ft2, pw)
  BY <1>1, <1>9, <1>10, <1>11 DEF Whole
<1>13. QED
  BY <1>4, <1>5, <1>7, <1>8, <1>12

\* A read of the console holds its descriptor while it sleeps.
LEMMA ReadSleepsStep ==
    ASSUME FilesInv, NEW p \in User, NEW fd \in Fd, ReadSleeps(p, fd)
    PROVE  FilesInv'
<1>1. /\ Calls(p) /\ ~panic /\ Whole(fs, filesp, pwd) /\ p \in All /\ pwd[p] # NULL
      /\ Plain(filesp[p]) /\ filesp \in [All -> [Fd -> FdRec]] /\ panic = FALSE
      /\ pwd \in [All -> Slot \cup {NULL}]
  BY CallerFacts DEF ReadSleeps, Calls
<1>2. PICK c, ft, pw, tab : c = fs /\ ft = filesp /\ pw = pwd /\ tab = filesp[p]
  OBVIOUS
<1>3. /\ Whole(c, ft, pw) /\ tab = ft[p] /\ tab[fd].status = "FD_OPENED"
      /\ tab \in [Fd -> FdRec] /\ Plain(tab)
  BY <1>1, <1>2 DEF ReadSleeps, Opened
<1>4. tab[fd].open_count = 1
  <2>1. tab[fd].open_count > 0
    BY <1>1, <1>3 DEF Whole, FdGood
  <2>2. tab[fd].open_count <= 1 /\ tab[fd].open_count \in Int
    BY <1>3 DEF Plain, FdRec
  <2>3. QED
    BY <2>1, <2>2
<1>5. PICK k \in Int : k = 2
  OBVIOUS
<1>5a. PICK tab2 : tab2 = Held(tab, fd, k)
  OBVIOUS
<1>6. /\ Whole(c, Tables(ft, p, tab2), pw) /\ tab2 \in [Fd -> FdRec] /\ tab2[fd].open_count = 2
      /\ \A b \in Fd : b # fd => tab2[b] = tab[b]
  <2>1. k > 0 /\ ft[p][fd].status = "FD_OPENED"
    BY <1>3, <1>5, <1>5a
  <2>2. QED
    BY <1>1, <1>3, <1>5, <1>5a, <2>1, HeldGood
<1>7. filesp' = [filesp EXCEPT ![p] = tab2]
  <2>1. filesp' = [filesp EXCEPT ![p][fd].open_count = @ + 1]
    BY DEF ReadSleeps
  <2>2. PICK f \in FdRec : f = filesp[p][fd]
    BY <1>2, <1>3
  <2>3. PICK g : g = [f EXCEPT !.open_count = @ + 1]
    OBVIOUS
  <2>4. filesp' = [filesp EXCEPT ![p][fd] = g]
    BY ONLY <2>1, <2>2, <2>3
  <2>5. g = [f EXCEPT !.open_count = k]
    <3>1. f.open_count + 1 = k
      BY <1>2, <1>4, <1>5, <1>5a, <2>2
    <3>2. QED
      BY ONLY <2>3, <3>1
  <2>6. tab2 = [tab EXCEPT ![fd] = g]
    BY <1>2, <1>5, <1>5a, <2>2, <2>5 DEF Held
  <2>7. QED
    BY <1>2, <2>4, <2>6
<1>8. HeldOnce(tab2)
  BY <1>3, <1>6 DEF HeldOnce, Plain
<1>9. PICK dir : dir = pwd[p]
  OBVIOUS
<1>10. StateOK(tab2, dir, "reading")
  BY <1>1, <1>8, <1>9 DEF StateOK
<1>11. pwd = [pwd EXCEPT ![p] = dir]
  BY <1>1, <1>9
<1>12. fs' = c /\ pwd' = [pwd EXCEPT ![p] = dir] /\ panic' = FALSE
       /\ life' = [life EXCEPT ![p] = "reading"]
  BY <1>1, <1>2, <1>11 DEF ReadSleeps
<1>13. Whole(c, Tables(filesp, p, tab2), [pwd EXCEPT ![p] = dir])
  BY <1>2, <1>6, <1>11
<1>14. QED
  BY <1>1, <1>6, <1>7, <1>10, <1>12, <1>13, ProcessStep

\* The read returns and lets go of its descriptor.
LEMMA ReadReturnsStep ==
    ASSUME FilesInv, NEW p \in User, NEW fd \in Fd, ReadReturns(p, fd)
    PROVE  FilesInv'
<1>1. /\ ~panic /\ Whole(fs, filesp, pwd) /\ p \in All /\ life[p] = "reading"
      /\ filesp \in [All -> [Fd -> FdRec]] /\ panic = FALSE
      /\ pwd \in [All -> Slot \cup {NULL}] /\ StatesOK(filesp, pwd, life)
  BY CallerFacts DEF ReadReturns
<1>2. HeldOnce(filesp[p]) /\ pwd[p] # NULL
  BY <1>1 DEF StatesOK
<1>3. PICK c, ft, pw, tab : c = fs /\ ft = filesp /\ pw = pwd /\ tab = filesp[p]
  OBVIOUS
<1>4. /\ Whole(c, ft, pw) /\ tab = ft[p] /\ tab \in [Fd -> FdRec] /\ HeldOnce(tab)
      /\ tab[fd].open_count > 1
  BY <1>1, <1>2, <1>3 DEF ReadReturns
<1>5. tab[fd].status = "FD_OPENED"
  <2>1. FdGood(tab[fd], c)
    BY <1>1, <1>4 DEF Whole
  <2>2. tab[fd] # FD_NONE
    BY <1>4, FreeFd
  <2>3. QED
    BY <2>1, <2>2 DEF FdGood
<1>6. tab[fd].open_count = 2 /\ \A b \in Fd : b # fd => tab[b].open_count <= 1
  <2>1. \A b \in Fd : tab[b].open_count \in Int
    BY <1>4 DEF FdRec
  <2>2. PICK a \in Fd : tab[a].open_count = 2 /\ \A b \in Fd : b # a => tab[b].open_count <= 1
    BY <1>4 DEF HeldOnce
  <2>3. a = fd
    BY <1>4, <2>1, <2>2
  <2>4. QED
    BY <2>2, <2>3
<1>7. PICK k \in Int : k = 1
  OBVIOUS
<1>7a. PICK tab2 : tab2 = Held(tab, fd, k)
  OBVIOUS
<1>8. /\ Whole(c, Tables(ft, p, tab2), pw) /\ tab2 \in [Fd -> FdRec] /\ tab2[fd].open_count = 1
      /\ \A b \in Fd : b # fd => tab2[b] = tab[b]
  <2>1. k > 0 /\ ft[p][fd].status = "FD_OPENED"
    BY <1>4, <1>5, <1>7, <1>7a
  <2>2. QED
    BY <1>1, <1>4, <1>7, <1>7a, <2>1, HeldGood
<1>9. Plain(tab2)
  BY <1>6, <1>8 DEF Plain
<1>10. PICK d : d = fd_array_release([fs |-> c, tab |-> tab], fd)
  OBVIOUS
<1>11. d.fs = c /\ d.tab = tab2
  <2>1. PICK e : e = [fs |-> c, tab |-> tab]
    OBVIOUS
  <2>2. d = [e EXCEPT !.tab[fd].open_count = @ - 1]
    BY <1>4, <1>10, <2>1 DEF fd_array_release
  <2>3. d = [e EXCEPT !.tab = [tab EXCEPT ![fd].open_count = @ - 1]]
    BY <2>1, <2>2
  <2>4. [tab EXCEPT ![fd].open_count = @ - 1] = tab2
    BY <1>6, <1>7, <1>7a DEF Held
  <2>5. QED
    BY <2>1, <2>3, <2>4
<1>12. PICK dir : dir = pwd[p]
  OBVIOUS
<1>13. StateOK(tab2, dir, "user")
  BY <1>2, <1>9, <1>12 DEF StateOK
<1>14. pwd = [pwd EXCEPT ![p] = dir]
  BY <1>1, <1>12
<1>15. /\ fs' = d.fs /\ filesp' = [filesp EXCEPT ![p] = d.tab] /\ UNCHANGED <<pwd, panic>>
       /\ life' = [life EXCEPT ![p] = "user"]
  BY <1>3, <1>10 DEF ReadReturns
<1>16. /\ fs' = c /\ filesp' = [filesp EXCEPT ![p] = tab2] /\ pwd' = [pwd EXCEPT ![p] = dir]
       /\ panic' = FALSE
  BY <1>1, <1>11, <1>14, <1>15
<1>17. Whole(c, Tables(filesp, p, tab2), [pwd EXCEPT ![p] = dir])
  BY <1>3, <1>8, <1>14
<1>18. QED
  BY <1>1, <1>8, <1>13, <1>15, <1>16, <1>17, ProcessStep

\* sys_chdir.
LEMMA ChdirStep ==
    ASSUME FilesInv, NEW p \in User, NEW path \in Path, sys_chdir(p, path)
    PROVE  FilesInv'
<1>1. /\ Calls(p) /\ ~panic /\ Whole(fs, filesp, pwd) /\ p \in All /\ pwd[p] # NULL
      /\ Plain(filesp[p]) /\ filesp \in [All -> [Fd -> FdRec]] /\ panic = FALSE
      /\ pwd \in [All -> Slot \cup {NULL}] /\ life[p] = "user"
      /\ StatesOK(filesp, pwd, life)
  BY CallerFacts DEF sys_chdir, Calls
<1>2. UNCHANGED <<filesp, life, panic>>
  BY DEF sys_chdir
<1> DEFINE Set(r) == r.ret = "0" /\ r.node # pwd[p] /\ TypeOf(r.fs, r.node) = "dir"
           Moved(r) == IF Set(r) THEN inode_ref_dec(inode_ref_inc(r.fs, r.node), pwd[p]) ELSE r.fs
<1>3. PICK oom \in BOOLEAN :
        \E r \in {vfs_lookup(fs, p, path, oom)} :
          /\ fs' = IF r.ret = "0" THEN inode_ref_dec(Moved(r), r.node) ELSE Moved(r)
          /\ pwd' = IF Set(r) THEN [pwd EXCEPT ![p] = r.node] ELSE pwd
  BY ZenonT(60) DEF sys_chdir
<1>4. PICK r : r = vfs_lookup(fs, p, path, oom)
  OBVIOUS
<1>5. /\ fs' = IF r.ret = "0" THEN inode_ref_dec(Moved(r), r.node) ELSE Moved(r)
      /\ pwd' = IF Set(r) THEN [pwd EXCEPT ![p] = r.node] ELSE pwd
  <2> HIDE DEF Set, Moved
  <2>1. QED
    BY ONLY <1>3, <1>4
<1>6. PICK c, ft : c = fs /\ ft = filesp
  OBVIOUS
<1>7. Whole(c, ft, pwd)
  BY <1>1, <1>6
<1>8. Got(c, RefsOf(ft, pwd), OpenOf(ft), r)
  <2>1. PICK R, O : R = RefsOf(ft, pwd) /\ O = OpenOf(ft)
    OBVIOUS
  <2>2. Good(c, R, O) /\ pwd[p] \in Slot /\ c.node[pwd[p]].ino \in Dir
    BY <1>1, <1>7, <2>1 DEF Whole
  <2>3. Got(c, R, O, r)
    BY <1>4, <1>6, <2>2, VfsLookupGood
  <2>4. QED
    BY <2>1, <2>3
<1>9. PICK n : n = r.node
  OBVIOUS
<1>10. /\ r.ret = "0" /\ n # pwd[p] /\ TypeOf(r.fs, n) = "dir" =>
            Whole(inode_ref_dec(inode_ref_dec(inode_ref_inc(r.fs, n), pwd[p]), n), ft,
                  [pwd EXCEPT ![p] = n])
       /\ r.ret = "0" => Whole(inode_ref_dec(r.fs, n), ft, pwd)
       /\ r.ret # "0" => Whole(r.fs, ft, pwd)
  BY <1>1, <1>7, <1>8, <1>9, ChdirGood
<1>11. CASE Set(r)
  <2>1. PICK e, tab : /\ e = inode_ref_dec(inode_ref_dec(inode_ref_inc(r.fs, n), pwd[p]), n)
                      /\ tab = filesp[p]
    OBVIOUS
  <2>2. fs' = e /\ pwd' = [pwd EXCEPT ![p] = n]
    BY <1>5, <1>9, <1>11, <2>1
  <2>3. Whole(e, filesp, [pwd EXCEPT ![p] = n])
    BY <1>6, <1>9, <1>10, <1>11, <2>1
  <2>4. n # NULL
    <3>1. n \in Node
      BY <1>8, <1>9, <1>11 DEF Got
    <3>2. QED
      BY <3>1, FilesAssumption
  <2>5. StateOK(tab, n, "user")
    BY <1>1, <2>1, <2>4 DEF StateOK
  <2>6. tab \in [Fd -> FdRec] /\ filesp = [filesp EXCEPT ![p] = tab]
    BY <1>1, <2>1
  <2>7. Whole(e, Tables(filesp, p, tab), [pwd EXCEPT ![p] = n])
    BY <2>3, <2>6 DEF Tables
  <2>8. life \in [User -> {"free", "thread", "user", "reading", "lost"}]
    BY <1>1 DEF StatesOK
  <2>9. filesp' = [filesp EXCEPT ![p] = tab] /\ life' = [life EXCEPT ![p] = "user"] /\ panic' = FALSE
    BY <1>1, <1>2, <2>6, <2>8
  <2>10. QED
    BY <1>1, <2>2, <2>5, <2>6, <2>7, <2>9, ProcessStep
<1>12. CASE ~Set(r)
  <2>1. PICK e : e = IF r.ret = "0" THEN inode_ref_dec(r.fs, n) ELSE r.fs
    OBVIOUS
  <2>2. fs' = e /\ pwd' = pwd
    BY <1>5, <1>9, <1>12, <2>1
  <2>3. Whole(e, filesp, pwd)
    BY <1>6, <1>10, <2>1
  <2>4. QED
    BY <1>1, <1>2, <2>2, <2>3, InodeStep
<1>13. QED
  BY <1>11, <1>12

\* do_fork: the child shares every file and the directory of its parent.
LEMMA ForkStep ==
    ASSUME FilesInv, NEW p \in User, NEW q \in User, do_fork(p, q)
    PROVE  FilesInv'
<1>1. /\ ~panic /\ Whole(fs, filesp, pwd) /\ p \in All /\ q \in All /\ pwd[p] # NULL
      /\ Plain(filesp[p]) /\ filesp \in [All -> [Fd -> FdRec]] /\ panic = FALSE
      /\ StatesOK(filesp, pwd, life) /\ life[q] = "free"
  BY CallerFacts DEF do_fork, Calls, All
<1>2. filesp[q] = fd_array_init /\ pwd[q] = NULL
  BY <1>1 DEF StatesOK
<1>3. PICK c, ft, pw, tab, dir : c = fs /\ ft = filesp /\ pw = pwd /\ tab = ft[p] /\ dir = pw[p]
  OBVIOUS
<1>4. PICK d : d = dup_files(c, tab, dir)
  OBVIOUS
<1>5. Whole(d, Tables(ft, q, tab), [pw EXCEPT ![q] = dir])
  <2>1. Whole(c, ft, pw) /\ ft[q] = fd_array_init /\ pw[q] = NULL /\ pw[p] # NULL
    BY <1>1, <1>2, <1>3
  <2>2. QED
    BY <1>1, <1>3, <1>4, <2>1, DupFilesGood
<1>6. Whole(d, Tables(filesp, q, tab), [pwd EXCEPT ![q] = dir])
  BY <1>3, <1>5
<1>7. StateOK(tab, dir, "user") /\ tab \in [Fd -> FdRec]
  BY <1>1, <1>3 DEF StateOK
<1>8. /\ fs' = d /\ filesp' = [filesp EXCEPT ![q] = tab] /\ pwd' = [pwd EXCEPT ![q] = dir]
      /\ life' = [life EXCEPT ![q] = "user"] /\ panic' = FALSE
  BY <1>1, <1>3, <1>4 DEF do_fork
<1>9. QED
  BY <1>1, <1>6, <1>7, <1>8, ProcessStep

\* put_files: the process gives everything back, from whichever table it ends with.
LEMMA ExitGood ==
    ASSUME FilesInv, ~panic, NEW p \in User, NEW c, NEW tab, Whole(c, Tables(filesp, p, tab), pwd),
           tab \in [Fd -> FdRec], Plain(tab), pwd[p] # NULL, Exit(p, c, tab), panic' = FALSE
    PROVE  FilesInv'
<1>1. filesp \in [All -> [Fd -> FdRec]] /\ p \in All
  BY CallerFacts
<1>2. PICK ft, pw, dir : ft = Tables(filesp, p, tab) /\ pw = pwd /\ dir = pw[p]
  OBVIOUS
<1>3. ft[p] = tab
  BY <1>1, <1>2, TablesFacts
<1>4. PICK d : d = files_destroy(c, tab, dir)
  OBVIOUS
<1>5. Whole(d, Tables(ft, p, fd_array_init), [pw EXCEPT ![p] = NULL])
  <2>1. Whole(c, ft, pw) /\ Plain(ft[p]) /\ pw[p] # NULL
    BY <1>2, <1>3
  <2>2. Whole(files_destroy(c, ft[p], pw[p]), Tables(ft, p, fd_array_init), [pw EXCEPT ![p] = NULL])
    BY <1>1, <2>1, DestroyGood
  <2>3. QED
    BY <1>2, <1>3, <1>4, <2>2
<1>6. PICK none, nil : none = fd_array_init /\ nil = NULL
  OBVIOUS
<1>7. none \in [Fd -> FdRec] /\ StateOK(none, nil, "free")
  BY <1>6, FreeFd DEF fd_array_init, StateOK
<1>8. Whole(d, Tables(filesp, p, none), [pwd EXCEPT ![p] = nil])
  <2>1. Tables(ft, p, fd_array_init) = Tables(filesp, p, none)
    BY <1>1, <1>2, <1>6, TablesFacts
  <2>2. QED
    BY <1>2, <1>5, <1>6, <2>1
<1>9. /\ fs' = d /\ filesp' = [filesp EXCEPT ![p] = none] /\ pwd' = [pwd EXCEPT ![p] = nil]
      /\ life' = [life EXCEPT ![p] = "free"]
  BY <1>2, <1>4, <1>6 DEF Exit
<1>10. QED
  BY <1>7, <1>8, <1>9, ProcessStep

\* do_exit.
LEMMA ExitStep ==
    ASSUME FilesInv, NEW p \in User, do_exit(p)
    PROVE  FilesInv'
<1>1. /\ ~panic /\ Whole(fs, filesp, pwd) /\ p \in All /\ pwd[p] # NULL
      /\ Plain(filesp[p]) /\ filesp \in [All -> [Fd -> FdRec]] /\ panic = FALSE
  BY CallerFacts DEF do_exit, Calls
<1>2. PICK c, tab : c = fs /\ tab = filesp[p]
  OBVIOUS
<1>3. tab \in [Fd -> FdRec] /\ Plain(tab) /\ filesp = Tables(filesp, p, tab)
  BY <1>1, <1>2 DEF Tables
<1>4. Whole(c, Tables(filesp, p, tab), pwd) /\ Exit(p, c, tab) /\ panic' = FALSE
  BY <1>1, <1>2, <1>3 DEF do_exit
<1>5. QED
  BY <1>1, <1>3, <1>4, ExitGood

\* do_exit without an mm: the files stay open and the directory current.
LEMMA LostGood ==
    ASSUME FilesInv, ~panic, NEW p \in User, NEW c, NEW tab, Whole(c, Tables(filesp, p, tab), pwd),
           tab \in [Fd -> FdRec], ExitWithoutMm(p, c, tab), panic' = FALSE
    PROVE  FilesInv'
<1>1. pwd \in [All -> Slot \cup {NULL}] /\ p \in All
  BY CallerFacts
<1>2. PICK dir : dir = pwd[p]
  OBVIOUS
<1>3. pwd = [pwd EXCEPT ![p] = dir]
  BY <1>1, <1>2
<1>4. StateOK(tab, dir, "lost")
  BY DEF StateOK
<1>5. /\ fs' = c /\ filesp' = [filesp EXCEPT ![p] = tab] /\ pwd' = [pwd EXCEPT ![p] = dir]
      /\ life' = [life EXCEPT ![p] = "lost"]
  BY <1>3 DEF ExitWithoutMm
<1>6. Whole(c, Tables(filesp, p, tab), [pwd EXCEPT ![p] = dir])
  BY <1>3
<1>7. QED
  BY <1>4, <1>5, <1>6, ProcessStep

\* An open for reading only fails no assertion.
LEMMA ReadOnlyOpens ==
    ASSUME NEW c, NEW R, NEW O, Good(c, R, O), NEW p, NEW path, NEW oom, NEW cut, NEW tab,
           pwd[p] \in Slot, c.node[pwd[p]].ino \in Dir
    PROVE  file_open([fs |-> c, tab |-> tab], p, path, ReadOnly, oom, cut).ret # "panic"
<1>1. PICK r : r = vfs_lookup(c, p, path, oom)
  OBVIOUS
<1>2. r.ret # "panic"
  BY <1>1, VfsLookupGood DEF Got
<1>3. ~ReadOnly.trunc /\ ~ReadOnly.creat
  BY DEF ReadOnly
<1>4. PICK fl : fl = ReadOnly
  OBVIOUS
<1>5. PICK v : v = vfs_open(c, p, path, fl, oom, cut)
  OBVIOUS
<1>6. v = OpenLooked(r, fl, cut)
  BY <1>1, <1>3, <1>4, <1>5 DEF vfs_open
<1>7. OpenFound(r.fs, r.node, fl, cut).ret # "panic"
  BY <1>3, <1>4 DEF OpenFound, Fails, Found
<1>8. v.ret # "panic"
  BY <1>2, <1>3, <1>4, <1>6, <1>7 DEF OpenLooked
<1>9. QED
  BY <1>4, <1>5, <1>8 DEF file_open

\* do_execve: the new program keeps only standard input and output; whichever
\* way it fails, the counts fit the table that the process is left with.
LEMMA ExecveStep ==
    ASSUME FilesInv, NEW p \in User, NEW path \in Path, do_execve(p, path)
    PROVE  FilesInv'
<1>1. /\ ~panic /\ Whole(fs, filesp, pwd) /\ p \in All /\ pwd[p] # NULL
      /\ Plain(filesp[p]) /\ filesp \in [All -> [Fd -> FdRec]] /\ panic = FALSE
      /\ pwd \in [All -> Slot \cup {NULL}]
  BY CallerFacts DEF do_execve
<1> DEFINE Type(r) == TypeOf(r.fs, r.tab[r.fd].node)
           Outcome(r, loads) ==
             \/ r.ret # "0" /\ life[p] = "user" /\ Exit(p, r.fs, r.tab) /\ UNCHANGED panic
             \/ r.ret # "0" /\ life[p] = "thread" /\ ExitWithoutMm(p, r.fs, r.tab) /\ UNCHANGED panic
             \/ /\ r.ret = "0" /\ (Type(r) = "dev" \/ (Type(r) = "file" /\ ~loads))
                /\ ExitWithoutMm(p, r.fs, r.tab) /\ UNCHANGED panic
             \/ /\ r.ret = "0" /\ Type(r) = "file" /\ (loads \/ life[p] = "thread")
                /\ fs' = r.fs /\ filesp' = [filesp EXCEPT ![p] = r.tab]
                /\ life' = [life EXCEPT ![p] = IF loads THEN "user" ELSE "thread"]
                /\ UNCHANGED <<pwd, panic>>
             \/ /\ r.ret = "0" /\ Type(r) = "dir"
                /\ panic' = TRUE /\ UNCHANGED <<fs, filesp, pwd, life>>
<1>2. PICK oom \in BOOLEAN, loads \in BOOLEAN :
        \E d \in {files_closeall([fs |-> fs, tab |-> filesp[p]])} :
        \E r \in {file_open(d, p, path, ReadOnly, oom, FALSE)} : Outcome(r, loads)
  BY ZenonT(60) DEF do_execve
<1>3. PICK d : d = files_closeall([fs |-> fs, tab |-> filesp[p]])
  OBVIOUS
<1>4. PICK r : r = file_open(d, p, path, ReadOnly, oom, FALSE)
  OBVIOUS
<1>5. Outcome(r, loads)
  <2> HIDE DEF Outcome
  <2>1. QED
    BY ONLY <1>2, <1>3, <1>4
<1>6. PICK c, ft, tab : c = fs /\ ft = filesp /\ tab = filesp[p]
  OBVIOUS
<1>7. ClosedTo(ft, p, pwd, 2, FILES_STRUCT_NENTRY, d)
  <2>1. PICK k \in 0 .. FILES_STRUCT_NENTRY : k = 2
    BY FilesAssumption
  <2>2. PICK pw : pw = pwd
    OBVIOUS
  <2>3. Whole(c, ft, pw) /\ Plain(ft[p]) /\ d = ClosedFrom([fs |-> c, tab |-> ft[p]], k)
    BY <1>1, <1>3, <1>6, <2>1, <2>2 DEF files_closeall
  <2>4. ClosedTo(ft, p, pw, k, FILES_STRUCT_NENTRY, d)
    BY <1>1, <2>3, ClosedFromGood
  <2>5. QED
    BY <2>1, <2>2, <2>4
<1>8. PICK c1, tab1, ft1 : c1 = d.fs /\ tab1 = d.tab /\ ft1 = Tables(filesp, p, d.tab)
  OBVIOUS
<1>9. /\ d = [fs |-> c1, tab |-> tab1] /\ tab1 \in [Fd -> FdRec] /\ Plain(tab1)
      /\ Whole(c1, ft1, pwd) /\ ft1 = Tables(filesp, p, tab1)
  BY <1>6, <1>7, <1>8 DEF ClosedTo
<1>10. ft1[p] = tab1 /\ \A t : Tables(ft1, p, t) = Tables(filesp, p, t)
  BY <1>1, <1>9, TablesFacts
<1>11. PICK cut : cut = FALSE
  OBVIOUS
<1>12. r = file_open([fs |-> c1, tab |-> ft1[p]], p, path, ReadOnly, oom, cut)
  BY <1>4, <1>9, <1>10, <1>11
<1>13. FileOpened(c1, ft1, pwd, p, r)
  BY <1>1, <1>9, <1>12, FileOpenGood
<1>14. r.ret # "panic"
  <2>1. PICK R, O : R = RefsOf(ft1, pwd) /\ O = OpenOf(ft1)
    OBVIOUS
  <2>2. Good(c1, R, O) /\ pwd[p] \in Slot /\ c1.node[pwd[p]].ino \in Dir
    BY <1>1, <1>9, <2>1 DEF Whole
  <2>3. QED
    BY <1>12, <2>2, ReadOnlyOpens
<1>15. PICK c2, tab2 : c2 = r.fs /\ tab2 = r.tab
  OBVIOUS
<1>16. Whole(c2, Tables(filesp, p, tab2), pwd) /\ tab2 \in [Fd -> FdRec] /\ Plain(tab2)
  <2>1. CASE r.ret = "0"
    BY <1>9, <1>10, <1>13, <1>15, <2>1 DEF FileOpened
  <2>2. CASE r.ret # "0"
    BY <1>9, <1>10, <1>13, <1>14, <1>15, <2>2 DEF FileOpened
  <2>3. QED
    BY <2>1, <2>2
<1>17. CASE Exit(p, c2, tab2) /\ UNCHANGED panic
  <2>1. panic' = FALSE
    BY <1>1, <1>17
  <2>2. QED
    BY <1>1, <1>16, <1>17, <2>1, ExitGood
<1>18. CASE ExitWithoutMm(p, c2, tab2) /\ UNCHANGED panic
  <2>1. panic' = FALSE
    BY <1>1, <1>18
  <2>2. QED
    BY <1>1, <1>16, <1>18, <2>1, LostGood
<1>19. CASE /\ fs' = c2 /\ filesp' = [filesp EXCEPT ![p] = tab2]
            /\ life' = [life EXCEPT ![p] = IF loads THEN "user" ELSE "thread"]
            /\ UNCHANGED <<pwd, panic>>
  <2>1. PICK dir, s : dir = pwd[p] /\ s = IF loads THEN "user" ELSE "thread"
    OBVIOUS
  <2>2. pwd = [pwd EXCEPT ![p] = dir]
    BY <1>1, <2>1
  <2>3. StateOK(tab2, dir, s)
    BY <1>1, <1>16, <2>1 DEF StateOK
  <2>4. pwd' = [pwd EXCEPT ![p] = dir] /\ life' = [life EXCEPT ![p] = s] /\ panic' = FALSE
    BY <1>1, <1>19, <2>1, <2>2
  <2>5. Whole(c2, Tables(filesp, p, tab2), [pwd EXCEPT ![p] = dir])
    BY <1>16, <2>2
  <2>6. QED
    BY <1>1, <1>16, <1>19, <2>3, <2>4, <2>5, ProcessStep
<1>20. CASE panic' = TRUE /\ UNCHANGED <<fs, filesp, pwd, life>>
  <2>1. Saved(fs') /\ Same(fs, fs', RefsOf(filesp, pwd))
    <3>1. Saved(fs)
      BY <1>1, WholeNames
    <3>2. QED
      BY <1>20, <3>1 DEF Same
  <2>2. QED
    BY <1>1, <1>20, <2>1, PanicAfter
<1>21. QED
  BY <1>5, <1>15, <1>17, <1>18, <1>19, <1>20

\* Every step keeps the invariant.
LEMMA NextInv == FilesInv /\ [FilesNext]_files_vars => FilesInv'
<1>1. SUFFICES ASSUME FilesInv, [FilesNext]_files_vars PROVE FilesInv'
  OBVIOUS
<1>2. CASE UNCHANGED files_vars
  <2>1. UNCHANGED <<fs, filesp, pwd, life, panic>>
    BY <1>2 DEF files_vars
  <2>2. CASE panic
    <3>1. NamesKept' /\ NothingUnsaved'
      BY <1>1, <2>1 DEF FilesInv, NamesKept, NothingUnsaved, Descriptor, Opened
    <3>2. QED
      BY <1>1, <2>1, <2>2, <3>1 DEF FilesInv
  <2>3. CASE ~panic
    <3>1. Whole(fs', filesp', pwd') /\ StatesOK(filesp', pwd', life') /\ panic' \in BOOLEAN
      BY <1>1, <2>1, <2>3 DEF FilesInv
    <3>2. QED
      BY <3>1, InvAfter
  <2>4. QED
    BY <2>2, <2>3
<1>3. ASSUME NEW p \in User, NEW path \in Path, NEW fl \in Flags, sys_open(p, path, fl)
      PROVE  FilesInv'
  BY <1>1, <1>3, OpenStep
<1>4. ASSUME NEW p \in User, NEW fd \in Fd,
             \/ sys_close(p, fd) \/ MissingOp(p, fd) \/ Modify(p, fd)
             \/ sys_fsync(p, fd) \/ ReadSleeps(p, fd) \/ ReadReturns(p, fd)
      PROVE  FilesInv'
  BY <1>1, <1>4, CloseStep, MissingOpStep, ModifyStep, FsyncStep, ReadSleepsStep, ReadReturnsStep
<1>5. ASSUME NEW p \in User, NEW fd1 \in Fd, NEW fd2 \in Fd \cup {NO_FD}, sys_dup(p, fd1, fd2)
      PROVE  FilesInv'
  BY <1>1, <1>5, DupStep
<1>6. ASSUME NEW p \in User, NEW path \in Path, sys_chdir(p, path) \/ do_execve(p, path)
      PROVE  FilesInv'
  BY <1>1, <1>6, ChdirStep, ExecveStep
<1>7. ASSUME NEW p \in User, sys_getcwd(p) \/ do_exit(p) PROVE FilesInv'
  BY <1>1, <1>7, GetcwdStep, ExitStep
<1>8. ASSUME NEW p \in User, NEW q \in User, do_fork(p, q) PROVE FilesInv'
  BY <1>1, <1>8, ForkStep
<1>9. ASSUME fs_cleanup PROVE FilesInv'
  BY <1>1, <1>9, CleanupStep
<1>10. QED
  BY <1>1, <1>2, <1>3, <1>4, <1>5, <1>6, <1>7, <1>8, <1>9 DEF FilesNext

\* The invariant holds throughout: before and after every call, the counts of
\* the inodes in memory, the descriptor tables and the current directories
\* agree (file.c, vfs, sfs_inode.c).
THEOREM FilesInvariant == FilesSpec => []FilesInv
<1>1. QED
  BY InitInv, NextInv, PTL DEF FilesSpec

\* The reference and open counts of every inode are exact, and the list of
\* the SFS inodes holds exactly those in memory, one for each inode on the disk
\* (fd_array_dup, vfs_close, inode_ref_dec, sfs_reclaim, lookup_sfs_nolock).
THEOREM RefsAlwaysExact == FilesSpec => []RefsExact
<1>1. ASSUME FilesInv PROVE RefsExact
  <2>1. SUFFICES ASSUME ~panic PROVE RefsExact
    BY DEF RefsExact
  <2>2. Whole(fs, filesp, pwd)
    BY <1>1, <2>1 DEF FilesInv
  <2>3. PICK R, O : R = RefsOf(filesp, pwd) /\ O = OpenOf(filesp)
    OBVIOUS
  <2>4. Good(fs, R, O)
    BY <2>2, <2>3 DEF Whole
  <2>5. ASSUME NEW n \in Node, fs.node[n].ino # NULL
        PROVE  /\ fs.node[n].open_count = Cardinality(Holding(n))
               /\ fs.node[n].ref_count = fs.node[n].open_count + Cardinality({p \in All : pwd[p] = n})
                                         + fs.node[n].lost
                                         + (IF n = fs.bootfs \/ n \in Dev THEN 1 ELSE 0)
               /\ fs.node[n].ref_count > 0
    <3>1. Holding(n) = Names(filesp, n) /\ {p \in All : pwd[p] = n} = Cwds(pwd, n)
      <4>1. \A d \in All \X Fd : d[1] \in All /\ d[2] \in Fd
        OBVIOUS
      <4>2. QED
        BY <4>1 DEF Holding, Descriptor, Opened, Names, Cwds
    <3>2. PICK a \in Nat, b \in Nat : a = Cardinality(Names(filesp, n)) /\ b = Cardinality(Cwds(pwd, n))
      BY OwedFinite
    <3>3. O[n] = a /\ R[n] = a + b
      BY <2>3, <3>2 DEF OpenOf, RefsOf
    <3>4. /\ fs.node[n] \in NodeRec /\ Base(fs, n) \in {0, 1}
          /\ NodeGood(fs.node[n], Base(fs, n), n, R[n], O[n])
      BY <2>4, GoodFacts
    <3>5. PICK i \in NodeRec : i = fs.node[n]
      BY <3>4
    <3>6. i.open_count = a /\ i.ref_count = a + b + i.lost + Base(fs, n) /\ i.ref_count > 0
      BY <2>5, <3>3, <3>4, <3>5 DEF NodeGood
    <3>7. i.lost \in Int
      BY DEF NodeRec
    <3>8. QED
      BY <3>1, <3>2, <3>5, <3>6, <3>7 DEF Base
  <2>6. /\ fs.list = {n \in Slot : fs.node[n].ino # NULL}
        /\ \A m, n \in fs.list : fs.node[m].ino = fs.node[n].ino => m = n
    BY <2>4 DEF Good, ListGood
  <2>7. QED
    BY <2>5, <2>6 DEF RefsExact
<1>2. QED
  BY <1>1, FilesInvariant, PTL

\* From open to close a descriptor names the file that was opened, whatever the
\* other processes close, and current directories stay directories.
THEOREM NamesAlwaysKept == FilesSpec => []NamesKept
<1>1. FilesInv => NamesKept
  BY DEF FilesInv
<1>2. QED
  BY <1>1, FilesInvariant, PTL

\* An inode with changes that the disk lacks is open: whichever way the last
\* descriptor of it goes, sfs_close writes it.
THEOREM NothingEverUnsaved == FilesSpec => []NothingUnsaved
<1>1. FilesInv => NothingUnsaved
  BY DEF FilesInv
<1>2. QED
  BY <1>1, FilesInvariant, PTL

-----------------------------------------------------------------------------
(***************************************************************************)
(* The second part stands by itself: the console, the device that a read   *)
(* of descriptor 0 comes to.  It loses no reader and no character, for     *)
(* every set of processes, every size of the buffer and every length of a  *)
(* read.                                                                   *)
(***************************************************************************)
\* The owner of the CPU is runnable, except on its way into schedule().
OwnerRunnable ==
    \A p \in Proc :
      current = p /\ pc[p] \notin {"read.schedule", "exit.schedule"}
        => state[p] = "RUNNABLE"

\* The interrupt is taken in user mode or by the idle thread.
InterruptedInUser == intr # "none" => \A p \in Proc : current = p => pc[p] = "user"

\* A reader marked as waiting is asleep.
WaitersAsleep == \A p \in Proc : wait_state[p] = "WT_KBD" => state[p] = "SLEEPING"

\* The slots between the two positions have been written.
UnreadWritten ==
    \A i \in 1 .. Unread : stdin_buffer[(p_rpos + i - 1) % STDIN_BUFSIZE] \in Char

\* The inductive invariant: the queue is exact only together with who may run
\* (a reader that is awake is not marked as waiting) and with the place where
\* the clock may interrupt (never inside dev_stdin_read).
IInv ==
    /\ TypeOK
    /\ RunQueueOK
    /\ NoSleepOnInput
    /\ WaitFramesLive
    /\ OwnerRunnable
    /\ InterruptedInUser
    /\ WaitersAsleep
    /\ UnreadWritten

-----------------------------------------------------------------------------
(***************************************************************************)
(* The ring: S slots, positions r and w modulo 2 * S.                      *)
(***************************************************************************)

\* The number of unread characters, from the two positions.
LEMMA RingCount ==
    ASSUME NEW S \in Nat \ {0}, NEW r \in 0 .. 2 * S - 1, NEW w \in 0 .. 2 * S - 1
    PROVE  /\ (w - r) % (2 * S) \in 0 .. 2 * S - 1
           /\ r <= w => (w - r) % (2 * S) = w - r
           /\ w < r => (w - r) % (2 * S) = w - r + 2 * S
<1> DEFINE m == 2 * S
           a == w - r
<1>1. m \in Nat \ {0} /\ a \in Int /\ -m <= a /\ a < m
  OBVIOUS
<1>2. /\ a % m \in 0 .. m - 1
      /\ a < 0 => a % m = a + m
      /\ 0 <= a => a % m = a
  <2> HIDE DEF m, a
  <2>1. QED
    BY <1>1, ModFacts
<1>3. QED
  BY <1>1, <1>2

\* Fewer than S consecutive positions fall into different slots, and S further on
\* the slots start again.
LEMMA RingSlots ==
    ASSUME NEW S \in Nat \ {0}, NEW r \in 0 .. 2 * S - 1
    PROVE  /\ \A k \in 0 .. S : (r + k) % S \in 0 .. S - 1
           /\ \A j, k \in 0 .. S - 1 : (r + j) % S = (r + k) % S => j = k
           /\ (r + S) % S = r % S
<1>1. \A k \in 0 .. S :
        /\ (r + k) % S \in 0 .. S - 1
        /\ r + k < S => (r + k) % S = r + k
        /\ S <= r + k /\ r + k < 2 * S => (r + k) % S = r + k - S
        /\ 2 * S <= r + k => (r + k) % S = r + k - 2 * S
  <2> TAKE k \in 0 .. S
  <2> DEFINE a == r + k
  <2>1. a \in Int /\ 0 <= a /\ a < 3 * S
    OBVIOUS
  <2>2. /\ a % S \in 0 .. S - 1
        /\ a < S => a % S = a
        /\ S <= a /\ a < 2 * S => a % S = a - S
        /\ 2 * S <= a => a % S = a - 2 * S
    <3> HIDE DEF a
    <3>1. QED
      BY <2>1, ModFacts
  <2>3. QED
    BY <2>2
<1>2. /\ r < S => r % S = r
      /\ S <= r => r % S = r - S
  <2>1. r \in Int /\ 0 <= r /\ r < 2 * S
    OBVIOUS
  <2>2. QED
    BY <2>1, ModFacts
<1>3. (r + S) % S = r % S
  <2>1. /\ S <= r + S /\ r + S < 2 * S => (r + S) % S = r + S - S
        /\ 2 * S <= r + S => (r + S) % S = r + S - 2 * S
    BY <1>1
  <2>2. CASE r < S
    BY <1>2, <2>1, <2>2
  <2>3. CASE S <= r
    BY <1>2, <2>1, <2>3
  <2>4. QED
    BY <2>2, <2>3
<1>4. ASSUME NEW j \in 0 .. S - 1, NEW k \in 0 .. S - 1, (r + j) % S = (r + k) % S
      PROVE  j = k
  <2> DEFINE x == (r + j) % S
             y == (r + k) % S
  <2>1. /\ x \in 0 .. S - 1
        /\ x = r + j \/ x = r + j - S \/ x = r + j - 2 * S
    BY <1>1
  <2>2. /\ y \in 0 .. S - 1
        /\ y = r + k \/ y = r + k - S \/ y = r + k - 2 * S
    BY <1>1
  <2>3. x = y
    BY <1>4
  <2> HIDE DEF x, y
  <2>4. QED
    BY <2>1, <2>2, <2>3
<1>5. QED
  BY <1>1, <1>3, <1>4

\* The writer's slot lies as many slots after the reader's as there are unread
\* characters.
LEMMA RingWriteSlot ==
    ASSUME NEW S \in Nat \ {0}, NEW r \in 0 .. 2 * S - 1, NEW w \in 0 .. 2 * S - 1,
           NEW u \in 0 .. S, u = (w - r) % (2 * S)
    PROVE  w % S = (r + u) % S
<1>1. r + u = w \/ r + u = w + 2 * S
  BY RingCount
<1>2. CASE r + u = w
  BY <1>2
<1>3. CASE r + u = w + 2 * S
  <2>1. w < S
    BY <1>1, <1>3
  <2>2. (w + 2 * S) % S = w
    BY <2>1, ModFacts
  <2>3. w % S = w
    BY <2>1, ModFacts
  <2>4. QED
    BY <1>3, <2>2, <2>3
<1>4. QED
  BY <1>1, <1>2, <1>3

\* Writing moves w on, and one more character is unread.
LEMMA RingWrite ==
    ASSUME NEW S \in Nat \ {0}, NEW r \in 0 .. 2 * S - 1, NEW w \in 0 .. 2 * S - 1,
           (w - r) % (2 * S) < S
    PROVE  /\ (w + 1) % (2 * S) \in 0 .. 2 * S - 1
           /\ (((w + 1) % (2 * S)) - r) % (2 * S) = ((w - r) % (2 * S)) + 1
<1> DEFINE m == 2 * S
           v == (w + 1) % m
<1>1. /\ v \in 0 .. m - 1
      /\ w + 1 < m => v = w + 1
      /\ m <= w + 1 => v = w + 1 - m
  <2> DEFINE a == w + 1
  <2>1. m \in Nat \ {0} /\ a \in Int /\ 0 <= a /\ a < 2 * m
    OBVIOUS
  <2>2. /\ a % m \in 0 .. m - 1
        /\ a < m => a % m = a
        /\ m <= a => a % m = a - m
    <3> HIDE DEF m, a
    <3>1. QED
      BY <2>1, ModFacts
  <2>3. QED
    BY <2>1, <2>2
<1> HIDE DEF v
<1>2. /\ r <= v => (v - r) % (2 * S) = v - r
      /\ v < r => (v - r) % (2 * S) = v - r + 2 * S
  BY <1>1, RingCount
<1>3. /\ r <= w => (w - r) % (2 * S) = w - r
      /\ w < r => (w - r) % (2 * S) = w - r + 2 * S
  BY RingCount
<1>4. (v - r) % (2 * S) = ((w - r) % (2 * S)) + 1
  <2> DEFINE a == (v - r) % (2 * S)
             b == (w - r) % (2 * S)
  <2>1. /\ b < S
        /\ r <= v => a = v - r
        /\ v < r => a = v - r + 2 * S
        /\ r <= w => b = w - r
        /\ w < r => b = w - r + 2 * S
    BY <1>2, <1>3
  <2> HIDE DEF a, b
  <2>2. a = b + 1
    BY <1>1, <2>1
  <2>3. QED
    BY <2>2 DEF a, b
<1>5. QED
  BY <1>1, <1>4 DEF v

\* Reading moves r on: one character fewer is unread.
LEMMA RingRead ==
    ASSUME NEW S \in Nat \ {0}, NEW r \in 0 .. 2 * S - 1, NEW w \in 0 .. 2 * S - 1, r # w,
           NEW v \in Int, v = (r + 1) % (2 * S), NEW u \in Int, u = (w - r) % (2 * S)
    PROVE  /\ v \in 0 .. 2 * S - 1
           /\ u > 0
           /\ (w - v) % (2 * S) = u - 1
<1> DEFINE m == 2 * S
<1>1. /\ v \in 0 .. m - 1
      /\ r + 1 < m => v = r + 1
      /\ m <= r + 1 => v = 0 /\ r + 1 = m
  <2> DEFINE a == r + 1
  <2>1. m \in Nat \ {0} /\ a \in Int /\ 0 <= a /\ a < 2 * m /\ a <= m
    OBVIOUS
  <2>2. /\ a % m \in 0 .. m - 1
        /\ a < m => a % m = a
        /\ m <= a => a % m = a - m
    <3> HIDE DEF m, a
    <3>1. QED
      BY <2>1, ModFacts
  <2>3. QED
    BY <2>1, <2>2
<1>2. /\ v <= w => (w - v) % (2 * S) = w - v
      /\ w < v => (w - v) % (2 * S) = w - v + 2 * S
  BY <1>1, RingCount
<1>3. /\ r <= w => u = w - r
      /\ w < r => u = w - r + 2 * S
  BY RingCount
<1>4. u > 0 /\ (w - v) % (2 * S) = u - 1
  <2> DEFINE a == (w - v) % (2 * S)
  <2>1. /\ v <= w => a = w - v
        /\ w < v => a = w - v + 2 * S
        /\ r <= w => u = w - r
        /\ w < r => u = w - r + 2 * S
    BY <1>2, <1>3
  <2> HIDE DEF a
  <2>2. u > 0 /\ a = u - 1
    BY <1>1, <2>1
  <2>3. QED
    BY <2>2 DEF a
<1>5. QED
  BY <1>1, <1>4

\* The slots of the others stay the same.
LEMMA RingReadSlots ==
    ASSUME NEW S \in Nat \ {0}, NEW r \in 0 .. 2 * S - 1, NEW v \in Int,
           v = (r + 1) % (2 * S), NEW k \in 0 .. S - 1
    PROVE  (v + k) % S = (r + 1 + k) % S
<1>1. v = r + 1 \/ (v = 0 /\ r + 1 = 2 * S)
  <2> DEFINE m == 2 * S
             a == r + 1
  <2>1. m \in Nat \ {0} /\ a \in Int /\ 0 <= a /\ a <= m /\ v = a % m
    OBVIOUS
  <2>2. v = a \/ (v = 0 /\ a = m)
    <3> HIDE DEF m, a
    <3>1. /\ a < m => a % m = a
          /\ m <= a /\ a < 2 * m => a % m = a - m
      BY <2>1, ModFacts
    <3>2. QED
      BY <2>1, <3>1
  <2>3. QED
    BY <2>2
<1>2. CASE v = r + 1
  BY <1>2
<1>3. CASE v = 0 /\ r + 1 = 2 * S
  <2>1. k % S = k
    BY ModFacts
  <2>2. (2 * S + k) % S = k
    BY ModFacts
  <2>3. QED
    BY <1>3, <2>1, <2>2
<1>4. QED
  BY <1>1, <1>2, <1>3

-----------------------------------------------------------------------------
(***************************************************************************)
(* The unread characters as a sequence.                                    *)
(***************************************************************************)

\* UnreadChars is a sequence of characters, as long as the positions say.
LEMMA UnreadFacts ==
    ASSUME TypeOK, UnreadWritten
    PROVE  /\ Unread \in 0 .. STDIN_BUFSIZE
           /\ UnreadChars \in Seq(Char) /\ Len(UnreadChars) = Unread
           /\ \A i \in 1 .. Unread :
                UnreadChars[i] = stdin_buffer[(p_rpos + i - 1) % STDIN_BUFSIZE]
<1>1. Unread \in 0 .. STDIN_BUFSIZE
  BY StdinAssumption, RingCount DEF TypeOK, Unread, Modulus
<1>2. UnreadChars \in [1 .. Unread -> Char]
  BY DEF UnreadChars, UnreadWritten
<1>3. QED
  BY <1>1, <1>2, FunctionIsSeq DEF UnreadChars

\* A character typed is the last unread one; in a full buffer it replaces the
\* oldest one, whose slot is next.
LEMMA TypedFacts ==
    ASSUME TypeOK, UnreadWritten, NEW c \in Char, dev_stdin_write(c)
    PROVE  /\ stdin_buffer' \in [0 .. STDIN_BUFSIZE - 1 -> Char \cup {NUL}]
           /\ p_wpos' \in 0 .. Modulus - 1 /\ Unread' <= STDIN_BUFSIZE
           /\ UnreadWritten'
           /\ UnreadChars' = IF Len(UnreadChars) < STDIN_BUFSIZE
                               THEN Append(UnreadChars, c)
                               ELSE [UnreadChars EXCEPT ![1] = c]
<1> USE StdinAssumption
<1> DEFINE S == STDIN_BUFSIZE
           r == p_rpos
           w == p_wpos
           u == Unread
<1>0. /\ S \in Nat \ {0} /\ r \in 0 .. 2 * S - 1 /\ w \in 0 .. 2 * S - 1
      /\ stdin_buffer \in [0 .. S - 1 -> Char \cup {NUL}]
      /\ u = (w - r) % (2 * S) /\ u \in 0 .. S
      /\ UnreadChars \in Seq(Char) /\ Len(UnreadChars) = u
      /\ \A i \in 1 .. u : UnreadChars[i] = stdin_buffer[(r + (i - 1)) % S]
  <2>1. \A i \in 1 .. u : UnreadChars[i] = stdin_buffer[(r + i - 1) % S]
    BY UnreadFacts
  <2>2. \A i \in 1 .. u : r + i - 1 = r + (i - 1)
    BY UnreadFacts DEF TypeOK
  <2>3. QED
    BY <2>1, <2>2, UnreadFacts DEF TypeOK, Unread, Modulus
<1>1. /\ stdin_buffer' = [stdin_buffer EXCEPT ![w % S] = c]
      /\ w' = IF u < S THEN (w + 1) % (2 * S) ELSE w
      /\ r' = r
  BY DEF dev_stdin_write, Modulus
<1>2. /\ \A k \in 0 .. S : (r + k) % S \in 0 .. S - 1
      /\ \A j, k \in 0 .. S - 1 : (r + j) % S = (r + k) % S => j = k
      /\ (r + S) % S = r % S /\ r = r + 0
      /\ w % S = (r + u) % S
  <2> HIDE DEF S, r, w, u
  <2>1. r = r + 0
    BY <1>0
  <2>2. w % S = (r + u) % S
    BY <1>0, RingWriteSlot
  <2>3. QED
    BY <1>0, <2>1, <2>2, RingSlots
<1>3. stdin_buffer' \in [0 .. S - 1 -> Char \cup {NUL}]
  BY <1>0, <1>1
<1>4. /\ w' \in 0 .. Modulus - 1
      /\ u' = IF u < S THEN u + 1 ELSE S
  <2>1. CASE u < S
    <3>1. w' \in 0 .. 2 * S - 1 /\ (w' - r) % (2 * S) = u + 1
      BY <1>0, <1>1, <2>1, RingWrite
    <3>2. QED
      BY <1>1, <2>1, <3>1 DEF Unread, Modulus
  <2>2. CASE ~(u < S)
    BY <1>0, <1>1, <2>2 DEF Unread, Modulus
  <2>3. QED
    BY <2>1, <2>2
<1> DEFINE t == IF u < S THEN Append(UnreadChars, c) ELSE [UnreadChars EXCEPT ![1] = c]
<1>5. t \in Seq(Char) /\ Len(t) = u'
  <2>1. CASE u < S
    BY <1>0, <1>4, <2>1, AppendProperties
  <2>2. CASE ~(u < S)
    BY <1>0, <1>4, <2>2, ExceptSeq
  <2>3. QED
    BY <2>1, <2>2
<1>6. ASSUME NEW i \in 1 .. u' PROVE stdin_buffer'[(r' + i - 1) % S] = t[i]
  <2>0. i - 1 \in 0 .. S - 1 /\ r' + i - 1 = r + (i - 1) /\ (r + (i - 1)) % S \in 0 .. S - 1
    <3>1. i - 1 \in 0 .. S - 1 /\ r' + i - 1 = r + (i - 1)
      BY <1>0, <1>1, <1>4
    <3>2. QED
      BY <1>2, <3>1
  <2>1. CASE u < S /\ i = u + 1
    <3>1. (r + (i - 1)) % S = w % S
      BY <1>0, <1>2, <2>1
    <3>2. t[i] = c
      BY <1>0, <2>1, AppendProperties
    <3>3. QED
      BY <1>0, <1>1, <2>0, <3>1, <3>2
  <2>2. CASE u < S /\ i # u + 1
    <3>1. i \in 1 .. u /\ i - 1 # u /\ u \in 0 .. S - 1
      BY <1>0, <1>4, <2>2
    <3>2. (r + (i - 1)) % S # w % S
      BY <1>2, <2>0, <3>1
    <3>3. t[i] = UnreadChars[i]
      BY <1>0, <2>2, <3>1, AppendProperties
    <3>4. QED
      BY <1>0, <1>1, <2>0, <3>1, <3>2, <3>3
  <2>3. CASE ~(u < S) /\ i = 1
    <3>1. (r + (i - 1)) % S = w % S /\ 1 \in 1 .. Len(UnreadChars)
      <4>1. u = S /\ i - 1 = 0
        BY <1>0, <2>3
      <4>2. w % S = (r + 0) % S
        BY <1>2, <4>1
      <4>3. QED
        BY <1>0, <4>1, <4>2
    <3>2. t[i] = c
      BY <1>0, <2>3, <3>1, ExceptSeq
    <3>3. QED
      BY <1>0, <1>1, <2>0, <3>1, <3>2
  <2>4. CASE ~(u < S) /\ i # 1
    <3>1. i \in 1 .. u /\ 1 \in 1 .. Len(UnreadChars) /\ u = S /\ i - 1 # 0 /\ 0 \in 0 .. S - 1
      BY <1>0, <1>4, <2>4
    <3>2. (r + (i - 1)) % S # w % S
      BY <1>2, <2>0, <3>1
    <3>3. t[i] = UnreadChars[i]
      BY <1>0, <2>4, <3>1, ExceptSeq
    <3>4. QED
      BY <1>0, <1>1, <2>0, <3>1, <3>2, <3>3
  <2>5. QED
    BY <2>1, <2>2, <2>3, <2>4
<1>7. u' \in Nat /\ u' <= S
  BY <1>0, <1>4
<1> HIDE DEF t
<1>8. \A i \in 1 .. u' : t[i] \in Char
  BY <1>5, ElementOfSeq
<1>9. UnreadWritten'
  BY <1>6, <1>8 DEF UnreadWritten
<1>10. UnreadChars' = t
  <2>1. /\ UnreadChars' \in [1 .. u' -> Char]
        /\ \A i \in 1 .. u' : UnreadChars'[i] = t[i]
    BY <1>6, <1>8 DEF UnreadChars
  <2>2. UnreadChars' \in Seq(Char) /\ Len(UnreadChars') = u'
    BY <1>7, <2>1, FunctionIsSeq
  <2>3. QED
    BY <1>5, <2>1, <2>2, SeqEqual
<1>11. QED
  BY <1>0, <1>3, <1>4, <1>7, <1>9, <1>10 DEF t

\* Reading takes the oldest unread character.
LEMMA CopiedFacts ==
    ASSUME TypeOK, UnreadWritten, NEW p \in Proc, CopyChar(p)
    PROVE  /\ p_rpos' \in 0 .. Modulus - 1 /\ Unread' <= STDIN_BUFSIZE
           /\ Unread > 0 /\ UnreadChars # <<>>
           /\ UnreadWritten'
           /\ stdin_buffer[p_rpos % STDIN_BUFSIZE] = Head(UnreadChars)
           /\ Head(UnreadChars) \in Char
           /\ UnreadChars' = Tail(UnreadChars)
<1> USE StdinAssumption
<1> DEFINE S == STDIN_BUFSIZE
           r == p_rpos
           w == p_wpos
           u == Unread
<1>0. /\ S \in Nat \ {0} /\ r \in 0 .. 2 * S - 1 /\ w \in 0 .. 2 * S - 1
      /\ u = (w - r) % (2 * S) /\ u \in 0 .. S
      /\ UnreadChars \in Seq(Char) /\ Len(UnreadChars) = u
      /\ \A i \in 1 .. u : UnreadChars[i] = stdin_buffer[(r + i - 1) % S]
  BY UnreadFacts DEF TypeOK, Unread, Modulus
<1>1. r # w /\ r' = (r + 1) % (2 * S) /\ w' = w /\ stdin_buffer' = stdin_buffer
  BY DEF CopyChar, Modulus
<1>2. /\ r' \in 0 .. 2 * S - 1 /\ u > 0
      /\ (w - r') % (2 * S) = u - 1
      /\ \A k \in 0 .. S - 1 : (r' + k) % S = (r + 1 + k) % S
  <2> DEFINE v == (r + 1) % (2 * S)
  <2>1. /\ v \in 0 .. 2 * S - 1 /\ u > 0
        /\ (w - v) % (2 * S) = u - 1
        /\ \A k \in 0 .. S - 1 : (v + k) % S = (r + 1 + k) % S
    <3> HIDE DEF S, r, w, u
    <3>1. v = (r + 1) % (2 * S) /\ v \in Int
      BY <1>0
    <3> HIDE DEF v
    <3>2. /\ S \in Nat \ {0} /\ r \in 0 .. 2 * S - 1 /\ w \in 0 .. 2 * S - 1
          /\ r # w /\ u = (w - r) % (2 * S) /\ u \in Int
      BY <1>0, <1>1
    <3>3. /\ v \in 0 .. 2 * S - 1
          /\ u > 0
          /\ (w - v) % (2 * S) = u - 1
      BY <3>1, <3>2, RingRead
    <3>4. ASSUME NEW k \in 0 .. S - 1 PROVE (v + k) % S = (r + 1 + k) % S
      BY <3>1, <3>2, RingReadSlots
    <3>5. QED
      BY <3>3, <3>4
  <2>2. r' = v
    BY <1>1
  <2> HIDE DEF v
  <2>3. QED
    BY <2>1, <2>2
<1>3. u' = u - 1
  BY <1>1, <1>2 DEF Unread, Modulus
<1>4. UnreadChars # <<>> /\ Head(UnreadChars) = UnreadChars[1] /\ 1 \in 1 .. u
  BY <1>0, <1>2, EmptySeq
<1>5. stdin_buffer[r % S] = Head(UnreadChars)
  <2>1. r + 1 - 1 = r
    BY <1>0
  <2>2. QED
    BY <1>0, <1>4, <2>1
<1>6. /\ Head(UnreadChars) \in Char
      /\ Tail(UnreadChars) \in Seq(Char) /\ Len(Tail(UnreadChars)) = u'
      /\ \A i \in 1 .. u' : Tail(UnreadChars)[i] = UnreadChars[i + 1]
  BY <1>0, <1>3, <1>4, HeadTailProperties
<1>7. ASSUME NEW i \in 1 .. u' PROVE stdin_buffer'[(r' + i - 1) % S] = Tail(UnreadChars)[i]
  <2>1. /\ i - 1 \in 0 .. S - 1 /\ i + 1 \in 1 .. u
        /\ r' + (i - 1) = r' + i - 1 /\ r + 1 + (i - 1) = r + (i + 1) - 1
    BY <1>0, <1>2, <1>3
  <2>2. (r' + (i - 1)) % S = (r + 1 + (i - 1)) % S
    BY <1>2, <2>1
  <2>3. stdin_buffer[(r + (i + 1) - 1) % S] = UnreadChars[i + 1]
    BY <1>0, <2>1
  <2>4. QED
    BY <1>1, <1>6, <2>1, <2>2, <2>3
<1>8. u' \in Nat /\ u' <= S
  BY <1>0, <1>2, <1>3
<1>9. \A i \in 1 .. u' : Tail(UnreadChars)[i] \in Char
  BY <1>6, ElementOfSeq
<1>10. UnreadWritten'
  BY <1>7, <1>9 DEF UnreadWritten
<1>11. UnreadChars' = Tail(UnreadChars)
  <2>1. /\ UnreadChars' \in [1 .. u' -> Char]
        /\ \A i \in 1 .. u' : UnreadChars'[i] = Tail(UnreadChars)[i]
    BY <1>7, <1>9 DEF UnreadChars
  <2>2. UnreadChars' \in Seq(Char) /\ Len(UnreadChars') = u'
    BY <1>8, <2>1, FunctionIsSeq
  <2>3. QED
    BY <1>6, <2>1, <2>2, SeqEqual
<1>12. QED
  BY <1>2, <1>4, <1>5, <1>6, <1>8, <1>10, <1>11 DEF Modulus

-----------------------------------------------------------------------------
Waiting == {"read.schedule", "read.woken"}

\* Without a change to the buffer the unread characters stay.
LEMMA RingKept ==
    ASSUME UNCHANGED ring
    PROVE  /\ UNCHANGED <<stdin_buffer, p_rpos, p_wpos, Unread, UnreadChars>>
           /\ UnreadWritten => UnreadWritten'
BY DEF ring, Unread, UnreadChars, UnreadWritten

\* A process calls schedule() and will go on at loc, in the kernel or in user mode.
LEMMA SwitchKeeps ==
    ASSUME IInv, NEW p \in Proc, intr = "none", current = p, schedule,
           NEW loc \in {"read.woken", "gone", "user"},
           pc' = [pc EXCEPT ![p] = loc], pc[p] \in Waiting => loc \in Waiting,
           UNCHANGED <<state, wait_state, ring, queue, call, exiting, intr>>
    PROVE  IInv'
<1> USE SchedAssumption DEF Thread
<1>0. /\ SchedTypeOK /\ RunQueueOK /\ NoSleepOnInput /\ WaitFramesLive /\ OwnerRunnable
      /\ InterruptedInUser /\ WaitersAsleep /\ UnreadWritten /\ TypeOK
      /\ Range(wait_queue) \subseteq Proc
  BY RangeFacts DEF IInv, TypeOK
<1>1. /\ SchedTypeOK' /\ RunQueueOK'
      /\ current' \in Proc => state[current'] = "RUNNABLE"
  BY <1>0, ScheduleFacts
<1>2. /\ UNCHANGED <<stdin_buffer, p_rpos, p_wpos, Unread>> /\ UnreadWritten'
  BY <1>0, RingKept
<1>3. TypeOK'
  BY <1>0, <1>1, <1>2 DEF TypeOK, queue, call
<1>4. NoSleepOnInput' /\ WaitersAsleep' /\ InterruptedInUser'
  BY <1>0, <1>2 DEF NoSleepOnInput, WaitersAsleep, InterruptedInUser, queue
<1>5. WaitFramesLive'
  BY <1>0, <1>3 DEF WaitFramesLive, TypeOK, queue, Waiting
<1>6. OwnerRunnable'
  BY <1>1 DEF OwnerRunnable
<1>7. QED
  BY <1>1, <1>2, <1>3, <1>4, <1>5, <1>6 DEF IInv

\* wakeup_proc of any process leaves the device alone; the process it wakes is
\* not marked as waiting any more.
LEMMA WakeKeeps ==
    ASSUME IInv, NEW q \in Proc, wakeup_proc(q), UNCHANGED <<current, need_resched>>
    PROVE  /\ SchedTypeOK' /\ RunQueueOK'
           /\ \A p \in Proc : wait_state'[p] = "WT_KBD" => /\ p # q
                                                          /\ wait_state[p] = "WT_KBD"
                                                          /\ state'[p] = "SLEEPING"
           /\ \A p \in Proc : state[p] = "RUNNABLE" => state'[p] = "RUNNABLE"
<1> USE SchedAssumption DEF Thread
<1>0. SchedTypeOK /\ RunQueueOK /\ WaitersAsleep
  BY DEF IInv, TypeOK
<1>1. /\ SchedTypeOK' /\ RunQueueOK'
      /\ state' = [state EXCEPT ![q] = "RUNNABLE"]
  BY <1>0, WakeupFacts
<1>2. /\ \A p \in Thread : p # q => wait_state'[p] = wait_state[p]
      /\ state[q] = "RUNNABLE" => wait_state' = wait_state
      /\ state[q] # "RUNNABLE" => wait_state'[q] = "none"
  BY <1>0, WakeupWaitState
<1>3. wait_state'[q] # "WT_KBD"
  BY <1>0, <1>2 DEF WaitersAsleep
<1>4. QED
  BY <1>0, <1>1, <1>2, <1>3 DEF WaitersAsleep, SchedTypeOK

\* Nothing has been typed and nobody reads.
LEMMA InitIInv == Init => IInv
<1> SUFFICES ASSUME Init PROVE IInv
  OBVIOUS
<1> USE SchedAssumption, StdinAssumption DEF Thread
<1>1. run_list \in Seq(Proc) /\ IsInjective(run_list) /\ Range(run_list) = Proc
  BY ListingFacts DEF Init
<1>2. Unread = 0
  BY RingCount DEF Init, Unread, Modulus
<1>3. TypeOK
  <2>1. SchedTypeOK
    BY <1>1 DEF Init, SchedTypeOK, ProcState, WaitState
  <2>2. p_rpos \in 0 .. Modulus - 1 /\ p_wpos \in 0 .. Modulus - 1 /\ Unread <= STDIN_BUFSIZE
    BY <1>2 DEF Init, Modulus
  <2>3. wait_queue \in Seq(Proc) /\ buf \in [Proc -> Seq(Char)]
        /\ \A p \in Proc : Len(buf[p]) <= MaxLen
    BY EmptySeq DEF Init
  <2>4. QED
    BY <2>1, <2>2, <2>3 DEF Init, TypeOK
<1>4. Range(wait_queue) = {} /\ IsInjective(wait_queue)
  BY DEF Init, Range, IsInjective
<1>5. QED
  BY <1>1, <1>2, <1>3, <1>4 DEF Init, IInv, RunQueueOK, NoSleepOnInput, WaitFramesLive,
       OwnerRunnable, InterruptedInUser, WaitersAsleep, UnreadWritten

\* One step per action.
LEMMA NextIInv == IInv /\ [Next]_vars => IInv'
<1> SUFFICES ASSUME IInv, [Next]_vars PROVE IInv'
  OBVIOUS
<1> USE SchedAssumption, StdinAssumption DEF Thread
<1>0. /\ SchedTypeOK /\ RunQueueOK /\ NoSleepOnInput /\ WaitFramesLive /\ OwnerRunnable
      /\ InterruptedInUser /\ WaitersAsleep /\ UnreadWritten /\ TypeOK
      /\ Range(wait_queue) \subseteq Proc
  BY RangeFacts DEF IInv, TypeOK
<1>1. CASE Tick
  <2>1. /\ intr = "none" /\ intr' = "write" /\ sched_class_proc_tick
        /\ UNCHANGED <<state, wait_state, run_list, current, ring, queue, call, exiting, pc>>
    BY <1>1 DEF Tick
  <2>2. \A p \in Proc : current = p => pc[p] = "user"
    BY <1>1 DEF Tick, Interruptible, At
  <2>3. SchedTypeOK' /\ RunQueueOK'
    BY <1>0, <2>1, TickFacts
  <2>4. UNCHANGED <<stdin_buffer, p_rpos, p_wpos, Unread>> /\ UnreadWritten'
    BY <1>0, <2>1, RingKept
  <2>5. TypeOK'
    BY <1>0, <2>1, <2>3, <2>4 DEF TypeOK, queue, call
  <2>6. QED
    BY <1>0, <2>1, <2>2, <2>3, <2>4, <2>5 DEF IInv, NoSleepOnInput, WaitFramesLive,
         OwnerRunnable, InterruptedInUser, WaitersAsleep, queue
<1>2. ASSUME NEW c \in Char, dev_stdin_write(c) PROVE IInv'
  <2>1. /\ intr = "write" /\ intr' = "wakeup"
        /\ UNCHANGED <<sched_vars, p_rpos, queue, call, exiting, pc>>
    BY <1>2 DEF dev_stdin_write
  <2>2. /\ stdin_buffer' \in [0 .. STDIN_BUFSIZE - 1 -> Char \cup {NUL}]
        /\ p_wpos' \in 0 .. Modulus - 1 /\ Unread' <= STDIN_BUFSIZE
        /\ UnreadWritten'
    BY <1>0, <1>2, TypedFacts
  <2>3. TypeOK' /\ RunQueueOK'
    BY <1>0, <2>1, <2>2 DEF TypeOK, SchedTypeOK, RunQueueOK, sched_vars, queue, call, Modulus
  <2>4. QED
    BY <1>0, <2>1, <2>2, <2>3 DEF IInv, NoSleepOnInput, WaitFramesLive, OwnerRunnable,
         InterruptedInUser, WaitersAsleep, queue, sched_vars
<1>3. CASE NoInput
  <2>1. /\ intr = "write" /\ intr' = "done"
        /\ UNCHANGED <<sched_vars, ring, queue, call, exiting, pc>>
    BY <1>3 DEF NoInput
  <2>2. UNCHANGED <<stdin_buffer, p_rpos, p_wpos, Unread>> /\ UnreadWritten'
    BY <1>0, <2>1, RingKept
  <2>3. TypeOK' /\ RunQueueOK'
    BY <1>0, <2>1, <2>2 DEF TypeOK, SchedTypeOK, RunQueueOK, sched_vars, queue, call
  <2>4. QED
    BY <1>0, <2>1, <2>2, <2>3 DEF IInv, NoSleepOnInput, WaitFramesLive, OwnerRunnable,
         InterruptedInUser, WaitersAsleep, queue, sched_vars
<1>4. CASE wakeup_queue
  <2>1. /\ intr = "wakeup"
        /\ UNCHANGED <<current, need_resched, ring, call, exiting, pc>>
    BY <1>4 DEF wakeup_queue
  <2>2. UNCHANGED <<stdin_buffer, p_rpos, p_wpos, Unread>> /\ UnreadWritten'
    BY <1>0, <2>1, RingKept
  <2>3. CASE wait_queue = <<>>
    <3>1. intr' = "done" /\ UNCHANGED <<sched_vars, queue>>
      BY <1>4, <2>3 DEF wakeup_queue, sched_vars
    <3>2. TypeOK' /\ RunQueueOK'
      BY <1>0, <2>1, <2>2, <3>1 DEF TypeOK, SchedTypeOK, RunQueueOK, sched_vars, queue, call
    <3>3. QED
      BY <1>0, <2>1, <2>2, <2>3, <3>1, <3>2 DEF IInv, NoSleepOnInput, WaitFramesLive,
           OwnerRunnable, InterruptedInUser, WaitersAsleep, queue, sched_vars
  <2>4. CASE wait_queue # <<>>
    <3> DEFINE first == Head(wait_queue)
    <3>1. /\ wait_queue' = Tail(wait_queue)
          /\ wakeup_flags' = [wakeup_flags EXCEPT ![first] = "WT_KBD"]
          /\ wakeup_proc(first) /\ intr' = intr
      BY <1>4, <2>4 DEF wakeup_queue
    <3>2. /\ first \in Proc
          /\ Tail(wait_queue) \in Seq(Proc) /\ IsInjective(Tail(wait_queue))
          /\ Range(wait_queue) = Range(Tail(wait_queue)) \cup {first}
      <4>1. wait_queue \in Seq(Proc) /\ IsInjective(wait_queue)
        BY <1>0 DEF TypeOK, WaitFramesLive
      <4>2. QED
        BY <2>4, <4>1, TailFacts
    <3> HIDE DEF first
    <3>3. /\ SchedTypeOK' /\ RunQueueOK'
          /\ \A p \in Proc : wait_state'[p] = "WT_KBD" => /\ p # first
                                                         /\ wait_state[p] = "WT_KBD"
                                                         /\ state'[p] = "SLEEPING"
          /\ \A p \in Proc : state[p] = "RUNNABLE" => state'[p] = "RUNNABLE"
      BY <2>1, <3>1, <3>2, WakeKeeps
    <3>4. TypeOK'
      BY <1>0, <2>1, <2>2, <3>1, <3>2, <3>3 DEF TypeOK, call
    <3>5. NoSleepOnInput' /\ WaitFramesLive' /\ WaitersAsleep'
      BY <1>0, <2>1, <3>1, <3>2, <3>3, <3>4 DEF NoSleepOnInput, WaitFramesLive, WaitersAsleep
    <3>6. OwnerRunnable' /\ InterruptedInUser'
      BY <1>0, <2>1, <3>1, <3>3 DEF OwnerRunnable, InterruptedInUser
    <3>7. QED
      BY <2>2, <3>3, <3>4, <3>5, <3>6 DEF IInv
  <2>5. QED
    BY <2>3, <2>4
<1>5. CASE InterruptDone
  <2>1. /\ intr = "done" /\ intr' = "none"
        /\ pc' = IF current = idleproc THEN pc ELSE [pc EXCEPT ![current] = "trap.return"]
        /\ UNCHANGED <<sched_vars, ring, queue, call, exiting>>
    BY <1>5 DEF InterruptDone
  <2>2. UNCHANGED <<stdin_buffer, p_rpos, p_wpos, Unread>> /\ UnreadWritten'
    BY <1>0, <2>1, RingKept
  <2>3. /\ \A p \in Proc : p # current => pc'[p] = pc[p]
        /\ \A p \in Proc : p = current => pc[p] = "user" /\ pc'[p] = "trap.return"
    BY <1>0, <2>1 DEF TypeOK, InterruptedInUser
  <2>4. TypeOK' /\ RunQueueOK'
    BY <1>0, <2>1, <2>2 DEF TypeOK, SchedTypeOK, RunQueueOK, sched_vars, queue, call
  <2>5. WaitFramesLive'
    <3>1. \A p \in Range(wait_queue) : p \in Proc /\ p # current
      BY <1>0, <2>3 DEF WaitFramesLive, TypeOK
    <3>2. QED
      BY <1>0, <2>1, <2>3, <2>4, <3>1 DEF WaitFramesLive, queue
  <2>6. QED
    BY <1>0, <2>1, <2>2, <2>3, <2>4, <2>5 DEF IInv, NoSleepOnInput, OwnerRunnable,
         InterruptedInUser, WaitersAsleep, queue, sched_vars
<1>6. ASSUME NEW p \in Proc, NEW n \in 1 .. MaxLen, sys_read(p, n) PROVE IInv'
  <2>1. /\ intr = "none" /\ current = p /\ pc[p] = "user"
        /\ len' = [len EXCEPT ![p] = n] /\ buf' = [buf EXCEPT ![p] = <<>>]
        /\ pc' = [pc EXCEPT ![p] = "read"]
        /\ UNCHANGED <<sched_vars, ring, queue, exiting, intr>>
    BY <1>6 DEF sys_read, At, Goto
  <2>2. UNCHANGED <<stdin_buffer, p_rpos, p_wpos, Unread>> /\ UnreadWritten'
    BY <1>0, <2>1, RingKept
  <2>3. /\ buf' \in [Proc -> Seq(Char)] /\ \A q \in Proc : Len(buf'[q]) <= MaxLen
        /\ len' \in [Proc -> 0 .. MaxLen]
    BY <1>0, <2>1, EmptySeq DEF TypeOK
  <2>4. TypeOK' /\ RunQueueOK'
    BY <1>0, <2>1, <2>2, <2>3 DEF TypeOK, SchedTypeOK, RunQueueOK, sched_vars, queue
  <2>5. WaitFramesLive'
    BY <1>0, <2>1, <2>4 DEF WaitFramesLive, TypeOK, queue
  <2>6. QED
    BY <1>0, <2>1, <2>2, <2>4, <2>5 DEF IInv, NoSleepOnInput, OwnerRunnable, TypeOK,
         InterruptedInUser, WaitersAsleep, queue, sched_vars
<1>7. ASSUME NEW p \in Proc, CopyChar(p) PROVE IInv'
  <2>1. /\ intr = "none" /\ Len(buf[p]) < len[p]
        /\ buf' = [buf EXCEPT ![p] = Append(buf[p], stdin_buffer[p_rpos % STDIN_BUFSIZE])]
        /\ UNCHANGED <<sched_vars, stdin_buffer, p_wpos, queue, len, exiting, pc, intr>>
    BY <1>7 DEF CopyChar, At
  <2>2. /\ p_rpos' \in 0 .. Modulus - 1 /\ Unread' <= STDIN_BUFSIZE
        /\ Unread > 0 /\ UnreadWritten'
        /\ stdin_buffer[p_rpos % STDIN_BUFSIZE] \in Char
    BY <1>0, <1>7, CopiedFacts
  <2>3. buf' \in [Proc -> Seq(Char)] /\ \A q \in Proc : Len(buf'[q]) <= MaxLen
    <3> DEFINE c == stdin_buffer[p_rpos % STDIN_BUFSIZE]
    <3>1. c \in Char /\ buf[p] \in Seq(Char) /\ len[p] \in 0 .. MaxLen
      BY <1>0, <2>2 DEF TypeOK
    <3> HIDE DEF c
    <3>2. Append(buf[p], c) \in Seq(Char) /\ Len(Append(buf[p], c)) <= MaxLen
      BY <2>1, <3>1, AppendProperties, LenProperties
    <3>3. buf' = [buf EXCEPT ![p] = Append(buf[p], c)]
      BY <2>1 DEF c
    <3>4. QED
      BY <1>0, <3>2, <3>3 DEF TypeOK
  <2>4. TypeOK' /\ RunQueueOK'
    BY <1>0, <2>1, <2>2, <2>3 DEF TypeOK, SchedTypeOK, RunQueueOK, sched_vars, queue, Modulus
  <2>5. wait_queue = <<>>
    BY <1>0, <2>1, <2>2 DEF NoSleepOnInput
  <2>6. QED
    BY <1>0, <2>1, <2>2, <2>4, <2>5 DEF IInv, NoSleepOnInput, WaitFramesLive, OwnerRunnable,
         InterruptedInUser, WaitersAsleep, queue, sched_vars
<1>8. ASSUME NEW p \in Proc, WaitForChar(p) PROVE IInv'
  <2>1. /\ intr = "none" /\ current = p /\ pc[p] = "read" /\ p_rpos = p_wpos
        /\ wait_queue' = Append(wait_queue, p)
        /\ wakeup_flags' = [wakeup_flags EXCEPT ![p] = "WT_INTERRUPTED"]
        /\ state' = [state EXCEPT ![p] = "SLEEPING"]
        /\ wait_state' = [wait_state EXCEPT ![p] = "WT_KBD"]
        /\ pc' = [pc EXCEPT ![p] = "read.schedule"]
        /\ UNCHANGED <<run_list, current, need_resched, time_slice, ring, call, exiting, intr>>
    BY <1>8 DEF WaitForChar, At, Goto
  <2>2. UNCHANGED <<stdin_buffer, p_rpos, p_wpos, Unread>> /\ UnreadWritten'
    BY <1>0, <2>1, RingKept
  <2>3. Unread = 0
    BY <1>0, <2>1, RingCount DEF TypeOK, Unread, Modulus
  <2>4. p \notin Range(wait_queue)
    BY <1>0, <2>1 DEF WaitFramesLive
  <2>5. /\ wait_queue' \in Seq(Proc) /\ IsInjective(wait_queue')
        /\ Range(wait_queue') = Range(wait_queue) \cup {p}
    <3>1. wait_queue \in Seq(Proc) /\ IsInjective(wait_queue)
      BY <1>0 DEF TypeOK, WaitFramesLive
    <3>2. QED
      BY <2>1, <2>4, <3>1, AppendFacts
  <2>6. SchedTypeOK' /\ RunQueueOK'
    BY <1>0, <2>1 DEF SchedTypeOK, RunQueueOK, ProcState, WaitState
  <2>7. TypeOK'
    BY <1>0, <2>1, <2>2, <2>5, <2>6 DEF TypeOK, call
  <2>8. NoSleepOnInput' /\ WaitersAsleep'
    BY <1>0, <2>1, <2>2, <2>3, <2>5 DEF NoSleepOnInput, WaitersAsleep, SchedTypeOK
  <2>9. WaitFramesLive'
    BY <1>0, <2>1, <2>5, <2>7 DEF WaitFramesLive, TypeOK
  <2>10. OwnerRunnable' /\ InterruptedInUser'
    BY <1>0, <2>1 DEF OwnerRunnable, InterruptedInUser, TypeOK
  <2>11. QED
    BY <2>2, <2>6, <2>7, <2>8, <2>9, <2>10 DEF IInv
<1>9. ASSUME NEW p \in Proc, ReadSwitch(p) PROVE IInv'
  BY <1>9, SwitchKeeps DEF ReadSwitch, At, Goto, Waiting
<1>10. ASSUME NEW p \in Proc, ReadWoken(p) PROVE IInv'
  <2> DEFINE loc == IF wakeup_flags[p] = "WT_KBD" THEN "read" ELSE "trap.return"
  <2>1. /\ intr = "none" /\ current = p /\ pc[p] = "read.woken"
        /\ wait_queue' = Unqueued(p)
        /\ pc' = [pc EXCEPT ![p] = loc]
        /\ len' = len \/ len' = [len EXCEPT ![p] = 0]
        /\ UNCHANGED <<sched_vars, ring, wakeup_flags, buf, exiting, intr>>
    BY <1>10 DEF ReadWoken, At, Goto
  <2>2. UNCHANGED <<stdin_buffer, p_rpos, p_wpos, Unread>> /\ UnreadWritten'
    BY <1>0, <2>1, RingKept
  <2>3. wait_queue \in Seq(Proc) /\ IsInjective(wait_queue)
    BY <1>0 DEF TypeOK, WaitFramesLive
  <2>4. /\ wait_queue' \in Seq(Proc) /\ IsInjective(wait_queue')
        /\ Range(wait_queue') = Range(wait_queue) \ {p}
    <3>1. CASE p \notin Range(wait_queue)
      BY <2>1, <2>3, <3>1 DEF Unqueued
    <3>2. CASE p \in Range(wait_queue)
      <4> DEFINE i == CHOOSE k \in 1 .. Len(wait_queue) : wait_queue[k] = p
      <4>1. \E k \in 1 .. Len(wait_queue) : wait_queue[k] = p
        BY <2>3, <3>2, LenProperties DEF Range
      <4>2. i \in 1 .. Len(wait_queue) /\ wait_queue[i] = p
        BY <4>1
      <4>3. wait_queue' = RemoveAt(wait_queue, i)
        BY <2>1, <3>2 DEF Unqueued
      <4> HIDE DEF i
      <4>4. QED
        BY <2>3, <4>2, <4>3, RemoveAtFacts
    <3>3. QED
      BY <3>1, <3>2
  <2>5. wait_queue' # <<>> => wait_queue # <<>>
    <3>1. wait_queue = <<>> => p \notin Range(wait_queue)
      BY DEF Range
    <3>2. QED
      BY <2>1, <3>1 DEF Unqueued
  <2>6. state[p] = "RUNNABLE" /\ wait_state[p] # "WT_KBD"
    BY <1>0, <2>1 DEF OwnerRunnable, WaitersAsleep
  <2>7. TypeOK' /\ RunQueueOK'
    <3>1. pc' \in [Proc -> {"user", "trap.return", "read", "read.schedule", "read.woken",
                            "exit.schedule", "gone"}]
      BY <1>0, <2>1 DEF TypeOK
    <3>2. len' \in [Proc -> 0 .. MaxLen]
      <4>1. len \in [Proc -> 0 .. MaxLen] /\ 0 \in 0 .. MaxLen
        BY <1>0 DEF TypeOK
      <4>2. QED
        BY <2>1, <4>1
    <3>3. QED
      BY <1>0, <2>1, <2>2, <2>4, <3>1, <3>2 DEF TypeOK, SchedTypeOK, RunQueueOK, sched_vars
  <2>8. NoSleepOnInput' /\ WaitersAsleep'
    BY <1>0, <2>1, <2>2, <2>4, <2>5, <2>6 DEF NoSleepOnInput, WaitersAsleep, sched_vars
  <2>9. WaitFramesLive'
    BY <1>0, <2>1, <2>4, <2>7 DEF WaitFramesLive, TypeOK
  <2>10. OwnerRunnable' /\ InterruptedInUser'
    BY <1>0, <2>1, <2>6 DEF OwnerRunnable, InterruptedInUser, TypeOK, sched_vars
  <2>11. QED
    BY <2>2, <2>7, <2>8, <2>9, <2>10 DEF IInv
<1>11. ASSUME NEW p \in Proc, ReadReturn(p) PROVE IInv'
  <2>1. /\ intr = "none" /\ current = p /\ pc[p] = "read"
        /\ len' = [len EXCEPT ![p] = 0]
        /\ pc' = [pc EXCEPT ![p] = "trap.return"]
        /\ UNCHANGED <<sched_vars, ring, queue, buf, exiting, intr>>
    BY <1>11 DEF ReadReturn, At, Goto
  <2>2. UNCHANGED <<stdin_buffer, p_rpos, p_wpos, Unread>> /\ UnreadWritten'
    BY <1>0, <2>1, RingKept
  <2>3. TypeOK' /\ RunQueueOK'
    BY <1>0, <2>1, <2>2 DEF TypeOK, SchedTypeOK, RunQueueOK, sched_vars, queue
  <2>4. WaitFramesLive'
    BY <1>0, <2>1, <2>3 DEF WaitFramesLive, TypeOK, queue
  <2>5. QED
    BY <1>0, <2>1, <2>2, <2>3, <2>4 DEF IInv, NoSleepOnInput, OwnerRunnable, TypeOK,
         InterruptedInUser, WaitersAsleep, queue, sched_vars
<1>12. ASSUME NEW p \in Proc, NEW q \in Proc, do_kill(p, q) PROVE IInv'
  <2> DEFINE marks == state[q] # "ZOMBIE" /\ ~exiting[q]
  <2>1. /\ intr = "none" /\ current = p /\ pc[p] = "user"
        /\ exiting' = [exiting EXCEPT ![q] = marks \/ exiting[q]]
        /\ pc' = [pc EXCEPT ![p] = "trap.return"]
        /\ UNCHANGED <<current, need_resched, ring, queue, call, intr>>
    BY <1>12 DEF do_kill, At, Goto
  <2>2. UNCHANGED <<stdin_buffer, p_rpos, p_wpos, Unread>> /\ UnreadWritten'
    BY <1>0, <2>1, RingKept
  <2>3. exiting' \in [Proc -> BOOLEAN]
    <3>1. (marks \/ exiting[q]) \in BOOLEAN
      BY <1>0 DEF TypeOK
    <3> HIDE DEF marks
    <3>2. QED
      BY <1>0, <2>1, <3>1 DEF TypeOK
  <2>4. /\ SchedTypeOK' /\ RunQueueOK'
        /\ \A r \in Proc : wait_state'[r] = "WT_KBD" => /\ wait_state[r] = "WT_KBD"
                                                       /\ state'[r] = "SLEEPING"
        /\ \A r \in Proc : state[r] = "RUNNABLE" => state'[r] = "RUNNABLE"
    <3>1. CASE marks /\ wait_state[q] \in WT_INTERRUPTED
      <4>1. wakeup_proc(q)
        BY <1>12, <3>1 DEF do_kill
      <4>2. QED
        BY <2>1, <4>1, WakeKeeps
    <3>2. CASE ~(marks /\ wait_state[q] \in WT_INTERRUPTED)
      <4>1. UNCHANGED <<state, wait_state, run_list, time_slice>>
        BY <1>12, <3>2 DEF do_kill
      <4>2. QED
        BY <1>0, <2>1, <4>1 DEF SchedTypeOK, RunQueueOK, WaitersAsleep
    <3>3. QED
      BY <3>1, <3>2
  <2>5. TypeOK'
    BY <1>0, <2>1, <2>2, <2>3, <2>4 DEF TypeOK, queue, call
  <2>6. WaitFramesLive'
    BY <1>0, <2>1, <2>5 DEF WaitFramesLive, TypeOK, queue
  <2>7. NoSleepOnInput' /\ WaitersAsleep'
    BY <1>0, <2>1, <2>2, <2>4 DEF NoSleepOnInput, WaitersAsleep, queue
  <2>8. OwnerRunnable' /\ InterruptedInUser'
    BY <1>0, <2>1, <2>4 DEF OwnerRunnable, InterruptedInUser, TypeOK
  <2>9. QED
    BY <2>2, <2>4, <2>5, <2>6, <2>7, <2>8 DEF IInv
<1>13. ASSUME NEW p \in Proc, TrapExit(p) PROVE IInv'
  <2>1. /\ intr = "none" /\ current = p /\ pc[p] = "trap.return"
        /\ state' = [state EXCEPT ![p] = "ZOMBIE"]
        /\ pc' = [pc EXCEPT ![p] = "exit.schedule"]
        /\ UNCHANGED <<wait_state, run_list, current, need_resched, time_slice, ring, queue,
                       call, exiting, intr>>
    BY <1>13 DEF TrapExit, At, Goto
  <2>2. UNCHANGED <<stdin_buffer, p_rpos, p_wpos, Unread>> /\ UnreadWritten'
    BY <1>0, <2>1, RingKept
  <2>3. wait_state[p] # "WT_KBD"
    BY <1>0, <2>1 DEF OwnerRunnable, WaitersAsleep
  <2>4. SchedTypeOK' /\ RunQueueOK'
    BY <1>0, <2>1 DEF SchedTypeOK, RunQueueOK, ProcState
  <2>5. TypeOK'
    BY <1>0, <2>1, <2>2, <2>4 DEF TypeOK, queue, call
  <2>6. WaitFramesLive'
    BY <1>0, <2>1, <2>5 DEF WaitFramesLive, TypeOK, queue
  <2>7. NoSleepOnInput' /\ WaitersAsleep'
    BY <1>0, <2>1, <2>2, <2>3 DEF NoSleepOnInput, WaitersAsleep, queue, SchedTypeOK
  <2>8. OwnerRunnable' /\ InterruptedInUser'
    BY <1>0, <2>1 DEF OwnerRunnable, InterruptedInUser, TypeOK
  <2>9. QED
    BY <2>2, <2>4, <2>5, <2>6, <2>7, <2>8 DEF IInv
<1>14. ASSUME NEW p \in Proc, ExitSwitch(p) PROVE IInv'
  BY <1>14, SwitchKeeps DEF ExitSwitch, At, Goto, Waiting
<1>15. ASSUME NEW p \in Proc, TrapReturn(p) PROVE IInv'
  <2>1. CASE need_resched[p]
    BY <1>15, <2>1, SwitchKeeps DEF TrapReturn, At, Goto, Waiting
  <2>2. CASE ~need_resched[p]
    <3>1. /\ intr = "none" /\ current = p /\ pc[p] = "trap.return"
          /\ pc' = [pc EXCEPT ![p] = "user"]
          /\ UNCHANGED <<sched_vars, ring, queue, call, exiting, intr>>
      BY <1>15, <2>2 DEF TrapReturn, At, Goto, sched_vars
    <3>2. UNCHANGED <<stdin_buffer, p_rpos, p_wpos, Unread>> /\ UnreadWritten'
      BY <1>0, <3>1, RingKept
    <3>3. TypeOK' /\ RunQueueOK'
      BY <1>0, <3>1, <3>2 DEF TypeOK, SchedTypeOK, RunQueueOK, sched_vars, queue, call
    <3>4. WaitFramesLive'
      BY <1>0, <3>1, <3>3 DEF WaitFramesLive, TypeOK, queue
    <3>5. QED
      BY <1>0, <3>1, <3>2, <3>3, <3>4 DEF IInv, NoSleepOnInput, OwnerRunnable, TypeOK,
           InterruptedInUser, WaitersAsleep, queue, sched_vars
  <2>3. QED
    BY <2>1, <2>2
<1>16. CASE IdleLoop
  <2>1. /\ intr = "none" /\ schedule
        /\ UNCHANGED <<state, wait_state, ring, queue, call, exiting, pc, intr>>
    BY <1>16 DEF IdleLoop
  <2>2. /\ SchedTypeOK' /\ RunQueueOK'
        /\ current' \in Proc => state[current'] = "RUNNABLE"
    BY <1>0, <2>1, ScheduleFacts
  <2>3. UNCHANGED <<stdin_buffer, p_rpos, p_wpos, Unread>> /\ UnreadWritten'
    BY <1>0, <2>1, RingKept
  <2>4. TypeOK'
    BY <1>0, <2>1, <2>2, <2>3 DEF TypeOK, queue, call
  <2>5. QED
    BY <1>0, <2>1, <2>2, <2>3, <2>4 DEF IInv, NoSleepOnInput, WaitFramesLive, OwnerRunnable,
         InterruptedInUser, WaitersAsleep, queue
<1>17. CASE UNCHANGED vars
  <2>1. UNCHANGED <<sched_vars, ring, queue, call, exiting, pc, intr>>
    BY <1>17 DEF vars
  <2>2. UNCHANGED <<stdin_buffer, p_rpos, p_wpos, Unread>> /\ UnreadWritten'
    BY <1>0, <2>1, RingKept
  <2>3. TypeOK' /\ RunQueueOK'
    BY <1>0, <2>1, <2>2 DEF TypeOK, SchedTypeOK, RunQueueOK, sched_vars, queue, call
  <2>4. QED
    BY <1>0, <2>1, <2>2, <2>3 DEF IInv, NoSleepOnInput, WaitFramesLive, OwnerRunnable,
         InterruptedInUser, WaitersAsleep, queue, sched_vars
<1>18. QED
  BY <1>1, <1>2, <1>3, <1>4, <1>5, <1>6, <1>7, <1>8, <1>9, <1>10, <1>11, <1>12, <1>13,
     <1>14, <1>15, <1>16, <1>17 DEF Next, Handler, InKernel

-----------------------------------------------------------------------------
\* The inductive invariant holds in every reachable state.
THEOREM StdinInvariant == Spec => []IInv
<1>1. QED
  BY InitIInv, NextIInv, PTL DEF Spec

\* No reader sleeps on input: nobody waits while a character is unread, and every
\* process asleep in dev_stdin_read is where the next character looks for it.
THEOREM ReadersNotForgotten == Spec => []NoSleepOnInput
<1>1. IInv => NoSleepOnInput
  BY DEF IInv
<1>2. QED
  BY StdinInvariant, <1>1, PTL

\* No wait_t outlives the frame of dev_stdin_read it lies in, kills included.
THEOREM WaitFramesCorrect == Spec => []WaitFramesLive
<1>1. IInv => WaitFramesLive
  BY DEF IInv
<1>2. QED
  BY StdinInvariant, <1>1, PTL

-----------------------------------------------------------------------------
(***************************************************************************)
(* Refinement: sys_read begins a read of the channel, dev_stdin_write puts *)
(* a character into it, CopyChar takes one out; every other step is        *)
(* invisible there.                                                        *)
(***************************************************************************)
LEMMA InitChannel == Init => Channel!Init
<1> SUFFICES ASSUME Init PROVE Channel!Init
  OBVIOUS
<1>1. Len(UnreadChars) = 0 /\ UnreadChars \in Seq(Char)
  <2>1. TypeOK /\ UnreadWritten
    BY InitIInv DEF IInv
  <2>2. Unread = 0
    BY StdinAssumption, RingCount DEF Init, Unread, Modulus
  <2>3. QED
    BY <2>1, <2>2, UnreadFacts
<1>2. UnreadChars = <<>>
  BY <1>1, EmptySeq
<1>3. QED
  BY <1>2 DEF Init, Channel!Init

\* Every step writes, delivers or drops what the channel does, or changes nothing.
LEMMA NextChannel == IInv /\ [Next]_vars => [Channel!Next]_<<UnreadChars, buf>>
<1> SUFFICES ASSUME IInv, [Next]_vars PROVE [Channel!Next]_<<UnreadChars, buf>>
  OBVIOUS
<1>0. TypeOK /\ UnreadWritten
  BY DEF IInv
<1>1. ASSUME NEW c \in Char, dev_stdin_write(c) PROVE Channel!Next
  <2>1. UnreadChars' = IF Len(UnreadChars) < STDIN_BUFSIZE
                         THEN Append(UnreadChars, c)
                         ELSE [UnreadChars EXCEPT ![1] = c]
    BY <1>0, <1>1, TypedFacts
  <2>2. buf' = buf
    BY <1>1 DEF dev_stdin_write, call
  <2>3. Channel!Type(c)
    BY <2>1, <2>2 DEF Channel!Type
  <2>4. QED
    BY <2>3 DEF Channel!Next
<1>2. ASSUME NEW p \in Proc, NEW n \in 1 .. MaxLen, sys_read(p, n) PROVE Channel!Next
  <2>1. UnreadChars' = UnreadChars
    BY <1>2, RingKept DEF sys_read
  <2>2. Channel!Begin(p)
    BY <1>2, <2>1 DEF sys_read, Channel!Begin
  <2>3. QED
    BY <2>2 DEF Channel!Next
<1>3. ASSUME NEW p \in Proc, CopyChar(p) PROVE Channel!Next
  <2>1. /\ UnreadChars # <<>> /\ UnreadChars' = Tail(UnreadChars)
        /\ stdin_buffer[p_rpos % STDIN_BUFSIZE] = Head(UnreadChars)
    BY <1>0, <1>3, CopiedFacts
  <2>2. buf' = [buf EXCEPT ![p] = Append(buf[p], Head(UnreadChars))]
    BY <1>3, <2>1 DEF CopyChar
  <2>3. Channel!Take(p)
    BY <2>1, <2>2 DEF Channel!Take
  <2>4. QED
    BY <2>3 DEF Channel!Next
<1>4. ASSUME UNCHANGED <<ring, buf>> PROVE UNCHANGED <<UnreadChars, buf>>
  BY <1>4, RingKept
<1>5. ASSUME NEW p \in Proc,
             \/ WaitForChar(p) \/ ReadSwitch(p) \/ ReadWoken(p) \/ ReadReturn(p)
             \/ TrapExit(p) \/ ExitSwitch(p) \/ TrapReturn(p)
      PROVE  UNCHANGED <<ring, buf>>
  BY <1>5 DEF WaitForChar, ReadSwitch, ReadWoken, ReadReturn, TrapExit, ExitSwitch,
              TrapReturn, call
<1>6. ASSUME NEW p \in Proc, NEW q \in Proc, do_kill(p, q) PROVE UNCHANGED <<ring, buf>>
  BY <1>6 DEF do_kill, call
<1>7. ASSUME \/ Tick \/ NoInput \/ wakeup_queue \/ InterruptDone \/ IdleLoop
             \/ UNCHANGED vars
      PROVE  UNCHANGED <<ring, buf>>
  BY <1>7 DEF Tick, NoInput, wakeup_queue, InterruptDone, IdleLoop, vars, call
<1>8. QED
  BY <1>1, <1>2, <1>3, <1>4, <1>5, <1>6, <1>7 DEF Next, Handler, InKernel

\* The ring buffer, the interrupt and the readers implement a bounded channel:
\* every character typed is read by one reader, once and in the order of typing,
\* unless it came into a full buffer.
THEOREM StdinIsChannel == Spec => ImplementsChannel
<1>1. QED
  BY InitChannel, NextChannel, StdinInvariant, PTL
     DEF Spec, ImplementsChannel, Channel!Spec
=============================================================================
