----------------------------- MODULE ProcProofs -----------------------------
(***************************************************************************)
(* The process tree of proc.c, for every number of processes: the sibling  *)
(* lists stay lists of exactly the children, no exit notification is lost, *)
(* and init_main finds the table empty.  These proofs are about a do_fork  *)
(* whose copy_files succeeds (~FilesMayFail): the path on which it fails   *)
(* leaves a freed structure in the table, and the properties do not        *)
(* survive it.  The second part is get_pid, which stands by itself.        *)
(***************************************************************************)
EXTENDS Proc, GetPid, KernelLemmas

\* The children of p by their parent field, not by the lists.
Kids(p) == {c \in Proc : parent[c] = p}

\* first, o and y (cptr of the parent, optr, yptr) are the links of the list s; y
\* of the first entry is left open while its parent gives its children away.
Chained(s, first, o, y, exempt) ==
    /\ IsInjective(s)
    /\ first = IF s = <<>> THEN NULL ELSE s[1]
    /\ \A i \in 1 .. Len(s) : o[s[i]] = IF i = Len(s) THEN NULL ELSE s[i + 1]
    /\ \A i \in 1 .. Len(s) :
         ~(i = 1 /\ exempt) => y[s[i]] = IF i = 1 THEN NULL ELSE s[i - 1]

Exempt(p) == p \in Proc /\ pc[p] = "exit.reparent"

\* For every process there is a list of exactly its children.
Lists ==
    \A p \in Thread :
      \E s \in Seq(Proc) :
        Range(s) = Kids(p) /\ Chained(s, cptr[p], optr, yptr, Exempt(p))

\* Every process but initproc has a parent that exists; a free structure is linked
\* nowhere.
ParentsOK ==
    /\ initproc \in allocated /\ parent[initproc] = idleproc
    /\ \A p \in Proc \ allocated : parent[p] = NULL /\ pc[p] = "user"
    /\ \A p \in allocated \ {initproc} : parent[p] \in allocated

\* The parent relation has no cycle: there is a depth that grows downwards.
Depth(d) ==
    /\ d \in [Proc -> Nat] /\ d[initproc] = 0
    /\ \A p \in allocated \ {initproc} : d[parent[p]] < d[p]

Acyclic == \E d : Depth(d)

Dying == {"exit.notify", "exit.reparent"}

InitOnly == {"init.fork", "init.schedule", "init.done", "panic"}

\* Where the control of each process is, and what its state is there.
ControlOK ==
    /\ waitpid[initproc] = NULL
    /\ pc[initproc] \in InitOnly \cup {"wait.scan", "wait.schedule", "wait.woken", "exit"}
    /\ \A p \in User : pc[p] \notin InitOnly
    /\ \A p \in Proc :
         /\ current = p /\ pc[p] \notin Dying \cup {"wait.schedule"} => state[p] = "RUNNABLE"
         /\ pc[p] \in Dying => current = p
         /\ state[p] = "ZOMBIE" <=> pc[p] \in Dying \cup {"gone"}
         /\ state[p] = "UNINIT" <=> p \notin allocated
         /\ state[p] = "SLEEPING" => pc[p] \in {"wait.schedule", "wait.woken"}
         /\ wait_state[p] = IF state[p] = "SLEEPING" THEN "WT_CHILD" ELSE "none"

\* A process that is gone, and initproc once it has left its loop, has no child.
Childless == \A p \in Proc : pc[p] \in {"gone", "init.done"} => Kids(p) = {}

\* The children do_wait looks at, by their parent field.
Wanted(p) == {c \in Kids(p) : waitpid[p] \in {NULL, c}}

WaitersOK ==
    \A p \in Proc :
      state[p] = "SLEEPING" =>
        /\ Wanted(p) # {}
        /\ \A c \in Wanted(p) : state[c] = "ZOMBIE" => pc[c] = "exit.notify"

IInv ==
    /\ ~FilesMayFail
    /\ TypeOK
    /\ RunQueueOK
    /\ TableOK
    /\ Lists
    /\ ParentsOK
    /\ Acyclic
    /\ ControlOK
    /\ Childless
    /\ WaitersOK

-----------------------------------------------------------------------------
(***************************************************************************)
(* The operations on one sibling list.                                     *)
(***************************************************************************)

\* The links o and y of the members of R are o2 and y2 as well.
SameLinks(R, o, y, o2, y2) == \A x \in R : o2[x] = o[x] /\ y2[x] = y[x]

\* o2 and y2 are the links after c has been put before the entries R of a list.
Pushed(R, c, first, o, y, o2, y2) ==
    /\ o2[c] = first /\ \A x \in R : o2[x] = o[x]
    /\ y2[c] = NULL /\ \A x \in R : y2[x] = IF x = first THEN c ELSE y[x]

\* o2 and y2 are the links after the neighbours of c have been joined.
Joined(R, c, o, y, o2, y2) ==
    \A x \in R \ {c} : /\ o2[x] = IF x = y[c] THEN o[c] ELSE o[x]
                       /\ y2[x] = IF x = o[c] THEN y[c] ELSE y[x]

\* A list is kept by whoever does not touch the links of its entries.
LEMMA ChainKept ==
    ASSUME NEW s \in Seq(Proc), NEW first, NEW o, NEW y, NEW e,
           NEW o2, NEW y2, NEW e2, Chained(s, first, o, y, e), e => e2,
           SameLinks(Range(s), o, y, o2, y2)
    PROVE  Chained(s, first, o2, y2, e2)
<1>1. \A i \in 1 .. Len(s) : s[i] \in Range(s)
  BY RangeFacts
<1>2. QED
  BY <1>1 DEF Chained, SameLinks

\* An empty list has no first entry, and nothing else has none.
LEMMA ChainEmpty ==
    ASSUME NEW s \in Seq(Proc), NEW first, NEW o, NEW y, NEW e,
           Chained(s, first, o, y, e)
    PROVE  /\ first = NULL <=> s = <<>>
           /\ first = NULL \/ first \in Range(s)
<1>1. s # <<>> => Len(s) \in Nat \ {0} /\ s[1] \in Range(s) /\ s[1] \in Proc
  BY RangeFacts, EmptySeq, LenProperties, ElementOfSeq
<1>2. NULL \notin Proc
  BY ProcAssumption DEF Thread
<1>3. QED
  BY <1>1, <1>2 DEF Chained

\* set_links: c becomes the first entry.
LEMMA ChainPush ==
    ASSUME NEW s \in Seq(Proc), NEW c \in Proc, c \notin Range(s), NEW first,
           NEW o, NEW y, NEW o2, NEW y2, Chained(s, first, o, y, FALSE),
           Pushed(Range(s), c, first, o, y, o2, y2)
    PROVE  \E u \in Seq(Proc) : /\ Range(u) = Range(s) \cup {c}
                                /\ Chained(u, c, o2, y2, FALSE)
<1> USE DEF Pushed
<1> DEFINE L == Len(s)
           u == InsertAt(s, 1, c)
<1>1. L \in Nat /\ 1 \in 1 .. L + 1 /\ \A i \in 1 .. L : s[i] \in Range(s)
  BY RangeFacts, LenProperties
<1>2. /\ u \in Seq(Proc) /\ Len(u) = L + 1 /\ u[1] = c
      /\ \A k \in 1 + 1 .. L + 1 : u[k] = s[k - 1]
      /\ Range(u) = Range(s) \cup {c}
      /\ IsInjective(u)
  BY <1>1, InsertAtFacts DEF Chained
<1>3. /\ first = IF s = <<>> THEN NULL ELSE s[1]
      /\ \A i \in 1 .. L : o[s[i]] = IF i = L THEN NULL ELSE s[i + 1]
      /\ \A i \in 1 .. L : y[s[i]] = IF i = 1 THEN NULL ELSE s[i - 1]
      /\ \A i, j \in 1 .. L : s[i] = s[j] => i = j
      /\ s = <<>> <=> L = 0
  BY <1>1, EmptySeq, LenProperties DEF Chained, IsInjective
<1> HIDE DEF L, u
<1>4. u # <<>>
  BY <1>1, <1>2
<1>5. ASSUME NEW i \in 1 .. L + 1 PROVE o2[u[i]] = IF i = L + 1 THEN NULL ELSE u[i + 1]
  <2>1. CASE i = 1
    <3>1. CASE L = 0
      BY <1>2, <1>3, <2>1, <3>1
    <3>2. CASE L # 0
      <4>1. 1 + 1 \in 1 + 1 .. L + 1 /\ (1 + 1) - 1 = 1 /\ 1 # L + 1
        BY <1>1, <3>2
      <4>2. u[1 + 1] = s[1]
        BY <1>2, <4>1
      <4>3. QED
        BY <1>2, <1>3, <2>1, <3>2, <4>1, <4>2
    <3>3. QED
      BY <3>1, <3>2
  <2>2. CASE i # 1
    <3> DEFINE k == i - 1
    <3>1. k \in 1 .. L /\ u[i] = s[k] /\ k + 1 = i
      BY <1>1, <1>2, <2>2
    <3>2. o2[u[i]] = IF k = L THEN NULL ELSE s[k + 1]
      BY <1>1, <1>3, <3>1
    <3>3. k # L => i + 1 \in 1 + 1 .. L + 1 /\ (i + 1) - 1 = k + 1
      BY <1>1, <3>1
    <3>4. k # L => u[i + 1] = s[k + 1]
      BY <1>2, <3>3
    <3>5. k = L <=> i = L + 1
      BY <1>1, <3>1
    <3>6. QED
      BY <3>2, <3>4, <3>5
  <2>3. QED
    BY <2>1, <2>2
<1>6. ASSUME NEW i \in 1 .. L + 1 PROVE y2[u[i]] = IF i = 1 THEN NULL ELSE u[i - 1]
  <2>1. CASE i = 1
    BY <1>2, <2>1
  <2>2. CASE i # 1
    <3> DEFINE k == i - 1
    <3>1. k \in 1 .. L /\ u[i] = s[k] /\ k + 1 = i
      BY <1>1, <1>2, <2>2
    <3>2. y2[s[k]] = IF s[k] = first THEN c ELSE y[s[k]]
      BY <1>1, <3>1
    <3>3. 1 \in 1 .. L /\ L # 0
      BY <1>1, <3>1
    <3>4. s[k] = first <=> k = 1
      BY <1>3, <3>1, <3>3
    <3>5. k # 1 => k \in 1 + 1 .. L + 1 /\ u[k] = s[k - 1]
      BY <1>1, <1>2, <3>1
    <3>6. QED
      BY <1>2, <1>3, <2>2, <3>1, <3>2, <3>4, <3>5
  <2>3. QED
    BY <2>1, <2>2
<1>7. Chained(u, c, o2, y2, FALSE)
  BY <1>2, <1>4, <1>5, <1>6 DEF Chained
<1>8. QED
  BY <1>2, <1>7

\* One round of the loop of do_exit: the first entry goes, and nobody tells the
\* second, whose yptr is left open.
LEMMA ChainPop ==
    ASSUME NEW s \in Seq(Proc), NEW first, NEW o, NEW y, NEW e, NEW o2, NEW y2,
           Chained(s, first, o, y, e), first # NULL,
           SameLinks(Range(s) \ {first}, o, y, o2, y2)
    PROVE  \E u \in Seq(Proc) : /\ Range(u) = Range(s) \ {first}
                                /\ Chained(u, o[first], o2, y2, TRUE)
<1> USE DEF SameLinks
<1> DEFINE L == Len(s)
           u == Tail(s)
<1>1. /\ s # <<>> /\ first = s[1]
      /\ \A i \in 1 .. L : o[s[i]] = IF i = L THEN NULL ELSE s[i + 1]
      /\ \A i \in 1 .. L : i # 1 => y[s[i]] = s[i - 1]
      /\ IsInjective(s)
  BY DEF Chained
<1>2. /\ u \in Seq(Proc) /\ L \in Nat \ {0} /\ Head(s) = s[1]
      /\ Len(u) = L - 1 /\ \A k \in 1 .. L - 1 : u[k] = s[k + 1]
      /\ Range(s) = Range(u) \cup {s[1]} /\ s[1] \notin Range(u) /\ IsInjective(u)
  BY <1>1, TailFacts
<1>3. /\ \A k \in 1 .. L - 1 : u[k] \in Range(u)
      /\ u = <<>> <=> L - 1 = 0
  BY <1>2, RangeFacts, EmptySeq, LenProperties
<1>a. Range(u) = Range(s) \ {first}
  BY <1>1, <1>2
<1> HIDE DEF L, u
<1>4. o[first] = IF u = <<>> THEN NULL ELSE u[1]
  BY <1>1, <1>2, <1>3
<1>5. ASSUME NEW k \in 1 .. L - 1 PROVE o2[u[k]] = IF k = L - 1 THEN NULL ELSE u[k + 1]
  <2>1. o2[u[k]] = o[u[k]] /\ u[k] = s[k + 1]
    BY <1>2, <1>3, <1>a
  <2>2. k + 1 \in 1 .. L /\ (k + 1 = L <=> k = L - 1)
    BY <1>2
  <2>3. o[s[k + 1]] = IF k = L - 1 THEN NULL ELSE s[(k + 1) + 1]
    BY <1>1, <2>2
  <2>4. k # L - 1 => k + 1 \in 1 .. L - 1
    BY <1>2
  <2>5. QED
    BY <1>2, <2>1, <2>3, <2>4
<1>6. ASSUME NEW k \in 1 .. L - 1, k # 1 PROVE y2[u[k]] = u[k - 1]
  <2>1. y2[u[k]] = y[u[k]] /\ u[k] = s[k + 1]
    BY <1>2, <1>3, <1>a
  <2>2. k + 1 \in 1 .. L /\ k + 1 # 1 /\ (k + 1) - 1 = k /\ k - 1 \in 1 .. L - 1
    BY <1>2, <1>6
  <2>3. u[k - 1] = s[k] /\ y[s[k + 1]] = s[k]
    BY <1>1, <1>2, <2>2
  <2>4. QED
    BY <2>1, <2>3
<1>7. Chained(u, o[first], o2, y2, TRUE)
  BY <1>2, <1>4, <1>5, <1>6 DEF Chained
<1>8. QED
  BY <1>2, <1>7, <1>a

\* remove_links: the neighbours of c are joined.
LEMMA ChainRemove ==
    ASSUME NEW s \in Seq(Proc), NEW c \in Range(s), NEW first, NEW o, NEW y,
           NEW o2, NEW y2, Chained(s, first, o, y, FALSE),
           Joined(Range(s), c, o, y, o2, y2)
    PROVE  /\ y[c] \in {NULL} \cup Range(s) /\ o[c] \in {NULL} \cup Range(s)
           /\ \E u \in Seq(Proc) :
                /\ Range(u) = Range(s) \ {c}
                /\ Chained(u, IF y[c] = NULL THEN o[c] ELSE first, o2, y2, FALSE)
<1> USE DEF Joined
<1> DEFINE L == Len(s)
           new == IF y[c] = NULL THEN o[c] ELSE first
<1>1. /\ L \in Nat /\ \A k \in 1 .. L : s[k] \in Range(s) /\ s[k] # NULL
      /\ \E i \in 1 .. L : s[i] = c
  BY RangeFacts, LenProperties, ElementOfSeq, ProcAssumption DEF Thread
<1>2. PICK i \in 1 .. L : s[i] = c
  BY <1>1
<1>3. /\ first = IF s = <<>> THEN NULL ELSE s[1]
      /\ \A k \in 1 .. L : o[s[k]] = IF k = L THEN NULL ELSE s[k + 1]
      /\ \A k \in 1 .. L : y[s[k]] = IF k = 1 THEN NULL ELSE s[k - 1]
      /\ \A j, k \in 1 .. L : s[j] = s[k] => j = k
      /\ s # <<>> /\ IsInjective(s)
  BY <1>1, <1>2, EmptySeq, LenProperties DEF Chained, IsInjective
<1> DEFINE u == RemoveAt(s, i)
<1>4. /\ u \in Seq(Proc) /\ Len(u) = L - 1
      /\ \A k \in 1 .. i - 1 : u[k] = s[k]
      /\ \A k \in i .. L - 1 : u[k] = s[k + 1]
      /\ Range(u) = Range(s) \ {c} /\ IsInjective(u)
  <2>1. s \in Seq(Proc) /\ IsInjective(s) /\ i \in 1 .. Len(s) /\ c = s[i]
    BY <1>2, <1>3
  <2>2. QED
    BY ONLY <2>1, RemoveAtFacts
<1>5. u = <<>> <=> L - 1 = 0
  BY <1>4, EmptySeq, LenProperties
<1> HIDE DEF L, u
<1>6. /\ o[c] = IF i = L THEN NULL ELSE s[i + 1]
      /\ y[c] = IF i = 1 THEN NULL ELSE s[i - 1]
      /\ i # L => i + 1 \in 1 .. L
      /\ i # 1 => i - 1 \in 1 .. L
  <2>1. /\ o[s[i]] = IF i = L THEN NULL ELSE s[i + 1]
        /\ y[s[i]] = IF i = 1 THEN NULL ELSE s[i - 1]
    BY <1>2, <1>3
  <2>2. L \in Nat /\ i \in 1 .. L /\ s[i] = c
    BY <1>1, <1>2
  <2>3. QED
    BY ONLY <2>1, <2>2
<1>7. y[c] \in {NULL} \cup Range(s) /\ o[c] \in {NULL} \cup Range(s)
  BY <1>1, <1>6
<1>8. /\ y[c] = NULL <=> i = 1
      /\ o[c] = NULL <=> i = L
      /\ \A k \in 1 .. L : s[k] = y[c] <=> k = i - 1
      /\ \A k \in 1 .. L : s[k] = o[c] <=> k = i + 1
  <2>1. (y[c] = NULL <=> i = 1) /\ (o[c] = NULL <=> i = L)
    BY <1>1, <1>6
  <2>2. ASSUME NEW k \in 1 .. L PROVE s[k] = y[c] <=> k = i - 1
    <3>1. CASE i = 1
      BY <1>1, <1>6, <3>1
    <3>2. CASE i # 1
      BY <1>3, <1>6, <3>2
    <3>3. QED
      BY <3>1, <3>2
  <2>3. ASSUME NEW k \in 1 .. L PROVE s[k] = o[c] <=> k = i + 1
    <3>1. CASE i = L
      BY <1>1, <1>6, <3>1
    <3>2. CASE i # L
      BY <1>3, <1>6, <3>2
    <3>3. QED
      BY <3>1, <3>2
  <2>4. QED
    BY <2>1, <2>2, <2>3
<1>9. new = IF u = <<>> THEN NULL ELSE u[1]
  <2>1. CASE i = 1
    <3>1. CASE L = 1
      BY <1>5, <1>6, <1>8, <2>1, <3>1
    <3>2. CASE L # 1
      <4>1. 1 \in 1 .. L - 1
        BY <1>1, <1>2, <3>2
      <4>2. QED
        BY <1>4, <1>5, <1>6, <1>8, <2>1, <3>2, <4>1
    <3>3. QED
      BY <3>1, <3>2
  <2>2. CASE i # 1
    <3>1. 1 \in 1 .. i - 1 /\ L - 1 # 0
      BY <1>1, <1>2, <2>2
    <3>2. QED
      BY <1>3, <1>4, <1>5, <1>8, <2>2, <3>1
  <2>3. QED
    BY <2>1, <2>2
<1>10. ASSUME NEW k \in 1 .. L - 1
       PROVE  /\ o2[u[k]] = IF k = L - 1 THEN NULL ELSE u[k + 1]
              /\ y2[u[k]] = IF k = 1 THEN NULL ELSE u[k - 1]
  <2> DEFINE j == IF k < i THEN k ELSE k + 1
  <2>1. j \in 1 .. L /\ j # i /\ u[k] = s[j]
    BY <1>1, <1>4
  <2>2. s[j] \in Range(s) \ {c}
    BY <1>1, <1>2, <1>3, <2>1
  <2>3. /\ o2[u[k]] = IF j = i - 1 THEN o[c] ELSE o[s[j]]
        /\ y2[u[k]] = IF j = i + 1 THEN y[c] ELSE y[s[j]]
    BY <1>8, <2>1, <2>2
  <2>4. /\ o[s[j]] = IF j = L THEN NULL ELSE s[j + 1]
        /\ y[s[j]] = IF j = 1 THEN NULL ELSE s[j - 1]
    BY <1>3, <2>1
  <2>5. CASE k < i
    <3>1. j = k /\ j # L /\ j # i + 1 /\ (k = L - 1 => i = L /\ k = i - 1)
      BY <1>1, <2>5
    <3>2. o2[u[k]] = IF k = L - 1 THEN NULL ELSE u[k + 1]
      <4>1. CASE k = i - 1
        <5>1. o2[u[k]] = o[c] /\ (k = L - 1 <=> i = L) /\ k + 1 = i
          BY <1>1, <2>3, <3>1, <4>1
        <5>2. i # L => i \in i .. L - 1
          BY <1>1
        <5>3. i # L => u[i] = s[i + 1]
          BY <1>4, <5>2
        <5>4. QED
          BY <1>6, <5>1, <5>3
      <4>2. CASE k # i - 1
        <5>1. k + 1 \in 1 .. i - 1 /\ k # L - 1
          BY <1>1, <2>5, <4>2
        <5>2. QED
          BY <1>4, <2>3, <2>4, <3>1, <4>2, <5>1
      <4>3. QED
        BY <4>1, <4>2
    <3>3. y2[u[k]] = IF k = 1 THEN NULL ELSE u[k - 1]
      <4>1. k # 1 => k - 1 \in 1 .. i - 1
        BY <1>1, <2>5
      <4>2. k # 1 => u[k - 1] = s[k - 1]
        BY <1>4, <4>1
      <4>3. QED
        BY <2>3, <2>4, <3>1, <4>2
    <3>4. QED
      BY <3>2, <3>3
  <2>6. CASE ~(k < i)
    <3>1. j = k + 1 /\ j # i - 1 /\ j # 1 /\ j - 1 = k /\ (j = L <=> k = L - 1)
      BY <1>1, <2>6
    <3>2. o2[u[k]] = IF k = L - 1 THEN NULL ELSE u[k + 1]
      <4>1. k # L - 1 => k + 1 \in i .. L - 1
        BY <1>1, <2>6
      <4>2. k # L - 1 => u[k + 1] = s[j + 1]
        BY <1>4, <3>1, <4>1
      <4>3. QED
        BY <2>3, <2>4, <3>1, <4>2
    <3>3. y2[u[k]] = IF k = 1 THEN NULL ELSE u[k - 1]
      <4>1. CASE k = i
        <5>1. y2[u[k]] = y[c]
          BY <2>3, <3>1, <4>1
        <5>2. i # 1 => i - 1 \in 1 .. i - 1
          BY <1>1
        <5>3. i # 1 => u[i - 1] = s[i - 1]
          BY <1>4, <5>2
        <5>4. QED
          BY <1>6, <4>1, <5>1, <5>3
      <4>2. CASE k # i
        <5>1. k - 1 \in i .. L - 1 /\ (k - 1) + 1 = k /\ j # i + 1 /\ k # 1
          BY <1>1, <2>6, <3>1, <4>2
        <5>2. u[k - 1] = s[k]
          BY <1>4, <5>1
        <5>3. QED
          BY <2>3, <2>4, <3>1, <5>1, <5>2
      <4>3. QED
        BY <4>1, <4>2
    <3>4. QED
      BY <3>2, <3>3
  <2>7. QED
    BY <2>5, <2>6
<1>11. Chained(u, new, o2, y2, FALSE)
  BY <1>4, <1>9, <1>10 DEF Chained
<1>12. QED
  BY <1>4, <1>7, <1>11

-----------------------------------------------------------------------------
(***************************************************************************)
(* The walk through cptr and optr.                                         *)
(***************************************************************************)

\* Following cptr and then optr visits the list, and then NULL for ever.
LEMMA WalkFacts ==
    ASSUME NEW p \in Thread, NEW s \in Seq(Proc), NEW e,
           Chained(s, cptr[p], optr, yptr, e)
    PROVE  /\ DOMAIN Child(p) = 1 .. Cardinality(Proc)
           /\ Len(s) \in Nat /\ Len(s) <= Cardinality(Proc) /\ Cardinality(Proc) \in Nat
           /\ \A n \in 1 .. Cardinality(Proc) :
                Child(p)[n] = IF n <= Len(s) THEN s[n] ELSE NULL
<1> DEFINE N == Cardinality(Proc)
           L == Len(s)
           StepOf(f) == [n \in 1 .. N |-> IF n = 1 THEN cptr[p]
                                          ELSE IF f[n - 1] = NULL THEN NULL
                                                                  ELSE optr[f[n - 1]]]
           w == [n \in 1 .. N |-> IF n <= L THEN s[n] ELSE NULL]
           W == Child(p)
<1>1. N \in Nat /\ L <= N /\ L \in Nat
  BY ProcAssumption, ListIsShort, LenProperties DEF Chained
<1>2. \A n \in 1 .. L : s[n] # NULL
  BY ElementOfSeq, LenProperties, ProcAssumption DEF Thread
<1>3. /\ cptr[p] = IF L = 0 THEN NULL ELSE s[1]
      /\ \A n \in 1 .. L : optr[s[n]] = IF n = L THEN NULL ELSE s[n + 1]
  BY EmptySeq, LenProperties DEF Chained
<1> HIDE DEF N, L
<1>4. w = StepOf(w)
  <2>1. ASSUME NEW n \in 1 .. N PROVE w[n] = StepOf(w)[n]
    <3>1. CASE n = 1
      BY <1>1, <1>3, <3>1
    <3>2. CASE n # 1
      <4>1. n - 1 \in 1 .. N /\ w[n - 1] = IF n - 1 <= L THEN s[n - 1] ELSE NULL
        BY <1>1, <3>2
      <4>2. CASE n - 1 <= L
        <5>1. n - 1 \in 1 .. L /\ (n - 1) + 1 = n
          BY <1>1, <3>2, <4>2
        <5>2. w[n - 1] = s[n - 1] /\ w[n - 1] # NULL
          BY <1>2, <4>1, <4>2, <5>1
        <5>3. optr[s[n - 1]] = IF n - 1 = L THEN NULL ELSE s[n]
          BY <1>3, <5>1
        <5>4. n - 1 = L <=> ~(n <= L)
          BY <1>1, <4>2
        <5>5. w[n] = IF n <= L THEN s[n] ELSE NULL
          OBVIOUS
        <5> HIDE DEF w
        <5>6. StepOf(w)[n] = optr[s[n - 1]]
          BY <3>2, <5>2
        <5>7. QED
          BY <5>3, <5>4, <5>5, <5>6
      <4>3. CASE ~(n - 1 <= L)
        <5>1. w[n - 1] = NULL /\ w[n] = NULL
          BY <1>1, <4>1, <4>3
        <5> HIDE DEF w
        <5>2. QED
          BY <3>2, <5>1
      <4>4. QED
        BY <4>2, <4>3
    <3>3. QED
      BY <3>1, <3>2
  <2>2. QED
    BY <2>1
<1>5. W = CHOOSE f : f = StepOf(f)
  BY DEF Child, N
<1>6. W = StepOf(W)
  <2> HIDE DEF StepOf, W, w
  <2>1. QED
    BY <1>4, <1>5
<1> HIDE DEF W
<1>7. DOMAIN W = 1 .. N
  BY <1>6
<1> DEFINE T == {k \in Nat : k + 1 <= N => W[k + 1] = w[k + 1]}
<1>8. 0 \in T
  <2>1. SUFFICES ASSUME 1 <= N PROVE W[1] = w[1]
    OBVIOUS
  <2>2. 1 \in 1 .. N
    BY <1>1, <2>1
  <2>3. W[1] = cptr[p] /\ w[1] = cptr[p]
    BY <1>4, <1>6, <2>2
  <2>4. QED
    BY <2>3
<1>9. ASSUME NEW k \in Nat, k \in T PROVE k + 1 \in T
  <2>1. SUFFICES ASSUME (k + 1) + 1 <= N PROVE W[(k + 1) + 1] = w[(k + 1) + 1]
    OBVIOUS
  <2> DEFINE n == (k + 1) + 1
  <2>2. n \in 1 .. N /\ n # 1 /\ n - 1 = k + 1 /\ k + 1 <= N
    BY <1>1, <2>1
  <2>3. W[n - 1] = w[n - 1]
    BY <1>9, <2>2
  <2> HIDE DEF w, n
  <2>4. /\ W[n] = IF W[n - 1] = NULL THEN NULL ELSE optr[W[n - 1]]
        /\ w[n] = IF w[n - 1] = NULL THEN NULL ELSE optr[w[n - 1]]
    BY <1>4, <1>6, <2>2
  <2>5. QED
    BY <2>3, <2>4 DEF n
<1> HIDE DEF T
<1>10. Nat \subseteq T
  BY <1>8, <1>9, InductionOverSets
<1>11. ASSUME NEW n \in 1 .. N PROVE W[n] = IF n <= L THEN s[n] ELSE NULL
  <2>1. n - 1 \in T /\ (n - 1) + 1 = n /\ n <= N
    BY <1>1, <1>10
  <2>2. W[n] = w[n]
    BY <2>1 DEF T
  <2>3. QED
    BY <2>2
<1>12. QED
  BY <1>1, <1>7, <1>11 DEF N, L, W

\* The walk visits exactly the children.
LEMMA ChildrenFacts == Lists => \A p \in Thread : Children(p) = Kids(p)
<1> SUFFICES ASSUME Lists, NEW p \in Thread PROVE Children(p) = Kids(p)
  OBVIOUS
<1>1. PICK s \in Seq(Proc) : Range(s) = Kids(p) /\ Chained(s, cptr[p], optr, yptr, Exempt(p))
  BY DEF Lists
<1>2. /\ DOMAIN Child(p) = 1 .. Cardinality(Proc)
      /\ Len(s) \in Nat /\ Len(s) <= Cardinality(Proc) /\ Cardinality(Proc) \in Nat
      /\ \A n \in 1 .. Cardinality(Proc) :
           Child(p)[n] = IF n <= Len(s) THEN s[n] ELSE NULL
  BY <1>1, WalkFacts
<1>3. \A x : x \in Range(s) <=> \E i \in 1 .. Len(s) : s[i] = x
  BY RangeFacts
<1>4. NULL \notin Range(s)
  BY RangeFacts, ProcAssumption DEF Thread
<1>5. ASSUME NEW x \in Children(p) PROVE x \in Range(s)
  <2>1. PICK n \in 1 .. Cardinality(Proc) : Child(p)[n] = x /\ x # NULL
    BY <1>2 DEF Children, Range
  <2>2. n <= Len(s) /\ s[n] = x
    BY <1>2, <2>1
  <2>3. QED
    BY <1>2, <1>3, <2>2
<1>6. ASSUME NEW x \in Range(s) PROVE x \in Children(p)
  <2>1. PICK n \in 1 .. Len(s) : s[n] = x
    BY <1>3
  <2>2. n \in DOMAIN Child(p) /\ Child(p)[n] = x
    BY <1>2, <2>1
  <2>3. QED
    BY <1>4, <2>2 DEF Children, Range
<1>7. QED
  BY <1>1, <1>5, <1>6

-----------------------------------------------------------------------------
(***************************************************************************)
(* The operations on the tree.                                             *)
(***************************************************************************)

\* A step that leaves the links alone keeps the lists, provided that whoever stops
\* giving its children away has none left.
LEMMA SameLists ==
    ASSUME Lists, UNCHANGED tree,
           \A p \in Proc : pc[p] = "exit.reparent" /\ pc'[p] # "exit.reparent" => Kids(p) = {}
    PROVE  Lists'
<1>1. SUFFICES ASSUME NEW p \in Thread
               PROVE  \E s \in Seq(Proc) : /\ Range(s) = Kids(p)'
                                           /\ Chained(s, cptr'[p], optr', yptr', Exempt(p)')
  BY DEF Lists
<1>2. PICK s \in Seq(Proc) : Range(s) = Kids(p) /\ Chained(s, cptr[p], optr, yptr, Exempt(p))
  BY DEF Lists
<1>3. /\ cptr' = cptr /\ optr' = optr /\ yptr' = yptr /\ Kids(p)' = Kids(p)
  BY DEF tree, Kids
<1>4. CASE Exempt(p) => Exempt(p)'
  <2>1. Chained(s, cptr[p], optr, yptr, Exempt(p)')
    BY <1>2, <1>4, ChainKept DEF SameLinks
  <2>2. QED
    BY <1>2, <1>3, <2>1
<1>5. CASE ~(Exempt(p) => Exempt(p)')
  <2>1. p \in Proc /\ Kids(p) = {}
    BY <1>5 DEF Exempt
  <2>2. s = <<>> /\ Len(s) = 0
    BY <1>2, <2>1, RangeFacts, EmptySeq
  <2>3. Chained(s, cptr[p], optr, yptr, Exempt(p)')
    BY <1>2, <2>2 DEF Chained
  <2>4. QED
    BY <1>2, <1>3, <2>3
<1>6. QED
  BY <1>4, <1>5

\* set_links of a new process c.
LEMMA LinkLists ==
    ASSUME TypeOK, Lists, NEW p \in Proc, NEW c \in Proc, ~Exempt(p), parent[c] = NULL,
           set_links(c, p), \A q \in Thread : Exempt(q)' = Exempt(q)
    PROVE  Lists'
<1>1. NULL \notin Thread /\ p \in Thread /\ c \in Thread
  BY ProcAssumption DEF Thread
<1>2. /\ parent \in [Thread -> Thread \cup {NULL}] /\ cptr \in [Thread -> Thread \cup {NULL}]
      /\ optr \in [Thread -> Thread \cup {NULL}] /\ yptr \in [Thread -> Thread \cup {NULL}]
  BY DEF TypeOK
<1>3. /\ parent' = [parent EXCEPT ![c] = p]
      /\ optr' = [optr EXCEPT ![c] = cptr[p]]
      /\ yptr' = IF cptr[p] = NULL THEN [yptr EXCEPT ![c] = NULL]
                                   ELSE [yptr EXCEPT ![c] = NULL, ![cptr[p]] = c]
      /\ cptr' = [cptr EXCEPT ![p] = c]
  BY DEF set_links, LinkChild
<1>4. PICK r \in Seq(Proc) : Range(r) = Kids(p) /\ Chained(r, cptr[p], optr, yptr, Exempt(p))
  BY <1>1 DEF Lists
<1>5. /\ cptr[p] = NULL \/ cptr[p] \in Kids(p)
      /\ cptr[p] \in Thread => cptr[p] \in Proc /\ parent[cptr[p]] = p
  BY <1>1, <1>4, ChainEmpty DEF Kids
<1>6. \A q \in Thread : c \notin Kids(q)
  BY <1>1 DEF Kids
<1>7. /\ optr'[c] = cptr[p] /\ yptr'[c] = NULL
      /\ \A x \in Proc : x # c => /\ optr'[x] = optr[x]
                                 /\ yptr'[x] = IF x = cptr[p] THEN c ELSE yptr[x]
  <2>1. cptr[p] # c
    BY <1>1, <1>5, <1>6
  <2>2. \A x \in Proc : x # NULL /\ x \in Thread
    BY <1>1 DEF Thread
  <2>3. optr'[c] = cptr[p] /\ \A x \in Proc : x # c => optr'[x] = optr[x]
    BY <1>1, <1>2, <1>3, <2>2
  <2>4. yptr'[c] = NULL
    BY <1>1, <1>2, <1>3, <2>1
  <2>5. ASSUME NEW x \in Proc, x # c PROVE yptr'[x] = IF x = cptr[p] THEN c ELSE yptr[x]
    BY <1>1, <1>2, <1>3, <2>2, <2>5
  <2>6. QED
    BY <2>3, <2>4, <2>5
<1>8. SUFFICES ASSUME NEW q \in Thread
               PROVE  \E s \in Seq(Proc) : /\ Range(s) = Kids(q)'
                                           /\ Chained(s, cptr'[q], optr', yptr', Exempt(q)')
  BY DEF Lists
<1>9. CASE q = p
  <2>0. Exempt(p) = FALSE
    BY DEF Exempt
  <2>1. Chained(r, cptr[p], optr, yptr, FALSE)
    BY <1>4, <2>0
  <2>2. \A x \in Range(r) : x \in Proc /\ x # c
    BY <1>1, <1>4, <1>6 DEF Kids
  <2>a. c \notin Range(r) /\ Pushed(Range(r), c, cptr[p], optr, yptr, optr', yptr')
    BY <1>7, <2>2 DEF Pushed
  <2>3. \E u \in Seq(Proc) : Range(u) = Range(r) \cup {c} /\ Chained(u, c, optr', yptr', FALSE)
    BY <2>1, <2>a, ChainPush
  <2>4. Kids(p)' = Kids(p) \cup {c} /\ cptr'[p] = c
    BY <1>1, <1>2, <1>3 DEF Kids, Thread
  <2>5. Exempt(p)' = FALSE
    BY <1>1 DEF Exempt
  <2>6. QED
    BY <1>4, <1>9, <2>3, <2>4, <2>5
<1>10. CASE q # p
  <2>1. PICK s \in Seq(Proc) : Range(s) = Kids(q) /\ Chained(s, cptr[q], optr, yptr, Exempt(q))
    BY DEF Lists
  <2>2. Kids(q)' = Kids(q) /\ cptr'[q] = cptr[q]
    BY <1>1, <1>2, <1>3, <1>6, <1>10 DEF Kids, Thread
  <2>3. SameLinks(Range(s), optr, yptr, optr', yptr')
    <3>1. ASSUME NEW x \in Range(s) PROVE x \in Proc /\ x # c /\ x # cptr[p]
      BY <1>1, <1>5, <1>6, <1>10, <2>1 DEF Kids, Thread
    <3>2. QED
      BY <1>7, <3>1 DEF SameLinks
  <2>4. Chained(s, cptr[q], optr', yptr', Exempt(q)')
    <3>1. Exempt(q) => Exempt(q)'
      OBVIOUS
    <3>2. QED
      BY <2>1, <2>3, <3>1, ChainKept
  <2>5. QED
    BY <2>1, <2>2, <2>4
<1>11. QED
  BY <1>9, <1>10

\* remove_links of a child c of p.
LEMMA UnlinkLists ==
    ASSUME TypeOK, Lists, NEW p \in Proc, NEW c \in Proc, ~Exempt(p), parent[c] = p,
           remove_links(c), \A q \in Thread : Exempt(q)' = Exempt(q)
    PROVE  Lists' /\ \A f \in {optr', yptr', cptr', parent'} : f \in [Thread -> Thread \cup {NULL}]
<1>1. NULL \notin Thread /\ p \in Thread /\ c \in Thread /\ \A x \in Proc : x \in Thread
  BY ProcAssumption DEF Thread
<1>2. /\ parent \in [Thread -> Thread \cup {NULL}] /\ cptr \in [Thread -> Thread \cup {NULL}]
      /\ optr \in [Thread -> Thread \cup {NULL}] /\ yptr \in [Thread -> Thread \cup {NULL}]
  BY DEF TypeOK
<1> DEFINE oc == optr[c]
           yc == yptr[c]
           o1 == IF yc = NULL THEN optr ELSE [optr EXCEPT ![yc] = oc]
           y1 == IF oc = NULL THEN yptr ELSE [yptr EXCEPT ![oc] = yc]
<1>3. /\ parent' = [parent EXCEPT ![c] = NULL]
      /\ optr' = [o1 EXCEPT ![c] = NULL]
      /\ yptr' = [y1 EXCEPT ![c] = NULL]
      /\ cptr' = IF yc = NULL THEN [cptr EXCEPT ![p] = oc] ELSE cptr
  BY DEF remove_links, WithoutLink
<1>4. oc \in Thread \cup {NULL} /\ yc \in Thread \cup {NULL}
  BY <1>1, <1>2
<1> HIDE DEF oc, yc
<1>5. o1 \in [Thread -> Thread \cup {NULL}] /\ y1 \in [Thread -> Thread \cup {NULL}]
  BY <1>2, <1>4
<1>6. /\ \A x \in Proc : o1[x] = IF x = yc THEN oc ELSE optr[x]
      /\ \A x \in Proc : y1[x] = IF x = oc THEN yc ELSE yptr[x]
  BY <1>1, <1>2, <1>4
<1> HIDE DEF o1, y1
<1>7. \A x \in Proc : x # c => /\ optr'[x] = IF x = yc THEN oc ELSE optr[x]
                              /\ yptr'[x] = IF x = oc THEN yc ELSE yptr[x]
  BY <1>1, <1>3, <1>5, <1>6
<1>8. \A f \in {optr', yptr', cptr', parent'} : f \in [Thread -> Thread \cup {NULL}]
  <2>1. optr' \in [Thread -> Thread \cup {NULL}] /\ yptr' \in [Thread -> Thread \cup {NULL}]
    BY <1>3, <1>5
  <2>2. cptr' \in [Thread -> Thread \cup {NULL}] /\ parent' \in [Thread -> Thread \cup {NULL}]
    BY <1>2, <1>3, <1>4
  <2>3. QED
    BY <2>1, <2>2
<1>9. PICK r \in Seq(Proc) : Range(r) = Kids(p) /\ Chained(r, cptr[p], optr, yptr, Exempt(p))
  BY <1>1 DEF Lists
<1>10. Chained(r, cptr[p], optr, yptr, FALSE)
  <2>1. Exempt(p) = FALSE
    BY DEF Exempt
  <2>2. QED
    BY <1>9, <2>1
<1>11. c \in Range(r) /\ \A x \in Range(r) : x \in Proc /\ parent[x] = p
  BY <1>9 DEF Kids
<1>12. Joined(Range(r), c, optr, yptr, optr', yptr')
  BY <1>7, <1>11 DEF Joined, oc, yc
<1>13. /\ yc \in {NULL} \cup Range(r) /\ oc \in {NULL} \cup Range(r)
       /\ \E u \in Seq(Proc) :
            /\ Range(u) = Range(r) \ {c}
            /\ Chained(u, IF yc = NULL THEN oc ELSE cptr[p], optr', yptr', FALSE)
  BY <1>10, <1>11, <1>12, ChainRemove DEF oc, yc
<1>14. ASSUME NEW q \in Thread
       PROVE  \E s \in Seq(Proc) : /\ Range(s) = Kids(q)'
                                   /\ Chained(s, cptr'[q], optr', yptr', Exempt(q)')
  <2>1. CASE q = p
    <3>1. Kids(p)' = Kids(p) \ {c}
      BY <1>1, <1>2, <1>3 DEF Kids
    <3>2. cptr'[p] = IF yc = NULL THEN oc ELSE cptr[p]
      BY <1>1, <1>2, <1>3
    <3>3. Exempt(p)' = FALSE
      BY <1>1 DEF Exempt
    <3>4. QED
      BY <1>9, <1>13, <2>1, <3>1, <3>2, <3>3
  <2>2. CASE q # p
    <3>1. PICK s \in Seq(Proc) : /\ Range(s) = Kids(q)
                                 /\ Chained(s, cptr[q], optr, yptr, Exempt(q))
      BY DEF Lists
    <3>2. Kids(q)' = Kids(q) /\ cptr'[q] = cptr[q]
      BY <1>1, <1>2, <1>3, <2>2 DEF Kids
    <3>3. SameLinks(Range(s), optr, yptr, optr', yptr')
      <4>1. ASSUME NEW x \in Range(s) PROVE x \in Proc /\ x # c /\ x # oc /\ x # yc
        BY <1>1, <1>11, <1>13, <2>2, <3>1 DEF Kids
      <4>2. QED
        BY <1>7, <4>1 DEF SameLinks
    <3>4. Chained(s, cptr[q], optr', yptr', Exempt(q)')
      <4>1. Exempt(q) => Exempt(q)'
        OBVIOUS
      <4>2. QED
        BY <3>1, <3>3, <4>1, ChainKept
    <3>5. QED
      BY <3>1, <3>2, <3>4
  <2>3. QED
    BY <2>1, <2>2
<1>15. QED
  BY <1>8, <1>14 DEF Lists

\* One round of the loop of do_exit: the first child of p moves to initproc.
LEMMA ReparentLists ==
    ASSUME TypeOK, Lists, NEW p \in Proc, NEW c, c = cptr[p], c # NULL,
           p # initproc, Exempt(p), ~Exempt(initproc), LinkChild(c, initproc),
           cptr' = [cptr EXCEPT ![p] = optr[c], ![initproc] = c], pc' = pc
    PROVE  /\ Lists' /\ c \in Kids(p)
           /\ \A f \in {optr', yptr', cptr', parent'} : f \in [Thread -> Thread \cup {NULL}]
<1> DEFINE first == cptr[initproc]
<1>1. /\ NULL \notin Thread /\ p \in Thread /\ initproc \in Thread /\ initproc \in Proc
      /\ \A x \in Proc : x \in Thread
  BY ProcAssumption DEF Thread
<1>2. /\ parent \in [Thread -> Thread \cup {NULL}] /\ cptr \in [Thread -> Thread \cup {NULL}]
      /\ optr \in [Thread -> Thread \cup {NULL}] /\ yptr \in [Thread -> Thread \cup {NULL}]
  BY DEF TypeOK
<1>3. PICK r \in Seq(Proc) : Range(r) = Kids(p) /\ Chained(r, c, optr, yptr, Exempt(p))
  BY <1>1 DEF Lists
<1>4. PICK t \in Seq(Proc) : /\ Range(t) = Kids(initproc)
                             /\ Chained(t, first, optr, yptr, Exempt(initproc))
  BY <1>1 DEF Lists
<1>5. /\ c \in Kids(p) /\ c \in Proc /\ parent[c] = p /\ c \in Range(r)
      /\ first = NULL \/ first \in Kids(initproc)
  <2>1. c \in Range(r)
    BY <1>3, ChainEmpty
  <2>2. first = NULL \/ first \in Range(t)
    BY <1>4, ChainEmpty
  <2>3. QED
    BY <1>3, <1>4, <2>1, <2>2 DEF Kids
<1>6. /\ parent' = [parent EXCEPT ![c] = initproc]
      /\ optr' = [optr EXCEPT ![c] = first]
      /\ yptr' = IF first = NULL THEN [yptr EXCEPT ![c] = NULL]
                                 ELSE [yptr EXCEPT ![c] = NULL, ![first] = c]
  BY DEF LinkChild
<1>7. first \in Thread \cup {NULL} /\ first # c /\ optr[c] \in Thread \cup {NULL}
  BY <1>1, <1>2, <1>5 DEF Kids
<1> HIDE DEF first
<1>8. /\ optr'[c] = first /\ yptr'[c] = NULL
      /\ \A x \in Proc : x # c => /\ optr'[x] = optr[x]
                                 /\ yptr'[x] = IF x = first THEN c ELSE yptr[x]
  <2>1. optr'[c] = first /\ \A x \in Proc : x # c => optr'[x] = optr[x]
    BY <1>1, <1>2, <1>5, <1>6
  <2>2. yptr'[c] = NULL
    BY <1>1, <1>2, <1>5, <1>6, <1>7
  <2>3. ASSUME NEW x \in Proc, x # c PROVE yptr'[x] = IF x = first THEN c ELSE yptr[x]
    BY <1>1, <1>2, <1>5, <1>6, <1>7, <2>3
  <2>4. QED
    BY <2>1, <2>2, <2>3
<1>9. \A f \in {optr', yptr', cptr', parent'} : f \in [Thread -> Thread \cup {NULL}]
  <2>1. optr' \in [Thread -> Thread \cup {NULL}] /\ parent' \in [Thread -> Thread \cup {NULL}]
    BY <1>1, <1>2, <1>5, <1>6, <1>7
  <2>2. yptr' \in [Thread -> Thread \cup {NULL}]
    BY <1>1, <1>2, <1>5, <1>6, <1>7
  <2>3. cptr' \in [Thread -> Thread \cup {NULL}]
    BY <1>1, <1>2, <1>5, <1>7
  <2>4. QED
    BY <2>1, <2>2, <2>3
<1>10. ASSUME NEW q \in Thread PROVE Exempt(q)' = Exempt(q)
  BY DEF Exempt
<1>11. ASSUME NEW q \in Thread
       PROVE  \E s \in Seq(Proc) : /\ Range(s) = Kids(q)'
                                   /\ Chained(s, cptr'[q], optr', yptr', Exempt(q)')
  <2>1. CASE q = p
    <3>1. SameLinks(Range(r) \ {c}, optr, yptr, optr', yptr')
      <4>1. ASSUME NEW x \in Range(r) \ {c} PROVE x \in Proc /\ x # first
        BY <1>1, <1>3, <1>5 DEF Kids
      <4>2. QED
        BY <1>8, <4>1 DEF SameLinks
    <3>2. \E u \in Seq(Proc) : /\ Range(u) = Range(r) \ {c}
                               /\ Chained(u, optr[c], optr', yptr', TRUE)
      BY <1>3, <3>1, ChainPop
    <3>3. Kids(p)' = Kids(p) \ {c} /\ cptr'[p] = optr[c]
      BY <1>1, <1>2, <1>5, <1>6 DEF Kids
    <3>4. Exempt(p)' = TRUE
      BY <1>1, <1>10 DEF Exempt
    <3>5. QED
      BY <1>3, <2>1, <3>2, <3>3, <3>4
  <2>2. CASE q = initproc
    <3>1. Exempt(initproc) = FALSE /\ Exempt(initproc)' = FALSE
      BY <1>1, <1>10 DEF Exempt
    <3>2. Chained(t, first, optr, yptr, FALSE)
      BY <1>4, <3>1
    <3>3. c \notin Range(t) /\ \A x \in Range(t) : x \in Proc /\ x # c
      BY <1>4, <1>5 DEF Kids
    <3>4. Pushed(Range(t), c, first, optr, yptr, optr', yptr')
      BY <1>8, <3>3 DEF Pushed
    <3>5. \E u \in Seq(Proc) : /\ Range(u) = Range(t) \cup {c}
                               /\ Chained(u, c, optr', yptr', FALSE)
      BY <1>5, <3>2, <3>3, <3>4, ChainPush
    <3>6. Kids(initproc)' = Kids(initproc) \cup {c} /\ cptr'[initproc] = c
      BY <1>1, <1>2, <1>5, <1>6 DEF Kids
    <3>7. QED
      BY <1>4, <2>2, <3>1, <3>5, <3>6
  <2>3. CASE q # p /\ q # initproc
    <3>1. PICK s \in Seq(Proc) : /\ Range(s) = Kids(q)
                                 /\ Chained(s, cptr[q], optr, yptr, Exempt(q))
      BY DEF Lists
    <3>2. Kids(q)' = Kids(q) /\ cptr'[q] = cptr[q]
      BY <1>1, <1>2, <1>5, <1>6, <2>3 DEF Kids
    <3>3. SameLinks(Range(s), optr, yptr, optr', yptr')
      <4>1. ASSUME NEW x \in Range(s) PROVE x \in Proc /\ x # c /\ x # first
        BY <1>1, <1>5, <2>3, <3>1 DEF Kids
      <4>2. QED
        BY <1>8, <4>1 DEF SameLinks
    <3>4. Chained(s, cptr[q], optr', yptr', Exempt(q)')
      <4>1. Exempt(q) => Exempt(q)'
        BY <1>10
      <4>2. QED
        BY <3>1, <3>3, <4>1, ChainKept
    <3>5. QED
      BY <3>1, <3>2, <3>4
  <2>4. QED
    BY <2>1, <2>2, <2>3
<1>12. QED
  BY <1>5, <1>9, <1>11 DEF Lists

-----------------------------------------------------------------------------
(***************************************************************************)
(* The inductive invariant.                                                *)
(***************************************************************************)

\* proc_init: idleproc has the one child initproc.
LEMMA InitIInv == ASSUME Init, ~FilesMayFail PROVE IInv
<1> USE SchedAssumption, ProcAssumption DEF Thread
<1>1. SchedTypeOK /\ RunQueueOK
  <2>1. run_list = <<initproc>> /\ run_list \in Seq(Proc) /\ Len(run_list) = 1 /\ run_list[1] = initproc
    BY DEF Init
  <2>2. Range(run_list) = {initproc}
    <3>1. \A x : x \in Range(run_list) <=> \E i \in 1 .. Len(run_list) : run_list[i] = x
      BY <2>1, RangeFacts
    <3>2. QED
      BY <2>1, <3>1
  <2>3. IsInjective(run_list)
    BY <2>1 DEF IsInjective
  <2>4. SchedTypeOK
    BY <2>1 DEF Init, SchedTypeOK, ProcState, WaitState
  <2>5. RunQueueOK
    BY <2>2, <2>3 DEF Init, RunQueueOK
  <2>6. QED
    BY <2>4, <2>5
<1>2. TypeOK
  <2>1. {parent, cptr, optr, yptr} \subseteq [Thread -> Thread \cup {NULL}]
    BY DEF Init
  <2>2. pc \in [Proc -> Location] /\ waitpid \in [Proc -> Proc \cup {NULL}]
    BY DEF Init, Location
  <2>3. QED
    BY <1>1, <2>1, <2>2 DEF Init, TypeOK
<1>3. TableOK
  <2>1. Cardinality({initproc}) = 1 /\ allocated = {initproc} /\ proc_list = allocated /\ nr_process = 2
    BY FS_Singleton DEF Init
  <2>2. QED
    BY <2>1 DEF TableOK
<1>4. Lists
  <2>1. SUFFICES ASSUME NEW p \in Thread
                 PROVE  \E s \in Seq(Proc) : /\ Range(s) = Kids(p)
                                             /\ Chained(s, cptr[p], optr, yptr, Exempt(p))
    BY DEF Lists
  <2>2. CASE p = idleproc
    <3> DEFINE s == <<initproc>>
    <3>1. s \in Seq(Proc) /\ Len(s) = 1 /\ s[1] = initproc /\ s # <<>>
      OBVIOUS
    <3> HIDE DEF s
    <3>2. Range(s) = {initproc}
      BY <3>1, RangeFacts
    <3>3. Kids(p) = {initproc}
      BY <2>2 DEF Init, Kids
    <3>4. IsInjective(s)
      BY <3>1 DEF IsInjective
    <3>5. Chained(s, cptr[p], optr, yptr, Exempt(p))
      BY <2>2, <3>1, <3>4 DEF Init, Chained
    <3>6. QED
      BY <3>1, <3>2, <3>3, <3>5
  <2>3. CASE p # idleproc
    <3> DEFINE s == <<>>
    <3>1. s \in Seq(Proc) /\ Len(s) = 0 /\ DOMAIN s = {}
      OBVIOUS
    <3>2. Range(s) = {} /\ IsInjective(s)
      BY <3>1 DEF Range, IsInjective
    <3>3. Kids(p) = {} /\ cptr[p] = NULL
      BY <2>3 DEF Init, Kids
    <3>4. Chained(s, cptr[p], optr, yptr, Exempt(p))
      BY <3>1, <3>2, <3>3 DEF Chained
    <3>5. QED
      BY <3>1, <3>2, <3>3, <3>4
  <2>4. QED
    BY <2>2, <2>3
<1>5. ParentsOK
  BY DEF Init, ParentsOK
<1>6. Acyclic
  <2>1. Depth([p \in Proc |-> 0])
    BY DEF Init, Depth
  <2>2. QED
    BY <2>1 DEF Acyclic
<1>7. ControlOK
  BY DEF Init, ControlOK, InitOnly, Dying, User
<1>8. Childless /\ WaitersOK
  BY DEF Init, Childless, WaitersOK
<1>9. QED
  BY <1>1, <1>2, <1>3, <1>4, <1>5, <1>6, <1>7, <1>8 DEF IInv

\* Where a process is and what its state is, for the one that owns the CPU.
LEMMA Running ==
    ASSUME IInv, NEW p \in Proc, current = p
    PROVE  /\ p \in allocated /\ pc[p] # "gone" /\ state[p] # "UNINIT"
           /\ pc[p] \notin Dying => state[p] # "ZOMBIE"
           /\ pc[p] \notin Dying \cup {"wait.schedule"} =>
                state[p] = "RUNNABLE" /\ wait_state[p] = "none"
           /\ \A q \in Proc : q # p => pc[q] \notin Dying
BY DEF IInv, ControlOK, ParentsOK, Dying, TypeOK, SchedTypeOK

\* The parts of the invariant that concern the table and the tree survive a step
\* that touches neither, provided that whoever leaves the loop of do_exit, or
\* init_main, has no child.
LEMMA QuietStep ==
    ASSUME IInv, UNCHANGED <<table, tree>>, SchedTypeOK', RunQueueOK',
           exiting' \in [Proc -> BOOLEAN], waitpid' \in [Proc -> Proc \cup {NULL}],
           pc' \in [Proc -> Location],
           \A p \in Proc \ allocated : pc'[p] = pc[p],
           \A p \in Proc : pc'[p] # pc[p] =>
             (pc[p] = "exit.reparent" \/ pc'[p] \in {"gone", "init.done"} => Kids(p) = {}),
           ControlOK', WaitersOK'
    PROVE  IInv'
<1>1. TypeOK' /\ TableOK'
  BY DEF IInv, TypeOK, TableOK, table, tree
<1>2. Lists'
  BY SameLists DEF IInv
<1>3. \A p \in Proc : Kids(p)' = Kids(p)
  BY DEF Kids, tree
<1>4. ParentsOK'
  BY DEF IInv, ParentsOK, table, tree
<1>5. Acyclic'
  <2>1. PICK d : Depth(d)
    BY DEF IInv, Acyclic
  <2>2. Depth(d)'
    BY <2>1 DEF Depth, table, tree
  <2>3. QED
    BY <2>2 DEF Acyclic
<1>6. Childless'
  BY <1>3 DEF IInv, Childless
<1>7. QED
  BY <1>1, <1>2, <1>4, <1>5, <1>6 DEF IInv

\* The step of a process that owns the CPU, does not die and moves on to l, with
\* or without giving up the CPU.
LEMMA MoveStep ==
    ASSUME IInv, NEW p \in Proc, NEW l, current = p, pc[p] \notin Dying,
           pc' = [pc EXCEPT ![p] = l],
           l \in Location \ (Dying \cup {"gone", "wait.schedule"}),
           p = initproc => l \notin {"user", "trap.return"},
           p # initproc => l \notin InitOnly,
           l = "init.done" => Kids(p) = {},
           state[p] = "SLEEPING" => l = "wait.woken" /\ waitpid' = waitpid,
           SchedTypeOK', RunQueueOK', current' \in Proc => state[current'] = "RUNNABLE",
           UNCHANGED <<state, wait_state, table, tree, exiting>>,
           waitpid' \in [Proc -> Proc \cup {NULL}], waitpid'[initproc] = NULL,
           \A q \in Proc : q # p => waitpid'[q] = waitpid[q]
    PROVE  IInv'
<1>1. /\ p \in allocated /\ pc[p] # "gone" /\ state[p] # "UNINIT" /\ state[p] # "ZOMBIE"
      /\ \A q \in Proc : q # p => pc[q] \notin Dying
  BY Running
<1>2. /\ pc \in [Proc -> Location] /\ exiting \in [Proc -> BOOLEAN]
      /\ pc' \in [Proc -> Location] /\ pc'[p] = l
      /\ \A q \in Proc : q # p => pc'[q] = pc[q]
  BY DEF IInv, TypeOK
<1>3. ControlOK'
  <2>1. /\ waitpid'[initproc] = NULL
        /\ pc'[initproc] \in InitOnly \cup {"wait.scan", "wait.schedule", "wait.woken", "exit"}
        /\ \A q \in User : pc'[q] \notin InitOnly
    BY <1>2 DEF IInv, ControlOK, User, Location, Dying, InitOnly
  <2>2. ASSUME NEW q \in Proc
        PROVE  /\ current' = q => state'[q] = "RUNNABLE"
               /\ pc'[q] \notin Dying
               /\ state'[q] = "ZOMBIE" <=> pc'[q] \in Dying \cup {"gone"}
               /\ state'[q] = "UNINIT" <=> q \notin allocated'
               /\ state'[q] = "SLEEPING" => pc'[q] \in {"wait.schedule", "wait.woken"}
               /\ wait_state'[q] = IF state'[q] = "SLEEPING" THEN "WT_CHILD" ELSE "none"
    BY <1>1, <1>2 DEF IInv, ControlOK, table
  <2>3. QED
    BY <2>1, <2>2 DEF ControlOK
<1>4. WaitersOK'
  <2>1. SUFFICES ASSUME NEW q \in Proc, state'[q] = "SLEEPING"
                 PROVE  /\ Wanted(q)' # {}
                        /\ \A c \in Wanted(q)' : state'[c] = "ZOMBIE" => pc'[c] = "exit.notify"
    BY DEF WaitersOK
  <2>2. waitpid'[q] = waitpid[q]
    BY <2>1
  <2>3. Wanted(q)' = Wanted(q) /\ \A c \in Wanted(q) : c \in Proc
    BY <2>2 DEF Wanted, Kids, tree
  <2>4. /\ Wanted(q) # {}
        /\ \A c \in Wanted(q) : state[c] = "ZOMBIE" => pc[c] = "exit.notify"
    BY <2>1 DEF IInv, WaitersOK
  <2>5. QED
    BY <1>1, <1>2, <2>3, <2>4 DEF Dying
<1>5. QED
  BY <1>1, <1>2, <1>3, <1>4, QuietStep DEF Dying

\* What do_wait looks at, by its walk or by its look-up of a pid, are the children
\* that are wanted.
LEMMA CandidatesWanted ==
    ASSUME IInv, NEW p \in Proc
    PROVE  Candidates(p) = Wanted(p)
<1>1. Children(p) = Kids(p)
  BY ChildrenFacts DEF IInv, Thread
<1>2. NULL \notin Proc /\ \A c \in Kids(p) : c \in Proc /\ parent[c] = p
  BY ProcAssumption DEF Thread, Kids
<1>3. \A c \in Proc : parent[c] = p => c \in proc_list
  BY <1>2 DEF IInv, ParentsOK, TableOK
<1>4. CASE waitpid[p] = NULL
  BY <1>1, <1>4 DEF Candidates, Wanted
<1>5. CASE waitpid[p] # NULL
  BY <1>2, <1>3, <1>5 DEF Candidates, Wanted, Kids, IInv, TypeOK
<1>6. QED
  BY <1>4, <1>5

\* schedule() for a step that changes neither states nor wait states.
LEMMA SwitchFacts ==
    ASSUME IInv, schedule, UNCHANGED <<state, wait_state>>
    PROVE  /\ SchedTypeOK' /\ RunQueueOK'
           /\ current' \in Proc => state[current'] = "RUNNABLE"
BY ScheduleFacts DEF IInv, TypeOK

\* A step that leaves the scheduler alone.
LEMMA StayFacts ==
    ASSUME IInv, NEW p \in Proc, current = p, pc[p] \notin Dying \cup {"wait.schedule"},
           UNCHANGED sched_vars
    PROVE  /\ SchedTypeOK' /\ RunQueueOK' /\ UNCHANGED <<state, wait_state>>
           /\ current' \in Proc => state[current'] = "RUNNABLE"
           /\ state[p] # "SLEEPING"
BY Running DEF IInv, TypeOK, SchedTypeOK, RunQueueOK, sched_vars

\* The steps in which a live process moves on.
LEMMA MoveActions ==
    ASSUME IInv, NEW p \in Proc,
           \/ p # initproc /\ (ForkRefused(p) \/ sys_exit(p))
           \/ p # initproc /\ \E pid \in User \cup {NULL} : sys_wait(p, pid)
           \/ WaitNoChild(p) \/ WaitSwitch(p) \/ WaitWoken(p) \/ TrapReturn(p)
    PROVE  IInv'
<1> USE DEF At, Goto, Return, Dying, InitOnly, Location
<1>1. /\ waitpid \in [Proc -> Proc \cup {NULL}] /\ waitpid[initproc] = NULL /\ initproc \in Proc
      /\ NULL \notin Proc
      /\ pc[initproc] \in InitOnly \cup {"wait.scan", "wait.schedule", "wait.woken", "exit"}
  BY ProcAssumption DEF IInv, TypeOK, ControlOK, Thread
<1>2. CASE p # initproc /\ (ForkRefused(p) \/ sys_exit(p))
  <2>1. /\ current = p /\ pc[p] = "user" /\ UNCHANGED sched_vars
        /\ UNCHANGED <<table, tree, exiting, waitpid>>
        /\ \E l \in {"trap.return", "exit"} : pc' = [pc EXCEPT ![p] = l]
    BY <1>2 DEF ForkRefused, sys_exit
  <2>2. PICK l \in {"trap.return", "exit"} : pc' = [pc EXCEPT ![p] = l]
    BY <2>1
  <2>3. QED
    BY <1>1, <1>2, <2>1, <2>2, StayFacts, MoveStep
<1>3. ASSUME p # initproc, NEW pid \in User \cup {NULL}, sys_wait(p, pid) PROVE IInv'
  <2>1. /\ current = p /\ pc[p] = "user" /\ UNCHANGED sched_vars
        /\ UNCHANGED <<table, tree, exiting>> /\ waitpid' = [waitpid EXCEPT ![p] = pid]
        /\ pc' = [pc EXCEPT ![p] = "wait.scan"]
    BY <1>3 DEF sys_wait
  <2>2. /\ waitpid' \in [Proc -> Proc \cup {NULL}] /\ waitpid'[initproc] = NULL
        /\ \A q \in Proc : q # p => waitpid'[q] = waitpid[q]
    BY <1>1, <1>3, <2>1 DEF User
  <2>3. QED
    BY <1>1, <1>3, <2>1, <2>2, StayFacts, MoveStep
<1>4. CASE WaitNoChild(p)
  <2> DEFINE l == IF p = initproc THEN "init.done" ELSE "trap.return"
  <2>1. /\ current = p /\ pc[p] = "wait.scan" /\ UNCHANGED sched_vars
        /\ UNCHANGED <<table, tree, exiting>> /\ waitpid' = [waitpid EXCEPT ![p] = NULL]
        /\ pc' = [pc EXCEPT ![p] = l] /\ Candidates(p) = {}
    BY <1>4 DEF WaitNoChild
  <2>2. /\ waitpid' \in [Proc -> Proc \cup {NULL}] /\ waitpid'[initproc] = NULL
        /\ \A q \in Proc : q # p => waitpid'[q] = waitpid[q]
    BY <1>1, <2>1
  <2>3. p = initproc => Kids(p) = {}
    BY <1>1, <2>1, CandidatesWanted DEF Wanted
  <2>4. /\ l \in Location \ (Dying \cup {"gone", "wait.schedule"})
        /\ p = initproc => l \notin {"user", "trap.return"}
        /\ p # initproc => l \notin InitOnly
        /\ l = "init.done" => Kids(p) = {}
    BY <2>3
  <2> HIDE DEF l
  <2>5. QED
    BY <2>1, <2>2, <2>4, StayFacts, MoveStep
<1>5. CASE WaitSwitch(p)
  <2>1. /\ current = p /\ pc[p] = "wait.schedule" /\ schedule
        /\ UNCHANGED <<state, wait_state, table, tree, exiting, waitpid>>
        /\ pc' = [pc EXCEPT ![p] = "wait.woken"]
    BY <1>5 DEF WaitSwitch
  <2>2. QED
    BY <1>1, <2>1, SwitchFacts, MoveStep
<1>6. CASE WaitWoken(p)
  <2> DEFINE l == IF exiting[p] THEN "exit" ELSE "wait.scan"
  <2>1. /\ current = p /\ pc[p] = "wait.woken" /\ UNCHANGED sched_vars
        /\ UNCHANGED <<table, tree, exiting, waitpid>>
        /\ pc' = [pc EXCEPT ![p] = l]
    BY <1>6 DEF WaitWoken
  <2>2. /\ l \in Location \ (Dying \cup {"gone", "wait.schedule"})
        /\ l \notin {"user", "trap.return"}
        /\ l \notin InitOnly
    OBVIOUS
  <2> HIDE DEF l
  <2>3. QED
    BY <1>1, <2>1, <2>2, StayFacts, MoveStep
<1>7. CASE TrapReturn(p)
  <2> DEFINE l == IF exiting[p] THEN "exit" ELSE "user"
  <2>1. /\ current = p /\ pc[p] = "trap.return"
        /\ UNCHANGED <<state, wait_state, table, tree, exiting, waitpid>>
        /\ schedule \/ UNCHANGED sched_vars
        /\ pc' = [pc EXCEPT ![p] = l]
    BY <1>7 DEF TrapReturn, sched_vars
  <2>2. /\ l \in Location \ (Dying \cup {"gone", "wait.schedule"})
        /\ p # initproc /\ l \notin InitOnly
    BY <1>1, <2>1
  <2> HIDE DEF l
  <2>3. /\ SchedTypeOK' /\ RunQueueOK'
        /\ current' \in Proc => state[current'] = "RUNNABLE"
        /\ state[p] # "SLEEPING"
    BY <2>1, SwitchFacts, StayFacts, Running
  <2>4. QED
    BY <1>1, <2>1, <2>2, <2>3, MoveStep
<1>8. QED
  BY <1>2, <1>3, <1>4, <1>5, <1>6, <1>7

\* The scheduling points of init_main and of the idle loop.
LEMMA InitSwitchStep == ASSUME IInv, InitSwitch PROVE IInv'
<1> USE DEF At, Goto, Dying, InitOnly, Location
<1>1. /\ current = initproc /\ pc[initproc] = "init.schedule" /\ schedule
      /\ UNCHANGED <<state, wait_state, table, tree, exiting, waitpid>>
      /\ pc' = [pc EXCEPT ![initproc] = "wait.scan"]
  BY DEF InitSwitch
<1>2. initproc \in Proc /\ waitpid \in [Proc -> Proc \cup {NULL}] /\ waitpid[initproc] = NULL
  BY ProcAssumption DEF IInv, TypeOK, ControlOK
<1>3. state[initproc] # "SLEEPING"
  BY <1>1, <1>2, Running
<1>4. QED
  BY <1>1, <1>2, <1>3, SwitchFacts, MoveStep

\* A step that moves nobody: the CPU goes to a runnable process, or stays.
LEMMA NobodyMoves ==
    ASSUME IInv, SchedTypeOK', RunQueueOK', UNCHANGED <<state, wait_state, proc_vars>>,
           current' = current \/ (current \notin Proc /\
                                 (current' \in Proc => state[current'] = "RUNNABLE"))
    PROVE  IInv'
<1>1. UNCHANGED <<table, tree, exiting, waitpid, pc>>
  BY DEF proc_vars
<1>2. ControlOK'
  BY <1>1 DEF IInv, ControlOK, table
<1>3. WaitersOK'
  BY <1>1 DEF IInv, WaitersOK, Wanted, Kids, tree
<1>4. QED
  BY <1>1, <1>2, <1>3, QuietStep DEF IInv, TypeOK

\* cpu_idle finds somebody to run, or itself.
LEMMA IdleLoopStep == ASSUME IInv, IdleLoop PROVE IInv'
<1>1. /\ current = idleproc /\ schedule /\ UNCHANGED <<state, wait_state, proc_vars>>
      /\ idleproc \notin Proc
  BY SchedAssumption DEF IdleLoop
<1>2. QED
  BY <1>1, SwitchFacts, NobodyMoves

\* A tick sends user code into trap() and leaves a kernel thread where it is.
LEMMA TickStep == ASSUME IInv, Tick PROVE IInv'
<1>1. /\ current \in {idleproc, initproc} \cup {p \in User : pc[p] = "user"}
      /\ UNCHANGED <<state, wait_state, run_list, current, table, tree, exiting, waitpid>>
      /\ SchedTypeOK' /\ RunQueueOK'
  BY TickFacts DEF Tick, IInv, TypeOK
<1>2. CASE current \in User
  <2>1. /\ pc[current] = "user" /\ current \in Proc /\ current # initproc
        /\ pc' = [pc EXCEPT ![current] = "trap.return"]
    BY <1>1, <1>2, SchedAssumption DEF User, Tick, Goto
  <2>2. state[current] = "RUNNABLE"
    BY <2>1, Running DEF Dying
  <2>3. waitpid \in [Proc -> Proc \cup {NULL}] /\ waitpid[initproc] = NULL
    BY DEF IInv, TypeOK, ControlOK
  <2>4. QED
    BY <1>1, <2>1, <2>2, <2>3, MoveStep DEF Dying, InitOnly, Location
<1>3. CASE current \notin User
  <2>1. pc' = pc
    BY <1>3 DEF Tick
  <2>2. QED
    BY <1>1, <2>1, NobodyMoves DEF proc_vars
<1>4. QED
  BY <1>2, <1>3

\* do_exit up to the state change: initproc panics, any other becomes a zombie.
LEMMA ExitStep == ASSUME IInv, NEW p \in Proc, do_exit(p) PROVE IInv'
<1> USE DEF At, Goto, Dying, InitOnly, Location
<1>1. /\ current = p /\ pc[p] = "exit"
      /\ UNCHANGED <<wait_state, run_list, current, need_resched, time_slice>>
      /\ UNCHANGED <<table, tree, exiting, waitpid>>
      /\ p = initproc => pc' = [pc EXCEPT ![p] = "panic"] /\ state' = state
      /\ p # initproc => /\ pc' = [pc EXCEPT ![p] = "exit.notify"]
                         /\ state' = [state EXCEPT ![p] = "ZOMBIE"]
  BY DEF do_exit
<1>2. /\ p \in allocated /\ state[p] = "RUNNABLE" /\ wait_state[p] = "none"
      /\ \A q \in Proc : q # p => pc[q] \notin Dying
  BY <1>1, Running
<1>3. /\ waitpid \in [Proc -> Proc \cup {NULL}] /\ waitpid[initproc] = NULL
      /\ exiting \in [Proc -> BOOLEAN] /\ pc \in [Proc -> Location]
      /\ SchedTypeOK /\ RunQueueOK
  BY DEF IInv, TypeOK, ControlOK
<1>4. CASE p = initproc
  BY <1>1, <1>2, <1>3, <1>4, StayFacts, MoveStep DEF sched_vars
<1>5. CASE p # initproc
  <2>1. /\ pc' \in [Proc -> Location] /\ pc'[p] = "exit.notify"
        /\ \A q \in Proc : q # p => pc'[q] = pc[q]
    BY <1>1, <1>3, <1>5
  <2>2. /\ state' \in [Thread -> ProcState] /\ state'[p] = "ZOMBIE"
        /\ \A q \in Proc : q # p => state'[q] = state[q]
    BY <1>1, <1>3, <1>5 DEF SchedTypeOK, ProcState, Thread
  <2>3. SchedTypeOK' /\ RunQueueOK'
    BY <1>1, <1>3, <2>2 DEF SchedTypeOK, RunQueueOK
  <2>4. ControlOK'
    BY <1>1, <1>2, <1>5, <2>1, <2>2, ProcAssumption DEF IInv, ControlOK, User, table
  <2>5. WaitersOK'
    BY <1>1, <2>1, <2>2 DEF IInv, WaitersOK, Wanted, Kids, tree
  <2>6. QED
    BY <1>1, <1>2, <1>3, <2>1, <2>3, <2>4, <2>5, QuietStep
<1>6. QED
  BY <1>4, <1>5

\* Waking a process that waits for a child, or none.
LEMMA WakeStep ==
    ASSUME IInv, NEW q \in Proc, UNCHANGED <<current, need_resched>>,
           \/ wakeup_proc(q) /\ wait_state[q] = "WT_CHILD"
           \/ UNCHANGED <<state, wait_state, run_list, time_slice>>
    PROVE  /\ SchedTypeOK' /\ RunQueueOK'
           /\ \A r \in Proc : \/ state'[r] = state[r] /\ wait_state'[r] = wait_state[r]
                             \/ /\ r = q /\ state[r] = "SLEEPING"
                                /\ state'[r] = "RUNNABLE" /\ wait_state'[r] = "none"
<1>1. SchedTypeOK /\ RunQueueOK /\ \A r \in Proc : r \in Thread
  BY DEF IInv, TypeOK, Thread
<1>2. CASE wakeup_proc(q) /\ wait_state[q] = "WT_CHILD"
  <2>1. state[q] = "SLEEPING"
    BY <1>2 DEF IInv, ControlOK
  <2>2. SchedTypeOK' /\ RunQueueOK' /\ state' = [state EXCEPT ![q] = "RUNNABLE"]
    BY <1>1, <1>2, WakeupFacts
  <2>3. /\ \A r \in Thread : r # q => wait_state'[r] = wait_state[r]
        /\ wait_state'[q] = "none"
    BY <1>1, <1>2, <2>1, WakeupWaitState
  <2>4. QED
    BY <1>1, <2>1, <2>2, <2>3 DEF SchedTypeOK
<1>3. CASE UNCHANGED <<state, wait_state, run_list, time_slice>>
  BY <1>1, <1>3 DEF SchedTypeOK, RunQueueOK
<1>4. QED
  BY <1>2, <1>3

\* The notification of the parent: if it sleeps it is woken, so that nobody sleeps
\* for a child that has notified.
LEMMA NotifyStep == ASSUME IInv, NEW p \in Proc, NotifyParent(p) PROVE IInv'
<1> USE DEF At, Goto, Dying, InitOnly, Location
<1>1. /\ current = p /\ pc[p] = "exit.notify"
      /\ UNCHANGED <<current, need_resched, table, tree, exiting, waitpid>>
      /\ pc' = [pc EXCEPT ![p] = "exit.reparent"]
      /\ wait_state[parent[p]] = "WT_CHILD" => wakeup_proc(parent[p])
      /\ wait_state[parent[p]] # "WT_CHILD" =>
           UNCHANGED <<state, wait_state, run_list, time_slice>>
  BY DEF NotifyParent
<1>2. /\ p \in allocated /\ p # initproc /\ state[p] = "ZOMBIE"
      /\ \A q \in Proc : q # p => pc[q] \notin Dying
  BY <1>1, Running DEF IInv, ControlOK
<1>3. parent[p] \in Proc /\ exiting \in [Proc -> BOOLEAN]
      /\ waitpid \in [Proc -> Proc \cup {NULL}]
  BY <1>2 DEF IInv, ParentsOK, TypeOK
<1>4. PICK q \in Proc : q = parent[p]
  BY <1>3
<1>5. /\ SchedTypeOK' /\ RunQueueOK'
      /\ \A r \in Proc : \/ state'[r] = state[r] /\ wait_state'[r] = wait_state[r]
                        \/ /\ r = q /\ state[r] = "SLEEPING"
                           /\ state'[r] = "RUNNABLE" /\ wait_state'[r] = "none"
  BY <1>1, <1>4, WakeStep
<1>6. state'[q] # "SLEEPING"
  <2>1. CASE wait_state[q] = "WT_CHILD"
    <3>1. wakeup_proc(q) /\ SchedTypeOK
      BY <1>1, <1>4, <2>1 DEF IInv, TypeOK
    <3>2. QED
      BY <3>1, WakeupFacts, <1>1 DEF IInv, TypeOK, SchedTypeOK, Thread
  <2>2. CASE wait_state[q] # "WT_CHILD"
    BY <1>1, <1>4, <2>2 DEF IInv, ControlOK
  <2>3. QED
    BY <2>1, <2>2
<1>7. /\ pc' \in [Proc -> Location] /\ pc'[p] = "exit.reparent"
      /\ \A r \in Proc : r # p => pc'[r] = pc[r]
  BY <1>1 DEF IInv, TypeOK
<1>8. ControlOK'
  BY <1>1, <1>2, <1>5, <1>7 DEF IInv, ControlOK, User, table
<1>9. WaitersOK'
  BY <1>1, <1>4, <1>5, <1>6, <1>7 DEF IInv, WaitersOK, Wanted, Kids, tree
<1>10. QED
  BY <1>1, <1>2, <1>3, <1>5, <1>7, <1>8, <1>9, QuietStep

\* The last step of do_exit, which finds the list of children empty.
LEMMA ExitSwitchStep == ASSUME IInv, NEW p \in Proc, ExitSwitch(p) PROVE IInv'
<1> USE DEF At, Goto, Dying, InitOnly, Location
<1>1. /\ current = p /\ pc[p] = "exit.reparent" /\ cptr[p] = NULL /\ schedule
      /\ UNCHANGED <<state, wait_state, table, tree, exiting, waitpid>>
      /\ pc' = [pc EXCEPT ![p] = "gone"]
  BY DEF ExitSwitch
<1>2. /\ p \in allocated /\ p # initproc /\ state[p] = "ZOMBIE"
      /\ \A q \in Proc : q # p => pc[q] \notin Dying
  BY <1>1, Running DEF IInv, ControlOK
<1>3. Kids(p) = {}
  <2>1. PICK s \in Seq(Proc) : Range(s) = Kids(p) /\ Chained(s, cptr[p], optr, yptr, Exempt(p))
    BY DEF IInv, Lists, Thread
  <2>2. s = <<>>
    BY <1>1, <2>1, ChainEmpty
  <2>3. QED
    BY <2>1, <2>2 DEF Range
<1>4. /\ SchedTypeOK' /\ RunQueueOK'
      /\ current' \in Proc => state[current'] = "RUNNABLE"
  BY <1>1, SwitchFacts
<1>5. /\ pc' \in [Proc -> Location] /\ pc'[p] = "gone"
      /\ \A r \in Proc : r # p => pc'[r] = pc[r]
  BY <1>1 DEF IInv, TypeOK
<1>6. ControlOK'
  BY <1>1, <1>2, <1>4, <1>5 DEF IInv, ControlOK, User, table
<1>7. WaitersOK'
  BY <1>1, <1>5 DEF IInv, WaitersOK, Wanted, Kids, tree
<1>8. exiting \in [Proc -> BOOLEAN] /\ waitpid \in [Proc -> Proc \cup {NULL}]
  BY DEF IInv, TypeOK
<1>9. QED
  BY <1>1, <1>2, <1>3, <1>4, <1>5, <1>6, <1>7, <1>8, QuietStep

\* do_wait goes to sleep: it has looked at every child and none is a zombie.
LEMMA WaitSleepStep == ASSUME IInv, NEW p \in Proc, WaitSleep(p) PROVE IInv'
<1> USE DEF At, Goto, Dying, InitOnly, Location
<1>1. /\ current = p /\ pc[p] = "wait.scan" /\ Zombies(p) = {} /\ Candidates(p) # {}
      /\ UNCHANGED <<run_list, current, need_resched, time_slice>>
      /\ UNCHANGED <<table, tree, exiting, waitpid>>
      /\ pc' = [pc EXCEPT ![p] = "wait.schedule"]
      /\ state' = [state EXCEPT ![p] = "SLEEPING"]
      /\ wait_state' = [wait_state EXCEPT ![p] = "WT_CHILD"]
  BY DEF WaitSleep
<1>2. /\ p \in allocated /\ state[p] = "RUNNABLE"
      /\ \A q \in Proc : q # p => pc[q] \notin Dying
  BY <1>1, Running
<1>3. Wanted(p) # {} /\ \A c \in Wanted(p) : state[c] # "ZOMBIE"
  BY <1>1, CandidatesWanted DEF Zombies
<1>4. /\ pc' \in [Proc -> Location] /\ pc'[p] = "wait.schedule"
      /\ \A r \in Proc : r # p => pc'[r] = pc[r]
      /\ exiting \in [Proc -> BOOLEAN] /\ waitpid \in [Proc -> Proc \cup {NULL}]
  BY <1>1 DEF IInv, TypeOK
<1>5. SchedTypeOK /\ RunQueueOK
  BY DEF IInv, TypeOK
<1>6. /\ state' \in [Thread -> ProcState] /\ state'[p] = "SLEEPING"
      /\ wait_state' \in [Thread -> WaitState] /\ wait_state'[p] = "WT_CHILD"
      /\ \A q \in Proc : q # p => state'[q] = state[q] /\ wait_state'[q] = wait_state[q]
  BY <1>1, <1>5 DEF SchedTypeOK, ProcState, WaitState, Thread
<1>7. SchedTypeOK' /\ RunQueueOK'
  BY <1>1, <1>5, <1>6 DEF SchedTypeOK, RunQueueOK
<1>8. ControlOK'
  BY <1>1, <1>2, <1>4, <1>6 DEF IInv, ControlOK, User, table
<1>9. WaitersOK'
  <2>1. ASSUME NEW q \in Proc, state'[q] = "SLEEPING"
        PROVE  /\ Wanted(q)' # {}
               /\ \A c \in Wanted(q)' : state'[c] = "ZOMBIE" => pc'[c] = "exit.notify"
    <3>1. Wanted(q)' = Wanted(q) /\ \A c \in Wanted(q) : c \in Proc
      BY <1>1 DEF Wanted, Kids, tree
    <3>2. CASE q = p
      BY <1>3, <1>6, <3>1, <3>2
    <3>3. CASE q # p
      BY <1>1, <1>4, <1>6, <2>1, <3>1, <3>3 DEF IInv, WaitersOK
    <3>4. QED
      BY <3>2, <3>3
  <2>2. QED
    BY <2>1 DEF WaitersOK
<1>10. QED
  BY <1>1, <1>2, <1>4, <1>7, <1>8, <1>9, QuietStep

\* do_kill: the one it wakes looks at its flag before it waits again.
LEMMA KillStep ==
    ASSUME IInv, NEW p \in Proc, NEW target \in Proc, p # initproc, do_kill(p, target)
    PROVE  IInv'
<1> USE DEF At, Goto, Return, Dying, InitOnly, Location
<1>1. /\ current = p /\ pc[p] = "user"
      /\ UNCHANGED <<current, need_resched, table, tree, waitpid>>
      /\ pc' = [pc EXCEPT ![p] = "trap.return"]
      /\ \/ wakeup_proc(target) /\ wait_state[target] \in WT_INTERRUPTED
         \/ UNCHANGED <<state, wait_state, run_list, time_slice>>
      /\ \E b \in BOOLEAN : exiting' = [exiting EXCEPT ![target] = b]
  <2>1. exiting \in [Proc -> BOOLEAN]
    BY DEF IInv, TypeOK
  <2> DEFINE b == (target \in proc_list /\ ~exiting[target]) \/ exiting[target]
  <2>2. b \in BOOLEAN /\ exiting' = [exiting EXCEPT ![target] = b]
    BY <2>1 DEF do_kill
  <2> HIDE DEF b
  <2>3. QED
    BY <2>2 DEF do_kill
<1>2. /\ p \in allocated /\ state[p] = "RUNNABLE"
      /\ \A q \in Proc : q # p => pc[q] \notin Dying
  BY <1>1, Running
<1>3. wait_state[target] \in WT_INTERRUPTED => wait_state[target] = "WT_CHILD"
  BY DEF IInv, ControlOK, WT_INTERRUPTED
<1>4. /\ SchedTypeOK' /\ RunQueueOK'
      /\ \A r \in Proc : \/ state'[r] = state[r] /\ wait_state'[r] = wait_state[r]
                        \/ /\ r = target /\ state[r] = "SLEEPING"
                           /\ state'[r] = "RUNNABLE" /\ wait_state'[r] = "none"
  BY <1>1, <1>3, WakeStep
<1>5. /\ pc' \in [Proc -> Location] /\ pc'[p] = "trap.return"
      /\ \A r \in Proc : r # p => pc'[r] = pc[r]
      /\ exiting' \in [Proc -> BOOLEAN] /\ waitpid \in [Proc -> Proc \cup {NULL}]
  BY <1>1 DEF IInv, TypeOK
<1>6. ControlOK'
  BY <1>1, <1>2, <1>4, <1>5 DEF IInv, ControlOK, User, table
<1>7. WaitersOK'
  BY <1>1, <1>4, <1>5 DEF IInv, WaitersOK, Wanted, Kids, tree
<1>8. QED
  BY <1>1, <1>2, <1>4, <1>5, <1>6, <1>7, QuietStep

\* do_fork: a free structure becomes the youngest child of p.
LEMMA ForkStep ==
    ASSUME IInv, NEW p \in Proc, NEW c \in Proc, do_fork(p, c) PROVE IInv'
<1> USE DEF At, Goto, Dying, InitOnly, Location
<1> DEFINE l == IF p = initproc THEN "wait.scan" ELSE "trap.return"
<1>1. /\ current = p /\ pc[p] \in {"user", "init.fork"}
      /\ c \notin allocated /\ allocated' = allocated \cup {c}
      /\ set_links(c, p) /\ wakeup_proc(c)
      /\ pc' = [pc EXCEPT ![p] = l]
      /\ UNCHANGED <<current, need_resched, exiting, waitpid>>
  BY DEF do_fork, Forking, Return
<1>2. l \in {"wait.scan", "trap.return"} /\ (l = "trap.return" <=> p # initproc)
  OBVIOUS
<1> HIDE DEF l
<1>3. /\ p \in allocated /\ state[p] = "RUNNABLE"
      /\ \A q \in Proc : pc[q] \notin Dying
  BY <1>1, Running
<1>4. /\ c # p /\ c # initproc /\ pc[c] = "user" /\ parent[c] = NULL
      /\ state[c] = "UNINIT" /\ wait_state[c] = "none"
  BY <1>1, <1>3 DEF IInv, ParentsOK, ControlOK
<1>5. /\ NULL \notin Thread /\ initproc \in Proc /\ p \in Thread /\ c \in Thread
      /\ \A q \in Proc : q \in Thread
  BY ProcAssumption DEF Thread
<1>6. /\ pc' \in [Proc -> Location] /\ pc'[p] = l
      /\ \A q \in Proc : q # p => pc'[q] = pc[q]
  BY <1>1, <1>2 DEF IInv, TypeOK
<1>7. /\ parent \in [Thread -> Thread \cup {NULL}] /\ cptr \in [Thread -> Thread \cup {NULL}]
      /\ optr \in [Thread -> Thread \cup {NULL}] /\ yptr \in [Thread -> Thread \cup {NULL}]
  BY DEF IInv, TypeOK
<1>8. /\ parent' = [parent EXCEPT ![c] = p] /\ cptr' = [cptr EXCEPT ![p] = c]
      /\ optr' = [optr EXCEPT ![c] = cptr[p]]
      /\ yptr' = IF cptr[p] = NULL THEN [yptr EXCEPT ![c] = NULL]
                                   ELSE [yptr EXCEPT ![c] = NULL, ![cptr[p]] = c]
      /\ proc_list' = proc_list \cup {c} /\ nr_process' = nr_process + 1
  BY <1>1 DEF set_links, LinkChild
<1>9. \A f \in {parent', cptr', optr', yptr'} : f \in [Thread -> Thread \cup {NULL}]
  <2>1. parent' \in [Thread -> Thread \cup {NULL}] /\ cptr' \in [Thread -> Thread \cup {NULL}]
    BY <1>5, <1>7, <1>8
  <2>2. cptr[p] \in Thread \cup {NULL}
    BY <1>5, <1>7
  <2>3. optr' \in [Thread -> Thread \cup {NULL}] /\ yptr' \in [Thread -> Thread \cup {NULL}]
    BY <1>5, <1>7, <1>8, <2>2
  <2>4. QED
    BY <2>1, <2>3
<1>10. /\ SchedTypeOK' /\ RunQueueOK' /\ state'[c] = "RUNNABLE" /\ wait_state'[c] = "none"
       /\ \A q \in Proc : q # c => state'[q] = state[q] /\ wait_state'[q] = wait_state[q]
  BY <1>1, <1>4, <1>5, WakeupFacts, WakeupWaitState DEF IInv, TypeOK, SchedTypeOK
<1>11. /\ parent'[c] = p /\ \A q \in Proc : q # c => parent'[q] = parent[q]
       /\ \A q \in Proc : q # p => Kids(q)' = Kids(q)
  <2>1. parent'[c] = p /\ \A q \in Proc : q # c => parent'[q] = parent[q]
    BY <1>5, <1>7, <1>8
  <2>2. ASSUME NEW q \in Proc, q # p PROVE Kids(q)' = Kids(q)
    BY <1>4, <1>5, <2>1, <2>2 DEF Kids
  <2>3. QED
    BY <2>1, <2>2
<1>12. TableOK'
  <2>1. IsFiniteSet(allocated)
    BY ProcAssumption, FS_Subset DEF IInv, TypeOK
  <2>2. Cardinality(allocated') = Cardinality(allocated) + 1 /\ Cardinality(allocated) \in Nat
    BY <1>1, <2>1, FS_AddElement, FS_CardinalityType
  <2>3. QED
    BY <1>1, <1>8, <2>2 DEF IInv, TableOK
<1>13. TypeOK'
  BY <1>1, <1>6, <1>8, <1>9, <1>10 DEF IInv, TypeOK
<1>14. Lists'
  <2>1. /\ ~Exempt(p) /\ \A q \in Thread : Exempt(q)' = Exempt(q)
    BY <1>1, <1>2, <1>6 DEF Exempt
  <2>2. QED
    BY <1>1, <1>4, <2>1, LinkLists DEF IInv
<1>15. ParentsOK'
  <2>1. \A q \in Proc \ allocated : parent[q] = NULL /\ pc[q] = "user"
    BY DEF IInv, ParentsOK
  <2>2. ASSUME NEW q \in Proc \ allocated' PROVE parent'[q] = NULL /\ pc'[q] = "user"
    BY <1>1, <1>3, <1>6, <1>11, <2>1, <2>2
  <2>3. ASSUME NEW q \in allocated' \ {initproc} PROVE parent'[q] \in allocated'
    BY <1>1, <1>3, <1>11, <2>3 DEF IInv, ParentsOK, TypeOK
  <2>4. initproc \in allocated' /\ parent'[initproc] = idleproc
    BY <1>1, <1>4, <1>5, <1>11 DEF IInv, ParentsOK
  <2>5. QED
    BY <2>2, <2>3, <2>4 DEF ParentsOK
<1>16. Acyclic'
  <2>1. PICK d : Depth(d)
    BY DEF IInv, Acyclic
  <2>2. d \in [Proc -> Nat] /\ d[initproc] = 0
    BY <2>1 DEF Depth
  <2> DEFINE e == [d EXCEPT ![c] = d[p] + 1]
  <2>3. e \in [Proc -> Nat] /\ e[c] = d[p] + 1 /\ \A q \in Proc : q # c => e[q] = d[q]
    BY <2>2
  <2> HIDE DEF e
  <2>4. ASSUME NEW q \in allocated' \ {initproc} PROVE e[parent'[q]] < e[q]
    <3>1. CASE q = c
      BY <1>4, <1>11, <2>2, <2>3, <3>1
    <3>2. CASE q # c
      <4>1. q \in allocated \ {initproc} /\ q \in Proc
        BY <1>1, <2>4, <3>2 DEF IInv, TypeOK
      <4>2. parent[q] \in allocated /\ parent[q] \in Proc /\ parent[q] # c
        BY <1>1, <4>1 DEF IInv, TypeOK, ParentsOK
      <4>3. d[parent[q]] < d[q]
        BY <2>1, <4>1 DEF Depth
      <4>4. QED
        BY <1>11, <2>3, <3>2, <4>1, <4>2, <4>3
    <3>3. QED
      BY <3>1, <3>2
  <2>5. Depth(e)'
    BY <1>4, <1>5, <2>2, <2>3, <2>4 DEF Depth
  <2>6. QED
    BY <2>5 DEF Acyclic
<1>17. ControlOK'
  <2>1. /\ waitpid'[initproc] = NULL
        /\ pc'[initproc] \in InitOnly \cup {"wait.scan", "wait.schedule", "wait.woken", "exit"}
        /\ \A q \in User : pc'[q] \notin InitOnly
    BY <1>1, <1>2, <1>5, <1>6 DEF IInv, ControlOK, User
  <2>2. ASSUME NEW q \in Proc
        PROVE  /\ current' = q => state'[q] = "RUNNABLE"
               /\ pc'[q] \notin Dying
               /\ state'[q] = "ZOMBIE" <=> pc'[q] \in Dying \cup {"gone"}
               /\ state'[q] = "UNINIT" <=> q \notin allocated'
               /\ state'[q] = "SLEEPING" => pc'[q] \in {"wait.schedule", "wait.woken"}
               /\ wait_state'[q] = IF state'[q] = "SLEEPING" THEN "WT_CHILD" ELSE "none"
    <3>1. CASE q = c
      BY <1>1, <1>2, <1>3, <1>4, <1>6, <1>10, <3>1
    <3>2. CASE q # c
      BY <1>1, <1>2, <1>3, <1>4, <1>6, <1>10, <3>2 DEF IInv, ControlOK
    <3>3. QED
      BY <3>1, <3>2
  <2>3. QED
    BY <2>1, <2>2 DEF ControlOK
<1>18. Childless'
  BY <1>2, <1>6, <1>11 DEF IInv, Childless
<1>19. WaitersOK'
  <2>1. SUFFICES ASSUME NEW q \in Proc, state'[q] = "SLEEPING"
                 PROVE  /\ Wanted(q)' # {}
                        /\ \A x \in Wanted(q)' : state'[x] = "ZOMBIE" => pc'[x] = "exit.notify"
    BY DEF WaitersOK
  <2>2. q # c /\ q # p /\ state[q] = "SLEEPING"
    BY <1>3, <1>4, <1>10, <2>1
  <2>3. Wanted(q)' = Wanted(q) /\ \A x \in Wanted(q) : x \in Proc
    BY <1>1, <1>11, <2>2 DEF Wanted, Kids
  <2>4. QED
    BY <1>3, <1>6, <1>10, <2>2, <2>3 DEF IInv, WaitersOK
<1>20. QED
  BY <1>10, <1>12, <1>13, <1>14, <1>15, <1>16, <1>17, <1>18, <1>19 DEF IInv

\* do_wait takes a zombie out of the tree and frees it.  It has no child: it has
\* given up the CPU for good, or p would not run.
LEMMA ReapStep == ASSUME IInv, NEW p \in Proc, WaitReap(p) PROVE IInv'
<1> USE DEF At, Dying, InitOnly, Location
<1> DEFINE l == IF p = initproc THEN "init.schedule" ELSE "trap.return"
<1>1. /\ current = p /\ pc[p] = "wait.scan"
      /\ waitpid' = [waitpid EXCEPT ![p] = NULL]
      /\ UNCHANGED <<wait_state, run_list, current>>
  BY DEF WaitReap
<1>2. PICK c \in Proc :
         /\ Found(p, c) /\ remove_links(c) /\ allocated' = allocated \ {c}
         /\ state' = [state EXCEPT ![c] = "UNINIT"]
         /\ time_slice' = [time_slice EXCEPT ![c] = 0]
         /\ need_resched' = [need_resched EXCEPT ![c] = FALSE]
         /\ exiting' = [exiting EXCEPT ![c] = FALSE]
         /\ pc' = [pc EXCEPT ![c] = "user", ![p] = l]
  BY DEF WaitReap
<1>3. l \in {"init.schedule", "trap.return"} /\ (l = "trap.return" <=> p # initproc)
  OBVIOUS
<1> HIDE DEF l
<1>4. /\ p \in allocated /\ state[p] = "RUNNABLE"
      /\ \A q \in Proc : pc[q] \notin Dying
  BY <1>1, Running
<1>5. /\ NULL \notin Thread /\ initproc \in Proc /\ p \in Thread /\ c \in Thread
      /\ \A q \in Proc : q \in Thread
  BY ProcAssumption DEF Thread
<1>6. parent[c] = p /\ state[c] = "ZOMBIE" /\ pc[c] = "gone"
  <2>1. c \in Wanted(p) /\ state[c] = "ZOMBIE"
    BY <1>2, CandidatesWanted DEF Found, Zombies
  <2>2. QED
    BY <1>4, <2>1 DEF Wanted, Kids, IInv, ControlOK
<1>7. c # p /\ c # initproc /\ c \in allocated /\ Kids(c) = {} /\ wait_state[c] = "none"
  BY <1>1, <1>5, <1>6 DEF IInv, ControlOK, Childless
<1>8. /\ pc' \in [Proc -> Location] /\ pc'[p] = l /\ pc'[c] = "user"
      /\ \A q \in Proc : q # p /\ q # c => pc'[q] = pc[q]
  BY <1>2, <1>3, <1>7 DEF IInv, TypeOK
<1>9. Lists' /\ \A f \in {optr', yptr', cptr', parent'} : f \in [Thread -> Thread \cup {NULL}]
  <2>1. /\ ~Exempt(p) /\ \A q \in Thread : Exempt(q)' = Exempt(q)
    BY <1>1, <1>3, <1>6, <1>8 DEF Exempt
  <2>2. QED
    BY <1>2, <1>6, <2>1, UnlinkLists DEF IInv
<1>10. /\ parent' = [parent EXCEPT ![c] = NULL]
       /\ proc_list' = proc_list \ {c} /\ nr_process' = nr_process - 1
  BY <1>2 DEF remove_links
<1>11. /\ parent'[c] = NULL /\ \A q \in Proc : q # c => parent'[q] = parent[q]
       /\ \A q \in Proc : q # p => Kids(q)' = Kids(q)
  <2>1. parent'[c] = NULL /\ \A q \in Proc : q # c => parent'[q] = parent[q]
    BY <1>5, <1>10 DEF IInv, TypeOK
  <2>2. ASSUME NEW q \in Proc, q # p PROVE Kids(q)' = Kids(q)
    BY <1>5, <1>6, <2>1, <2>2 DEF Kids
  <2>3. QED
    BY <2>1, <2>2
<1>12. TableOK' /\ nr_process' \in Nat
  <2>1. IsFiniteSet(allocated)
    BY ProcAssumption, FS_Subset DEF IInv, TypeOK
  <2>2. Cardinality(allocated') = Cardinality(allocated) - 1 /\ Cardinality(allocated) \in Nat
    BY <1>2, <1>7, <2>1, FS_RemoveElement, FS_CardinalityType
  <2>3. proc_list = allocated /\ nr_process = Cardinality(allocated) + 1
    BY DEF IInv, TableOK
  <2>4. QED
    BY <1>2, <1>10, <2>2, <2>3 DEF TableOK
<1>13. /\ waitpid' \in [Proc -> Proc \cup {NULL}] /\ waitpid'[initproc] = NULL
       /\ \A q \in Proc : q # p => waitpid'[q] = waitpid[q]
  BY <1>1, <1>5 DEF IInv, TypeOK, ControlOK
<1>14. /\ state' \in [Thread -> ProcState] /\ state'[c] = "UNINIT"
       /\ \A q \in Proc : q # c => state'[q] = state[q]
  BY <1>2, <1>5 DEF IInv, TypeOK, SchedTypeOK, ProcState
<1>15. SchedTypeOK' /\ RunQueueOK'
  <2>1. /\ time_slice' \in [Thread -> 0 .. MAX_TIME_SLICE]
        /\ need_resched' \in [Thread -> BOOLEAN]
    <3>1. 0 \in 0 .. MAX_TIME_SLICE /\ FALSE \in BOOLEAN
      BY SchedAssumption
    <3>2. /\ time_slice \in [Thread -> 0 .. MAX_TIME_SLICE]
          /\ need_resched \in [Thread -> BOOLEAN]
      BY DEF IInv, TypeOK, SchedTypeOK
    <3>3. QED
      BY <1>2, <3>1, <3>2
  <2>2. SchedTypeOK'
    BY <1>1, <1>14, <2>1 DEF IInv, TypeOK, SchedTypeOK
  <2>3. RunQueueOK'
    BY <1>1, <1>6, <1>14 DEF IInv, RunQueueOK
  <2>4. QED
    BY <2>2, <2>3
<1>16. TypeOK'
  <2>1. exiting' \in [Proc -> BOOLEAN]
    BY <1>2 DEF IInv, TypeOK
  <2>2. allocated' \subseteq Proc /\ proc_list' \subseteq Proc
    BY <1>2, <1>10 DEF IInv, TypeOK
  <2>3. QED
    BY <1>8, <1>9, <1>12, <1>13, <1>15, <2>1, <2>2 DEF TypeOK
<1>17. ParentsOK'
  <2>1. ASSUME NEW q \in allocated' \ {initproc} PROVE parent'[q] \in allocated'
    BY <1>2, <1>7, <1>11, <2>1 DEF IInv, TypeOK, ParentsOK, Kids
  <2>2. ASSUME NEW q \in Proc \ allocated' PROVE parent'[q] = NULL /\ pc'[q] = "user"
    BY <1>2, <1>4, <1>8, <1>11, <2>2 DEF IInv, ParentsOK
  <2>3. QED
    BY <1>2, <1>5, <1>7, <1>11, <2>1, <2>2 DEF IInv, ParentsOK
<1>18. Acyclic'
  <2>1. PICK d : Depth(d)
    BY DEF IInv, Acyclic
  <2>2. Depth(d)'
    BY <1>2, <1>11, <2>1 DEF Depth, IInv, TypeOK
  <2>3. QED
    BY <2>2 DEF Acyclic
<1>19. ControlOK'
  <2>1. /\ waitpid'[initproc] = NULL
        /\ pc'[initproc] \in InitOnly \cup {"wait.scan", "wait.schedule", "wait.woken", "exit"}
        /\ \A q \in User : pc'[q] \notin InitOnly
    BY <1>3, <1>5, <1>7, <1>8, <1>13 DEF IInv, ControlOK, User
  <2>2. ASSUME NEW q \in Proc
        PROVE  /\ current' = q => state'[q] = "RUNNABLE"
               /\ pc'[q] \notin Dying
               /\ state'[q] = "ZOMBIE" <=> pc'[q] \in Dying \cup {"gone"}
               /\ state'[q] = "UNINIT" <=> q \notin allocated'
               /\ state'[q] = "SLEEPING" => pc'[q] \in {"wait.schedule", "wait.woken"}
               /\ wait_state'[q] = IF state'[q] = "SLEEPING" THEN "WT_CHILD" ELSE "none"
    <3>1. CASE q = c
      BY <1>1, <1>2, <1>7, <1>8, <1>14, <3>1
    <3>2. CASE q # c
      BY <1>1, <1>2, <1>3, <1>4, <1>7, <1>8, <1>14, <3>2 DEF IInv, ControlOK
    <3>3. QED
      BY <3>1, <3>2
  <2>3. QED
    BY <2>1, <2>2 DEF ControlOK
<1>20. Childless'
  BY <1>3, <1>7, <1>8, <1>11 DEF IInv, Childless
<1>21. WaitersOK'
  <2>1. SUFFICES ASSUME NEW q \in Proc, state'[q] = "SLEEPING"
                 PROVE  /\ Wanted(q)' # {}
                        /\ \A x \in Wanted(q)' : state'[x] = "ZOMBIE" => pc'[x] = "exit.notify"
    BY DEF WaitersOK
  <2>2. q # c /\ q # p /\ state[q] = "SLEEPING"
    BY <1>4, <1>7, <1>14, <2>1
  <2>3. Wanted(q)' = Wanted(q) /\ \A x \in Wanted(q) : x \in Proc /\ x # c
    BY <1>6, <1>11, <1>13, <2>2 DEF Wanted, Kids
  <2>4. QED
    BY <1>4, <1>8, <1>14, <2>2, <2>3 DEF IInv, WaitersOK
<1>22. QED
  BY <1>9, <1>12, <1>15, <1>16, <1>17, <1>18, <1>19, <1>20, <1>21 DEF IInv

\* One round of the loop of do_exit.  The child moves up the tree, and initproc is
\* told if it has just inherited a zombie.
LEMMA ReparentStep == ASSUME IInv, ~Halted, NEW p \in Proc, Reparent(p) PROVE IInv'
<1> USE DEF At, Dying, InitOnly, Location
<1>1. PICK c : c = cptr[p]
  OBVIOUS
<1>2. /\ current = p /\ pc[p] = "exit.reparent" /\ c # NULL
      /\ LinkChild(c, initproc)
      /\ cptr' = [cptr EXCEPT ![p] = optr[c], ![initproc] = c]
      /\ state[c] = "ZOMBIE" /\ wait_state[initproc] = "WT_CHILD" => wakeup_proc(initproc)
      /\ ~(state[c] = "ZOMBIE" /\ wait_state[initproc] = "WT_CHILD") =>
           UNCHANGED <<state, wait_state, run_list, time_slice>>
      /\ UNCHANGED <<current, need_resched, table, exiting, waitpid, pc>>
  BY <1>1 DEF Reparent
<1>3. /\ p \in allocated /\ p # initproc /\ state[p] = "ZOMBIE"
      /\ \A q \in Proc : q # p => pc[q] \notin Dying
  BY <1>2, Running DEF IInv, ControlOK
<1>4. /\ NULL \notin Thread /\ initproc \in Proc /\ p \in Thread /\ initproc \in Thread
      /\ idleproc \notin Proc /\ \A q \in Proc : q \in Thread
  BY ProcAssumption, SchedAssumption DEF Thread
<1>5. /\ Lists' /\ c \in Kids(p)
      /\ \A f \in {optr', yptr', cptr', parent'} : f \in [Thread -> Thread \cup {NULL}]
  <2>1. Exempt(p) /\ ~Exempt(initproc)
    BY <1>2, <1>3, <1>4 DEF Exempt
  <2>2. QED
    BY <1>1, <1>2, <1>3, <2>1, ReparentLists DEF IInv
<1>6. c \in Proc /\ parent[c] = p /\ c # initproc /\ c \in allocated
  BY <1>4, <1>5 DEF Kids, IInv, ParentsOK
<1>7. /\ parent'[c] = initproc /\ \A q \in Proc : q # c => parent'[q] = parent[q]
      /\ \A q \in Proc : q # p /\ q # initproc => Kids(q)' = Kids(q)
      /\ Kids(initproc)' = Kids(initproc) \cup {c}
  <2>1. parent' = [parent EXCEPT ![c] = initproc]
    BY <1>2 DEF LinkChild
  <2>2. parent'[c] = initproc /\ \A q \in Proc : q # c => parent'[q] = parent[q]
    BY <1>4, <1>6, <2>1 DEF IInv, TypeOK
  <2>3. ASSUME NEW q \in Proc, q # p, q # initproc PROVE Kids(q)' = Kids(q)
    BY <1>6, <2>2, <2>3 DEF Kids
  <2>4. Kids(initproc)' = Kids(initproc) \cup {c}
    BY <1>6, <2>2 DEF Kids
  <2>5. QED
    BY <2>2, <2>3, <2>4
<1>8. /\ SchedTypeOK' /\ RunQueueOK'
      /\ \A r \in Proc : \/ state'[r] = state[r] /\ wait_state'[r] = wait_state[r]
                        \/ /\ r = initproc /\ state[r] = "SLEEPING"
                           /\ state'[r] = "RUNNABLE" /\ wait_state'[r] = "none"
  BY <1>2, <1>4, WakeStep
<1>9. state[c] = "ZOMBIE" => state'[initproc] # "SLEEPING"
  <2>1. SUFFICES ASSUME state[c] = "ZOMBIE" PROVE state'[initproc] # "SLEEPING"
    OBVIOUS
  <2>2. CASE wait_state[initproc] = "WT_CHILD"
    <3>1. state' = [state EXCEPT ![initproc] = "RUNNABLE"]
      BY <1>2, <1>4, <2>1, <2>2, WakeupFacts DEF IInv, TypeOK
    <3>2. QED
      BY <1>4, <3>1 DEF IInv, TypeOK, SchedTypeOK
  <2>3. CASE wait_state[initproc] # "WT_CHILD"
    BY <1>2, <1>4, <2>3 DEF IInv, ControlOK
  <2>4. QED
    BY <2>2, <2>3
<1>10. TypeOK' /\ TableOK'
  BY <1>2, <1>5, <1>8 DEF IInv, TypeOK, TableOK, table
<1>11. ParentsOK'
  BY <1>2, <1>4, <1>6, <1>7 DEF IInv, ParentsOK, TypeOK, table
<1>12. Acyclic'
  <2>1. PICK d : Depth(d)
    BY DEF IInv, Acyclic
  <2>2. d[p] < d[c] /\ d[p] \in Nat /\ d[c] \in Nat /\ d[initproc] = 0
    BY <1>6, <2>1 DEF Depth
  <2>3. Depth(d)'
    BY <1>2, <1>6, <1>7, <2>1, <2>2 DEF Depth, IInv, TypeOK, table
  <2>4. QED
    BY <2>3 DEF Acyclic
<1>13. ControlOK'
  BY <1>2, <1>3, <1>4, <1>8 DEF IInv, ControlOK, User, table
<1>14. Childless'
  <2>1. pc[initproc] # "init.done"
    BY <1>4 DEF Halted
  <2>2. QED
    BY <1>2, <1>3, <1>4, <1>7, <2>1 DEF IInv, Childless, ControlOK
<1>15. WaitersOK'
  <2>1. SUFFICES ASSUME NEW q \in Proc, state'[q] = "SLEEPING"
                 PROVE  /\ Wanted(q)' # {}
                        /\ \A x \in Wanted(q)' : state'[x] = "ZOMBIE" => pc'[x] = "exit.notify"
    BY DEF WaitersOK
  <2>2. q # p /\ state[q] = "SLEEPING" /\ \A x \in Proc : state'[x] = "ZOMBIE" => state[x] = "ZOMBIE"
    BY <1>3, <1>8, <2>1
  <2>3. /\ Wanted(q) # {} /\ \A x \in Wanted(q) : x \in Proc
        /\ \A x \in Wanted(q) : state[x] = "ZOMBIE" => pc[x] = "exit.notify"
    BY <2>2 DEF IInv, WaitersOK, Wanted, Kids
  <2>4. CASE q # initproc
    <3>1. Wanted(q)' = Wanted(q)
      BY <1>2, <1>7, <2>2, <2>4 DEF Wanted
    <3>2. QED
      BY <1>2, <2>2, <2>3, <3>1
  <2>5. CASE q = initproc
    <3>1. Wanted(q) \subseteq Wanted(q)' /\ Wanted(q)' \subseteq Wanted(q) \cup {c}
      BY <1>2, <1>7, <2>5 DEF Wanted
    <3>2. state[c] # "ZOMBIE"
      BY <1>9, <2>1, <2>5
    <3>3. QED
      BY <1>2, <1>6, <2>2, <2>3, <3>1, <3>2
  <2>6. QED
    BY <2>4, <2>5
<1>16. QED
  BY <1>5, <1>8, <1>10, <1>11, <1>12, <1>13, <1>14, <1>15 DEF IInv

\* Every step of the specification keeps the invariant.
LEMMA NextIInv == IInv /\ [Next]_vars => IInv'
<1> SUFFICES ASSUME IInv, [Next]_vars PROVE IInv'
  OBVIOUS
<1>1. CASE UNCHANGED vars
  <2>1. UNCHANGED <<sched_vars, state, wait_state, current, proc_vars>>
    BY <1>1 DEF vars, sched_vars
  <2>2. SchedTypeOK' /\ RunQueueOK'
    BY <2>1 DEF IInv, TypeOK, SchedTypeOK, RunQueueOK, sched_vars
  <2>3. QED
    BY <2>1, <2>2, NobodyMoves
<1>2. CASE ~Halted /\ \E p \in Proc : KernelStep(p)
  BY <1>2, MoveActions, ExitStep, NotifyStep, ReparentStep, ExitSwitchStep, ReapStep,
     WaitSleepStep DEF KernelStep
<1>3. CASE \E p \in User : UserStep(p)
  <2>1. PICK p \in User : UserStep(p)
    BY <1>3
  <2>2. p \in Proc /\ p # initproc /\ \A c \in Proc : ~ForkFilesFail(p, c)
    BY DEF User, IInv, ForkFilesFail
  <2>3. \A q \in CanKill : q \in Proc
    BY ProcAssumption
  <2>4. QED
    BY <2>1, <2>2, <2>3, MoveActions, KillStep DEF UserStep
<1>4. CASE \E p, c \in Proc : do_fork(p, c)
  BY <1>4, ForkStep
<1>5. CASE InitSwitch \/ IdleLoop \/ Tick
  BY <1>5, InitSwitchStep, IdleLoopStep, TickStep
<1>6. QED
  BY <1>1, <1>2, <1>3, <1>4, <1>5 DEF Next

\* The invariant says that the walks find what the parent fields say.
LEMMA TreeLemma == IInv => TreeOK
<1> SUFFICES ASSUME IInv PROVE TreeOK
  OBVIOUS
<1>1. ASSUME NEW p \in Thread
      PROVE  /\ Children(p) = Kids(p)
             /\ \A i, j \in DOMAIN Child(p) :
                  Child(p)[i] = Child(p)[j] /\ Child(p)[i] # NULL => i = j
             /\ p \in Proc /\ pc[p] # "exit.reparent" =>
                  \A i \in DOMAIN Child(p) :
                    Child(p)[i] # NULL =>
                      yptr[Child(p)[i]] = IF i = 1 THEN NULL ELSE Child(p)[i - 1]
  <2>1. PICK s \in Seq(Proc) : Range(s) = Kids(p) /\ Chained(s, cptr[p], optr, yptr, Exempt(p))
    BY DEF IInv, Lists
  <2>2. /\ DOMAIN Child(p) = 1 .. Cardinality(Proc)
        /\ Len(s) \in Nat /\ Len(s) <= Cardinality(Proc) /\ Cardinality(Proc) \in Nat
        /\ \A n \in 1 .. Cardinality(Proc) :
             Child(p)[n] = IF n <= Len(s) THEN s[n] ELSE NULL
    BY <2>1, WalkFacts
  <2>3. \A i \in DOMAIN Child(p) : Child(p)[i] # NULL => i \in 1 .. Len(s) /\ Child(p)[i] = s[i]
    BY <2>2
  <2>4. \A i, j \in 1 .. Len(s) : s[i] = s[j] => i = j
    BY <2>1, <2>2, LenProperties DEF Chained, IsInjective
  <2>5. ASSUME NEW i \in DOMAIN Child(p), Child(p)[i] # NULL,
               p \in Proc, pc[p] # "exit.reparent"
        PROVE  yptr[Child(p)[i]] = IF i = 1 THEN NULL ELSE Child(p)[i - 1]
    <3>1. i \in 1 .. Len(s) /\ Child(p)[i] = s[i] /\ ~Exempt(p)
      BY <2>3, <2>5 DEF Exempt
    <3>2. yptr[s[i]] = IF i = 1 THEN NULL ELSE s[i - 1]
      BY <2>1, <3>1 DEF Chained
    <3>3. i # 1 => i - 1 \in 1 .. Cardinality(Proc) /\ i - 1 <= Len(s)
      BY <2>2, <3>1
    <3>4. QED
      BY <2>2, <3>1, <3>2, <3>3
  <2>6. Children(p) = Kids(p)
    BY ChildrenFacts DEF IInv
  <2>7. \A i, j \in DOMAIN Child(p) :
           Child(p)[i] = Child(p)[j] /\ Child(p)[i] # NULL => i = j
    BY <2>3, <2>4
  <2>8. QED
    BY <2>5, <2>6, <2>7
<1>2. ASSUME NEW p \in Proc, pc[p] = "gone"
      PROVE  /\ state[p] = "ZOMBIE" /\ wait_state[p] = "none" /\ cptr[p] = NULL
             /\ p \in proc_list /\ parent[p] \in allocated
  <2>1. state[p] = "ZOMBIE" /\ wait_state[p] = "none" /\ p \in allocated /\ p # initproc
    BY <1>2 DEF IInv, ControlOK, Dying, InitOnly
  <2>2. Kids(p) = {} /\ parent[p] \in allocated /\ p \in proc_list
    BY <1>2, <2>1 DEF IInv, Childless, ParentsOK, TableOK
  <2>3. PICK s \in Seq(Proc) : Range(s) = Kids(p) /\ Chained(s, cptr[p], optr, yptr, Exempt(p))
    BY DEF IInv, Lists, Thread
  <2>4. cptr[p] = NULL
    BY <2>2, <2>3, ChainEmpty
  <2>5. QED
    BY <2>1, <2>2, <2>4
<1>3. QED
  BY <1>1, <1>2 DEF TreeOK, IInv, Kids

\* The invariant says that nobody sleeps for a child that has notified.
LEMMA WaitersLemma == IInv => WaiterNotForgotten
<1> SUFFICES ASSUME IInv PROVE WaiterNotForgotten
  OBVIOUS
<1>1. ASSUME NEW p \in Proc, state[p] = "SLEEPING"
      PROVE  Candidates(p) # {} /\ \A c \in Zombies(p) : pc[c] = "exit.notify"
  <2>1. Candidates(p) = Wanted(p)
    BY CandidatesWanted
  <2>2. QED
    BY <1>1, <2>1 DEF IInv, WaitersOK, Zombies
<1>2. QED
  BY <1>1 DEF WaiterNotForgotten

\* A process of least depth, other than initproc, would be a child of initproc.  When
\* initproc has none left there is no other process, and the list of idleproc is
\* initproc alone.
LEMMA NobodyLemma == IInv => InitLeavesNobody
<1> SUFFICES ASSUME IInv, pc[initproc] = "init.done"
             PROVE  /\ cptr[initproc] = NULL /\ yptr[initproc] = NULL
                    /\ optr[initproc] = NULL /\ nr_process = 2
                    /\ proc_list = {initproc}
  BY DEF InitLeavesNobody
<1>1. initproc \in Proc /\ initproc \in Thread /\ idleproc \in Thread /\ idleproc \notin Proc
      /\ NULL # idleproc /\ NULL \notin Proc
  BY ProcAssumption, SchedAssumption DEF Thread
<1>2. Kids(initproc) = {}
  BY <1>1 DEF IInv, Childless
<1>3. allocated = {initproc}
  <2>1. SUFFICES ASSUME allocated \ {initproc} # {} PROVE FALSE
    BY DEF IInv, ParentsOK
  <2>2. PICK d : Depth(d)
    BY DEF IInv, Acyclic
  <2> DEFINE T == {d[q] : q \in allocated \ {initproc}}
  <2>3. T \subseteq Nat /\ T # {}
    BY <2>1, <2>2 DEF Depth, IInv, TypeOK
  <2>4. PICK n \in T : \A m \in T : n <= m
    BY <2>3, LeastNatural
  <2>5. PICK q \in allocated \ {initproc} : n = d[q]
    BY <2>4
  <2>6. /\ parent[q] \in allocated /\ d[parent[q]] < d[q]
        /\ q \in Proc /\ parent[q] \in Proc /\ d \in [Proc -> Nat]
    BY <2>2, <2>5 DEF IInv, ParentsOK, Depth, TypeOK
  <2>7. parent[q] # initproc
    BY <1>2, <2>6 DEF Kids
  <2>8. d[parent[q]] \in T
    BY <2>6, <2>7
  <2>9. QED
    BY <2>4, <2>5, <2>6, <2>8
<1>4. proc_list = {initproc} /\ nr_process = 2
  <2>1. Cardinality({initproc}) = 1
    BY FS_Singleton
  <2>2. QED
    BY <1>3, <2>1 DEF IInv, TableOK
<1>5. cptr[initproc] = NULL
  <2>1. PICK s \in Seq(Proc) :
            Range(s) = Kids(initproc) /\ Chained(s, cptr[initproc], optr, yptr, Exempt(initproc))
    BY <1>1 DEF IInv, Lists
  <2>2. QED
    BY <1>2, <2>1, ChainEmpty
<1>6. Kids(idleproc) = {initproc}
  BY <1>1, <1>3 DEF IInv, ParentsOK, Kids
<1>7. PICK s \in Seq(Proc) :
          Range(s) = Kids(idleproc) /\ Chained(s, cptr[idleproc], optr, yptr, Exempt(idleproc))
  BY <1>1 DEF IInv, Lists
<1>8. /\ Len(s) \in Nat /\ \A i \in 1 .. Len(s) : s[i] = initproc
      /\ \E i \in 1 .. Len(s) : s[i] = initproc
  <2>1. \A x : x \in Range(s) <=> \E i \in 1 .. Len(s) : s[i] = x
    BY RangeFacts
  <2>2. Range(s) = {initproc} /\ Len(s) \in Nat
    BY <1>6, <1>7, LenProperties
  <2>3. QED
    BY <2>1, <2>2
<1>9. \A i, j \in 1 .. Len(s) : s[i] = s[j] => i = j
  BY <1>7, LenProperties DEF Chained, IsInjective
<1>10. Len(s) = 1
  <2>1. 1 \in 1 .. Len(s) /\ Len(s) \in 1 .. Len(s)
    BY <1>8
  <2>2. QED
    BY <1>8, <1>9, <2>1
<1>11. /\ 1 \in 1 .. Len(s) /\ s[1] = initproc /\ ~Exempt(idleproc)
  BY <1>1, <1>8, <1>10 DEF Exempt
<1>12. yptr[initproc] = NULL /\ optr[initproc] = NULL
  BY <1>7, <1>10, <1>11 DEF Chained
<1>13. QED
  BY <1>4, <1>5, <1>12

-----------------------------------------------------------------------------
(***************************************************************************)
(* The theorems.                                                           *)
(***************************************************************************)

\* The invariant that carries the rest: the lists are exact, the tree has no
\* cycle, and control points and states agree.
THEOREM ProcInvariant == ~FilesMayFail /\ Spec => []IInv
<1>1. ~FilesMayFail /\ Init => IInv
  BY InitIInv
<1>2. IInv /\ [Next]_vars => IInv'
  BY NextIInv
<1>3. QED
  BY <1>1, <1>2, PTL DEF Spec

\* proc_list and nr_process are exact, and following cptr and optr visits exactly
\* the children of a process, each once, with yptr leading back, whatever forks,
\* exits, reparentings and reapings are interleaved.  A zombie that has given up
\* the CPU has no child and keeps its structure and its parent.
THEOREM TreeCorrect == ~FilesMayFail /\ Spec => []TreeOK
BY ProcInvariant, TreeLemma, PTL

\* No exit notification is lost: a process asleep in do_wait has a child to wait
\* for, and no zombie among those it waits for has told its parent already.
THEOREM WaitersNotForgotten == ~FilesMayFail /\ Spec => []WaiterNotForgotten
BY ProcInvariant, WaitersLemma, PTL

\* The assertions at the end of init_main hold.  A process of least depth, other
\* than initproc, would be a child of initproc; initproc has none left, so there is
\* no other process.
THEOREM InitFindsNobody == ~FilesMayFail /\ Spec => []InitLeavesNobody
BY ProcInvariant, NobodyLemma, PTL

-----------------------------------------------------------------------------
(***************************************************************************)
(* get_pid hands out unique pids, for every MaxProcess and MAX_PID.       *)
(*                                                                         *)
(* The invariant follows the loop: the entries passed so far neither have  *)
(* the candidate pid nor a pid in the gap above it (Passed).  At the end   *)
(* of the list that makes the candidate fresh (UniquePids) and the gap     *)
(* free (GapIsFree), and GapIsFree is what the next call needs when it     *)
(* takes a pid without a search.                                           *)
(***************************************************************************)

\* pids as a list of integers.
LEMMA PidsFacts ==
    ASSUME PidTypeOK
    PROVE  /\ Len(pids) \in Nat /\ DOMAIN pids = 1 .. Len(pids)
           /\ \A k \in 1 .. Len(pids) : pids[k] \in Pid /\ pids[k] \in Range(pids)
           /\ \A p \in Range(pids) : p \in Pid /\ \E k \in 1 .. Len(pids) : p = pids[k]
           /\ Range(pids) \subseteq Int
<1>1. Len(pids) \in Nat /\ DOMAIN pids = 1 .. Len(pids)
  BY LenProperties DEF PidTypeOK
<1>2. \A k \in 1 .. Len(pids) : pids[k] \in Pid
  BY ElementOfSeq DEF PidTypeOK
<1>3. QED
  BY <1>1, <1>2, PidAssumption DEF Range, Pid

\* Nobody has a pid at first.
LEMMA InitPids == PidInit => PidInv
<1> SUFFICES ASSUME PidInit PROVE PidInv
  OBVIOUS
<1>1. pids = <<>> /\ pids \in Seq(Pid) /\ Len(pids) = 0 /\ Range(pids) = {}
  BY DEF PidInit, Range
<1>2. PidTypeOK
  BY <1>1, PidAssumption DEF PidInit, PidTypeOK, NrProcess
<1>3. UniquePids
  BY <1>1 DEF UniquePids, IsInjective
<1>4. QED
  BY <1>1, <1>2, <1>3 DEF PidInit, PidInv, GapIsFree, Passed

\* A search begins with nothing passed.
LEMMA SearchFacts ==
    ASSUME PidInv, NEW pid \in 2 .. MAX_PID + 1, Search(pid), UNCHANGED pids
    PROVE  PidInv'
<1> USE PidAssumption
<1>1. /\ last_pid' \in Pid /\ next_safe' = MAX_PID /\ scan' = 1 /\ pids' = pids
      /\ Len(pids) \in Nat
  BY PidsFacts DEF Search, PidInv, Pid
<1>2. PidTypeOK'
  BY <1>1 DEF PidInv, PidTypeOK, NrProcess, Pid
<1>3. UniquePids'
  BY <1>1 DEF PidInv, UniquePids
<1>4. GapIsFree' /\ Passed'
  BY <1>1 DEF GapIsFree, Passed, Pid
<1>5. QED
  BY <1>2, <1>3, <1>4 DEF PidInv

\* One step per action: a turn of the loop passes one entry more.
LEMMA PidStep == PidInv /\ [PidNext]_pid_vars => PidInv'
<1> SUFFICES ASSUME PidInv, [PidNext]_pid_vars PROVE PidInv'
  OBVIOUS
<1> USE PidAssumption
<1>0. /\ Len(pids) \in Nat /\ DOMAIN pids = 1 .. Len(pids)
      /\ \A k \in 1 .. Len(pids) : pids[k] \in Pid /\ pids[k] \in Range(pids)
      /\ \A p \in Range(pids) : p \in Pid /\ \E k \in 1 .. Len(pids) : p = pids[k]
      /\ last_pid \in 1 .. MAX_PID /\ next_safe \in 1 .. MAX_PID
      /\ scan \in 0 .. Len(pids) + 1
  BY PidsFacts DEF PidInv, PidTypeOK, NrProcess
<1>1. CASE get_pid
  <2>1. CASE last_pid + 1 >= MAX_PID \/ last_pid + 1 >= next_safe
    BY <1>0, <1>1, <2>1, SearchFacts DEF get_pid
  <2>2. CASE ~(last_pid + 1 >= MAX_PID \/ last_pid + 1 >= next_safe)
    <3>1. /\ last_pid' = last_pid + 1 /\ scan' = Len(pids) + 1
          /\ next_safe' = next_safe /\ pids' = pids /\ scan = 0
      BY <1>1, <2>2 DEF get_pid, NrProcess
    <3>2. \A p \in Range(pids) : ~(last_pid < p /\ p < next_safe)
      BY <3>1 DEF PidInv, GapIsFree
    <3>3. PidTypeOK'
      BY <1>0, <2>2, <3>1 DEF PidInv, PidTypeOK, NrProcess
    <3>4. UniquePids' /\ GapIsFree'
      BY <1>0, <3>1 DEF PidInv, UniquePids, GapIsFree
    <3>5. Passed'
      BY <1>0, <2>2, <3>1, <3>2 DEF Passed, Pid
    <3>6. QED
      BY <3>3, <3>4, <3>5 DEF PidInv
  <2>3. QED
    BY <2>1, <2>2
<1>2. CASE Taken
  <2>0. /\ scan \in 1 .. Len(pids) /\ pids[scan] = last_pid /\ last_pid \in Pid
        /\ pids' = pids
    BY <1>0, <1>2 DEF Taken
  <2>1. CASE last_pid + 1 >= next_safe
    BY <1>0, <1>2, <2>0, <2>1, SearchFacts DEF Taken, Pid
  <2>2. CASE ~(last_pid + 1 >= next_safe)
    <3>1. last_pid' = last_pid + 1 /\ scan' = scan + 1 /\ next_safe' = next_safe
      BY <1>2, <2>2 DEF Taken
    <3>2. PidTypeOK'
      BY <1>0, <2>0, <2>2, <3>1 DEF PidInv, PidTypeOK, NrProcess
    <3>3. UniquePids' /\ GapIsFree'
      BY <1>0, <2>0, <3>1 DEF PidInv, UniquePids, GapIsFree
    <3>4. ASSUME NEW k \in 1 .. scan
          PROVE  pids[k] # last_pid + 1 /\ ~(last_pid + 1 < pids[k] /\ pids[k] < next_safe)
      <4>1. CASE k = scan
        BY <1>0, <2>0, <4>1
      <4>2. CASE k # scan
        BY <1>0, <2>0, <2>2, <4>2 DEF PidInv, Passed, Pid
      <4>3. QED
        BY <4>1, <4>2
    <3>5. Passed'
      BY <1>0, <2>0, <2>2, <3>1, <3>4 DEF Passed
    <3>6. QED
      BY <3>2, <3>3, <3>5 DEF PidInv
  <2>3. QED
    BY <2>1, <2>2
<1>3. CASE Other
  <2>1. /\ scan \in 1 .. Len(pids) /\ pids[scan] # last_pid /\ scan' = scan + 1
        /\ pids' = pids /\ last_pid' = last_pid
        /\ next_safe' = IF pids[scan] > last_pid /\ next_safe > pids[scan]
                          THEN pids[scan] ELSE next_safe
        /\ pids[scan] \in Pid
    BY <1>0, <1>3 DEF Other
  <2>2. PidTypeOK'
    BY <1>0, <2>1 DEF PidInv, PidTypeOK, NrProcess, Pid
  <2>3. UniquePids' /\ GapIsFree'
    BY <1>0, <2>1 DEF PidInv, UniquePids, GapIsFree
  <2>4. ASSUME NEW k \in 1 .. scan
        PROVE  pids[k] # last_pid /\ ~(last_pid < pids[k] /\ pids[k] < next_safe')
    <3>1. CASE k = scan
      BY <1>0, <2>1, <3>1 DEF Pid
    <3>2. CASE k # scan
      BY <1>0, <2>1, <3>2 DEF PidInv, Passed, Pid
    <3>3. QED
      BY <3>1, <3>2
  <2>5. Passed'
    BY <1>0, <2>1, <2>4 DEF PidInv, Passed
  <2>6. QED
    BY <2>2, <2>3, <2>5 DEF PidInv
<1>4. CASE link_pid
  <2>1. /\ scan = Len(pids) + 1 /\ scan' = 0 /\ pids' = InsertAt(pids, 1, last_pid)
        /\ last_pid' = last_pid /\ next_safe' = next_safe
    BY <1>4 DEF link_pid, NrProcess
  <2>2. /\ last_pid \in Pid
        /\ \A p \in Range(pids) : p # last_pid /\ ~(last_pid < p /\ p < next_safe)
    BY <1>0, <2>1 DEF PidInv, Passed, Pid
  <2>3. /\ pids' \in Seq(Pid) /\ IsInjective(pids')
        /\ Range(pids') = Range(pids) \cup {last_pid}
    <3>1. pids \in Seq(Pid) /\ IsInjective(pids) /\ last_pid \notin Range(pids)
      BY <2>2 DEF PidInv, PidTypeOK, UniquePids
    <3>2. 1 \in 1 .. Len(pids) + 1
      BY <1>0
    <3>3. QED
      BY <2>1, <2>2, <3>1, <3>2, InsertAtFacts
  <2>4. Len(pids') \in Nat
    BY <2>3, LenProperties
  <2>5. PidTypeOK'
    BY <1>0, <2>1, <2>3, <2>4 DEF PidTypeOK, NrProcess
  <2>6. GapIsFree'
    BY <1>0, <2>1, <2>2, <2>3 DEF GapIsFree
  <2>7. UniquePids' /\ Passed'
    BY <2>1, <2>3 DEF UniquePids, Passed
  <2>8. QED
    BY <2>5, <2>6, <2>7 DEF PidInv
<1>5. CASE \E i \in 1 .. Len(pids) : unlink_pid(i)
  <2>1. PICK i \in 1 .. Len(pids) : unlink_pid(i)
    BY <1>5
  <2>2. /\ scan = 0 /\ pids' = RemoveAt(pids, i)
        /\ last_pid' = last_pid /\ next_safe' = next_safe /\ scan' = scan
    BY <2>1 DEF unlink_pid
  <2>3. pids' \in Seq(Pid) /\ IsInjective(pids') /\ Range(pids') \subseteq Range(pids)
    <3>1. pids \in Seq(Pid) /\ IsInjective(pids)
      BY DEF PidInv, PidTypeOK, UniquePids
    <3>2. QED
      BY <2>2, <3>1, RemoveAtFacts
  <2>4. Len(pids') \in Nat
    BY <2>3, LenProperties
  <2>5. PidTypeOK'
    BY <1>0, <2>2, <2>3, <2>4 DEF PidTypeOK, NrProcess
  <2>6. GapIsFree' /\ UniquePids' /\ Passed'
    BY <2>2, <2>3 DEF PidInv, GapIsFree, UniquePids, Passed
  <2>7. QED
    BY <2>5, <2>6 DEF PidInv
<1>6. CASE UNCHANGED pid_vars
  BY <1>6 DEF pid_vars, PidInv, PidTypeOK, UniquePids, GapIsFree, Passed, NrProcess
<1>7. QED
  BY <1>1, <1>2, <1>3, <1>4, <1>5, <1>6 DEF PidNext, InCall

\* The inductive invariant holds throughout.
THEOREM PidInvariant == PidSpec => []PidInv
<1>1. QED
  BY InitPids, PidStep, PTL DEF PidSpec

\* No two processes ever have the same pid (get_pid: "alloc a unique pid for
\* process"), for any number of processes and pids.
THEOREM PidsUnique == PidSpec => []UniquePids
<1>1. PidInv => UniquePids
  BY DEF PidInv
<1>2. QED
  BY <1>1, PidInvariant, PTL

\* A call that takes the next pid without a search relies on a gap that is free.
THEOREM GapCorrect == PidSpec => []GapIsFree
<1>1. PidInv => GapIsFree
  BY DEF PidInv
<1>2. QED
  BY <1>1, PidInvariant, PTL
=============================================================================
