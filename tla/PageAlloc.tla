----------------------------- MODULE PageAlloc -----------------------------
(***************************************************************************)
(* The physical page allocators, kern/mm/default_pmm.c (first fit, labs 4  *)
(* to 8) and kern/mm/best_fit_pmm.c (labs 2 and 3), on the circular doubly *)
(* linked list of libs/list.h, pointer by pointer.                         *)
(*                                                                         *)
(* Pages are 0 .. NPage-1 and NPage stands for &free_list, so an address   *)
(* comparison is one of numbers.  The state of the allocator is the record *)
(* pmm, which its functions take and return.  alloc_pages and free_pages   *)
(* of pmm.c run with interrupts off, so each call is one action.           *)
(*                                                                         *)
(* property and page_link of a page that is not on the list are dead: they *)
(* are written before they are read again.  The model clears them.         *)
(***************************************************************************)
EXTENDS Integers, SequencesExt

CONSTANTS NPage,          \* pages managed
          PGSIZE,         \* size of a page, in units of the kernel heap
          TopStaysFree    \* TRUE: requests that would take the last page are not made

ASSUME PageAllocAssumption ==
    NPage \in Nat \ {0} /\ PGSIZE \in Nat \ {0} /\ TopStaysFree \in BOOLEAN

VARIABLES pmm,    \* manager:     the pmm_manager in use
                  \* links:       next and prev of page_link
                  \* property:    page->property
                  \* PG_property: the pages whose PG_property bit is set
                  \* nr_free
          used    \* the pages callers own

pageVars == <<pmm, used>>

Page == 0 .. NPage - 1

free_list == NPage

Entry == Page \cup {free_list}

NULL == -1

\* The table f with the entry v for k.
With(f, k, v) == [x \in DOMAIN f \cup {k} |-> IF x = k THEN v ELSE f[x]]

\* 1 << n
Shift[n \in Nat] == IF n = 0 THEN 1 ELSE 2 * Shift[n - 1]

Managers == {"default_pmm_manager", "best_fit_pmm_manager"}

-----------------------------------------------------------------------------
(***************************************************************************)
(* libs/list.h.  The assignments happen in the order of the EXCEPT         *)
(* clauses, which matters when entries coincide.                           *)
(***************************************************************************)
__list_add(l, elm, prev, next) ==
    [next |-> [l.next EXCEPT ![prev] = elm, ![elm] = next],
     prev |-> [l.prev EXCEPT ![next] = elm, ![elm] = prev]]

list_add(l, listelm, elm) == __list_add(l, elm, listelm, l.next[listelm])

list_add_before(l, listelm, elm) == __list_add(l, elm, l.prev[listelm], listelm)

list_del(l, elm) ==
    [next |-> [l.next EXCEPT ![l.prev[elm]] = l.next[elm]],
     prev |-> [l.prev EXCEPT ![l.next[elm]] = l.prev[elm]]]

\* The entries list_next reaches from &free_list before it is back there.
Walk(l) ==
    LET at[i \in 0 .. NPage + 1] == IF i = 0 THEN free_list ELSE l.next[at[i - 1]]
        len == CHOOSE i \in 0 .. NPage :
                 /\ at[i + 1] = free_list \/ i = NPage
                 /\ \A j \in 1 .. i : at[j] # free_list
    IN  [i \in 1 .. len |-> at[i]]

-----------------------------------------------------------------------------
\* default_init, and default_init_memmap of the whole range.
InitialPmm(manager) ==
    LET self == [e \in Entry |-> e]
    IN  [manager     |-> manager,
         links       |-> list_add([next |-> self, prev |-> self], free_list, 0),
         property    |-> [p \in Page |-> IF p = 0 THEN NPage ELSE 0],
         PG_property |-> {0},
         nr_free     |-> NPage]

\* Clears what the pages that are not on the list hold.
Forget(m) ==
    LET on == ToSet(Walk(m.links)) \cup {free_list}
    IN  [m EXCEPT !.links.next = [e \in Entry |-> IF e \in on THEN @[e] ELSE e],
                  !.links.prev = [e \in Entry |-> IF e \in on THEN @[e] ELSE e],
                  !.property = [p \in Page |-> IF p \in on THEN @[p] ELSE 0]]

PageInit == pmm \in {InitialPmm(m) : m \in Managers} /\ used = {}

\* Mutant: the whole block is unlinked and the rest forgotten.
Mutant_Take_ForgetsRest(m, page, n) ==
    [m EXCEPT !.links = list_del(m.links, page),
              !.PG_property = @ \ {page},
              !.nr_free = @ - n]

\* Unlinks a block and links what is left of it in its place.
Take(m, page, n) ==
    LET rest == page + n
        cut  == list_del(m.links, page)
        more == m.property[page] > n
    IN  [m EXCEPT
           !.links = IF more THEN list_add(cut, m.links.prev[page], rest) ELSE cut,
           !.property = IF more THEN [@ EXCEPT ![rest] = m.property[page] - n] ELSE @,
           !.PG_property = (@ \cup (IF more THEN {rest} ELSE {})) \ {page},
           !.nr_free = @ - n]

\* The first entry of the list w that is in S.
FirstIn(w, S) ==
    LET at == {i \in DOMAIN w : w[i] \in S}
    IN  IF at = {} THEN NULL ELSE w[Min(at)]

\* The blocks that are large enough.
Fitting(m, n) == {p \in ToSet(Walk(m.links)) : m.property[p] >= n}

\* The first block that fits.
default_alloc_pages(m, n) == FirstIn(Walk(m.links), Fitting(m, n))

\* The first of the smallest blocks that fit; min_size starts at nr_free + 1.
best_fit_alloc_pages(m, n) ==
    LET fits == {p \in Fitting(m, n) : m.property[p] <= m.nr_free}
    IN  FirstIn(Walk(m.links), {p \in fits : \A q \in fits : m.property[p] <= m.property[q]})

\* alloc_pages: the block, and the allocator without it.  A request that cannot
\* be met changes nothing.
AllocPages(m, n) ==
    LET page == IF n > m.nr_free THEN NULL
                ELSE IF m.manager = "default_pmm_manager" THEN default_alloc_pages(m, n)
                ELSE best_fit_alloc_pages(m, n)
    IN  [page |-> page, pmm |-> IF page = NULL THEN m ELSE Forget(Take(m, page, n))]

\* Links base before the first block above it, or else last.  In the second
\* case the loop is not left: it comes to base itself, the last entry now, and
\* adds it after itself.
LinkByAddress(l, base) ==
    LET above == FirstIn(Walk(l), {p \in Page : base < p})
        last  == Last(Walk(l))
    IN  IF Walk(l) = <<>> THEN list_add(l, free_list, base)
        ELSE IF above # NULL THEN list_add_before(l, above, base)
        ELSE list_add(list_add(l, last, base), base, base)

\* The allocator after block p has absorbed block q, which follows it.
Absorb(m, p, q) ==
    [m EXCEPT !.links = list_del(@, q),
              !.property[p] = @ + m.property[q],
              !.PG_property = @ \ {q}]

\* Mutant: a block that ends where base begins is not looked for.
Mutant_MergeBelow_Never(m, base) == [base |-> base, pmm |-> m]

\* Merges base into the block below it, if they touch.
MergeBelow(m, base) ==
    LET p == m.links.prev[base]
    IN  IF p # free_list /\ p + m.property[p] = base
          THEN [base |-> p, pmm |-> Absorb(m, p, base)]
          ELSE [base |-> base, pmm |-> m]

\* Merges the block above base into it.
MergeAbove(m, base) ==
    LET p == m.links.next[base]
    IN  IF p # free_list /\ base + m.property[base] = p THEN Absorb(m, base, p) ELSE m

default_free_pages(m, base, n) ==
    LET linked == [m EXCEPT !.links = LinkByAddress(@, base),
                            !.property[base] = n,
                            !.PG_property = (@ \ base .. base + n - 1) \cup {base},
                            !.nr_free = @ + n]
        below  == MergeBelow(linked, base)
    IN  MergeAbove(below.pmm, below.base)

\* The same code again.
best_fit_free_pages(m, base, n) == default_free_pages(m, base, n)

FreePages(m, base, n) ==
    Forget(IF m.manager = "default_pmm_manager" THEN default_free_pages(m, base, n)
                                                ELSE best_fit_free_pages(m, base, n))

-----------------------------------------------------------------------------
TopKept == TopStaysFree => NPage - 1 \notin used'

\* A caller asks for n pages and is given them.
alloc_pages(n) ==
    \E a \in {AllocPages(pmm, n)} :
      /\ a.page # NULL
      /\ pmm' = a.pmm
      /\ used' = used \cup a.page .. a.page + n - 1
      /\ TopKept

\* A caller gives back n pages it owns, a whole allocation or a part of one.
free_pages(base, n) ==
    /\ base .. base + n - 1 \subseteq used
    /\ pmm' = FreePages(pmm, base, n)
    /\ used' = used \ base .. base + n - 1

PageNext ==
    \/ \E n \in 1 .. NPage : alloc_pages(n)
    \/ \E base \in Page : \E n \in 1 .. NPage - base : free_pages(base, n)

PageSpec == PageInit /\ [][PageNext]_pageVars

-----------------------------------------------------------------------------
PageTypeOK ==
    /\ pmm.links.next \in [Entry -> Entry] /\ pmm.links.prev \in [Entry -> Entry]
    /\ pmm.property \in [Page -> 0 .. NPage]
    /\ pmm.PG_property \subseteq Page
    /\ pmm.nr_free \in 0 .. NPage
    /\ used \subseteq Page

FreeList == Walk(pmm.links)

Blocks == ToSet(FreeList)

Extent(p) == p .. p + pmm.property[p] - 1

\* "assert(total == nr_free_pages())", default_pmm.c:242: the blocks that the
\* list reaches add up to nr_free.
Total ==
    LET sum[i \in 0 .. Len(FreeList)] ==
          IF i = 0 THEN 0 ELSE sum[i - 1] + pmm.property[FreeList[i]]
    IN  sum[Len(FreeList)]

ListTotal == Total = pmm.nr_free

\* The free list describes the free pages exactly: the blocks are disjoint, in
\* address order, cover the pages nobody owns and nothing else, and prev leads
\* back along next.  A page that is owned is never on offer.  Exactly the first
\* pages of free blocks carry PG_property, as the assertions of
\* default_free_pages (default_pmm.c:130) and default_check (line 239) demand.
FreeListExact ==
    /\ PageTypeOK /\ ListTotal
    /\ UNION {Extent(p) : p \in Blocks} = Page \ used
    /\ \A p, q \in Blocks : p < q => p + pmm.property[p] <= q
    /\ \A i \in 1 .. Len(FreeList) - 1 : FreeList[i] < FreeList[i + 1]
    /\ \A e \in Blocks \cup {free_list} : pmm.links.prev[pmm.links.next[e]] = e
    /\ pmm.PG_property = Blocks

\* Freed blocks are merged: if there are n contiguous free pages, a request for n
\* succeeds ("(5.3) try to merge low addr or high addr blocks").
ContiguousServed ==
    \A p \in Page : \A n \in 1 .. NPage - p :
      (p .. p + n - 1) \cap used = {} => AllocPages(pmm, n).page # NULL
=============================================================================
