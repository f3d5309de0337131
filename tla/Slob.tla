-------------------------------- MODULE Slob --------------------------------
(***************************************************************************)
(* The kernel heap of labs 4 to 8, kern/mm/kmalloc.c: the SLOB allocator.  *)
(*                                                                         *)
(* Addresses count SLOB_UNITs.  Page p begins at (p + 1) * PGSIZE; arena,  *)
(* in the kernel image below every page, is at 0.  Free blocks form a ring *)
(* by address on which slobfree roves.  Sizes too are in units: a request  *)
(* for 1 to SLOB_UNIT bytes is one for 1.  kmalloc runs in the kernel,     *)
(* which is not preempted, and no interrupt handler calls it, so that a    *)
(* call is atomic although the lock is dropped to get a page.              *)
(***************************************************************************)
EXTENDS PageAlloc, FiniteSets

VARIABLE slob    \* units:     b->units of the free and of the allocated blocks
                 \* next:      b->next of the free blocks
                 \* slobfree
                 \* bigblocks: the list, its nodes as [bb, order, pages]
                 \* objs:      what clients hold, from address to size asked for
                 \* pages:     the pages obtained

arena == 0

PageAddr(p) == (p + 1) * PGSIZE

AddrPage(a) == a \div PGSIZE - 1

\* sizeof(bigblock_t), 24 bytes
BigblockUnits == 2

ASSUME SlobAssumption == BigblockUnits < PGSIZE

InitialSlob ==
    [units |-> [b \in {arena} |-> 1], next |-> [b \in {arena} |-> arena], slobfree |-> arena,
     bigblocks |-> <<>>, objs |-> <<>>, pages |-> {}]

-----------------------------------------------------------------------------
\* The free blocks from cur->next round to cur.
RingFrom(h, cur) ==
    LET at[i \in Nat] == IF i = 0 THEN cur ELSE h.next[at[i - 1]]
        n   == Cardinality(DOMAIN h.next)
        len == CHOOSE i \in 1 .. n : (at[i] = cur \/ i = n) /\ \A j \in 1 .. i - 1 : at[j] # cur
    IN  [i \in 1 .. len |-> at[i]]

\* The place of b: between two blocks, or where the ring turns.
Fits(h, b, cur) ==
    \/ b > cur /\ b < h.next[cur]
    \/ cur >= h.next[cur] /\ (b > cur \/ b < h.next[cur])

\* b is linked after cur, merged with the block above and with cur where they
\* touch.
Linked(h, b, cur) ==
    LET up    == h.next[cur]
        high  == b + h.units[b] = up
        low   == cur + h.units[cur] = b
        size  == h.units[b] + (IF high THEN h.units[up] ELSE 0)
        after == IF high THEN h.next[up] ELSE up
        gone  == (IF high THEN {up} ELSE {}) \cup (IF low THEN {b} ELSE {})
        into  == IF low THEN cur ELSE b
        units == [h.units EXCEPT ![into] = size + (IF low THEN @ ELSE 0)]
        next  == With(IF low THEN h.next ELSE [h.next EXCEPT ![cur] = b], into, after)
    IN  [h EXCEPT !.units = Restrict(units, DOMAIN units \ gone),
                  !.next = Restrict(next, DOMAIN next \ gone)]

\* Mutant: slobfree stays where it was, though its block may be merged away.
Mutant_slob_free_KeepsSlobfree(h, b, size) ==
    LET sized == IF size = 0 THEN h ELSE [h EXCEPT !.units = With(@, b, size)]
        ring  == <<h.slobfree>> \o RingFrom(h, h.slobfree)
    IN  Linked(sized, b, FirstIn(ring, {c \in DOMAIN h.next : Fits(h, b, c)}))

\* size 0: the block still has its length.
slob_free(h, b, size) ==
    LET sized == IF size = 0 THEN h ELSE [h EXCEPT !.units = With(@, b, size)]
        ring  == <<h.slobfree>> \o RingFrom(h, h.slobfree)
        cur   == FirstIn(ring, {c \in DOMAIN h.next : Fits(h, b, c)})
    IN  [Linked(sized, b, cur) EXCEPT !.slobfree = cur]

\* Takes n units from the front of cur, the block that follows prev.
Carve(h, prev, cur, n) ==
    LET rest  == cur + n
        whole == h.units[cur] = n
        link  == [h.next EXCEPT ![prev] = IF whole THEN h.next[cur] ELSE rest]
        next  == IF whole THEN link ELSE With(link, rest, h.next[cur])
        units == IF whole THEN h.units ELSE With(h.units, rest, h.units[cur] - n)
    IN  [h EXCEPT !.units = [units EXCEPT ![cur] = n],
                  !.next = Restrict(next, DOMAIN next \ {cur}),
                  !.slobfree = prev]

\* First fit from slobfree->next round to slobfree: the block before the one
\* that fits, or NULL.
FirstFit(h, n) ==
    LET ring == RingFrom(h, h.slobfree)
        fit  == {i \in DOMAIN ring : h.units[ring[i]] >= n}
        i    == CHOOSE k \in fit : \A j \in fit : k <= j
    IN  IF fit = {} THEN NULL ELSE IF i = 1 THEN h.slobfree ELSE ring[i - 1]

TakeFit(m, h, n, prev) == [ptr |-> h.next[prev], pmm |-> m, slob |-> Carve(h, prev, h.next[prev], n)]

\* The heap with one more page.
Grown(h, page) == slob_free([h EXCEPT !.pages = @ \cup {page}], PageAddr(page), PGSIZE)

GrowAndTake(m, h, n, a) ==
    IF a.page = NULL THEN [ptr |-> NULL, pmm |-> m, slob |-> h]
    ELSE TakeFit(a.pmm, Grown(h, a.page), n, FirstFit(Grown(h, a.page), n))

\* align is 0 in every call.
slob_alloc(m, h, n) ==
    IF FirstFit(h, n) # NULL THEN TakeFit(m, h, n, FirstFit(h, n))
    ELSE GrowAndTake(m, h, n, AllocPages(m, 1))

-----------------------------------------------------------------------------
\* Halves the size, rounding down, until it fits a page.
find_order(size) ==
    LET order[s \in Nat] == IF s > PGSIZE THEN 1 + order[s \div 2] ELSE 0
    IN  order[size]

\* A block behind a header of one unit.
SmallBlock(r, size) ==
    IF r.ptr = NULL THEN r
    ELSE [r EXCEPT !.ptr = @ + 1, !.slob.objs = With(@, r.ptr + 1, size)]

\* The pages are entered in the list, or bb is given back.  bb->order and
\* bb->pages overwrite units and next.
BigPages(r, size, order, a) ==
    IF a.page = NULL
      THEN [r EXCEPT !.ptr = NULL, !.slob = slob_free(r.slob, r.ptr, BigblockUnits)]
      ELSE [ptr |-> PageAddr(a.page), pmm |-> a.pmm,
            slob |-> [r.slob EXCEPT
                        !.units = Restrict(@, DOMAIN @ \ {r.ptr}),
                        !.bigblocks = <<[bb |-> r.ptr, order |-> order,
                                         pages |-> PageAddr(a.page)]>> \o @,
                        !.pages = @ \cup a.page .. a.page + Shift[order] - 1,
                        !.objs = With(@, PageAddr(a.page), size)]]

BigBlock(r, size) ==
    IF r.ptr = NULL THEN r
    ELSE BigPages(r, size, find_order(size), AllocPages(r.pmm, Shift[find_order(size)]))

\* Nothing is not asked for, nor the SLOB_UNIT sizes in bytes below a page less one
\* unit, which fail slob_alloc's assertion: PGSIZE - 2 units stand for the sizes in
\* bytes below those, PGSIZE - 1 for the one above, which gets a page.
Servable(size) == size > 0

__kmalloc(m, h, size) ==
    IF size < PGSIZE - 1
      THEN SmallBlock(slob_alloc(m, h, size + 1), size)
      ELSE BigBlock(slob_alloc(m, h, BigblockUnits), size)

\* Unlinks a big block, frees its pages, then its bigblock_t.
FreeBig(m, h, block, big) ==
    [pmm  |-> FreePages(m, AddrPage(block), Shift[big.order]),
     slob |-> slob_free([h EXCEPT
                           !.bigblocks = RemoveAt(@, CHOOSE i \in DOMAIN @ : @[i] = big),
                           !.pages = @ \ AddrPage(block) .. AddrPage(block) + Shift[big.order] - 1],
                        big.bb, BigblockUnits)]

\* A block that begins a page may be on the list of big blocks, once, or not.
kfree(m, h, block) ==
    LET held == [h EXCEPT !.objs = Restrict(@, DOMAIN @ \ {block})]
        big  == {x \in ToSet(h.bigblocks) : x.pages = block}
    IN  IF block % PGSIZE = 0 /\ big # {}
          THEN FreeBig(m, held, block, CHOOSE x \in big : TRUE)
          ELSE [pmm |-> m, slob |-> slob_free(held, block - 1, 0)]

-----------------------------------------------------------------------------
FreeBlocks == DOMAIN slob.next

Span(b, n) == b .. b + n - 1

BigSpan(x) == Span(x.pages, PGSIZE * Shift[x.order])

BigStarts == {x.pages : x \in ToSet(slob.bigblocks)}

SmallHeaders == {b - 1 : b \in DOMAIN slob.objs \ BigStarts}

\* What lies in the pages of the heap: big blocks, their nodes, the blocks of
\* clients with their headers, free blocks.
Pieces ==
    {BigSpan(x) : x \in ToSet(slob.bigblocks)}
      \cup {Span(x.bb, BigblockUnits) : x \in ToSet(slob.bigblocks)}
      \cup {Span(b, slob.units[b]) : b \in SmallHeaders \cup (FreeBlocks \ {arena})}

\* kmalloc and kfree keep the heap exact: every unit of its pages is in one big
\* block, one bigblock_t, one client's block or one free block, so no two clients
\* ever share memory and none is lost; each block is as large as was asked; the
\* ring reaches every free block once, ascending, wherever slobfree stands, and
\* no two free blocks touch.
SlobExact ==
    /\ UNION Pieces = UNION {Span(PageAddr(p), PGSIZE) : p \in slob.pages}
    /\ \A s, t \in Pieces : s = t \/ s \cap t = {}
    /\ Cardinality(Pieces) = 2 * Len(slob.bigblocks) + Cardinality(SmallHeaders \cup FreeBlocks) - 1
    /\ SmallHeaders \cap FreeBlocks = {}
    /\ DOMAIN slob.units = SmallHeaders \cup FreeBlocks
    /\ \A b \in DOMAIN slob.objs \ BigStarts : slob.units[b - 1] = slob.objs[b] + 1
    /\ \A x \in ToSet(slob.bigblocks) : slob.objs[x.pages] <= PGSIZE * Shift[x.order]
    /\ slob.slobfree \in FreeBlocks
    /\ LET ring == RingFrom(slob, arena)
       IN  /\ ToSet(ring) = FreeBlocks
           /\ \A i \in 1 .. Len(ring) - 2 : ring[i] + slob.units[ring[i]] < ring[i + 1]
           /\ Last(ring) = arena
=============================================================================
