-------------------------------- MODULE Slub --------------------------------
(***************************************************************************)
(* The kernel heap of lab2: the SLUB caches of kern/mm/slub.c and kmalloc  *)
(* on top of them, kern/mm/kmalloc.c.                                      *)
(*                                                                         *)
(* A slab is a page with a header of one unit; it is named by its page.    *)
(* Objects are named by their address in units, page p beginning at        *)
(* (p + 1) * PGSIZE.  The three lists of a cache are sequences from their  *)
(* heads, and so is the freelist of a slab.                                *)
(***************************************************************************)
EXTENDS PageAlloc, FiniteSets

CONSTANT KMALLOC_CACHES_COUNT    \* caches of objects of 1, 2, 4, ... units

ASSUME SlubAssumption ==
    KMALLOC_CACHES_COUNT \in Nat \ {0} /\ Shift[KMALLOC_CACHES_COUNT - 1] < PGSIZE

VARIABLE slub    \* caches: the kmem_cache_t that exist, by number
                 \* slabs:  the slab_t that exist, by page
                 \* objs:   what clients hold, from address to the cache it came from
                 \* pages:  the pages obtained

\* kmalloc's caches, and one that a client creates for itself.
KmallocCaches == 1 .. KMALLOC_CACHES_COUNT

OwnCache == KMALLOC_CACHES_COUNT + 1

SlabAddr(p) == (p + 1) * PGSIZE

-----------------------------------------------------------------------------
\* The cache lies in a page of its own, wherever the allocator puts it.
NewCache(page, size) ==
    [page |-> page, obj_size |-> size, num_per_slab |-> (PGSIZE - 1) \div size,
     slabs_full |-> <<>>, slabs_partial |-> <<>>, slabs_empty |-> <<>>,
     total_slabs |-> 0, active_objs |-> 0]

CacheIn(h, cache, size, a) ==
    IF a.page = NULL THEN h
    ELSE [pmm |-> a.pmm,
          slub |-> [h.slub EXCEPT !.caches = With(@, cache, NewCache(a.page, size)),
                                  !.pages = @ \cup {a.page}]]

\* h is the page allocator with the heap.  A size that leaves room for no object
\* is not asked for.
kmem_cache_create(h, cache, size) == CacheIn(h, cache, size, AllocPages(h.pmm, 1))

\* kmalloc_init: cache i holds objects of 2^(i-1) units.
kmalloc_init ==
    LET none == [pmm  |-> InitialPmm("best_fit_pmm_manager"),
                 slub |-> [caches |-> <<>>, slabs |-> <<>>, objs |-> <<>>, pages |-> {}]]
        built[i \in 0 .. KMALLOC_CACHES_COUNT] ==
          IF i = 0 THEN none ELSE kmem_cache_create(built[i - 1], i, Shift[i - 1])
    IN  built[KMALLOC_CACHES_COUNT]

\* Each object is put at the head of the freelist, the last one on top.
NewSlab(page, cache, c) ==
    [cache |-> cache, inuse |-> 0,
     freelist |-> [i \in 1 .. c.num_per_slab |->
                     SlabAddr(page) + 1 + (c.num_per_slab - i) * c.obj_size]]

SlabIn(h, cache, a) ==
    IF a.page = NULL THEN h
    ELSE [pmm |-> a.pmm,
          slub |-> [h.slub EXCEPT
                      !.slabs = With(@, a.page, NewSlab(a.page, cache, h.slub.caches[cache])),
                      !.caches[cache].slabs_empty = Append(@, a.page),
                      !.caches[cache].total_slabs = @ + 1,
                      !.pages = @ \cup {a.page}]]

kmem_cache_grow(h, cache) == SlabIn(h, cache, AllocPages(h.pmm, 1))

\* list_del, which does not name the list: the list l without the slab.
Unlinked(l, slab) ==
    IF slab \in ToSet(l) THEN RemoveAt(l, CHOOSE i \in DOMAIN l : l[i] = slab) ELSE l

\* list_del of the slab from whichever list it is on, and list_add_before of the
\* list's head.
Moved(c, slab, list) ==
    LET cut == [c EXCEPT !.slabs_full = Unlinked(@, slab), !.slabs_partial = Unlinked(@, slab),
                         !.slabs_empty = Unlinked(@, slab)]
    IN  [cut EXCEPT ![list] = Append(@, slab)]

\* Mutant: a slab stays on the partial list when its last object goes.
Mutant_ObjectFrom_NeverFull(h, cache, slab) ==
    LET c   == h.slub.caches[cache]
        obj == Head(h.slub.slabs[slab].freelist)
    IN  [pmm  |-> h.pmm,
         slub |-> [h.slub EXCEPT !.slabs[slab].freelist = Tail(@),
                                 !.slabs[slab].inuse = @ + 1,
                                 !.caches[cache] = [Moved(c, slab, "slabs_partial") EXCEPT
                                                      !.active_objs = @ + 1],
                                 !.objs = With(@, obj, cache)]]

\* Takes the first object of the slab, which goes to the full or the partial list.
ObjectFrom(h, cache, slab) ==
    LET c    == h.slub.caches[cache]
        obj  == Head(h.slub.slabs[slab].freelist)
        list == IF h.slub.slabs[slab].inuse + 1 = c.num_per_slab
                  THEN "slabs_full" ELSE "slabs_partial"
    IN  [pmm  |-> h.pmm,
         slub |-> [h.slub EXCEPT !.slabs[slab].freelist = Tail(@),
                                 !.slabs[slab].inuse = @ + 1,
                                 !.caches[cache] = [Moved(c, slab, list) EXCEPT
                                                      !.active_objs = @ + 1],
                                 !.objs = With(@, obj, cache)]]

\* From a slab that grow has just made, if it could.
ObjectFromEmpty(h, cache) ==
    LET empty == h.slub.caches[cache].slabs_empty
    IN  IF empty = <<>> THEN h ELSE ObjectFrom(h, cache, Head(empty))

\* A partial slab first, then an empty one, then a new one.
kmem_cache_alloc(h, cache) ==
    LET c == h.slub.caches[cache]
    IN  IF c.slabs_partial # <<>> THEN ObjectFrom(h, cache, Head(c.slabs_partial))
        ELSE IF c.slabs_empty # <<>> THEN ObjectFrom(h, cache, Head(c.slabs_empty))
        ELSE ObjectFromEmpty(kmem_cache_grow(h, cache), cache)

\* The slab is found by rounding the address down to its page.
obj_to_slab(obj) == obj \div PGSIZE - 1

kmem_cache_free(h, cache, obj) ==
    LET c    == h.slub.caches[cache]
        slab == obj_to_slab(obj)
        list == IF h.slub.slabs[slab].inuse = 1 THEN "slabs_empty" ELSE "slabs_partial"
    IN  [pmm  |-> h.pmm,
         slub |-> [h.slub EXCEPT !.slabs[slab].freelist = <<obj>> \o @,
                                 !.slabs[slab].inuse = @ - 1,
                                 !.caches[cache] = [Moved(c, slab, list) EXCEPT
                                                      !.active_objs = @ - 1],
                                 !.objs = Restrict(@, DOMAIN @ \ {obj})]]

\* The slabs of slabs_empty go back page by page, then the cache's own page.
kmem_cache_destroy(h, cache) ==
    LET c     == h.slub.caches[cache]
        pages == Append(c.slabs_empty, c.page)
        freed[i \in 0 .. Len(pages)] ==
          IF i = 0 THEN h.pmm ELSE FreePages(freed[i - 1], pages[i], 1)
    IN  [pmm  |-> freed[Len(pages)],
         slub |-> [h.slub EXCEPT
                     !.caches = Restrict(@, DOMAIN @ \ {cache}),
                     !.slabs = Restrict(@, DOMAIN @ \ ToSet(c.slabs_empty)),
                     !.pages = @ \ ToSet(pages)]]

-----------------------------------------------------------------------------
\* The cache of the smallest objects that are large enough: the power of two that
\* fls gives, by its exponent.
size_to_index(size) ==
    CHOOSE i \in KmallocCaches : Shift[i - 1] >= size /\ \A j \in 1 .. i - 1 : Shift[j - 1] < size

\* Size 0 and sizes beyond the largest cache are refused.
kmalloc(h, size) ==
    IF size = 0 \/ size > Shift[KMALLOC_CACHES_COUNT - 1] THEN h
    ELSE kmem_cache_alloc(h, size_to_index(size))

\* The cache is read from the header of the page the address lies in.
slub_kfree(h, ptr) == kmem_cache_free(h, h.slub.slabs[obj_to_slab(ptr)].cache, ptr)

-----------------------------------------------------------------------------
ObjectsOf(p) ==
    LET c == slub.caches[slub.slabs[p].cache]
    IN  {SlabAddr(p) + 1 + i * c.obj_size : i \in 0 .. c.num_per_slab - 1}

\* Every object of a slab is either held by one client of the slab's cache or on
\* the freelist once; inuse and active_objs count the former; and each slab is on
\* the one list that its count says.  Pages belong to slabs or caches alone.
SlabsExact ==
    /\ \A p \in DOMAIN slub.slabs :
         LET s    == slub.slabs[p]
             c    == slub.caches[s.cache]
             held == ObjectsOf(p) \cap DOMAIN slub.objs
         IN  /\ ToSet(s.freelist) = ObjectsOf(p) \ held /\ IsInjective(s.freelist)
             /\ s.inuse = Cardinality(held)
             /\ \A o \in held : slub.objs[o] = s.cache
             /\ (p \in ToSet(c.slabs_full)) <=> s.inuse = c.num_per_slab
             /\ (p \in ToSet(c.slabs_partial)) <=> s.inuse \in 1 .. c.num_per_slab - 1
             /\ (p \in ToSet(c.slabs_empty)) <=> s.inuse = 0
    /\ \A k \in DOMAIN slub.caches :
         LET c   == slub.caches[k]
             all == c.slabs_full \o c.slabs_partial \o c.slabs_empty
         IN  /\ IsInjective(all)
             /\ ToSet(all) = {p \in DOMAIN slub.slabs : slub.slabs[p].cache = k}
             /\ c.total_slabs = Len(all)
             /\ c.active_objs = Cardinality({o \in DOMAIN slub.objs : slub.objs[o] = k})
    /\ DOMAIN slub.objs \subseteq UNION {ObjectsOf(p) : p \in DOMAIN slub.slabs}
    /\ slub.pages = DOMAIN slub.slabs \cup {slub.caches[k].page : k \in DOMAIN slub.caches}
    /\ DOMAIN slub.slabs \cap {slub.caches[k].page : k \in DOMAIN slub.caches} = {}
=============================================================================
