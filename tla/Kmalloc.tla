------------------------------ MODULE Kmalloc -------------------------------
(***************************************************************************)
(* The kernel heap on the page allocator it gets its pages from, with      *)
(* other clients of the page allocator beside it: SLOB on first fit        *)
(* (lab8), SLUB on best fit (lab2).                                        *)
(***************************************************************************)
EXTENDS Slob, Slub

CONSTANTS Sizes,      \* what kmalloc is asked for, in units
          MaxObjs     \* bound on the blocks clients hold at a time

\* kmalloc_init panics if there is no page for a cache.
ASSUME KmallocAssumption ==
    Sizes \subseteq Nat /\ MaxObjs \in Nat /\ KMALLOC_CACHES_COUNT < NPage

VARIABLE lab

vars == <<lab, pmm, used, slob, slub>>

HeapPages == slob.pages \cup slub.pages

Init ==
    /\ lab \in {"lab8", "lab2"}
    /\ \E h \in {kmalloc_init} :
         IF lab = "lab8"
           THEN /\ pmm = InitialPmm("default_pmm_manager") /\ used = {}
                /\ slub = [caches |-> <<>>, slabs |-> <<>>, objs |-> <<>>, pages |-> {}]
           ELSE pmm = h.pmm /\ slub = h.slub /\ used = h.slub.pages
    /\ slob = InitialSlob

\* Other parts of the kernel use the page allocator directly.
client_alloc_pages(n) == alloc_pages(n) /\ UNCHANGED <<lab, slob, slub>>

client_free_pages(base, n) ==
    /\ (base .. base + n - 1) \cap HeapPages = {}
    /\ free_pages(base, n)
    /\ UNCHANGED <<lab, slob, slub>>

\* The heap after a call of lab8's allocator.
SlobStep(r) ==
    /\ pmm' = r.pmm /\ slob' = r.slob
    /\ used' = (used \ slob.pages) \cup r.slob.pages
    /\ TopKept
    /\ UNCHANGED <<lab, slub>>

SlubStep(r) ==
    /\ pmm' = r.pmm /\ slub' = r.slub
    /\ used' = (used \ slub.pages) \cup r.slub.pages
    /\ TopKept
    /\ UNCHANGED <<lab, slob>>

lab8_kmalloc(size) ==
    /\ lab = "lab8" /\ Servable(size) /\ Cardinality(DOMAIN slob.objs) < MaxObjs
    /\ \E r \in {__kmalloc(pmm, slob, size)} : SlobStep(r)

lab8_kfree(block) ==
    /\ lab = "lab8"
    /\ \E r \in {kfree(pmm, slob, block)} : SlobStep(r)

Here == [pmm |-> pmm, slub |-> slub]

lab2_kmalloc(size) ==
    /\ lab = "lab2" /\ Cardinality(DOMAIN slub.objs) < MaxObjs
    /\ \E r \in {kmalloc(Here, size)} : SlubStep(r)

lab2_kfree(block) ==
    /\ lab = "lab2" /\ slub.objs[block] # OwnCache
    /\ \E r \in {slub_kfree(Here, block)} : SlubStep(r)

\* A client's own cache, of objects of one unit, as slub.h offers it.
own_cache_create ==
    /\ lab = "lab2" /\ OwnCache \notin DOMAIN slub.caches
    /\ \E r \in {kmem_cache_create(Here, OwnCache, 1)} : SlubStep(r)

own_cache_alloc ==
    /\ OwnCache \in DOMAIN slub.caches /\ Cardinality(DOMAIN slub.objs) < MaxObjs
    /\ \E r \in {kmem_cache_alloc(Here, OwnCache)} : SlubStep(r)

own_cache_free(obj) ==
    /\ slub.objs[obj] = OwnCache
    /\ \E r \in {kmem_cache_free(Here, OwnCache, obj)} : SlubStep(r)

\* Only an unused cache: otherwise the kernel panics.
own_cache_destroy ==
    /\ OwnCache \in DOMAIN slub.caches /\ slub.caches[OwnCache].active_objs = 0
    /\ \E r \in {kmem_cache_destroy(Here, OwnCache)} : SlubStep(r)

Next ==
    \/ \E n \in 1 .. NPage : client_alloc_pages(n)
    \/ \E base \in Page : \E n \in 1 .. NPage - base : client_free_pages(base, n)
    \/ \E size \in Sizes : lab8_kmalloc(size) \/ lab2_kmalloc(size)
    \/ \E block \in DOMAIN slob.objs : lab8_kfree(block)
    \/ \E block \in DOMAIN slub.objs : lab2_kfree(block) \/ own_cache_free(block)
    \/ own_cache_create \/ own_cache_alloc \/ own_cache_destroy

Spec == Init /\ [][Next]_vars
=============================================================================
