\* Five pages of five units, the last page never asked for; requests of nothing,
\* one to three units, which are the small blocks, a page and two pages; at most
\* four blocks held.
SPECIFICATION Spec
CONSTANTS
    NPage = 5
    PGSIZE = 5
    TopStaysFree = TRUE
    KMALLOC_CACHES_COUNT = 2
    Sizes = {0, 1, 2, 3, 5, 10}
    MaxObjs = 4
INVARIANTS
    FreeListExact
    ContiguousServed
    SlobExact
    SlabsExact
