--------------------------------- MODULE Mm ---------------------------------
(***************************************************************************)
(* Address spaces: the page tables of kern/mm/pmm.c, the memory areas of   *)
(* kern/mm/vmm.c, and the calls that build and dismantle them in           *)
(* kern/process/proc.c: do_execve with load_icode, copy_mm of do_fork, and *)
(* do_exit.                                                                *)
(*                                                                         *)
(* A system call runs in the kernel with interrupts off and never sleeps   *)
(* here, so one call is in progress at a time (`op'); it is taken one loop *)
(* turn at a time because memory may run out, a read may fail and an       *)
(* assertion may stop the kernel in the middle.                            *)
(*                                                                         *)
(* An address counts cells; a page has PGSIZE of them.  The page tables    *)
(* have three levels of NPTEENTRY entries, the kernel's entries of the     *)
(* root, copied from boot_pgdir, left out.  Structures from kmalloc and    *)
(* kernel stacks have memory of their own.  Sharing (CLONE_VM) happens     *)
(* only between kernel threads, which have no mm, so mm_count is always 1. *)
(***************************************************************************)
EXTENDS Integers, Sequences, FiniteSets, SequencesExt, FiniteSetsExt

CONSTANTS Proc,
          idleproc,
          NULL,
          NPages,        \* physical pages
          NPTEENTRY,     \* entries of a page table
          PGSIZE,        \* cells of a page
          Program,       \* files to execute: sequences of segments
                         \* [va, filesz, memsz]
          USTACKPAGE,    \* pages of the area of the stack
          StackMapped,   \* pages of it that load_icode allocates
          ArgSize,       \* cells that the arguments of an exec may take
          StoreAt        \* addresses that user code writes to

Page == 1 .. NPages

\* The root table of a kernel thread, boot_pgdir.
Boot == 0

NVirtual == NPTEENTRY * NPTEENTRY * NPTEENTRY

USTACKTOP == NVirtual * PGSIZE

Offset == 0 .. PGSIZE - 1

Index == 0 .. NPTEENTRY - 1

\* Contents of a cell: the byte of the program that belongs at address a is a
\* itself, the others are negative.
Zeroed == -1
Junk == -2      \* whatever the page held before
Argument == -3
Stored == -4

\* What proc->mm may hold: a root table and the page ranges of the areas.
MmType == [pgdir : Page \cup {Boot}, areas : Seq((0 .. NVirtual) \X (0 .. NVirtual))]

\* The arguments of a program are at most EXEC_MAX_ARG_NUM strings of
\* EXEC_MAX_ARG_LEN, less than the area of the stack.
ASSUME MmAssumption ==
    /\ IsFiniteSet(Proc) /\ idleproc \notin Proc /\ NULL \notin MmType
    /\ NPages \in Nat /\ NPTEENTRY \in Nat \ {0} /\ PGSIZE \in Nat \ {0}
    /\ USTACKPAGE \in 1 .. NVirtual /\ StackMapped \in 1 .. USTACKPAGE
    /\ ArgSize \subseteq 0 .. USTACKPAGE * PGSIZE
    /\ StoreAt \subseteq 0 .. USTACKTOP - 1
    /\ \A prog \in Program :
         /\ prog \in Seq([va : Nat, filesz : Nat, memsz : Nat])
         /\ \A i \in DOMAIN prog :
              /\ prog[i].filesz <= prog[i].memsz /\ prog[i].memsz > 0
              /\ prog[i].va + prog[i].memsz <= USTACKTOP

VARIABLES mem,      \* physical memory: free pages, page_ref, and each page seen
                    \* as a table and as cells
          mm,       \* proc->mm: root table and list of areas, or NULL
          pgdir,    \* proc->pgdir, what proc_run loads into satp
          alive,    \* processes that were created and have not exited
          current,
          satp,     \* the root table in use
          op,       \* the call in progress
          panic,
          image,    \* what user code should find at each address
          lost      \* pages of address spaces dropped without being dismantled

vars == <<mem, mm, pgdir, alive, current, satp, op, panic, image, lost>>

Idle == [call |-> "none"]

NoMm == [pgdir |-> Boot, areas |-> <<>>]

Empty == [i \in Index |-> 0]

Fresh == [i \in Offset |-> Junk]

-----------------------------------------------------------------------------
(***************************************************************************)
(* Page tables (pmm.c).  `m' is a value of mem, `v' a virtual page number, *)
(* `d' a root table; 0 is an invalid entry.                                *)
(***************************************************************************)
PDX1(v) == v \div (NPTEENTRY * NPTEENTRY)
PDX0(v) == (v \div NPTEENTRY) % NPTEENTRY
PTX(v)  == v % NPTEENTRY

Follow(m, table, i) == IF table = 0 THEN 0 ELSE m.entry[table][i]

\* The page table for v: 0 if get_pte(.., 0) returns NULL.
TableOf(m, d, v) == Follow(m, Follow(m, d, PDX1(v)), PDX0(v))

get_page(m, d, v) == Follow(m, TableOf(m, d, v), PTX(v))

free_pages(m, pages) ==
    [m EXCEPT !.free = @ \cup pages,
              !.ref = [q \in Page |-> IF q \in pages THEN 0 ELSE @[q]],
              !.cell = [q \in Page |-> IF q \in pages THEN Fresh ELSE @[q]]]

\* A table for entry i of a table, unless there is one or memory has run out.
AddTable(m, table, i) ==
    LET q == Min(m.free)
    IN  IF m.entry[table][i] # 0 \/ m.free = {}
          THEN m
          ELSE [m EXCEPT !.free = @ \ {q}, !.ref[q] = 1,
                         !.entry = [@ EXCEPT ![q] = Empty, ![table][i] = q]]

\* get_pte with create: the tables that it was able to add.
get_pte(m, d, v) ==
    LET m1 == AddTable(m, d, PDX1(v))
        pd0 == m1.entry[d][PDX1(v)]
    IN  IF pd0 = 0 THEN m1 ELSE AddTable(m1, pd0, PDX0(v))

page_remove_pte(m, d, v) ==
    LET table == TableOf(m, d, v)
        q     == m.entry[table][PTX(v)]
        m1    == [m EXCEPT !.ref[q] = @ - 1, !.entry[table][PTX(v)] = 0]
    IN  IF m1.ref[q] = 0 THEN free_pages(m1, {q}) ELSE m1

\* page_insert of page q, once get_pte has returned an entry.
page_insert(m, d, q, v) ==
    LET old == get_page(m, d, v)
        m1  == [m EXCEPT !.ref[q] = @ + 1]
        m2  == IF old = 0 THEN m1
               ELSE IF old = q THEN m ELSE page_remove_pte(m1, d, v)
    IN  [m2 EXCEPT !.entry[TableOf(m, d, v)][PTX(v)] = q]

\* pgdir_alloc_page: memory with a page for v, or, if v has no page in it, what
\* the attempt has left behind.
pgdir_alloc_page(m, d, v) ==
    LET q  == Min(m.free)
        m1 == get_pte([m EXCEPT !.free = @ \ {q}], d, v)
    IN  IF m.free = {} THEN m
        ELSE IF TableOf(m1, d, v) = 0 THEN free_pages(m1, {q})
        ELSE page_insert(m1, d, q, v)

\* The virtual pages of an area.
PagesOf(area) == area[1] .. area[2] - 1

\* Mutant: the loop ends with the page table it started in.
Mutant_unmap_range_OneTable(m, d, area) ==
    LET table == TableOf(m, d, area[1])
        here  == {v \in PagesOf(area) : TableOf(m, d, v) = table /\ get_page(m, d, v) # 0}
        pages == {get_page(m, d, v) : v \in here}
    IN  free_pages([m EXCEPT !.entry = [t \in Page |->
                      IF t # table THEN @[t]
                      ELSE [i \in Index |-> IF \E v \in here : PTX(v) = i THEN 0 ELSE @[t][i]]]],
                   pages)

unmap_range(m, d, area) ==
    LET here  == {v \in PagesOf(area) : get_page(m, d, v) # 0}
        pages == {get_page(m, d, v) : v \in here}
        left  == [q \in Page |-> m.ref[q]
                    - Cardinality({v \in here : get_page(m, d, v) = q})]
        tables == {TableOf(m, d, v) : v \in here}
        m1 == [m EXCEPT !.ref = left, !.entry = [t \in Page |->
                 IF t \notin tables THEN @[t]
                 ELSE [i \in Index |->
                         IF \E v \in here : TableOf(m, d, v) = t /\ PTX(v) = i
                           THEN 0 ELSE @[t][i]]]]
    IN  free_pages(m1, {q \in pages : left[q] = 0})

\* exit_range: of the tables that the area reaches, the empty ones are freed, and
\* a directory whose visited entries were all valid, whatever the tables behind
\* them and behind its other entries still hold.
exit_range(m, d, area) ==
    LET Dirs     == {i \in PDX1(area[1]) .. PDX1(area[2] - 1) : m.entry[d][i] # 0}
        Visited(i) == {PDX0(v) : v \in {w \in PagesOf(area) : PDX1(w) = i}}
        Emptied(i) == {j \in Visited(i) : LET t == m.entry[m.entry[d][i]][j]
                                          IN  t # 0 /\ m.entry[t] = Empty}
        FreeDirs == {i \in Dirs : \A j \in Visited(i) : m.entry[m.entry[d][i]][j] # 0}
        m1 == [m EXCEPT !.entry = [t \in Page |->
                 IF t = d THEN [i \in Index |-> IF i \in FreeDirs THEN 0 ELSE @[d][i]]
                 ELSE [j \in Index |->
                         IF \E i \in Dirs : m.entry[d][i] = t /\ j \in Emptied(i)
                           THEN 0 ELSE @[t][j]]]]
    IN  free_pages(m1, {m.entry[d][i] : i \in FreeDirs}
                         \cup UNION {{m.entry[m.entry[d][i]][j] : j \in Emptied(i)} : i \in Dirs})

-----------------------------------------------------------------------------
(***************************************************************************)
(* Memory areas (vmm.c), kept as a list of page ranges sorted by start.    *)
(***************************************************************************)
AreaOf(va, size) == <<va \div PGSIZE, (va + size + PGSIZE - 1) \div PGSIZE>>

\* find_vma.
Covered(areas, v) == \E i \in DOMAIN areas : v \in PagesOf(areas[i])

\* The assertions of check_vma_overlap fail.
Overlaps(areas, area) ==
    \E i \in DOMAIN areas : PagesOf(areas[i]) \cap PagesOf(area) # {}

\* Before the first area that starts above.
insert_vma_struct(areas, area) ==
    LET above == {i \in DOMAIN areas : areas[i][1] > area[1]}
    IN  InsertAt(areas, IF above = {} THEN Len(areas) + 1 ELSE Min(above), area)

-----------------------------------------------------------------------------
\* The pages of the address space with root d.
Reach(m, d) ==
    LET dirs   == {Follow(m, d, i) : i \in Index} \ {0}
        tables == {Follow(m, t, i) : t \in dirs, i \in Index} \ {0}
        mapped == {Follow(m, t, i) : t \in tables, i \in Index} \ {0}
    IN  ({d} \ {0}) \cup dirs \cup tables \cup mapped

\* user_main, a kernel thread, is about to execute its first program.
Init ==
    /\ mem = [free |-> Page, ref |-> [q \in Page |-> 0],
              entry |-> [q \in Page |-> Empty], cell |-> [q \in Page |-> Fresh]]
    /\ mm = [p \in Proc |-> NULL]
    /\ pgdir = [p \in Proc |-> Boot]
    /\ \E p \in Proc : alive = {p} /\ current = p
    /\ satp = Boot
    /\ op = Idle
    /\ panic = FALSE
    /\ image = [p \in Proc |-> <<>>]
    /\ lost = {}

Ready == ~panic /\ op = Idle /\ current \in alive

At(call, stage) == ~panic /\ op.call = call /\ op.stage = stage

\* A user process whose exec has reported success without a program: it has no
\* mm, and its pgdir is still the root that do_execve freed.
Astray(p) == mm[p] = NULL /\ pgdir[p] # Boot

\* The processes that have root table d.
OwnersOf(d) == {r \in Proc : mm[r] # NULL /\ mm[r].pgdir = d}

\* Whether the machine stops when d is loaded.  A root that has been freed maps
\* the kernel as long as its page is not used for anything else, and again when
\* setup_pgdir has got it; a page that serves as a table or as memory does not.
KernelUnmapped(d) ==
    IF d = Boot \/ OwnersOf(d) # {} THEN {FALSE}
    ELSE IF mem'.ref[d] = 0 THEN BOOLEAN ELSE {TRUE}

proc_run(p) ==
    LET d == IF p = idleproc THEN Boot ELSE pgdir[p]
    IN  /\ current' = p
        /\ satp' = d
        /\ panic' \in KernelUnmapped(d)

\* The end of do_exit: the process is a zombie and schedule() takes another.
Die ==
    /\ alive' = alive \ {current}
    /\ \E p \in IF alive = {current} THEN {idleproc} ELSE alive \ {current} : proc_run(p)
    /\ op' = Idle
    /\ UNCHANGED pgdir

schedule ==
    /\ Ready
    /\ UNCHANGED <<mem, mm, pgdir, alive, op, image, lost>>
    /\ \E p \in alive \ {current} : proc_run(p)

-----------------------------------------------------------------------------
(***************************************************************************)
(* Dismantling: exit_mmap, put_pgdir and mm_destroy, as do_exit, do_execve *)
(* and a failed copy_mm do.                                                *)
(***************************************************************************)

\* do_exit and do_execve leave the address space before they dismantle it.
Leave ==
    /\ satp' = IF mm[current] = NULL THEN satp ELSE Boot
    /\ mm' = [mm EXCEPT ![current] = NULL]
    /\ image' = [image EXCEPT ![current] = <<>>]

do_exit ==
    /\ Ready /\ mm[current] # NULL
    /\ Leave
    /\ op' = [call |-> "exit", stage |-> "unmap", mm |-> mm[current], k |-> 1]
    /\ UNCHANGED <<mem, pgdir, alive, current, panic, lost>>

\* do_exit without an mm: there is nothing to leave or to dismantle.
ExitAstray ==
    /\ Ready /\ Astray(current)
    /\ UNCHANGED <<mem, mm, image, lost>>
    /\ Die

\* A program of n cells of arguments is executed, by a user process or by
\* user_main.  Of one that is astray copy_kargv refuses the arguments.
do_execve(prog, n) ==
    /\ Ready /\ ~Astray(current)
    /\ Leave
    /\ op' = [call |-> "exec", stage |-> IF mm[current] = NULL THEN "setup" ELSE "unmap",
              mm |-> IF mm[current] = NULL THEN NoMm ELSE mm[current], k |-> 1,
              prog |-> prog, seg |-> 1, start |-> 0, arg |-> n]
    /\ UNCHANGED <<mem, pgdir, alive, current, panic, lost>>

\* The first loop of exit_mmap.
UnmapArea ==
    /\ ~panic /\ op # Idle /\ op.stage = "unmap"
    /\ IF op.k <= Len(op.mm.areas)
         THEN /\ mem' = unmap_range(mem, op.mm.pgdir, op.mm.areas[op.k])
              /\ op' = [op EXCEPT !.k = @ + 1]
         ELSE /\ op' = [op EXCEPT !.stage = "range", !.k = 1]
              /\ UNCHANGED mem
    /\ UNCHANGED <<mm, pgdir, alive, current, satp, panic, image, lost>>

\* The second loop of exit_mmap.
ExitArea ==
    /\ ~panic /\ op # Idle /\ op.stage = "range" /\ op.k <= Len(op.mm.areas)
    /\ mem' = exit_range(mem, op.mm.pgdir, op.mm.areas[op.k])
    /\ op' = [op EXCEPT !.k = @ + 1]
    /\ UNCHANGED <<mm, pgdir, alive, current, satp, panic, image, lost>>

\* put_pgdir and mm_destroy; do_exit goes on to its end, do_execve to load_icode,
\* do_fork returns an error.
put_pgdir ==
    /\ ~panic /\ op # Idle /\ op.stage = "range" /\ op.k > Len(op.mm.areas)
    /\ mem' = free_pages(mem, {op.mm.pgdir})
    /\ \/ op.call = "exit" /\ Die
       \/ /\ op.call # "exit"
          /\ op' = IF op.call = "exec" THEN [op EXCEPT !.stage = "setup", !.mm = NoMm]
                                      ELSE Idle
          /\ UNCHANGED <<pgdir, alive, current, satp, panic>>
    /\ UNCHANGED <<mm, image, lost>>

-----------------------------------------------------------------------------
(***************************************************************************)
(* load_icode.                                                             *)
(***************************************************************************)
Segment == op.prog[op.seg]

FileEnd == Segment.va + Segment.filesz

MemEnd == Segment.va + Segment.memsz

\* bad_mm with ret # 0: the areas are freed, the tables and pages are not, and
\* do_execve makes the process exit, which has no mm any more.
LoadFails(m) ==
    /\ mem' = m
    /\ lost' = lost \cup Reach(m, op.mm.pgdir)
    /\ UNCHANGED <<mm, image>>
    /\ Die

\* bad_mm with ret = 0: nothing is freed and do_execve succeeds.  A user process is
\* astray from now on; user_main starts again.
LoadGivesUp(m) ==
    /\ mem' = m
    /\ lost' = lost \cup Reach(m, op.mm.pgdir)
    /\ op' = Idle
    /\ UNCHANGED <<mm, pgdir, alive, current, satp, panic, image>>

Loading(m, rec) ==
    /\ mem' = m /\ op' = rec
    /\ UNCHANGED <<mm, pgdir, alive, current, satp, panic, image, lost>>

Panic(m) ==
    /\ panic' = TRUE /\ mem' = m
    /\ UNCHANGED <<mm, pgdir, alive, current, satp, op, image, lost>>

\* mm_create and setup_pgdir.
setup_pgdir ==
    LET q == Min(mem.free)
    IN  /\ At("exec", "setup")
        /\ IF mem.free = {}
             THEN LoadFails(mem)
             ELSE Loading([mem EXCEPT !.free = @ \ {q}, !.entry[q] = Empty],
                          [op EXCEPT !.stage = "segment", !.mm = [NoMm EXCEPT !.pgdir = q]])

\* mm_map: an area that starts in another is refused, one that runs into another
\* fails the assertion of insert_vma_struct.
mm_map(area, next) ==
    IF Covered(op.mm.areas, area[1])
      THEN LoadFails(mem)
      ELSE IF Overlaps(op.mm.areas, area)
        THEN Panic(mem)
        ELSE Loading(mem, [next EXCEPT !.mm.areas = insert_vma_struct(@, area)])

\* The header of a segment is read; the file may be bad or too short.
NextSegment ==
    /\ At("exec", "segment") /\ op.seg <= Len(op.prog)
    /\ \/ mm_map(AreaOf(Segment.va, Segment.memsz),
                 [op EXCEPT !.stage = "file", !.start = Segment.va])
       \/ LoadFails(mem)

\* One page of the file's part of a segment.  ret is -E_NO_MEM before the first
\* page and 0, what the last read returned, before the others.
LoadPage ==
    LET v    == op.start \div PGSIZE
        off  == op.start % PGSIZE
        size == Min({FileEnd - op.start, PGSIZE - off})
        m    == pgdir_alloc_page(mem, op.mm.pgdir, v)
        q    == get_page(m, op.mm.pgdir, v)
    IN  /\ At("exec", "file") /\ op.start < FileEnd
        /\ IF q = 0
             THEN IF op.start = Segment.va THEN LoadFails(m) ELSE LoadGivesUp(m)
             ELSE \/ Loading([m EXCEPT !.cell[q] =
                                [i \in Offset |-> IF i \in off .. off + size - 1
                                                    THEN v * PGSIZE + i ELSE @[i]]],
                             [op EXCEPT !.start = @ + size])
                  \/ LoadFails(m)

\* Mutant: the rest of the last page keeps what it held.
Mutant_ClearRest_Skipped ==
    LET off == op.start % PGSIZE
    IN  /\ At("exec", "file") /\ op.start >= FileEnd
        /\ Loading(mem, [op EXCEPT !.stage = "bss",
                           !.start = IF FileEnd < MemEnd /\ off # 0 THEN @ - off + PGSIZE ELSE @])

\* The rest of the last page of the file is cleared, if that page exists.
ClearRest ==
    LET off == op.start % PGSIZE
        q   == get_page(mem, op.mm.pgdir, op.start \div PGSIZE)
        cut == FileEnd < MemEnd /\ off # 0
    IN  /\ At("exec", "file") /\ op.start >= FileEnd
        /\ Loading(IF cut /\ q # 0
                     THEN [mem EXCEPT !.cell[q] =
                             [i \in Offset |-> IF i >= off THEN Zeroed ELSE @[i]]]
                     ELSE mem,
                   [op EXCEPT !.stage = "bss",
                              !.start = IF cut THEN @ - off + PGSIZE ELSE @])

\* One page of the rest of the segment, cleared.
ClearPage ==
    LET v == op.start \div PGSIZE
        m == pgdir_alloc_page(mem, op.mm.pgdir, v)
        q == get_page(m, op.mm.pgdir, v)
    IN  /\ At("exec", "bss") /\ FileEnd < MemEnd /\ op.start < MemEnd
        /\ IF q = 0
             THEN LoadFails(m)
             ELSE Loading([m EXCEPT !.cell[q] = [i \in Offset |-> Zeroed]],
                          [op EXCEPT !.start = @ + PGSIZE])

SegmentDone ==
    /\ At("exec", "bss") /\ ~(FileEnd < MemEnd /\ op.start < MemEnd)
    /\ Loading(mem, [op EXCEPT !.stage = "segment", !.seg = @ + 1])

MapStack ==
    /\ At("exec", "segment") /\ op.seg > Len(op.prog)
    /\ mm_map(<<NVirtual - USTACKPAGE, NVirtual>>,
              [op EXCEPT !.stage = "stack", !.start = USTACKTOP])

\* The pages at the top of the stack; the kernel asserts that it gets them.
StackPage ==
    LET v == op.start \div PGSIZE - 1
        m == pgdir_alloc_page(mem, op.mm.pgdir, v)
    IN  /\ At("exec", "stack") /\ op.start > USTACKTOP - StackMapped * PGSIZE
        /\ IF get_page(m, op.mm.pgdir, v) = 0
             THEN Panic(m)
             ELSE Loading(m, [op EXCEPT !.start = @ - PGSIZE])

\* What the program finds: its bytes, zeros after them, and its arguments.
Loaded(prog, n) ==
    LET seg(i)  == prog[i].va .. prog[i].va + prog[i].memsz - 1
        file(i) == prog[i].va .. prog[i].va + prog[i].filesz - 1
        args    == USTACKTOP - n .. USTACKTOP - 1
    IN  [a \in (UNION {seg(i) : i \in DOMAIN prog}) \cup args |->
           IF a \in args THEN Argument
           ELSE IF \E i \in DOMAIN prog : a \in file(i) THEN a ELSE Zeroed]

\* The arguments are copied to the stack, page by page: pte2page stops at a page
\* that is not mapped.  The new address space becomes that of the process.
LoadEnds ==
    LET d     == op.mm.pgdir
        cells == USTACKTOP - op.arg .. USTACKTOP - 1
        page(a) == get_page(mem, d, a \div PGSIZE)
    IN  /\ At("exec", "stack") /\ op.start <= USTACKTOP - StackMapped * PGSIZE
        /\ IF \E a \in cells : page(a) = 0
             THEN Panic(mem)
             ELSE /\ mem' = [mem EXCEPT !.cell = [q \in Page |-> [i \in Offset |->
                               IF \E a \in cells : page(a) = q /\ a % PGSIZE = i
                                 THEN Argument ELSE @[q][i]]]]
                  /\ mm' = [mm EXCEPT ![current] = op.mm]
                  /\ pgdir' = [pgdir EXCEPT ![current] = d]
                  /\ satp' = d
                  /\ image' = [image EXCEPT ![current] = Loaded(op.prog, op.arg)]
                  /\ op' = Idle
                  /\ UNCHANGED <<alive, current, panic, lost>>

-----------------------------------------------------------------------------
(***************************************************************************)
(* copy_mm of do_fork: dup_mmap from the last area to the first, with      *)
(* copy_range over the pages of each.                                      *)
(***************************************************************************)
Source == mm[current]

do_fork(c) ==
    LET q == Min(mem.free)
    IN  /\ Ready /\ Source # NULL /\ c \notin alive /\ mem.free # {}
        /\ mem' = [mem EXCEPT !.free = @ \ {q}, !.entry[q] = Empty]
        /\ op' = [call |-> "fork", stage |-> "area", child |-> c, k |-> Len(Source.areas),
                  v |-> 0, mm |-> [NoMm EXCEPT !.pgdir = q]]
        /\ UNCHANGED <<mm, pgdir, alive, current, satp, panic, image, lost>>

dup_mmap ==
    LET area == Source.areas[op.k]
    IN  /\ At("fork", "area") /\ op.k > 0
        /\ Loading(mem, [op EXCEPT !.stage = "copy", !.v = area[1],
                                   !.mm.areas = insert_vma_struct(@, area)])

\* Mutant: the child gets the page of its parent.
Mutant_copy_range_Shares ==
    LET v == op.v
        q == get_page(mem, Source.pgdir, v)
        m == get_pte(mem, op.mm.pgdir, v)
    IN  /\ At("fork", "copy") /\ v < Source.areas[op.k][2]
        /\ IF q = 0 \/ TableOf(m, op.mm.pgdir, v) = 0
             THEN Loading(mem, [op EXCEPT !.v = @ + 1])
             ELSE Loading(page_insert(m, op.mm.pgdir, q, v), [op EXCEPT !.v = @ + 1])

\* One turn of copy_range.  Without memory for a table copy_mm dismantles the
\* copy; without memory for the page itself an assertion fails.
copy_range ==
    LET v  == op.v
        q  == get_page(mem, Source.pgdir, v)
        m  == get_pte(mem, op.mm.pgdir, v)
        nq == Min(m.free)
    IN  /\ At("fork", "copy") /\ v < Source.areas[op.k][2]
        /\ IF TableOf(mem, Source.pgdir, v) = 0
             THEN Loading(mem, [op EXCEPT !.v = (@ \div NPTEENTRY + 1) * NPTEENTRY])
           ELSE IF q = 0
             THEN Loading(mem, [op EXCEPT !.v = @ + 1])
           ELSE IF TableOf(m, op.mm.pgdir, v) = 0
             THEN Loading(m, [op EXCEPT !.stage = "unmap", !.k = 1])
           ELSE IF m.free = {}
             THEN Panic(m)
             ELSE Loading(page_insert([m EXCEPT !.free = @ \ {nq}, !.cell[nq] = m.cell[q]],
                                      op.mm.pgdir, nq, v),
                          [op EXCEPT !.v = @ + 1])

AreaCopied ==
    /\ At("fork", "copy") /\ op.v >= Source.areas[op.k][2]
    /\ Loading(mem, [op EXCEPT !.stage = "area", !.k = @ - 1])

\* The child has its address space and do_fork succeeds, or copy_files fails and
\* the clean-up of do_fork drops it.
CopyEnds ==
    /\ At("fork", "area") /\ op.k = 0
    /\ op' = Idle
    /\ \/ /\ alive' = alive \cup {op.child}
          /\ mm' = [mm EXCEPT ![op.child] = op.mm]
          /\ pgdir' = [pgdir EXCEPT ![op.child] = op.mm.pgdir]
          /\ image' = [image EXCEPT ![op.child] = image[current]]
          /\ UNCHANGED lost
       \/ /\ lost' = lost \cup Reach(mem, op.mm.pgdir)
          /\ UNCHANGED <<mm, pgdir, alive, image>>
    /\ UNCHANGED <<mem, current, satp, panic>>

\* User code writes to its memory.
Store(a) ==
    LET q == get_page(mem, satp, a \div PGSIZE)
    IN  /\ Ready /\ a \in DOMAIN image[current] /\ q # 0
        /\ mem' = [mem EXCEPT !.cell[q][a % PGSIZE] = Stored]
        /\ image' = [image EXCEPT ![current][a] = Stored]
        /\ UNCHANGED <<mm, pgdir, alive, current, satp, op, panic, lost>>

\* So does a process that is astray, through the table that its old root has
\* become: that of another process, or of the load that was given up, whose pages
\* are lost.  Whoever has that cell in its memory cannot rely on it any more.
StoreAstray(a) ==
    LET q == get_page(mem, satp, a \div PGSIZE)
        Spoiled(p) == {b \in DOMAIN image[p] : /\ get_page(mem, mm[p].pgdir, b \div PGSIZE) = q
                                              /\ b % PGSIZE = a % PGSIZE}
    IN  /\ Ready /\ Astray(current) /\ q # 0 /\ (OwnersOf(satp) # {} \/ q \in lost)
        /\ mem' = [mem EXCEPT !.cell[q][a % PGSIZE] = Stored]
        /\ image' = [p \in Proc |-> [b \in DOMAIN image[p] \ Spoiled(p) |-> image[p][b]]]
        /\ UNCHANGED <<mm, pgdir, alive, current, satp, op, panic, lost>>

Next ==
    \/ schedule \/ do_exit \/ ExitAstray
    \/ \E prog \in Program, n \in ArgSize : do_execve(prog, n)
    \/ \E c \in Proc : do_fork(c)
    \/ \E a \in StoreAt : Store(a) \/ StoreAstray(a)
    \/ UnmapArea \/ ExitArea \/ put_pgdir
    \/ setup_pgdir \/ NextSegment \/ LoadPage \/ ClearRest \/ ClearPage
    \/ SegmentDone \/ MapStack \/ StackPage \/ LoadEnds
    \/ dup_mmap \/ copy_range \/ AreaCopied \/ CopyEnds

Spec == Init /\ [][Next]_vars

-----------------------------------------------------------------------------
Value == (0 .. USTACKTOP - 1) \cup {Zeroed, Junk, Argument, Stored}

TypeOK ==
    /\ mem.free \subseteq Page /\ mem.ref \in [Page -> 0 .. 2]
    /\ mem.entry \in [Page -> [Index -> 0 .. NPages]]
    /\ mem.cell \in [Page -> [Offset -> Value]]
    /\ mm \in [Proc -> MmType \cup {NULL}]
    /\ pgdir \in [Proc -> Page \cup {Boot}]
    /\ alive \subseteq Proc /\ current \in Proc \cup {idleproc}
    /\ satp \in Page \cup {Boot} /\ panic \in BOOLEAN /\ lost \subseteq Page

\* The root tables of the address spaces that exist.
Roots ==
    {mm[p].pgdir : p \in {r \in Proc : mm[r] # NULL}}
      \cup (IF op = Idle THEN {} ELSE {op.mm.pgdir} \ {Boot})

\* The entries of the tables of the address spaces that exist.
Tables(d) ==
    LET dirs == {mem.entry[d][i] : i \in Index} \ {0}
    IN  {d} \cup dirs \cup ({mem.entry[t][i] : t \in dirs, i \in Index} \ {0})

Entries == {e \in (UNION {Tables(d) : d \in Roots}) \X Index : mem.entry[e[1]][e[2]] # 0}

\* The processor walks the table of the process that runs, and no other while
\* tables are built or dismantled: do_exit and do_execve change to the kernel's
\* table before they free their own, and a process that has an mm is switched to
\* with its root.  The one exception is a process that is astray, between calls.
SatpLive ==
    /\ satp # Boot =>
         \/ mm[current] # NULL /\ satp = mm[current].pgdir /\ satp \notin mem.free
         \/ op = Idle /\ Astray(current) /\ satp = pgdir[current]
    /\ Ready /\ mm[current] # NULL => satp = mm[current].pgdir
    /\ \A p \in alive \ {current} : mm[p] # NULL => pgdir[p] = mm[p].pgdir

\* No page serves two purposes, and the processor walks the right table
\* (SatpLive): whatever page a table of a live address space refers to is not
\* free, has no second reference, in this address space or in another, and is no
\* root; page_ref says so.
PagesOwnedOnce ==
    /\ TypeOK /\ SatpLive
    /\ Cardinality(Roots) = Cardinality({p \in Proc : mm[p] # NULL})
         + (IF op = Idle \/ op.mm.pgdir = Boot THEN 0 ELSE 1)
    /\ Roots \cap mem.free = {}
    /\ \A e \in Entries :
         LET q == mem.entry[e[1]][e[2]]
         IN  /\ q \notin mem.free \cup Roots
             /\ mem.ref[q] = 1
             /\ \A f \in Entries : mem.entry[f[1]][f[2]] = q => f = e

\* User code finds at each address what it put there, or what its parent or its
\* program had there: load_icode fills its segments exactly, fork copies and
\* never shares, and no page is taken away or reused while it is mapped.  Only a
\* process that is astray can write to the memory of another (StoreAstray).
ImageExact ==
    \A p \in Proc : \A a \in DOMAIN image[p] :
      LET q == get_page(mem, mm[p].pgdir, a \div PGSIZE)
      IN  q # 0 /\ mem.cell[q][a % PGSIZE] = image[p][a]

\* exit_mmap gives back every page of user memory: what is neither free nor part
\* of an address space was dropped by a failed call, or is an empty table.
ExitUnmaps ==
    op = Idle /\ ~panic =>
      \A q \in Page \ (mem.free \cup lost \cup UNION {Reach(mem, d) : d \in Roots}) :
        mem.entry[q] = Empty /\ mem.cell[q] = Fresh

\* Does not hold.  "set current process's mm, cr3" (proc.c:715) before load_icode
\* succeeds: a user process has an address space and runs on no other.  LoadGivesUp
\* leaves one without, which proc_run then gives the root that was freed.
SatpOwned ==
    Ready => /\ ~Astray(current)
             /\ satp # Boot => mm[current] # NULL /\ satp = mm[current].pgdir

\* Does not hold.  "if up steps failed, you should cleanup the env" (proc.c:718), and
\* the same of do_fork and do_exit: between calls every page is free or part of an
\* address space.
NothingLost ==
    op = Idle /\ ~panic =>
      Page = mem.free \cup UNION {Reach(mem, d) : d \in Roots}
=============================================================================
