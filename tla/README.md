# A TLA+ model of the uCore lab8 kernel

The repository is a teaching operating system for RISC-V that grows from lab1
to lab8.  Labs 1 to 6 are earlier stages of the same kernel, so most modules here
describe `lab8/kern`: one CPU, a kernel that is not preempted, round-robin
scheduling of user processes, semaphores and monitors, timers, a console, a
first-fit page allocator, a heap, three-level page tables, a VFS and the "simple file
system" (SFS) on a disk that is a piece of memory, filled by a tool on the host.  What
earlier labs have and lab8 no longer runs is modelled from them: the best-fit page
allocator and the SLUB heap of lab2, the FIFO and stride schedulers of lab6.

Source paths below are relative to `lab8/kern`.

## 1. How the kernel runs

Three facts decide what can interleave with what, and every module rests on them.

* A trap from user mode runs with interrupts off until it returns or gives up the
  CPU (`sstatus.SIE` is cleared by the trap; `local_intr_restore` turns on only what
  `local_intr_save` found on).  A system call that does not sleep is atomic.
* `idleproc`, `initproc` and other kernel threads run with interrupts on and may take
  a clock tick between any two instructions.  A tick taken in the kernel charges
  slices, runs timers and delivers console input, but never reschedules: `trap()`
  looks at `need_resched` only on the way back to user mode (trap.c:251).
* The CPU changes hands in `schedule()` only, called by whoever owns it.

The disk never sleeps, so the file system's semaphores are never contended.  The
only calls that sleep are `wait`, `sleep`, reads of the console, and, for kernel
threads, `down` and `cond_wait`.

## 2. Components

| component | state | operations | module(s) |
|---|---|---|---|
| scheduler core (`schedule/sched.c`, `default_sched.c`) | process states, run queue, slices, `need_resched`, `current` | `wakeup_proc`, `schedule`, the round-robin class, tick charging | `Sched` |
| timers, sleep, clock (`schedule/sched.c`, `process/proc.c`, `trap/trap.c`) | delta-encoded timer list, exit flags | `add_timer`, `del_timer`, `run_timer_list`, `do_sleep`, `do_yield`, `do_kill`, tick, trap return | `Sleep`, `Deadlines` |
| process life cycle (`process/proc.c`) | process table, `parent/cptr/optr/yptr`, wait states | `do_fork`, `do_exit`, `do_wait`, `do_kill`, `init_main` | `Proc` |
| pid allocation (`process/proc.c`) | `proc_list`, `last_pid`, `next_safe` | `get_pid` | `GetPid` |
| semaphores, wait queues (`sync/sem.c`, `wait.c`) | value, wait queue, wakeup flags | `up`, `down`, `try_down` | `Semaphore`, `SemUsers`, `Tickets` |
| monitors (`sync/monitor.c`) and `check_sync.c` | `mutex`, `next`, `next_count`, condition counts; `s`, `state_sema` | `cond_signal`, `cond_wait`, the philosophers on semaphores and on the monitor | `Monitor`, `MonitorPhilosophers`, `CheckSync` |
| page allocators (`mm/default_pmm.c`, lab2's `best_fit_pmm.c`, `libs/list.h`) | pointers of the free list, `property`, `PG_property`, `nr_free` | `init_memmap`, `alloc_pages`, `free_pages` of both | `PageAlloc` |
| kernel heap (`mm/kmalloc.c`, SLOB) | ring of free blocks, `slobfree`, big blocks | `kmalloc`, `kfree`, `slob_alloc`, `slob_free` | `Slob`, `Kmalloc` |
| kernel heap of lab2 (`slub.c`, `kmalloc.c`) | caches, slabs on three lists, free objects | create, grow, alloc, free, destroy | `Slub`, `Kmalloc` |
| lab6 scheduler (`sched.c`, `default_sched*.c`, `skew_heap.h`) | the class, run list or skew heap, strides, slices | enqueue, dequeue, pick next, tick of each class; fork, wait, exit, yield, priorities | `Stride` |
| address spaces (`mm/pmm.c`, `mm/vmm.c`, `process/proc.c`) | page tables, `page_ref`, areas, `satp` | `load_icode`, `copy_mm`, `exit_mmap`, `do_execve`, `do_exit` | `Mm` |
| console input (`fs/devs/dev_stdin.c`) | ring buffer, wait queue | `dev_stdin_write`, `dev_stdin_read` | `Stdin`, `InputChannel` |
| descriptors, VFS, inodes (`fs/file.c`, `fs.c`, `vfs/*`, `sfs_inode.c`) | descriptor tables, `ref_count`, `open_count`, `reclaim_count`, inode list | open, close, dup, chdir, getcwd, fork, exec, exit, lookup, reclaim | `Files` |
| SFS files (`fs/sfs/sfs_inode.c`, `sfs_io.c`, `bitmap.c`, `fs/sysfile.c`) | block maps, free map, superblock, sizes, dirty marks, blocks | read, write, seek, truncate, fsync, close | `SfsFile` |
| SFS images (`lab8/tools/mksfs.c`, `fs/sfs/sfs_fs.c`) | inodes and entry blocks of `mksfs`, the disk | copying a tree of the host, mounting, the last sync | `SfsImage` |

They interact by calls: every blocking service marks its thread asleep and calls
`schedule()`, and every wakeup goes through `wakeup_proc()`.  `Sched` is therefore a
module of building blocks that `Sleep`, `Proc`, `Semaphore` and `Stdin` extend, and
their actions conjoin its operators with their own changes.  `SemUsers` and
`Monitor` compose the semaphore with its clients; `CheckSync` composes semaphores
and monitor with the program of `check_sync.c`.  `Kmalloc` composes the two heaps,
`Slob` and `Slub`, with `PageAlloc`, and `SfsImage` the host's tool, the mount and
`SfsFile`.  `Mm`, `Files`, `SfsImage`, `Kmalloc` and `GetPid` know no scheduler: what
they model runs between two scheduling points, so it cannot interfere.  `Stride` is the
scheduler of another kernel, with its own processes.

What makes each part hard, and therefore what its properties are about:

* *scheduler and timers*: a wakeup between "mark asleep" and `schedule()`; a kill that
  wakes a sleeper whose timer is still linked to its stack frame; a list of
  differences that must behave like independent countdowns;
* *process life cycle*: a parent that tests, is preempted and then sleeps; orphans that
  are zombies already when `initproc` inherits them; sibling lists rewritten by
  several processes;
* *semaphores and monitors*: the unit of an `up` is handed over invisibly; nothing but
  `up` may end a `down`; a signalled waiter does not test its condition again;
* *console*: one character wakes all readers; killed readers are still queued;
* *stride scheduling*: strides wrap around, and newcomers and sleepers leave the window
  in which the comparison of wrapped strides is an order;
* *heaps*: neighbours are merged in rings and lists that are entered in the middle, and
  the heap itself needs pages to describe pages;
* *memory and files*: allocation fails in the middle of everything, and several owners
  share counted objects.

`PROJECT.json` lists the hazards line by line with the properties that cover them,
and all components, including those that are not modelled.

## 3. From code to module

Actions carry the names of the functions they model, or of the part of a function
between two points where another actor may run.  The `map` of `PROJECT.json` gives
the lines of every definition.  Conventions:

* A process structure, a `wait_t` or a `timer_t` is named by its process: the last two
  live in a stack frame, at most one per process.  "The frame has been left" is then
  visible in the program counter `pc`, which is what `TimerFrameLive` and
  `WaitFramesLive` speak about.
* A list that is only traversed is a sequence; the free list of `PageAlloc`, whose
  pointer surgery is the issue, is modelled pointer by pointer, and so are the
  sibling links of `Proc`.
* Assertions of the code that some state may fail lead to a terminal state (`panic`,
  `Halted`); the others are invariants.
* Memory that runs out and reads that fail are nondeterministic choices.
* Names, messages, console output and statistics are left out.

Module notes.

* **Sleep** breaks the timer interrupt into the expiry of one timer after another
  (`irq`), since each wakes a process.  **Deadlines** is what the timer list promises:
  one countdown per sleeper; the refinement mapping adds up the differences.
* **Proc** starts with `initproc` and lets every user process call anything at any time.
  `MAX_PROCESS` and the set of processes that may be killed are parameters;
  `FilesMayFail` lets `copy_files` fail (see section 7).  What a loop over a sibling list
  finds first is stated as a property of the list, not computed, so that it can be proved
  about.
* **GetPid** has its own names for the parts of a specification (`PidInit`, `PidNext`,
  `PidSpec`), and so have `PageAlloc` and `SemUsers`: other modules or proofs extend them.
* **Semaphore** constrains all scheduler variables, so that clients only add their own.
  **Tickets** is what a semaphore promises: numbers are called in the order taken.
* **CheckSync** runs the two halves of `check_sync` one after the other (`part`): first
  the philosophers on semaphores, then, when all have finished, those on the monitor.
  lab8 has the call commented out (proc.c:1217).
* **PageAlloc** keeps the free list of either manager in one record `pmm`; allocation
  and freeing are chosen by the manager.  `TopStaysFree`: section 7 explains why.
* **Slob** and **Slub** work on the pages `PageAlloc` hands out.  In `Slob` a block is
  named by its address, in units; the ring and `slobfree` are pointers.  `Kmalloc` lets
  the heap's clients and other users of pages call in any order.
* **Stride** has the three classes of lab6 side by side; `Init` selects one.  The skew
  heap is modelled pointer by pointer.  Strides are taken modulo `Word`, and a priority
  is at most `BIG_STRIDE`: a larger one makes steps of 0 (section 7).
* **Mm** uses tables of two entries and pages of two cells, so that segments that start
  and end inside pages, and areas under different tables and directories, all occur.
  A process whose exec has reported success without a program (section 7) is `Astray`:
  it lives on without an mm, and `proc_run` loads the root that was freed.  While that
  page is free, or a root again, the machine goes on; once it is a table or memory, the
  kernel may be mapped no more and the model stops.  User code then either faults, which
  ends the process (`ExitAstray`), or runs through a root that another process or another
  load has got, where it may write to any address (`StoreAstray`).  Its further system
  calls are left out, in `Mm` and in `Files`; its store through the root of a live process
  is covered by the proofs only, since the run's memory is too small for that case.
* **Files** gives every in-memory inode an address (`Slot`), reused after
  `inode_kill`, so a dangling pointer shows as a descriptor that names another file.
  `lost` counts references that a call leaves behind (section 7), "lost" processes
  those whose table is never destroyed.  Loops over descriptors and the way up of
  `sfs_namefile` are recursive functions over the number of turns; `TreeAssumption` says
  what an image of `mksfs` has, a `..` in every directory and a way up that ends, without
  which `getcwd` would not return.
* **SfsFile** takes a call one loop turn at a time on a disk that fills up: `op` is the
  call of `file.c` in progress, `req` the `sysfile_read` or `sysfile_write` around it,
  which cuts the user's buffer into pieces of `IOBUF_SIZE`, one block, as in the code.
* **SfsImage** starts on the host: `mksfs` walks a tree with its recursion as a stack and
  `readdir` in any order, takes blocks in ascending order, and writes free map and
  superblock at the end.  Then the kernel mounts the image or panics, `SfsFile` runs, and
  `fs_cleanup` writes back what is left.  The disk is memory, so nothing outlives that.

## 4. Runs

| run | instance | checks |
|---|---|---|
| `sleep` | two user processes, one kernel thread, sleeps up to 3, slice 1 | `RunQueueOK`, `TimerFrameLive`, `SleeperArmed`, refinement `ImplementsDeadlines`, liveness `SleepEnds`, `RunnableRuns` |
| `proc` | `initproc` and three users, slice 1, one may be killed | `TreeOK` (with `TableOK`), `WaiterNotForgotten`, `InitLeavesNobody` (the final assertions of `init_main`), liveness `WaitReturns`, `KilledWaiterExits` |
| `sem_users` | three threads, a mutex and a signal, any use | `WaitQueueOK`, `DownUninterrupted`, refinement `ImplementsTickets` |
| `check_sync` | four philosophers, one round of each half | `UnitsExact` (units of semaphores; the monitor has one owner), `ForksExclusive`, liveness `AllQuit` |
| `kmalloc` | five pages of five units, the top one never asked for, four blocks at a time | `FreeListExact`, `ContiguousServed`, `SlobExact`, `SlabsExact` |
| `page_alloc_top` | four pages, no restriction | `ListTotal`, violated |
| `stdin` | two readers, buffer of 2, two characters | `NoSleepOnInput`, `WaitFramesLive`, refinement `ImplementsChannel`, liveness `InputServesReaders` |
| `sfs_file` | trees of at most two files, blocks of two bytes, room for three blocks of contents, one direct block and three entries | `BlocksOwnedOnce`, `FilesHoldWrites` |
| `get_pid` | `MAX_PROCESS` 6, `MAX_PID` 12 | `UniquePids`, `GapIsFree`, liveness `SearchEnds` |
| `address_space` | three processes, 19 pages, three programs, one with a file part of five pages | `PagesOwnedOnce` (with `SatpLive`), `ImageExact`, `ExitUnmaps` |
| `files` | two processes, three descriptors each, room for two SFS inodes, a tree of three | `RefsExact`, `NamesKept`, `NothingUnsaved` |
| `stride` | three processes, strides modulo 8, `BIG_STRIDE` 3, priorities 0 and 3, slice 1, each class | `ReadyExact`, `OrderKept`, liveness `ReadyRuns` |

Why the bounds are enough.  Slice 1 makes every tick a possible preemption, which is
the worst case for interleavings.  Sleeps up to 3 give three timers with equal,
adjacent and distant deadlines.  Three users under `initproc` give trees of depth
three, inheritance of inheritance and lists of three siblings, the smallest with a
middle.  Two readers and a buffer of two give wrap-around, overwriting and the race
of two woken readers.  One direct block, an entry block and room for three blocks give
every transition of the block map, and an allocation of two that fails at the second;
`MCHomes` has hard links, nested directories, links, skipped entries, an image that ends
at the edge of a block of the free map, and two that are too small.  A second descriptor
on the same file is left to `Files`: it would multiply the states of `sfs_file` by 20.
Five pages of five units give blocks below, between and above others, splits and merges
on both sides, in the page list and in the ring, requests of nothing, of a part of a page,
of a page and of two.  Strides modulo 8 wrap within a few ticks; `BIG_STRIDE` 3 is the
largest that leaves the comparison an order, as 0x7FFFFFFF does in 32 bits; forks are
finite in number, since a stream of newcomers at stride 0 starves the others.  Two slots for three inodes reuse memory at once.  `MaxOpened`
(3 open descriptors) still fills a table; `MaxLost` is 1.

Deadlock is checked except in `address_space`, `files`, `page_alloc_top` and
`sfs_file`, where the system may really stop (a failed assertion, or all processes ended).

Every property has a mutant in `PROJECT.json`: a plausible bug of one definition
under which TLC finds the property violated on the same instance.

### Fairness

* The clock keeps ticking while interrupts are on (`SF(Clock)`, `SF(Tick)`): strong,
  because interrupts are turned off and on again while the tick is pending, and the
  hardware keeps it pending.
* A thread that owns the CPU in the kernel makes its next step, since nothing else
  runs then (`SF` or `WF` of the kernel steps; strong where a tick may come in between).
* `idleproc` runs its loop whenever it owns the CPU.
* User code is never assumed to do anything: it may spin for ever, and `RunnableRuns`
  and `WaitReturns` hold nevertheless because the clock preempts it.
* In `Stride` the clock ticks and a trap from user mode returns (`WF` of each): nothing
  but a switch to another process takes either away again.
* `InputServesReaders` has characters arriving again and again as its hypothesis.

## 5. Proofs

TLAPS checks the following for every value of the constants.

* `SleepProofs`: `Spec => []TypeOK`, `[]RunQueueOK` (the run queue links exactly the
  runnable processes that do not own the CPU, each once), `[]TimerFrameLive` and
  `[]SleeperArmed`, for any processes, kernel threads, slice length and sleep bound.
  The inductive invariant adds `OwnerRunnable` (whoever owns the CPU and is not on its
  way into `schedule()` is runnable: `SleeperArmed` needs that a thread which returns
  from `schedule()` has been woken) and `TickInUserMode` (a tick interrupts a user
  process in user mode only: `TimerFrameLive` needs that it cannot end a system call).
  From it, step by step, the refinement `Spec => ImplementsDeadlines`: the list of
  differences behaves as one independent countdown per sleeper.
* `SemProofs`: `[]TypeOK` (value, unsigned in the code, never passes below 0),
  `[]WaitQueueOK`, `[]DownUninterrupted`, and the refinement `ImplementsTickets`, for any
  threads, semaphores and initial values.  The invariant `SemInv` adds the run queue,
  `OwnerAwake` and `BlockedOK` (a thread inside `__down` waits for a semaphore or has been
  woken by `up`, so that neither a kill nor a timer is what resumes it).  The second part
  is `check_sync`: `[]UnitsExact` and `[]ForksExclusive` for any number of philosophers
  and meals.  `CheckInv` says for every place of a philosopher's program which unit it
  holds or is owed, so that each semaphore's value is a sum over the philosophers.
* `ProcProofs`: `[]TreeOK`, `[]WaiterNotForgotten` and `[]InitLeavesNobody` for any number
  of processes, provided that `copy_files` does not fail (`~FilesMayFail`: when it does,
  the properties are false, section 7).  The invariant says that there is, for every
  process, a sequence of exactly its children that `cptr`, `optr` and `yptr` link
  (`Lists`), and a depth that decreases towards `initproc` (`Acyclic`); `exit.reparent`,
  in the middle of the loop of `do_exit`, is the one place where a list has no proper
  first entry.  The second part is `get_pid`: `[]UniquePids` and `[]GapIsFree` for every
  `MAX_PROCESS` and `MAX_PID`; the invariant adds `Passed`, what the entries already
  visited by the running search tell about `last_pid` and `next_safe`.
* `PageProofs`: `[]FreeListExact` and `[]ContiguousServed` for any number of pages and both
  managers.  The invariant describes the list as a set: the pointers form a ring over the
  first pages of the blocks, in address order (`Ring`), the blocks lie within memory and
  apart (`Laid`), and none ends where another begins (`MergedBut`, with the one exception
  that the merging in `free_pages` is about to remove).  The hypothesis is `TopStaysFree`,
  because without it both are false (section 7).  These theorems are about
  `PageSpec`, the manager with any client.  `[]SlabsExact` is about `Kmalloc`'s `Spec`, for
  any number of pages, caches and objects: `HeapOK` says of each slab, cache and object
  what `SlabsExact` says, and of each list which slabs are on it; creating a cache,
  adding a slab, moving one object and destroying a cache are lemmas from `HeapOK` to
  `HeapOK`, and `HeapGood` ties the heap to the pages its allocator has handed out.  Since
  `kmalloc_init` panics when it finds no page for a cache, `KmallocAssumption` has more
  pages than caches.
  `[]SlobExact`, also about `Kmalloc`'s `Spec`, is for any number and size of pages and any
  sizes asked for.  The heap's pages are divided into blocks, from address to length
  (`Partition`): those in the ring, which ascends but for one step (`FreeRing`) and where no
  block touches the next, and those held, each for exactly one use, a client's block behind
  its header, a `bigblock_t` or the pages of one (`Uses`).  `slob_alloc` starts at
  `slobfree`, wherever that is, so the proof says what its loop finds of any ring entered
  anywhere: one round, every free block once (`RingFromFacts`).  `Carve`, `Linked` and `Grown` are
  lemmas from `Partition` to `Partition` that say which held blocks stay as they were, and
  the three ways through `__kmalloc` and the two through `kfree` are lemmas from `SlobGood`
  to `SlobGood`: among them the way back when a `bigblock_t` was taken and no pages are left
  for it.  Besides `TopStaysFree` the hypothesis is `SizesRoundUp`: `find_order` gives enough
  pages for every size asked for, which it does not for one just above a power of two of
  pages (section 7); there the client's block would reach into pages it was not given.
  The same invariant gives `PagesExactUnderHeaps`: the two properties of the page allocator
  hold with either heap on top of it.
* `FilesProofs`: `[]RefsExact`, `[]NamesKept` and `[]NothingUnsaved` for any directory tree,
  processes, descriptors, devices and inodes in memory.  A call changes the counts one at
  a time, so no invariant over states says what its functions do: `Good(c, R, O)` relates
  the inodes to the references `R` and openings `O` that are owed at a point of a call,
  what the call itself holds included.  Every function of the VFS and of SFS is a lemma
  from `Good` to `Good`; between calls `R` and `O` are what tables and directories say
  (`Whole`), and `FilesInv` is that together with the state of each process.
  The second part is the console, the device behind descriptor 0: `[]NoSleepOnInput`,
  `[]WaitFramesLive` and the refinement `ImplementsChannel`, for any readers and any size of
  the buffer.  The invariant adds where the interrupt may come (`InterruptedInUser`), that a
  reader marked as waiting is asleep (`WaitersAsleep`: otherwise the wakeup of the interrupt
  would miss it), and that the slots between the two positions have been written.
* `MmProofs`: `[]PagesOwnedOnce`, `[]ExitUnmaps` and `[]ImageExact`, for any processes,
  pages, size of page tables and pages, programs and addresses written to; the last for
  programs with `BssAligned` (section 7).  All three speak of processes that are astray
  too: `SatpLive` names them as the one case in which a freed root is walked, and
  `ImageExact` counts a cell that one of them has overwritten as no longer its owner's.  What keeps three levels of page tables apart is one statement
  over all address spaces: an entry of a table refers to a page that no other entry
  refers to, that is no root and not free, and that has `page_ref` 1 (`Owned`); then a
  change to one table changes one address space, below one entry, and every function of
  `pmm.c` is a lemma from `Owned` to `Owned`.  `MmInv` adds who holds which root
  (`Holders`), that the pages of an address space lie in its areas (`Held`, `Built`: that is
  why `exit_mmap`, which only visits areas, finds them all), that everything else is free,
  lost or empty, and what is lost not in use (`Left`: so a stray store through the root of
  a load given up spoils nobody's memory), and where `load_icode` and `dup_mmap` stand (`Loads`, `Copies`):
  the page they come to next is never mapped yet, or its reference would be overwritten.
  `LoadData` and `CopyData` say what memory holds by then, address by address.
* `StrideProofs`: `[]ReadyExact` and `OrderKept`, for any number of processes and whatever
  they set their priorities to, under each of the three classes.  `Tree` says of the three
  pointers of the skew heap, with a function `D` that gives the nodes below each node, that
  children and parents agree and nothing is below two nodes; merging two trees gives a tree
  of their union (`Merged`).  `skew_heap_merge` recurses over pointers, so the proof ranks
  the nodes (`Ranks`: a child has a smaller rank) and shows that the recursion defines its
  table (`MergeIsTable`) before it inducts over the sum of two ranks.  Everything is stated
  for a relation `R` that the comparisons decide and that then holds of every node and its
  children.  With the relation of all pairs this is `ReadyExact`, which therefore holds
  however the strides compare; with "ahead by at most `BIG_STRIDE`" it is the order of the
  heap, and its root comes first if the relation is transitive (`RootFirst`).  On strides
  that lie in a window of `BIG_STRIDE` the comparison does decide that relation and it is
  transitive (`WindowDecides`); the pass of the root leaves them in such a window
  (`WindowKept`).  The hypothesis of `OrderAlwaysKept` is `BIG_STRIDE < Word \div 2`, which
  2^31 - 1 meets with words of 2^32.

`KernelLemmas` holds the lemmas about `wakeup_proc`, `schedule` and the tick that the
proofs about processes use, and facts about insertion into and removal from
sequences without repetition and about sets of numbers.  Where the code counts or loops,
induction is by a set that contains 0 and with every number its successor
(`InductionOverSets`), or by a least element (`LeastNatural`): both are theorems about
sets, since the induction rules of the library, which take a predicate, cannot be
instantiated here.  Assumptions: the named `ASSUME`s of the modules (`idleproc` is not a
process, slices are positive, there are finitely many processes, and so on), which TLC
evaluates in the runs, and the hypotheses named above: `~FilesMayFail`, `TopStaysFree`,
`SizesRoundUp`, `BssAligned` and `BIG_STRIDE < Word \div 2`.  Every inductive invariant
was first checked by TLC on the instance of its run.

Only model-checked:

* all liveness: under fairness, and with `ENABLED`, it is out of the prover's reach;
* `SfsFile` and `SfsImage`.

## 6. What holds

Scheduling, timers, kernel synchronisation, pids, address spaces except after
an exec that reports success without a program, the heaps, the image that `mksfs` makes, the block map, and reference
counts between calls are as the code intends, on the instances above and, for
scheduling, timers, the process tree, semaphores, `check_sync`, pids, console input,
pages, both heaps, address spaces, and descriptors and inodes, in general.  The stride class keeps its order within the
window it was designed for, and outside of it still starves nobody.

## 7. Disagreements

With a run:

* `page_alloc_top`: `default_free_pages` has no `break` after the branch that appends
  at the tail (default_pmm.c:147), so a block above all others is linked to itself;
  the next allocation from it leaves it on the list.  `default_check` asserts that the
  list adds up to `nr_free` (default_pmm.c:242).  As long as the highest page is never
  allocated the branch is not reached, which is the `kmalloc` run.

Confirmed by TLC on the same modules, without a run of their own; the formulas are
in the modules and their comments say that they do not hold:

* `SfsFile!SizeMatchesBlocks`: `sfs_io_nolock` computes the new size from an `offset` that
  the head and the whole blocks have advanced already (sfs_inode.c:762): a write of one
  whole block gives a size of two, contrary to the assertion of `sfs_truncfile` that
  blocks match the size.
* `SfsFile!IndexWithinFile`, `MaxSizeReachable`: a position beyond the end reaches the
  assertion at sfs_inode.c:356; `SFS_MAX_FILE_SIZE` is larger than what direct blocks
  and one entry block map.
* `SfsFile!CleanOnDisk`: a block added through an existing entry block is counted in
  the inode without marking it dirty (sfs_inode.c:365).
* `Stdin!KilledReaderLeaves`: a killed reader that still finds characters reads on.
* `Proc!KilledExits`: `PF_EXITING` is tested before `schedule()` (trap.c:251); a process
  killed while switched out goes back to user mode first.
* `Proc` with `FilesMayFail = TRUE`: a failed `copy_files` frees a structure that is
  linked and counted already (proc.c:592), against proc.c:540.
* `do_wait` takes the youngest zombie; a stream of new ones can keep an old one for ever.
* `Mm!ImageExact` without `BssAligned`: a segment that is only cleared and starts inside a
  page never gets that page (proc.c:815: "if filesz was 0, it might not").  The programs
  of the run start theirs with a page, as the linker script does.
* `Mm!SatpOwned`: `load_icode` sets `ret = -E_NO_MEM` once, before the loop over the pages
  of a segment's file part (proc.c:786), and line 800 sets it to 0 after each read.  If
  memory runs out at the second or a later page (line 789), `bad_mm` finds `ret` 0 and
  cleans up nothing, and `do_execve` reports success.  The process lives on without an mm,
  its `pgdir` still the root freed at line 1022, which the next `proc_run` loads, contrary
  to step (5) of the comment at proc.c:715.  `user_main` starts again instead.
* `Mm!NothingLost` ("if up steps failed, you should cleanup the env", proc.c:718): a failed `load_icode` frees only the areas and the process then
  exits without an mm; `exit_range` may skip a page directory; a half-copied `fork`
  and a failed `copy_files` drop pages.
* In `Files`, `open` with `O_CREAT | O_EXCL` of an existing file keeps the reference of
  its lookup (vfsfile.c:46), a process whose load fails, or a kernel thread whose
  program cannot be opened, never gives its descriptors back, the program's own
  descriptor stays open after `exec`, and an operation that the inode's type lacks
  stops the kernel through the assertion in `__vop_op` (inode.h:196; inode.h:120
  documents an error for one of them).  `RefsExact` accounts for these references
  explicitly (`lost`, "lost" processes) and shows that there are no others.

Met while modelling and kept out of the instances, since the code has no defined
behaviour there or the case is out of its range:

* SLOB: a size between a page less two units and a page less one passes the test in
  `__kmalloc` and fails the assertion in `slob_alloc` (kmalloc.c:99); `find_order` rounds
  down, so that 8193 bytes get two pages.
* Stride: a priority above `BIG_STRIDE` makes the step 0 and its process keeps the CPU.
* `sysfile_read`: when the user's buffer is not mapped, the position has advanced over
  bytes that were never delivered.
* `mksfs` files a new cache block under the hash of the number it was asked for, 0, not of
  the one it got (mksfs.c:187); it never searches for one, because every inode is filled
  in one go.  A file beyond one entry block gets a `db_indirect` that the kernel ignores.
* `lab5/lab5_challenge`: `do_pgfault`, which would copy a shared page, has no caller, and
  `exception_handler` only prints on a store page fault; the report and `user/cowtest.c`
  take the copy for granted.

## 8. Not modelled

Assembly (`switch.S`, `trapentry.S`, `entry.S`), boot and self-tests, device tree,
serial port, formatting, the kernel monitor: I/O or straight-line code.  lab8's
`best_fit_pmm.c` is an unfilled exercise, its stride class is never selected, the swap
code and unmounting have no caller.  Devices are added once, at boot.  No operation
changes a directory.  Page permissions are left out of `Mm`; positions and contents out
of `Files`, which `SfsFile` has.  Copy-on-write has no behaviour to model (section 7).

Most lines of the repository are the same kernel several times over: labs 1 to 6 carry
copies or earlier forms of what is modelled from lab8, with 1,300 to 1,500 lines of CSR
definitions each (`libs/riscv.h`).  A definition names one place, the one that the last
kernel runs, so those copies are not counted as covered although the modules speak of
them too.

## 9. Plan

Modelled in the order of importance to the whole: `Sched` and `Sleep` first (everything
blocks through them), `Proc`, `Semaphore` and its clients, then the resources
(`PageAlloc` with the heaps, `GetPid`, `Mm`), input and files (`Stdin`, `SfsFile`,
`SfsImage`, `Files`), and the scheduler of lab6 (`Stride`).

Proofs followed the same order.  Of the safety properties that a run checks, those of
`SfsFile` and `SfsImage` are the ones left to prove.

An abstract file system (a map from names to byte strings, descriptors with positions)
that `SfsImage` and `Files` implement together would close the gap between the two.
