------------------------------- MODULE Stride -------------------------------
(***************************************************************************)
(* The scheduler framework of lab6 (kern/schedule/sched.c) with its three  *)
(* classes: round robin, FIFO, and stride scheduling on the skew heap of   *)
(* libs/skew_heap.h, pointer by pointer.                                   *)
(*                                                                         *)
(* rq is the run queue with the scheduling fields of every process, so a   *)
(* class's function takes rq and returns it changed.  enqueue to dequeue   *)
(* run with interrupts off, hence schedule and wakeup_proc are atomic.     *)
(* Strides are unsigned words; Word stands for 2^32.                       *)
(***************************************************************************)
EXTENDS Integers, FiniteSets, SequencesExt

CONSTANTS Proc,            \* the process structures that will be allocated
          initproc,        \* the one proc_init allocates
          idleproc, NULL,
          Word,            \* number of values of lab6_stride
          BIG_STRIDE,
          Priorities,      \* what processes set their priority to
          MAX_TIME_SLICE

ASSUME StrideAssumption ==
    /\ initproc \in Proc /\ idleproc \notin Proc /\ NULL \notin Proc \cup {idleproc}
    /\ IsFiniteSet(Proc)
    /\ Word \in Nat /\ BIG_STRIDE \in 1 .. Word - 1
    /\ Priorities \subseteq 0 .. BIG_STRIDE
    /\ MAX_TIME_SLICE \in Nat \ {0}

VARIABLES sched_class,    \* the class sched_init selects
          rq,
          state,          \* proc->state
          current,
          need_resched    \* the processes whose flag is set

vars == <<sched_class, rq, state, current, need_resched>>

Classes == {"RR", "FIFO", "stride"}

-----------------------------------------------------------------------------
\* libs/skew_heap.h

Ptr == Proc \cup {NULL}

\* The sign of the difference as an int32_t.
proc_stride_comp_f(q, a, b) ==
    LET c == (q.lab6_stride[a] - q.lab6_stride[b]) % Word
    IN  IF c = 0 THEN 0 ELSE IF c < Word \div 2 THEN 1 ELSE -1

\* n keeps the heap m.top as its left child; the one it had becomes the right.
Adopt(q, n, m) ==
    [top |-> n,
     q |-> [m.q EXCEPT !.left[n] = m.top, !.right[n] = q.left[n],
                       !.up = IF m.top = NULL THEN @ ELSE [@ EXCEPT ![m.top] = n]]]

\* Every node is read before the recursive call and written after it, so all
\* the reads are of q.
skew_heap_merge(q, x, y) ==
    LET merge[ab \in Ptr \X Ptr] ==
          LET a == ab[1]
              b == ab[2]
          IN  IF a = NULL THEN [top |-> b, q |-> q]
              ELSE IF b = NULL THEN [top |-> a, q |-> q]
              ELSE IF proc_stride_comp_f(q, a, b) = -1
                     THEN Adopt(q, a, merge[<<q.right[a], b>>])
                     ELSE Adopt(q, b, merge[<<a, q.right[b]>>])
    IN  merge[<<x, y>>]

skew_heap_insert(q, a, b) ==
    skew_heap_merge([q EXCEPT !.left[b] = NULL, !.right[b] = NULL, !.up[b] = NULL], a, b)

\* Mutant: the node that takes b's place keeps its pointer to b.
Mutant_skew_heap_remove_KeepsParent(q, a, b) ==
    LET rep == skew_heap_merge(q, q.left[b], q.right[b])
    IN  IF q.up[b] = NULL THEN rep
        ELSE [top |-> a,
              q |-> IF rep.q.left[q.up[b]] = b
                      THEN [rep.q EXCEPT !.left[q.up[b]] = rep.top]
                      ELSE [rep.q EXCEPT !.right[q.up[b]] = rep.top]]

\* rep takes b's place below b's parent, or becomes the root.
skew_heap_remove(q, a, b) ==
    LET p      == q.up[b]
        rep    == skew_heap_merge(q, q.left[b], q.right[b])
        placed == IF rep.top = NULL THEN rep.q ELSE [rep.q EXCEPT !.up[rep.top] = p]
    IN  IF p = NULL THEN [top |-> rep.top, q |-> placed]
        ELSE [top |-> a,
              q |-> IF placed.left[p] = b THEN [placed EXCEPT !.left[p] = rep.top]
                                          ELSE [placed EXCEPT !.right[p] = rep.top]]

-----------------------------------------------------------------------------
(***************************************************************************)
(* The classes.  run_list is the list from its head; RR_enqueue and        *)
(* FIFO_enqueue assert that the process is on no list, which ReadyExact    *)
(* shows of every call.                                                    *)
(***************************************************************************)
WithRoot(r) == [r.q EXCEPT !.lab6_run_pool = r.top]

\* A slice that is used up, or longer than the queue's, starts afresh.
Slice(q, p) ==
    [q EXCEPT !.time_slice[p] = IF @ = 0 \/ @ > MAX_TIME_SLICE THEN MAX_TIME_SLICE ELSE @]

FIFO_enqueue(q, p) ==
    [q EXCEPT !.run_list = Append(@, p), !.proc_num = @ + 1]

RR_enqueue(q, p) == Slice(FIFO_enqueue(q, p), p)

stride_enqueue(q, p) ==
    [Slice(WithRoot(skew_heap_insert(q, q.lab6_run_pool, p)), p) EXCEPT !.proc_num = @ + 1]

\* RR_dequeue and FIFO_dequeue: list_del_init.
list_dequeue(q, p) ==
    [q EXCEPT !.run_list = RemoveAt(@, CHOOSE i \in DOMAIN @ : @[i] = p), !.proc_num = @ - 1]

\* The pointers of p itself are left as they were until skew_heap_insert clears
\* them; nothing reads them in between, and the model clears them at once.
stride_dequeue(q, p) ==
    [WithRoot(skew_heap_remove(q, q.lab6_run_pool, p)) EXCEPT
        !.proc_num = @ - 1, !.left[p] = NULL, !.right[p] = NULL, !.up[p] = NULL]

\* RR_pick_next and FIFO_pick_next: the head of the list.
list_pick_next(q) ==
    [q |-> q, next |-> IF q.run_list = <<>> THEN NULL ELSE Head(q.run_list)]

\* Mutant: BIG_STRIDE is the largest word.
Mutant_stride_pick_next_FullWord(q) ==
    LET p == q.lab6_run_pool
    IN  [next |-> p,
         q |-> IF p = NULL THEN q
               ELSE [q EXCEPT !.lab6_stride[p] = (@ + (Word - 1) \div q.lab6_priority[p]) % Word]]

\* Mutant: the stride is not advanced.
Mutant_stride_pick_next_NoPass(q) == [next |-> q.lab6_run_pool, q |-> q]

\* The root, its stride advanced while it still is the root.
stride_pick_next(q) ==
    LET p     == q.lab6_run_pool
        prior == IF q.lab6_priority[p] = 0 THEN 1 ELSE q.lab6_priority[p]
    IN  [next |-> p,
         q |-> IF p = NULL THEN q
               ELSE [q EXCEPT !.lab6_priority[p] = prior,
                              !.lab6_stride[p] = (@ + BIG_STRIDE \div prior) % Word]]

sched_class_enqueue(q, p) ==
    IF p = idleproc THEN q
    ELSE CASE sched_class = "stride" -> stride_enqueue(q, p)
           [] sched_class = "RR"     -> RR_enqueue(q, p)
           [] sched_class = "FIFO"   -> FIFO_enqueue(q, p)

sched_class_dequeue(q, p) ==
    IF sched_class = "stride" THEN stride_dequeue(q, p) ELSE list_dequeue(q, p)

sched_class_pick_next(q) ==
    IF sched_class = "stride" THEN stride_pick_next(q) ELSE list_pick_next(q)

-----------------------------------------------------------------------------
\* The queue after wakeup_proc of p, which sleeps or is new.
Woken(q, p) == IF p = current THEN q ELSE sched_class_enqueue(q, p)

\* Runs on the queue q and the states st, which the caller has prepared.
schedule(q, st) ==
    \E queued \in {IF st[current] = "RUNNABLE" THEN sched_class_enqueue(q, current) ELSE q} :
    \E picked \in {sched_class_pick_next(queued)} :
      /\ rq' = IF picked.next = NULL THEN picked.q
               ELSE sched_class_dequeue(picked.q, picked.next)
      /\ current' = IF picked.next = NULL THEN idleproc ELSE picked.next
      /\ need_resched' = need_resched \ {current}
      /\ state' = st

-----------------------------------------------------------------------------
\* sched_init and proc_init: idleproc runs and has created initproc.
Init ==
    /\ sched_class \in Classes
    /\ current = idleproc /\ need_resched = {idleproc}
    /\ state = [p \in Proc \cup {idleproc} |->
                  IF p \in {idleproc, initproc} THEN "RUNNABLE" ELSE "UNINIT"]
    /\ rq = LET none == [p \in Proc |-> NULL]
            IN  sched_class_enqueue(
                  [run_list |-> <<>>, proc_num |-> 0, lab6_run_pool |-> NULL,
                   left |-> none, right |-> none, up |-> none,
                   time_slice |-> [p \in Proc |-> 0],
                   lab6_stride |-> [p \in Proc |-> 0],
                   lab6_priority |-> [p \in Proc |-> 1]], initproc)

\* do_fork: a structure that alloc_proc has just filled is woken.
do_fork(child) ==
    /\ current \in Proc /\ state[child] = "UNINIT"
    /\ state' = [state EXCEPT ![child] = "RUNNABLE"]
    /\ rq' = Woken(rq, child)
    /\ UNCHANGED <<sched_class, current, need_resched>>

\* do_wait sleeps for a child that has not exited.  Who is whose child is left
\* open here (module Proc has the tree): some other process lives.
do_wait ==
    /\ current \in Proc
    /\ \E p \in Proc \ {current} : state[p] \in {"RUNNABLE", "SLEEPING"}
    /\ schedule(rq, [state EXCEPT ![current] = "SLEEPING"])
    /\ UNCHANGED sched_class

Ready == {p \in Proc : state[p] = "RUNNABLE" /\ p # current}

Sleepers == {p \in Proc : state[p] = "SLEEPING"}

\* The queue after wakeup_proc of the member of S, a set of one or none.
WokenAny(q, S) == IF S = {} THEN q ELSE Woken(q, CHOOSE p \in S : TRUE)

\* do_exit wakes its parent if that waits, and initproc if that waits and
\* inherits a zombie; lab6 has no sleep but do_wait's.  The scheduling fields of
\* a zombie are never used again, and the model forgets them.
do_exit(woken) ==
    /\ current \in Proc \ {initproc}
    /\ woken \subseteq Sleepers /\ Cardinality(woken \ {initproc}) <= 1
    /\ schedule(WokenAny(WokenAny(
                  [rq EXCEPT !.lab6_stride[current] = 0, !.lab6_priority[current] = 1,
                             !.time_slice[current] = 0],
                  woken \ {initproc}), woken \cap {initproc}),
                [p \in DOMAIN state |-> IF p = current THEN "ZOMBIE"
                                       ELSE IF p \in woken THEN "RUNNABLE" ELSE state[p]])
    /\ UNCHANGED sched_class

\* do_yield sets need_resched, which schedule clears on the way out of the same
\* trap.
do_yield ==
    /\ current \in Proc
    /\ schedule(rq, state)
    /\ UNCHANGED sched_class

lab6_set_priority(priority) ==
    /\ current \in Proc
    /\ rq' = [rq EXCEPT !.lab6_priority[current] = IF priority = 0 THEN 1 ELSE priority]
    /\ UNCHANGED <<sched_class, state, current, need_resched>>

\* The clock interrupt calls sched_class_proc_tick(current).  FIFO_proc_tick is
\* empty; RR_proc_tick and stride_proc_tick count the slice down.
Ticked(p) == IF rq.time_slice[p] > 0 THEN rq.time_slice[p] - 1 ELSE 0

sched_class_proc_tick ==
    /\ IF current = idleproc \/ sched_class = "FIFO"
         THEN /\ UNCHANGED rq
              /\ need_resched' = need_resched \cup ({current} \cap {idleproc})
         ELSE /\ rq' = [rq EXCEPT !.time_slice[current] = Ticked(current)]
              /\ need_resched' = need_resched
                   \cup (IF Ticked(current) = 0 THEN {current} ELSE {})
    /\ UNCHANGED <<sched_class, state, current>>

\* The way back to user mode, and cpu_idle's loop.
trap_return ==
    /\ current \in need_resched
    /\ schedule(rq, state)
    /\ UNCHANGED sched_class

Next ==
    \/ \E p \in Proc : do_fork(p)
    \/ do_wait
    \/ \E woken \in SUBSET Sleepers : do_exit(woken)
    \/ do_yield
    \/ \E n \in Priorities : lab6_set_priority(n)
    \/ sched_class_proc_tick
    \/ trap_return

\* The clock keeps ticking, and every trap from user mode returns.
Fairness == WF_vars(sched_class_proc_tick) /\ WF_vars(trap_return)

Spec == Init /\ [][Next]_vars /\ Fairness

-----------------------------------------------------------------------------
TypeOK ==
    /\ sched_class \in Classes
    /\ rq.run_list \in Seq(Proc)
    /\ {rq.left, rq.right, rq.up} \subseteq [Proc -> Ptr]
    /\ rq.time_slice \in [Proc -> 0 .. MAX_TIME_SLICE]
    /\ rq.lab6_stride \in [Proc -> 0 .. Word - 1]
    /\ rq.lab6_priority \in [Proc -> 1 .. BIG_STRIDE]
    /\ state \in [Proc \cup {idleproc} -> {"UNINIT", "RUNNABLE", "SLEEPING", "ZOMBIE"}]
    /\ current \in Proc \cup {idleproc}
    /\ need_resched \subseteq Proc \cup {idleproc}

\* The children of p in the heap.
Below(p) == {rq.left[p], rq.right[p]} \ {NULL}

\* The nodes the pointers reach from the root.
Pool ==
    {p \in Proc : \A S \in SUBSET Proc :
       {rq.lab6_run_pool} \ {NULL} \subseteq S /\ (\A r \in S : Below(r) \subseteq S) => p \in S}

\* Whatever the class, and however the strides compare, the ready processes are
\* exactly those in the run queue, each once: a heap whose pointers up and down
\* agree, and whose root has no parent, loses and duplicates nobody.  proc_num
\* counts them, so the assertions of RR_enqueue and RR_dequeue hold.
ReadyExact ==
    /\ TypeOK
    /\ rq.proc_num = Cardinality(Ready)
    /\ IF sched_class = "stride"
         THEN /\ Pool = Ready
              /\ rq.lab6_run_pool # NULL => rq.up[rq.lab6_run_pool] = NULL
              /\ \A p \in Pool : rq.left[p] # NULL => rq.left[p] # rq.right[p]
              /\ \A p \in Pool : \A c \in Below(p) : rq.up[c] = p
         ELSE ToSet(rq.run_list) = Ready /\ IsInjective(rq.run_list)

\* How far b's stride is ahead of a's.
Ahead(a, b) == (rq.lab6_stride[b] - rq.lab6_stride[a]) % Word

\* The strides of the set S lie within BIG_STRIDE of one another.
InWindow(S) == \E a \in S : \A b \in S : Ahead(a, b) <= BIG_STRIDE

HeapOrdered ==
    \A p \in Pool : \A c \in Below(p) : Ahead(p, c) <= BIG_STRIDE

Contenders == Ready \cup ({current} \cap Proc)

Fair == HeapOrdered /\ (Contenders = {} \/ InWindow(Contenders))

\* The argument for BIG_STRIDE = 2^31 - 1: as long as nobody joins whose stride
\* is out of reach, the heap stays ordered, the strides stay within BIG_STRIDE
\* and the process that is picked has the least of them, wherever they wrap.
OrderKept ==
    [][sched_class = "stride" /\ Fair /\ (Contenders \cup Contenders' = {} \/
         InWindow(Contenders \cup Contenders'))
         => Fair' /\ (current' # current /\ current' \in Proc
                        => \A p \in Contenders' : Ahead(current', p) <= BIG_STRIDE)]_vars

\* Nobody starves: with finitely many processes, a ready process comes to run
\* under the preemptive classes, whatever the priorities.
ReadyRuns ==
    \A p \in Proc : (sched_class # "FIFO" /\ p \in Ready) ~> (p \notin Ready)
=============================================================================
