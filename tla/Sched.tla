------------------------------- MODULE Sched -------------------------------
(***************************************************************************)
(* The scheduler core of the lab8 kernel: kern/schedule/sched.c with the   *)
(* round-robin class of kern/schedule/default_sched.c.                     *)
(*                                                                         *)
(* There is one CPU and the kernel is not preemptive: a thread leaves the  *)
(* CPU only by calling schedule().  The operators below are the building   *)
(* blocks that the modules of the blocking services (timers, semaphores,   *)
(* console, process life cycle) conjoin with their own state changes, so   *)
(* each of them constrains exactly the variables its comment names.        *)
(*                                                                         *)
(* proc->runs and rq->proc_num are left out: the first is a statistic, the *)
(* second is always Len(run_list).                                         *)
(***************************************************************************)
EXTENDS Integers, SequencesExt

CONSTANTS Proc,             \* the process structures other than idleproc
          idleproc,         \* the idle thread, never linked in the run queue
          MAX_TIME_SLICE    \* sched.h: ticks a process may run

ASSUME SchedAssumption ==
    /\ idleproc \notin Proc
    /\ MAX_TIME_SLICE \in Nat \ {0}

VARIABLES state,         \* proc->state
          wait_state,    \* proc->wait_state, "none" for 0
          run_list,      \* rq->run_list, front of the queue first
          current,       \* the thread that owns the CPU
          need_resched,  \* proc->need_resched
          time_slice     \* proc->time_slice

sched_vars ==
    <<state, wait_state, run_list, current, need_resched, time_slice>>

Thread == Proc \cup {idleproc}

ProcState == {"UNINIT", "SLEEPING", "RUNNABLE", "ZOMBIE"}

\* The wait_state values of proc.h; all but WT_KSEM carry WT_INTERRUPTED.
WaitState == {"none", "WT_CHILD", "WT_TIMER", "WT_KBD", "WT_KSEM"}

WT_INTERRUPTED == {"WT_CHILD", "WT_TIMER", "WT_KBD"}

-----------------------------------------------------------------------------
(***************************************************************************)
(* The round-robin class.                                                  *)
(***************************************************************************)

\* The slice a process has once it is linked: a spent or an oversized one is
\* replaced, a partly used one is kept.
Refilled(p) ==
    IF time_slice[p] = 0 \/ time_slice[p] > MAX_TIME_SLICE
      THEN MAX_TIME_SLICE
      ELSE time_slice[p]

\* Links p at the tail.  Sets run_list and time_slice.
RR_enqueue(p) ==
    /\ run_list' = Append(run_list, p)
    /\ time_slice' = [time_slice EXCEPT ![p] = Refilled(p)]

\* Mutant: the end of the slice does not ask for a reschedule.
Mutant_RR_proc_tick_NoResched(p) ==
    /\ time_slice' = [time_slice EXCEPT ![p] = IF @ > 0 THEN @ - 1 ELSE 0]
    /\ UNCHANGED need_resched

\* Charges one tick to p.  Sets time_slice and need_resched.
RR_proc_tick(p) ==
    LET left == IF time_slice[p] > 0 THEN time_slice[p] - 1 ELSE 0
    IN  /\ time_slice' = [time_slice EXCEPT ![p] = left]
        /\ need_resched' =
             [need_resched EXCEPT ![p] = (left = 0) \/ need_resched[p]]

-----------------------------------------------------------------------------
(***************************************************************************)
(* sched.c                                                                 *)
(***************************************************************************)

\* Mutant: the current thread is linked as well.
Mutant_wakeup_proc_LinksCurrent(p) ==
    IF state[p] = "RUNNABLE"
      THEN UNCHANGED <<state, wait_state, run_list, time_slice>>
      ELSE /\ state' = [state EXCEPT ![p] = "RUNNABLE"]
           /\ wait_state' = [wait_state EXCEPT ![p] = "none"]
           /\ RR_enqueue(p)

\* Makes p runnable.  The current thread is not linked: it may be woken by an
\* interrupt after it has declared itself asleep and before it has called
\* schedule(), which will then link it.  Waking a runnable process only warns.
\* Sets state, wait_state, run_list and time_slice.
wakeup_proc(p) ==
    IF state[p] = "RUNNABLE"
      THEN UNCHANGED <<state, wait_state, run_list, time_slice>>
      ELSE /\ state' = [state EXCEPT ![p] = "RUNNABLE"]
           /\ wait_state' = [wait_state EXCEPT ![p] = "none"]
           /\ IF p # current
                THEN RR_enqueue(p)
                ELSE UNCHANGED <<run_list, time_slice>>

\* The current thread gives up the CPU; a runnable one other than idleproc
\* goes to the tail first.  Sets run_list, time_slice, current, need_resched.
schedule ==
    LET requeue == state[current] = "RUNNABLE" /\ current # idleproc
        queue   == IF requeue THEN Append(run_list, current) ELSE run_list
    IN  /\ need_resched' = [need_resched EXCEPT ![current] = FALSE]
        /\ time_slice' = IF requeue
                           THEN [time_slice EXCEPT ![current] = Refilled(current)]
                           ELSE time_slice
        /\ IF queue = <<>>
             THEN current' = idleproc /\ run_list' = queue
             ELSE current' = Head(queue) /\ run_list' = Tail(queue)

\* Mutant: a tick that finds the CPU idle changes nothing.
Mutant_sched_class_proc_tick_IdleKeeps ==
    IF current # idleproc
      THEN RR_proc_tick(current)
      ELSE UNCHANGED <<time_slice, need_resched>>

\* The tick is charged to the current thread; idleproc always asks for a
\* reschedule.  Sets time_slice and need_resched.
sched_class_proc_tick ==
    IF current # idleproc
      THEN RR_proc_tick(current)
      ELSE /\ need_resched' = [need_resched EXCEPT ![idleproc] = TRUE]
           /\ UNCHANGED time_slice

-----------------------------------------------------------------------------
SchedTypeOK ==
    /\ state \in [Thread -> ProcState]
    /\ wait_state \in [Thread -> WaitState]
    /\ run_list \in Seq(Proc)
    /\ current \in Thread
    /\ need_resched \in [Thread -> BOOLEAN]
    /\ time_slice \in [Thread -> 0 .. MAX_TIME_SLICE]

\* Exactly the runnable processes that do not own the CPU are linked in the
\* run queue, and each of them once.  This is what the assertions of RR_enqueue
\* and RR_dequeue (default_sched.c:40 and 60) rely on, and what a wakeup that
\* arrives between "state = PROC_SLEEPING" and schedule() could break.
RunQueueOK ==
    /\ IsInjective(run_list)
    /\ \A p \in Proc :
         p \in Range(run_list) <=> (state[p] = "RUNNABLE" /\ p # current)
=============================================================================
