----------------------------- MODULE Semaphore -----------------------------
(***************************************************************************)
(* Kernel semaphores: kern/sync/sem.c with the wait queues of              *)
(* kern/sync/wait.c, on top of the scheduler, and the timed sleep of a     *)
(* thread as far as semaphores are concerned.                              *)
(*                                                                         *)
(* The wait_t of a blocked thread lives in the stack frame of __down, one  *)
(* per thread at most, so a member of a wait queue is named by its thread. *)
(* Every operation constrains all the variables of this module and of      *)
(* Sched; the modules of the clients add the state of their threads.       *)
(***************************************************************************)
EXTENDS Sched

CONSTANTS Sem,        \* the semaphores
          SemInit,    \* sem_init: their first values
          NULL

ASSUME SemAssumption ==
    /\ SemInit \in [Sem -> Nat]
    /\ NULL \notin Sem

VARIABLES value,         \* sem->value
          wait_queue,    \* sem->wait_queue, first waiter first
          wakeup_flags,  \* wait->wakeup_flags of the thread's wait_t
          downing,       \* the semaphore a thread inside __down waits for
          inside         \* where in a blocking call each thread is

sem_vars == <<value, wait_queue, wakeup_flags, downing, inside>>

Inside == {"no", "down.schedule", "down.return", "sleep.schedule"}

\* No thread exists yet but idleproc; sem_init has been called.
SemInitial ==
    /\ state = [p \in Thread |-> IF p = idleproc THEN "RUNNABLE" ELSE "UNINIT"]
    /\ wait_state = [p \in Thread |-> "none"]
    /\ run_list = <<>>
    /\ current = idleproc
    /\ need_resched = [p \in Thread |-> p = idleproc]
    /\ time_slice = [p \in Thread |-> 0]
    /\ value = SemInit
    /\ wait_queue = [s \in Sem |-> <<>>]
    /\ wakeup_flags = [p \in Proc |-> "WT_INTERRUPTED"]
    /\ downing = [p \in Proc |-> NULL]
    /\ inside = [p \in Proc |-> "no"]

\* p owns the CPU and is in none of the calls below.
Running(p) == current = p /\ inside[p] = "no"

-----------------------------------------------------------------------------
\* Mutant: the waiter is woken and left in the queue (del = 0).
Mutant_up_LeavesQueued(s) ==
    LET first == Head(wait_queue[s])
    IN  /\ IF wait_queue[s] = <<>>
             THEN /\ value' = [value EXCEPT ![s] = @ + 1]
                  /\ UNCHANGED <<state, wait_state, run_list, time_slice, wakeup_flags>>
             ELSE /\ wakeup_flags' = [wakeup_flags EXCEPT ![first] = "WT_KSEM"]
                  /\ wakeup_proc(first)
                  /\ UNCHANGED value
        /\ UNCHANGED <<current, need_resched, downing, inside, wait_queue>>

\* up: the unit goes to the first waiter if there is one, and the value does not
\* change; the waiter is unlinked, flagged and made runnable.
up(s) ==
    LET first == Head(wait_queue[s])
    IN  /\ IF wait_queue[s] = <<>>
             THEN /\ value' = [value EXCEPT ![s] = @ + 1]
                  /\ UNCHANGED <<state, wait_state, run_list, time_slice,
                                 wait_queue, wakeup_flags>>
             ELSE /\ wait_queue' = [wait_queue EXCEPT ![s] = Tail(@)]
                  /\ wakeup_flags' = [wakeup_flags EXCEPT ![first] = "WT_KSEM"]
                  /\ wakeup_proc(first)
                  /\ UNCHANGED value
        /\ UNCHANGED <<current, need_resched, downing, inside>>

\* Takes a unit that is there.
TakeUnit(s) ==
    /\ value[s] > 0
    /\ value' = [value EXCEPT ![s] = @ - 1]
    /\ UNCHANGED <<sched_vars, wait_queue, wakeup_flags, downing, inside>>

\* Mutant: a waiter is linked at the head of the queue.
Mutant_WaitForUnit_LastInFirstOut(p, s) ==
    /\ value[s] = 0
    /\ state' = [state EXCEPT ![p] = "SLEEPING"]
    /\ wait_state' = [wait_state EXCEPT ![p] = "WT_KSEM"]
    /\ wait_queue' = [wait_queue EXCEPT ![s] = <<p>> \o @]
    /\ wakeup_flags' = [wakeup_flags EXCEPT ![p] = "WT_INTERRUPTED"]
    /\ downing' = [downing EXCEPT ![p] = s]
    /\ inside' = [inside EXCEPT ![p] = "down.schedule"]
    /\ UNCHANGED <<run_list, current, need_resched, time_slice, value>>

\* Mutant: the wait can be interrupted, as that for a timer.
Mutant_WaitForUnit_Interruptible(p, s) ==
    /\ value[s] = 0
    /\ state' = [state EXCEPT ![p] = "SLEEPING"]
    /\ wait_state' = [wait_state EXCEPT ![p] = "WT_TIMER"]
    /\ wait_queue' = [wait_queue EXCEPT ![s] = Append(@, p)]
    /\ wakeup_flags' = [wakeup_flags EXCEPT ![p] = "WT_INTERRUPTED"]
    /\ downing' = [downing EXCEPT ![p] = s]
    /\ inside' = [inside EXCEPT ![p] = "down.schedule"]
    /\ UNCHANGED <<run_list, current, need_resched, time_slice, value>>

\* wait_current_set: the caller declares itself asleep and joins the queue.
WaitForUnit(p, s) ==
    /\ value[s] = 0
    /\ state' = [state EXCEPT ![p] = "SLEEPING"]
    /\ wait_state' = [wait_state EXCEPT ![p] = "WT_KSEM"]
    /\ wait_queue' = [wait_queue EXCEPT ![s] = Append(@, p)]
    /\ wakeup_flags' = [wakeup_flags EXCEPT ![p] = "WT_INTERRUPTED"]
    /\ downing' = [downing EXCEPT ![p] = s]
    /\ inside' = [inside EXCEPT ![p] = "down.schedule"]
    /\ UNCHANGED <<run_list, current, need_resched, time_slice, value>>

\* down, up to the call of schedule().
down(p, s) == TakeUnit(s) \/ WaitForUnit(p, s)

\* The call of schedule() in down.
DownSwitch(p) ==
    /\ current = p /\ inside[p] = "down.schedule"
    /\ schedule
    /\ inside' = [inside EXCEPT ![p] = "down.return"]
    /\ UNCHANGED <<state, wait_state, value, wait_queue, wakeup_flags, downing>>

\* wait_current_del: unlinks the wait_t if it is still in the queue.
Unqueued(p, s) ==
    IF p \notin Range(wait_queue[s])
      THEN wait_queue
      ELSE LET i == CHOOSE k \in 1 .. Len(wait_queue[s]) : wait_queue[s][k] = p
           IN  [wait_queue EXCEPT ![s] = RemoveAt(@, i)]

\* down after schedule().
DownReturn(p) ==
    /\ current = p /\ inside[p] = "down.return"
    /\ wait_queue' = Unqueued(p, downing[p])
    /\ downing' = [downing EXCEPT ![p] = NULL]
    /\ inside' = [inside EXCEPT ![p] = "no"]
    /\ UNCHANGED <<sched_vars, value, wakeup_flags>>

-----------------------------------------------------------------------------
\* do_sleep, up to the call of schedule().
do_sleep(p) ==
    /\ state' = [state EXCEPT ![p] = "SLEEPING"]
    /\ wait_state' = [wait_state EXCEPT ![p] = "WT_TIMER"]
    /\ inside' = [inside EXCEPT ![p] = "sleep.schedule"]
    /\ UNCHANGED <<run_list, current, need_resched, time_slice, value, wait_queue,
                   wakeup_flags, downing>>

SleepSwitch(p) ==
    /\ current = p /\ inside[p] = "sleep.schedule"
    /\ schedule
    /\ inside' = [inside EXCEPT ![p] = "no"]
    /\ UNCHANGED <<state, wait_state, value, wait_queue, wakeup_flags, downing>>

\* A timer expires in the clock interrupt; how long a sleep lasts is the
\* business of module Sleep.
TimerExpires(p) ==
    /\ state[p] = "SLEEPING" /\ wait_state[p] = "WT_TIMER"
    /\ wakeup_proc(p)
    /\ UNCHANGED <<current, need_resched, sem_vars>>

\* cpu_idle
IdleLoop ==
    /\ current = idleproc /\ need_resched[idleproc]
    /\ schedule
    /\ UNCHANGED <<state, wait_state, sem_vars>>

\* A tick taken in the kernel charges the current thread and reschedules nobody.
Tick ==
    /\ sched_class_proc_tick
    /\ UNCHANGED <<state, wait_state, run_list, current, sem_vars>>

\* The rest of do_fork: a new thread is made runnable.
Create(p) ==
    /\ state[p] = "UNINIT"
    /\ wakeup_proc(p)
    /\ UNCHANGED <<current, need_resched, sem_vars>>

-----------------------------------------------------------------------------
SemTypeOK ==
    /\ SchedTypeOK
    /\ value \in [Sem -> Nat]
    /\ wait_queue \in [Sem -> Seq(Proc)]
    /\ wakeup_flags \in [Proc -> {"WT_INTERRUPTED", "WT_KSEM"}]
    /\ downing \in [Proc -> Sem \cup {NULL}]
    /\ inside \in [Proc -> Inside]

\* The threads asleep on a semaphore are exactly those in its queue, each once
\* and in the queue of the semaphore it called down for, and nobody waits while
\* there is a unit: no wakeup is lost and the assertion of __up (sem.c:25,
\* "wait->proc->wait_state == wait_state") holds.
WaitQueueOK ==
    /\ \A s \in Sem :
         /\ IsInjective(wait_queue[s])
         /\ value[s] > 0 => wait_queue[s] = <<>>
         /\ \A p \in Proc :
              p \in Range(wait_queue[s]) <=>
                state[p] = "SLEEPING" /\ wait_state[p] = "WT_KSEM" /\ downing[p] = s
    /\ \A p \in Proc :
         state[p] = "SLEEPING" /\ wait_state[p] = "WT_KSEM" =>
           downing[p] # NULL /\ inside[p] \in {"down.schedule", "down.return"}

\* The assertion of down (sem.c:64, "flags == 0"): whoever leaves __down has
\* been handed a unit by up; neither a kill nor a timer cuts the wait short.
DownUninterrupted ==
    \A p \in Proc :
      inside[p] \in {"down.schedule", "down.return"} /\ state[p] = "RUNNABLE" =>
        wakeup_flags[p] = "WT_KSEM"
=============================================================================
