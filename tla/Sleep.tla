------------------------------- MODULE Sleep -------------------------------
(***************************************************************************)
(* Timed sleep and preemption: the timer list of kern/schedule/sched.c,    *)
(* do_sleep, do_yield and do_kill of kern/process/proc.c, and the clock    *)
(* interrupt of kern/trap/trap.c with the checks trap() makes on the way   *)
(* back to user mode.                                                      *)
(*                                                                         *)
(* A trap from user mode runs with interrupts off (sstatus.SIE is cleared  *)
(* by the trap and local_intr_restore only turns on what it found on), so  *)
(* a system call is interrupted nowhere.  idleproc and the kernel threads  *)
(* run with interrupts on and may take a tick between any two steps below; *)
(* a tick taken in the kernel never reschedules.                           *)
(*                                                                         *)
(* The timer_t of a sleeper lives in the stack frame of do_sleep, one per  *)
(* process at most, so an entry of the list is named by its process.       *)
(***************************************************************************)
EXTENDS Sched

CONSTANTS KThread,    \* the members of Proc that never leave the kernel
          MaxSleep    \* bound: the longest sleep asked for

ASSUME SleepAssumption == KThread \subseteq Proc /\ MaxSleep \in Nat \ {0}

VARIABLES timer_list,  \* the processes whose timers are linked, in order
          expires,     \* timer->expires; 0 for a timer that is not linked
          exiting,     \* proc->flags & PF_EXITING
          irq,         \* where the clock interrupt handler is
          pc           \* where each process stopped

sleep_vars == <<timer_list, expires, exiting, irq, pc>>

vars == <<sched_vars, sleep_vars>>

Location == {"run", "sleep.schedule", "sleep.del_timer", "trap.return",
             "exit.schedule", "gone"}

-----------------------------------------------------------------------------
(***************************************************************************)
(* The timer list.  A delay counts from the expiry of the entry before.    *)
(***************************************************************************)
Armed == Range(timer_list)

\* Ticks until the i-th entry expires.
Elapsed[i \in 0 .. Len(timer_list)] ==
    IF i = 0 THEN 0 ELSE Elapsed[i - 1] + expires[timer_list[i]]

\* The delays, with that of the i-th entry (if there is one) moved by d.
Shifted(i, d) ==
    IF i > Len(timer_list)
      THEN expires
      ELSE [expires EXCEPT ![timer_list[i]] = @ + d]

\* add_timer walks past every entry that does not expire later than the new
\* one (so equal deadlines keep their order), links it there with what is left
\* of its delay and takes that from the entry that follows.
add_timer(p, time) ==
    LET passed == Cardinality({i \in 1 .. Len(timer_list) : Elapsed[i] <= time})
        rest   == time - Elapsed[passed]
    IN  /\ timer_list' = InsertAt(timer_list, passed + 1, p)
        /\ expires' = [Shifted(passed + 1, -rest) EXCEPT ![p] = rest]

\* Mutant: the entry that follows loses the delay of the one unlinked.
Mutant_del_timer_DropsDelay(p) ==
    IF p \notin Armed
      THEN UNCHANGED <<timer_list, expires>>
      ELSE LET i == CHOOSE k \in 1 .. Len(timer_list) : timer_list[k] = p
           IN  /\ timer_list' = RemoveAt(timer_list, i)
               /\ expires' = [expires EXCEPT ![p] = 0]

\* del_timer gives the entry's own delay to the entry that follows; a timer
\* that is no longer linked is left alone.
del_timer(p) ==
    IF p \notin Armed
      THEN UNCHANGED <<timer_list, expires>>
      ELSE LET i == CHOOSE k \in 1 .. Len(timer_list) : timer_list[k] = p
           IN  /\ timer_list' = RemoveAt(timer_list, i)
               /\ expires' = [Shifted(i + 1, expires[p]) EXCEPT ![p] = 0]

-----------------------------------------------------------------------------
Init ==
    /\ state = [p \in Thread |-> IF p = idleproc THEN "RUNNABLE" ELSE "UNINIT"]
    /\ wait_state = [p \in Thread |-> "none"]
    /\ run_list = <<>>
    /\ current = idleproc
    /\ need_resched = [p \in Thread |-> p = idleproc]
    /\ time_slice = [p \in Thread |-> 0]
    /\ timer_list = <<>>
    /\ expires = [p \in Proc |-> 0]
    /\ exiting = [p \in Proc |-> FALSE]
    /\ irq = "off"
    /\ pc = [p \in Proc |-> "run"]

At(p, loc) == irq = "off" /\ current = p /\ pc[p] = loc

Goto(p, loc) == pc' = [pc EXCEPT ![p] = loc]

\* Where a system call returns to: trap() for a user process, its caller for a
\* kernel thread.
Return(p) == Goto(p, IF p \in KThread THEN "run" ELSE "trap.return")

\* The boot code (proc_init) and then any running process create a process; of
\* do_fork only what the scheduler sees is modelled here.
Booting == current = idleproc /\ \A p \in Proc : state[p] = "UNINIT"

do_fork(p) ==
    /\ irq = "off" /\ state[p] = "UNINIT"
    /\ wakeup_proc(p)
    /\ \/ Booting /\ UNCHANGED pc
       \/ \E c \in Proc : At(c, "run") /\ Return(c)
    /\ UNCHANGED <<current, need_resched, timer_list, expires, exiting, irq>>

\* do_sleep up to the call of schedule().
do_sleep(p, time) ==
    /\ At(p, "run")
    /\ IF time = 0
         THEN /\ Return(p)
              /\ UNCHANGED <<state, wait_state, timer_list, expires>>
         ELSE /\ state' = [state EXCEPT ![p] = "SLEEPING"]
              /\ wait_state' = [wait_state EXCEPT ![p] = "WT_TIMER"]
              /\ add_timer(p, time)
              /\ Goto(p, "sleep.schedule")
    /\ UNCHANGED <<run_list, current, need_resched, time_slice, exiting, irq>>

\* The call of schedule() in do_sleep.
SleepSwitch(p) ==
    /\ At(p, "sleep.schedule")
    /\ schedule
    /\ Goto(p, "sleep.del_timer")
    /\ UNCHANGED <<state, wait_state, timer_list, expires, exiting, irq>>

\* Mutant: do_sleep trusts that its timer has expired.
Mutant_SleepReturn_KeepsTimer(p) ==
    /\ At(p, "sleep.del_timer")
    /\ Return(p)
    /\ UNCHANGED <<sched_vars, timer_list, expires, exiting, irq>>

\* do_sleep after schedule() has returned: the sleep may have been cut short by
\* a kill, so the timer is unlinked if it is still there.
SleepReturn(p) ==
    /\ At(p, "sleep.del_timer")
    /\ del_timer(p)
    /\ Return(p)
    /\ UNCHANGED <<sched_vars, exiting, irq>>

do_yield(p) ==
    /\ At(p, "run") /\ p \notin KThread
    /\ need_resched' = [need_resched EXCEPT ![p] = TRUE]
    /\ Return(p)
    /\ UNCHANGED <<state, wait_state, run_list, current, time_slice, timer_list, expires,
                   exiting, irq>>

\* do_kill marks the target and wakes it only out of an interruptible wait; a
\* target that is already marked is left alone (-E_KILLED), and so is a pid that
\* find_proc does not know (-E_INVAL).
do_kill(p, target) ==
    LET found == state[target] # "UNINIT" /\ ~exiting[target]
    IN  /\ At(p, "run") /\ p \notin KThread
        /\ exiting' = [exiting EXCEPT ![target] = found \/ @]
        /\ IF found /\ wait_state[target] \in WT_INTERRUPTED
             THEN wakeup_proc(target)
             ELSE UNCHANGED <<state, wait_state, run_list, time_slice>>
        /\ Return(p)
        /\ UNCHANGED <<current, need_resched, timer_list, expires, irq>>

-----------------------------------------------------------------------------
(***************************************************************************)
(* trap(): on the way back to user mode a killed process exits, and one    *)
(* that has used up its slice or has yielded calls schedule().             *)
(***************************************************************************)
TrapExit(p) ==
    /\ At(p, "trap.return") /\ exiting[p]
    /\ state' = [state EXCEPT ![p] = "ZOMBIE"]
    /\ Goto(p, "exit.schedule")
    /\ UNCHANGED <<wait_state, run_list, current, need_resched, time_slice,
                   timer_list, expires, exiting, irq>>

ExitSwitch(p) ==
    /\ At(p, "exit.schedule")
    /\ schedule
    /\ Goto(p, "gone")
    /\ UNCHANGED <<state, wait_state, timer_list, expires, exiting, irq>>

TrapReturn(p) ==
    /\ At(p, "trap.return") /\ ~exiting[p]
    /\ IF need_resched[p]
         THEN schedule
         ELSE UNCHANGED <<run_list, current, need_resched, time_slice>>
    /\ Goto(p, "run")
    /\ UNCHANGED <<state, wait_state, timer_list, expires, exiting, irq>>

\* cpu_idle
IdleLoop ==
    /\ irq = "off" /\ current = idleproc /\ need_resched[idleproc]
    /\ schedule
    /\ UNCHANGED <<state, wait_state, sleep_vars>>

-----------------------------------------------------------------------------
(***************************************************************************)
(* The clock interrupt: run_timer_list, one step per timer that expires.   *)
(* It runs with interrupts off, so nothing else moves before irq is "off". *)
(***************************************************************************)
InterruptsOn ==
    current \in {idleproc} \cup KThread \cup {p \in Proc : pc[p] = "run"}

Tick ==
    /\ irq = "off" /\ InterruptsOn
    /\ expires' = Shifted(1, -1)
    /\ irq' = "expire"
    /\ UNCHANGED <<sched_vars, timer_list, exiting, pc>>

Expiring == irq = "expire" /\ timer_list # <<>> /\ expires[Head(timer_list)] = 0

\* Mutant: the thread that was interrupted needs no wakeup.
Mutant_ExpireTimer_SkipsCurrent ==
    LET p == Head(timer_list)
    IN  /\ Expiring
        /\ IF p # current
             THEN wakeup_proc(p)
             ELSE UNCHANGED <<state, wait_state, run_list, time_slice>>
        /\ timer_list' = Tail(timer_list)
        /\ UNCHANGED <<current, need_resched, expires, exiting, irq, pc>>

ExpireTimer ==
    /\ Expiring
    /\ wakeup_proc(Head(timer_list))
    /\ timer_list' = Tail(timer_list)
    /\ UNCHANGED <<current, need_resched, expires, exiting, irq, pc>>

ChargeTick ==
    /\ irq = "expire" /\ ~Expiring
    /\ sched_class_proc_tick
    /\ irq' = "off"
    /\ IF current # idleproc /\ current \notin KThread
         THEN Goto(current, "trap.return")
         ELSE UNCHANGED pc
    /\ UNCHANGED <<state, wait_state, run_list, current, timer_list, expires, exiting>>

-----------------------------------------------------------------------------
Step(p) ==
    \/ \E t \in 0 .. MaxSleep : do_sleep(p, t)
    \/ SleepSwitch(p)
    \/ SleepReturn(p)
    \/ do_yield(p)
    \/ \E q \in Proc : do_kill(p, q)
    \/ TrapExit(p)
    \/ ExitSwitch(p)
    \/ TrapReturn(p)

Clock == Tick \/ ExpireTimer \/ ChargeTick

Next ==
    \/ \E p \in Proc : do_fork(p) \/ Step(p)
    \/ IdleLoop
    \/ Clock

Spec == Init /\ [][Next]_vars

(***************************************************************************)
(* Fairness: the clock is re-armed by every tick (clock_set_next_event),   *)
(* and a tick that becomes pending during a system call is taken when the  *)
(* call returns; the CPU goes on executing kernel code, between ticks as   *)
(* well.  Both need strong fairness, because each disables the other.      *)
(* A kernel thread calls do_sleep again and again (the loops of            *)
(* check_sync.c).  Nothing is assumed about user code: it may spin.        *)
(***************************************************************************)
KernelStep(p) ==
    \/ SleepSwitch(p)
    \/ SleepReturn(p)
    \/ TrapExit(p)
    \/ ExitSwitch(p)
    \/ TrapReturn(p)

Fairness ==
    /\ SF_vars(Clock)
    /\ SF_vars(IdleLoop)
    /\ \A p \in Proc : SF_vars(KernelStep(p))
    /\ \A p \in KThread : SF_vars(\E t \in 1 .. MaxSleep : do_sleep(p, t))

FairSpec == Spec /\ Fairness

-----------------------------------------------------------------------------
TypeOK ==
    /\ SchedTypeOK
    /\ timer_list \in Seq(Proc)
    /\ exiting \in [Proc -> BOOLEAN]
    /\ irq \in {"off", "expire"}
    /\ pc \in [Proc -> Location]

\* A linked timer belongs to a process that is still inside do_sleep: the list
\* never holds the address of a dead stack frame, and run_timer_list never
\* wakes a zombie (the assertion of wakeup_proc, sched.c:65), however kills and
\* expiries interleave.
TimerFrameLive ==
    /\ \A p \in Armed : pc[p] \in {"sleep.schedule", "sleep.del_timer"}
    /\ IsInjective(timer_list)

\* No lost wakeup: whoever is asleep has a timer that will still expire.
SleeperArmed == \A p \in Proc : state[p] = "SLEEPING" => p \in Armed

\* The countdown of a process is the sum of the delays up to its entry.
Countdown ==
    [p \in Proc |->
       IF p \in Armed
         THEN Elapsed[CHOOSE i \in 1 .. Len(timer_list) : timer_list[i] = p]
         ELSE -1]

Abstract == INSTANCE Deadlines WITH
    left   <- Countdown,
    asleep <- {p \in Proc : state[p] = "SLEEPING"}

\* The delta list of sched.c implements independent countdowns: inserting,
\* unlinking or expiring one timer never moves the deadline of another, and each
\* sleeper wakes in the tick it asked for.
ImplementsDeadlines == Abstract!Spec

\* No sleeper is forgotten: it gets the CPU back and leaves do_sleep.
SleepEnds ==
    \A p \in Proc : (pc[p] = "sleep.schedule") ~> (pc[p] \in {"trap.return", "run"})

\* Round robin starves nobody: a runnable process gets the CPU although the
\* others may never leave user mode by themselves.
RunnableRuns == \A p \in Proc : (state[p] = "RUNNABLE") ~> (current = p)
=============================================================================
