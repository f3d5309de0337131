----------------------------- MODULE SemUsers ------------------------------
(***************************************************************************)
(* Threads that use semaphores in any way at all: down, up and try_down on *)
(* any of them, timed sleeps in between, and kills.  The clients of the    *)
(* kernel (lock_mm, the file system's locks, the philosophers of           *)
(* check_sync.c) are special cases.  A thread is interrupted anywhere, as  *)
(* a kernel thread is.                                                     *)
(***************************************************************************)
EXTENDS Semaphore

CONSTANT MaxValue   \* bound: the highest value up() raises a semaphore to

ASSUME MaxValueAssumption == MaxValue \in Nat

VARIABLE exiting    \* proc->flags & PF_EXITING

user_vars == <<sched_vars, sem_vars, exiting>>

UsersInit == SemInitial /\ exiting = [p \in Proc |-> FALSE]

Fork(p) ==
    /\ Create(p)
    /\ current = idleproc \/ \E c \in Proc : Running(c)
    /\ UNCHANGED exiting

Down(p, s) == Running(p) /\ down(p, s) /\ UNCHANGED exiting

Up(p, s) == Running(p) /\ value[s] < MaxValue /\ up(s) /\ UNCHANGED exiting

\* try_down: as down, but without a unit it returns 0.
try_down(p, s) == Running(p) /\ TakeUnit(s) /\ UNCHANGED exiting

Sleep(p) == Running(p) /\ do_sleep(p) /\ UNCHANGED exiting

do_kill(p, target) ==
    LET found == state[target] # "UNINIT" /\ ~exiting[target]
    IN  /\ Running(p)
        /\ exiting' = [exiting EXCEPT ![target] = found \/ @]
        /\ IF found /\ wait_state[target] \in WT_INTERRUPTED
             THEN wakeup_proc(target)
             ELSE UNCHANGED <<state, wait_state, run_list, time_slice>>
        /\ UNCHANGED <<current, need_resched, sem_vars>>

Step(p) ==
    \/ Fork(p)
    \/ \E s \in Sem : Down(p, s) \/ Up(p, s) \/ try_down(p, s)
    \/ Sleep(p)
    \/ \E q \in Proc : do_kill(p, q)
    \/ (DownSwitch(p) \/ DownReturn(p) \/ SleepSwitch(p) \/ TimerExpires(p))
         /\ UNCHANGED exiting

UsersNext ==
    \/ \E p \in Proc : Step(p)
    \/ (IdleLoop \/ Tick) /\ UNCHANGED exiting

UsersSpec == UsersInit /\ [][UsersNext]_user_vars

-----------------------------------------------------------------------------
UsersTypeOK == SemTypeOK /\ exiting \in [Proc -> BOOLEAN]

\* The position of p in the queue it waits in, 0 once it has been woken.
Turn(p) ==
    IF \E s \in Sem : p \in Range(wait_queue[s])
      THEN CHOOSE i \in 1 .. Len(wait_queue[downing[p]]) : wait_queue[downing[p]][i] = p
      ELSE 0

Abstract == INSTANCE Tickets WITH
    balance <- [s \in Sem |-> value[s] - Len(wait_queue[s])],
    pending <- downing,
    turn    <- [p \in Proc |-> Turn(p)]

\* Semaphores are fair counters: hand-off through the wait queue, kills, sleeps
\* and ticks included, down and up behave as numbers taken and called in order.
ImplementsTickets == Abstract!Spec
=============================================================================
