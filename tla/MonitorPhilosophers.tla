------------------------ MODULE MonitorPhilosophers ------------------------
(***************************************************************************)
(* The dining philosophers of kern/sync/check_sync.c on the monitor: the   *)
(* condition variable of philosopher i is i.  Module CheckSync runs them.  *)
(***************************************************************************)
EXTENDS Monitor

CONSTANTS N, TIMES

ASSUME PhilosophersAssumption ==
    /\ N \in Nat \ {0} /\ TIMES \in Nat
    /\ Proc = 0 .. N - 1 /\ Cond = Proc

VARIABLES state_condvar, iter

LEFT(i) == (i - 1 + N) % N

RIGHT(i) == (i + 1) % N

\* monitor_init has run and check_sync has created the threads.
Init ==
    /\ state = [p \in Thread |-> "RUNNABLE"]
    /\ wait_state = [p \in Thread |-> "none"]
    /\ run_list = [i \in 1 .. N |-> i - 1]
    /\ current = idleproc
    /\ need_resched = [p \in Thread |-> p = idleproc]
    /\ time_slice = [p \in Thread |-> IF p = idleproc THEN 0 ELSE MAX_TIME_SLICE]
    /\ value = SemInit
    /\ wait_queue = [x \in Sem |-> <<>>]
    /\ wakeup_flags = [p \in Proc |-> "WT_INTERRUPTED"]
    /\ downing = [p \in Proc |-> NULL]
    /\ inside = [p \in Proc |-> "no"]
    /\ next_count = 0
    /\ count = [c \in Cond |-> 0]
    /\ pc = [p \in Proc |-> "loop"]
    /\ ret = [p \in Proc |-> "loop"]
    /\ arg = [p \in Proc |-> p]
    /\ state_condvar = [p \in Proc |-> "THINKING"]
    /\ iter = [p \in Proc |-> 0]

-----------------------------------------------------------------------------
Think(i) ==
    /\ At(i, "loop") /\ iter[i] < TIMES
    /\ iter' = [iter EXCEPT ![i] = @ + 1]
    /\ do_sleep(i)
    /\ Goto(i, "take.down")
    /\ UNCHANGED <<next_count, count, state_condvar>>

Quit(i) ==
    /\ At(i, "loop") /\ iter[i] = TIMES
    /\ state' = [state EXCEPT ![i] = "ZOMBIE"]
    /\ Goto(i, "exit.schedule")
    /\ UNCHANGED <<wait_state, run_list, current, need_resched, time_slice, sem_vars,
                   next_count, count, state_condvar, iter>>

ExitSwitch(i) ==
    /\ At(i, "exit.schedule")
    /\ schedule
    /\ Goto(i, "gone")
    /\ UNCHANGED <<state, wait_state, sem_vars, next_count, count, state_condvar, iter>>

Enter(i, loc, inner) ==
    /\ At(i, loc)
    /\ down(i, mutex)
    /\ Goto(i, inner)
    /\ UNCHANGED <<next_count, count, state_condvar, iter>>

Leave(i, loc, outer) ==
    /\ At(i, loc)
    /\ Release
    /\ Goto(i, outer)
    /\ UNCHANGED <<next_count, count, state_condvar, iter>>

\* Mutant: only the left neighbour is looked at.
Mutant_phi_test_condvar_LeftOnly(i, j, st, back) ==
    IF st[j] = "HUNGRY" /\ st[LEFT(j)] # "EATING"
      THEN /\ state_condvar' = [st EXCEPT ![j] = "EATING"]
           /\ Call(i, "signal", j, back)
      ELSE state_condvar' = st /\ Goto(i, back)

\* i tests philosopher j on the states st and goes on at back, through
\* cond_signal(cv[j]) if j may eat.
phi_test_condvar(i, j, st, back) ==
    IF st[j] = "HUNGRY" /\ st[LEFT(j)] # "EATING" /\ st[RIGHT(j)] # "EATING"
      THEN /\ state_condvar' = [st EXCEPT ![j] = "EATING"]
           /\ Call(i, "signal", j, back)
      ELSE state_condvar' = st /\ Goto(i, back)

TakeTest(i) ==
    /\ At(i, "take.test")
    /\ phi_test_condvar(i, i, [state_condvar EXCEPT ![i] = "HUNGRY"], "take.check")
    /\ UNCHANGED <<sched_vars, sem_vars, next_count, count, iter>>

TakeCheck(i) ==
    /\ At(i, "take.check")
    /\ IF state_condvar[i] = "HUNGRY"
         THEN Call(i, "wait", i, "take.leave")
         ELSE Goto(i, "take.leave")
    /\ UNCHANGED <<sched_vars, sem_vars, next_count, count, state_condvar, iter>>

phi_take_forks_condvar(i) ==
    \/ Enter(i, "take.down", "take.test")
    \/ TakeTest(i)
    \/ TakeCheck(i)
    \/ Leave(i, "take.leave", "eat")

Eat(i) ==
    /\ At(i, "eat")
    /\ do_sleep(i)
    /\ Goto(i, "put.down")
    /\ UNCHANGED <<next_count, count, state_condvar, iter>>

PutLeft(i) ==
    /\ At(i, "put.left")
    /\ phi_test_condvar(i, LEFT(i), [state_condvar EXCEPT ![i] = "THINKING"], "put.right")
    /\ UNCHANGED <<sched_vars, sem_vars, next_count, count, iter>>

PutRight(i) ==
    /\ At(i, "put.right")
    /\ phi_test_condvar(i, RIGHT(i), state_condvar, "put.leave")
    /\ UNCHANGED <<sched_vars, sem_vars, next_count, count, iter>>

phi_put_forks_condvar(i) ==
    \/ Enter(i, "put.down", "put.left")
    \/ PutLeft(i)
    \/ PutRight(i)
    \/ Leave(i, "put.leave", "loop")

MonitorCall(i) == (cond_signal(i) \/ cond_wait(i)) /\ UNCHANGED <<state_condvar, iter>>

Blocked(i) ==
    /\ DownSwitch(i) \/ DownReturn(i) \/ SleepSwitch(i)
    /\ UNCHANGED <<monitor_vars, state_condvar, iter>>

philosopher_using_condvar(i) ==
    \/ Think(i)
    \/ phi_take_forks_condvar(i)
    \/ Eat(i)
    \/ phi_put_forks_condvar(i)
    \/ MonitorCall(i)
    \/ Quit(i)
    \/ ExitSwitch(i)
    \/ Blocked(i)

-----------------------------------------------------------------------------
TypeOK ==
    /\ SemTypeOK
    /\ next_count \in Nat
    /\ count \in [Cond -> Nat]
    /\ arg \in [Proc -> Cond]
    /\ state_condvar \in [Proc -> {"THINKING", "HUNGRY", "EATING"}]
    /\ iter \in [Proc -> 0 .. TIMES]

\* The threads that have the monitor: inside it and waiting for nothing, or woken
\* by whoever had it before.
Owner ==
    {i \in Proc :
       /\ inside[i] = "no" \/ (downing[i] # NULL /\ wakeup_flags[i] = "WT_KSEM")
       /\ pc[i] \in {"take.test", "take.check", "take.leave", "put.left", "put.right",
                     "put.leave", "signal", "wait", "signal.end", "wait.end"}}

\* The monitor is free or belongs to exactly one thread, however signallers,
\* waiters and newcomers hand it over: never two, and never lost.  The counts by
\* which a release chooses its successor are exact.
MonitorExclusive == TypeOK /\ CountsExact /\ value[mutex] + Cardinality(Owner) = 1
=============================================================================
