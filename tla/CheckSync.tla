----------------------------- MODULE CheckSync -----------------------------
(***************************************************************************)
(* The self-test of kern/sync/check_sync.c: the dining philosophers on     *)
(* semaphores, then on a monitor.  check_sync waits for the threads of the *)
(* first part before it creates those of the second, so the two parts      *)
(* never meet and each begins with fresh threads and fresh semaphores:     *)
(* part says which one is running.  In the first part the members of Sem   *)
(* are `mutex' and s[i], called i.                                         *)
(***************************************************************************)
EXTENDS MonitorPhilosophers

VARIABLES part, state_sema

vars == <<sched_vars, sem_vars, monitor_vars, state_condvar, iter, part, state_sema>>

\* state_sema is a global, so it begins with zeros.
CheckInit ==
    /\ Init
    /\ part \in {"sema", "condvar"}
    /\ state_sema = [i \in Proc |-> "THINKING"]

-----------------------------------------------------------------------------
\* Tests philosopher j on the states st.
phi_test_sema(j, st) ==
    IF st[j] = "HUNGRY" /\ st[LEFT(j)] # "EATING" /\ st[RIGHT(j)] # "EATING"
      THEN state_sema' = [st EXCEPT ![j] = "EATING"] /\ up(j)
      ELSE state_sema' = st /\ UNCHANGED <<sched_vars, sem_vars>>

\* What the steps of the first part leave alone.
Aside == UNCHANGED <<next_count, count, state_condvar, iter>>

SemaTake(i) ==
    /\ At(i, "sema.take")
    /\ phi_test_sema(i, [state_sema EXCEPT ![i] = "HUNGRY"])
    /\ Goto(i, "sema.leave")
    /\ Aside

SemaUp(i, loc, outer) ==
    /\ At(i, loc)
    /\ up(mutex)
    /\ Goto(i, outer)
    /\ Aside /\ UNCHANGED state_sema

SemaDown(i) ==
    /\ At(i, "sema.down")
    /\ down(i, i)
    /\ Goto(i, "eat")
    /\ Aside /\ UNCHANGED state_sema

phi_take_forks_sema(i) ==
    \/ Enter(i, "take.down", "sema.take") /\ UNCHANGED state_sema
    \/ SemaTake(i)
    \/ SemaUp(i, "sema.leave", "sema.down")
    \/ SemaDown(i)

SemaPutLeft(i) ==
    /\ At(i, "sema.left")
    /\ phi_test_sema(LEFT(i), [state_sema EXCEPT ![i] = "THINKING"])
    /\ Goto(i, "sema.right")
    /\ Aside

\* Mutant: the right neighbour is not told.
Mutant_SemaPutRight_Skipped(i) ==
    /\ At(i, "sema.right")
    /\ Goto(i, "sema.put")
    /\ Aside /\ UNCHANGED <<sched_vars, sem_vars, state_sema>>

SemaPutRight(i) ==
    /\ At(i, "sema.right")
    /\ phi_test_sema(RIGHT(i), state_sema)
    /\ Goto(i, "sema.put")
    /\ Aside

phi_put_forks_sema(i) ==
    \/ Enter(i, "put.down", "sema.left") /\ UNCHANGED state_sema
    \/ SemaPutLeft(i)
    \/ SemaPutRight(i)
    \/ SemaUp(i, "sema.put", "loop")

philosopher_using_semaphore(i) ==
    \/ (Think(i) \/ Eat(i) \/ Quit(i) \/ ExitSwitch(i) \/ Blocked(i)) /\ UNCHANGED state_sema
    \/ phi_take_forks_sema(i)
    \/ phi_put_forks_sema(i)

Philosopher(i) ==
    /\ \/ part = "sema" /\ philosopher_using_semaphore(i)
       \/ part = "condvar" /\ philosopher_using_condvar(i) /\ UNCHANGED state_sema
    /\ UNCHANGED part

\* A tick that finds the CPU idle; one that is charged to a philosopher changes
\* its slice and need_resched, which nobody reads while it is in the kernel.
IdleTick == current = idleproc /\ Tick

Rest == UNCHANGED <<monitor_vars, state_condvar, iter, part, state_sema>>

Clock == (IdleTick \/ IdleLoop \/ \E i \in Proc : TimerExpires(i)) /\ Rest

Next == Clock \/ \E i \in Proc : Philosopher(i)

Spec == CheckInit /\ [][Next]_vars

(***************************************************************************)
(* Fairness: the CPU executes the current thread, the clock ticks and      *)
(* every sleep ends (module Sleep).                                        *)
(***************************************************************************)
Fairness ==
    /\ \A i \in Proc : WF_vars(Philosopher(i))
    /\ \A i \in Proc : WF_vars(TimerExpires(i) /\ Rest)
    /\ WF_vars(IdleLoop /\ Rest) /\ WF_vars(IdleTick /\ Rest)

FairSpec == Spec /\ Fairness

-----------------------------------------------------------------------------
Handed(i) == downing[i] # NULL /\ wakeup_flags[i] = "WT_KSEM"

\* The first part: mutex is free or held by one thread, and s[i] has one unit,
\* visible or on its way to philosopher i, exactly from the moment somebody sets
\* i eating until i has taken it.  A unit too many would let i eat again unasked.
SemaExact ==
    /\ LET in == {i \in Proc : /\ inside[i] = "no" \/ Handed(i)
                               /\ pc[i] \in {"sema.take", "sema.leave", "sema.left",
                                             "sema.right", "sema.put"}}
       IN  value[mutex] + Cardinality(in) = 1
    /\ \A i \in Proc :
         value[i] + (IF downing[i] = i /\ Handed(i) THEN 1 ELSE 0)
           = IF state_sema[i] = "EATING" /\ (pc[i] \in {"sema.leave", "sema.down"} \/ downing[i] = i)
               THEN 1 ELSE 0

\* Every unit is accounted for, in the semaphores of the first part as in the
\* hand-overs of the monitor (MonitorExclusive).
UnitsExact == IF part = "sema" THEN SemaExact ELSE MonitorExclusive

\* Whoever has been let through is recorded as eating and no neighbour is, although
\* neither solution tests again after the wait: phi_take_forks_sema after
\* down(&s[i]), phi_take_forks_condvar after cond_wait.
ForksExclusive ==
    LET recorded == IF part = "sema" THEN state_sema ELSE state_condvar
    IN  \A i \in Proc :
          /\ pc[i] \in {"take.leave", "eat"} /\ downing[i] = NULL => recorded[i] = "EATING"
          /\ recorded[i] = "EATING" /\ LEFT(i) # i =>
               recorded[LEFT(i)] # "EATING" /\ recorded[RIGHT(i)] # "EATING"

\* check_sync returns: every philosopher takes its meals and exits.
AllQuit == <>(\A i \in Proc : pc[i] = "gone")
=============================================================================
