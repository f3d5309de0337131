---------------------------- MODULE SleepProofs ----------------------------
(***************************************************************************)
(* The run queue and the timer list stay consistent for every set of       *)
(* processes and kernel threads, every slice length and every sleep time.  *)
(* The delta list implements independent countdowns: what the delays add   *)
(* up to is shown by induction over the list, with the lemmas about        *)
(* running sums of KernelLemmas.                                           *)
(***************************************************************************)
EXTENDS Sleep, KernelLemmas

\* The owner of the CPU is runnable, except on its way into schedule().
OwnerRunnable ==
    \A p \in Proc :
      current = p /\ pc[p] \notin {"sleep.schedule", "exit.schedule"}
        => state[p] = "RUNNABLE"

\* A tick interrupts a user process in user mode only.
TickInUserMode ==
    \A p \in Proc \ KThread : irq = "expire" /\ current = p => pc[p] = "run"

\* The inductive invariant: SleeperArmed needs to know that whoever returns
\* from schedule() is awake, and TimerFrameLive that a tick finds a user process
\* outside do_sleep.
IInv ==
    /\ TypeOK
    /\ RunQueueOK
    /\ TimerFrameLive
    /\ SleeperArmed
    /\ OwnerRunnable
    /\ TickInUserMode

-----------------------------------------------------------------------------
\* The place where add_timer links a timer is a place of the list.
LEMMA AddTimerFacts ==
    ASSUME NEW p \in Proc, NEW time, timer_list \in Seq(Proc), add_timer(p, time)
    PROVE  /\ timer_list' \in Seq(Proc)
           /\ Range(timer_list') = Range(timer_list) \cup {p}
           /\ IsInjective(timer_list) /\ p \notin Range(timer_list)
                => IsInjective(timer_list')
<1> DEFINE late   == {i \in 1 .. Len(timer_list) : Elapsed[i] <= time}
           passed == Cardinality(late)
<1>1. Len(timer_list) \in Nat
  BY LenProperties
<1>2. /\ IsFiniteSet(1 .. Len(timer_list))
      /\ Cardinality(1 .. Len(timer_list)) = Len(timer_list)
  <2>1. PICK k \in Nat : k = Len(timer_list)
    BY <1>1
  <2>2. IsFiniteSet(1 .. k) /\ Cardinality(1 .. k) = k
    BY FS_Interval
  <2>3. QED
    BY <2>1, <2>2
<1>3. passed \in 0 .. Len(timer_list)
  <2>1. late \subseteq 1 .. Len(timer_list)
    OBVIOUS
  <2>2. IsFiniteSet(late) /\ Cardinality(late) <= Cardinality(1 .. Len(timer_list))
    BY <1>2, <2>1, FS_Subset
  <2>3. Cardinality(late) \in Nat
    BY <2>2, FS_CardinalityType
  <2>4. QED
    BY <1>1, <1>2, <2>2, <2>3
<1>4. timer_list' = InsertAt(timer_list, passed + 1, p)
  BY DEF add_timer
<1> HIDE DEF passed
<1>5. passed + 1 \in 1 .. Len(timer_list) + 1
  BY <1>1, <1>3
<1>6. QED
  BY <1>4, <1>5, InsertAtFacts

\* del_timer unlinks the timer of p if it is linked, and no other.
LEMMA DelTimerFacts ==
    ASSUME NEW p \in Proc, timer_list \in Seq(Proc), IsInjective(timer_list),
           del_timer(p)
    PROVE  /\ timer_list' \in Seq(Proc)
           /\ Range(timer_list') = Range(timer_list) \ {p}
           /\ IsInjective(timer_list')
<1>1. CASE p \notin Armed
  <2>1. timer_list' = timer_list
    BY <1>1 DEF del_timer
  <2>2. QED
    BY <1>1, <2>1 DEF Armed
<1>2. CASE p \in Armed
  <2> DEFINE i == CHOOSE k \in 1 .. Len(timer_list) : timer_list[k] = p
  <2>1. \E k \in 1 .. Len(timer_list) : timer_list[k] = p
    BY <1>2, LenProperties DEF Armed, Range
  <2>2. i \in 1 .. Len(timer_list) /\ timer_list[i] = p
    BY <2>1
  <2>3. timer_list' = RemoveAt(timer_list, i)
    BY <1>2 DEF del_timer
  <2> HIDE DEF i
  <2>4. QED
    BY <2>2, <2>3, RemoveAtFacts
<1>3. QED
  BY <1>1, <1>2

-----------------------------------------------------------------------------
\* Booting with nothing but idleproc establishes the invariant.
LEMMA InitIInv == Init => IInv
<1> SUFFICES ASSUME Init PROVE IInv
  OBVIOUS
<1> USE SchedAssumption, SleepAssumption DEF Thread, Init
<1>1. TypeOK
  BY DEF TypeOK, SchedTypeOK, ProcState, WaitState, Location
<1>2. Range(run_list) = {} /\ IsInjective(run_list) /\ Armed = {} /\ IsInjective(timer_list)
  BY DEF Range, IsInjective, Armed
<1>3. QED
  BY <1>1, <1>2 DEF IInv, RunQueueOK, TimerFrameLive, SleeperArmed, OwnerRunnable,
                    TickInUserMode

\* One step per action.  Of each action, what it does to the run queue comes from
\* KernelLemmas and what it does to the timer list from the two lemmas above.
LEMMA NextIInv == IInv /\ [Next]_vars => IInv'
<1> SUFFICES ASSUME IInv, [Next]_vars PROVE IInv'
  OBVIOUS
<1> USE SchedAssumption, SleepAssumption DEF Thread
<1>0. /\ TypeOK /\ SchedTypeOK /\ RunQueueOK /\ TimerFrameLive /\ SleeperArmed
      /\ OwnerRunnable /\ TickInUserMode
  BY DEF IInv, TypeOK
<1>a. Armed \subseteq Proc
  BY <1>0, LenProperties, ElementOfSeq DEF Armed, Range, TypeOK
<1>1. ASSUME NEW p \in Proc, do_fork(p) PROVE IInv'
  <2>1. /\ SchedTypeOK' /\ RunQueueOK'
        /\ state' = [state EXCEPT ![p] = "RUNNABLE"]
    BY <1>0, <1>1, WakeupFacts DEF do_fork
  <2>2. /\ irq = "off" /\ state[p] = "UNINIT"
        /\ UNCHANGED <<current, timer_list, exiting, irq>>
    BY <1>1 DEF do_fork
  <2>3. \/ UNCHANGED pc
        \/ \E c \in Proc : /\ current = c /\ pc[c] = "run"
                          /\ pc' = [pc EXCEPT ![c] = IF c \in KThread THEN "run"
                                                                     ELSE "trap.return"]
    BY <1>1 DEF do_fork, At, Return, Goto
  <2>4. TypeOK'
    BY <1>0, <2>1, <2>2, <2>3 DEF TypeOK, Location
  <2>5. TimerFrameLive'
    <3>1. \A q \in Armed : pc'[q] = pc[q]
      BY <1>0, <1>a, <2>3 DEF TimerFrameLive, TypeOK
    <3>2. Armed' = Armed
      BY <2>2 DEF Armed
    <3>3. QED
      BY <1>0, <2>2, <3>1, <3>2 DEF TimerFrameLive
  <2>6. SleeperArmed'
    BY <1>0, <2>1, <2>2 DEF SleeperArmed, Armed, SchedTypeOK
  <2>7. OwnerRunnable'
    BY <1>0, <2>1, <2>2, <2>3 DEF OwnerRunnable, SchedTypeOK, TypeOK
  <2>8. TickInUserMode'
    BY <2>2 DEF TickInUserMode
  <2>9. QED
    BY <2>1, <2>4, <2>5, <2>6, <2>7, <2>8 DEF IInv
<1>2. ASSUME NEW p \in Proc, NEW t \in 0 .. MaxSleep, do_sleep(p, t) PROVE IInv'
  <2>1. /\ irq = "off" /\ current = p /\ pc[p] = "run"
        /\ UNCHANGED <<run_list, current, need_resched, time_slice, exiting, irq>>
    BY <1>2 DEF do_sleep, At
  <2>2. TickInUserMode'
    BY <2>1 DEF TickInUserMode
  <2>3. CASE t = 0
    <3>1. /\ UNCHANGED <<state, wait_state, timer_list, expires>>
          /\ pc' = [pc EXCEPT ![p] = IF p \in KThread THEN "run" ELSE "trap.return"]
      BY <1>2, <2>3 DEF do_sleep, Return, Goto
    <3>2. TypeOK' /\ RunQueueOK' /\ SleeperArmed'
      BY <1>0, <2>1, <3>1 DEF TypeOK, SchedTypeOK, RunQueueOK, SleeperArmed, Armed, Location
    <3>3. TimerFrameLive' /\ OwnerRunnable'
      BY <1>0, <2>1, <3>1 DEF TypeOK, TimerFrameLive, OwnerRunnable, Armed
    <3>4. QED
      BY <2>2, <3>2, <3>3 DEF IInv
  <2>4. CASE t # 0
    <3>1. /\ state' = [state EXCEPT ![p] = "SLEEPING"]
          /\ wait_state' = [wait_state EXCEPT ![p] = "WT_TIMER"]
          /\ add_timer(p, t)
          /\ pc' = [pc EXCEPT ![p] = "sleep.schedule"]
      BY <1>2, <2>4 DEF do_sleep, Goto
    <3>2. p \notin Armed
      BY <1>0, <2>1 DEF TimerFrameLive
    <3>3. /\ timer_list' \in Seq(Proc)
          /\ Range(timer_list') = Range(timer_list) \cup {p}
          /\ IsInjective(timer_list')
      BY <1>0, <3>1, <3>2, AddTimerFacts DEF TypeOK, TimerFrameLive, Armed
    <3>4. TypeOK'
      BY <1>0, <2>1, <3>1, <3>3
         DEF TypeOK, SchedTypeOK, Location, ProcState, WaitState
    <3>5. RunQueueOK'
      BY <1>0, <2>1, <3>1 DEF RunQueueOK, TypeOK, SchedTypeOK
    <3>6. TimerFrameLive' /\ SleeperArmed' /\ OwnerRunnable'
      BY <1>0, <2>1, <3>1, <3>3
         DEF TypeOK, SchedTypeOK, TimerFrameLive, SleeperArmed, OwnerRunnable, Armed
    <3>7. QED
      BY <2>2, <3>4, <3>5, <3>6 DEF IInv
  <2>5. QED
    BY <2>3, <2>4
<1>3. ASSUME NEW p \in Proc, SleepSwitch(p) PROVE IInv'
  <2>1. /\ irq = "off" /\ current = p /\ pc[p] = "sleep.schedule"
        /\ pc' = [pc EXCEPT ![p] = "sleep.del_timer"]
        /\ UNCHANGED <<state, wait_state, timer_list, exiting, irq>>
    BY <1>3 DEF SleepSwitch, At, Goto
  <2>2. /\ SchedTypeOK' /\ RunQueueOK'
        /\ current' \in Proc => state[current'] = "RUNNABLE"
    BY <1>0, <1>3, <2>1, ScheduleFacts DEF SleepSwitch
  <2>3. TypeOK' /\ TimerFrameLive' /\ SleeperArmed'
    BY <1>0, <2>1, <2>2 DEF TypeOK, TimerFrameLive, SleeperArmed, Armed, Location
  <2>4. OwnerRunnable' /\ TickInUserMode'
    BY <2>1, <2>2 DEF OwnerRunnable, TickInUserMode
  <2>5. QED
    BY <2>2, <2>3, <2>4 DEF IInv
<1>4. ASSUME NEW p \in Proc, SleepReturn(p) PROVE IInv'
  <2>1. /\ irq = "off" /\ current = p /\ pc[p] = "sleep.del_timer"
        /\ del_timer(p)
        /\ pc' = [pc EXCEPT ![p] = IF p \in KThread THEN "run" ELSE "trap.return"]
        /\ UNCHANGED <<sched_vars, exiting, irq>>
    BY <1>4 DEF SleepReturn, At, Return, Goto
  <2>2. /\ timer_list' \in Seq(Proc)
        /\ Range(timer_list') = Range(timer_list) \ {p}
        /\ IsInjective(timer_list')
    BY <1>0, <2>1, DelTimerFacts DEF TypeOK, TimerFrameLive
  <2>3. state[p] = "RUNNABLE"
    BY <1>0, <2>1 DEF OwnerRunnable
  <2>4. TypeOK' /\ RunQueueOK'
    BY <1>0, <2>1, <2>2 DEF TypeOK, SchedTypeOK, RunQueueOK, sched_vars, Location
  <2>5. TimerFrameLive' /\ SleeperArmed'
    BY <1>0, <2>1, <2>2, <2>3
       DEF TypeOK, TimerFrameLive, SleeperArmed, Armed, sched_vars
  <2>6. OwnerRunnable' /\ TickInUserMode'
    BY <1>0, <2>1, <2>3 DEF TypeOK, OwnerRunnable, TickInUserMode, sched_vars
  <2>7. QED
    BY <2>4, <2>5, <2>6 DEF IInv
<1>5. ASSUME NEW p \in Proc, do_yield(p) PROVE IInv'
  <2>1. /\ irq = "off" /\ current = p /\ pc[p] = "run"
        /\ need_resched' = [need_resched EXCEPT ![p] = TRUE]
        /\ pc' = [pc EXCEPT ![p] = IF p \in KThread THEN "run" ELSE "trap.return"]
        /\ UNCHANGED <<state, wait_state, run_list, current, time_slice, timer_list,
                       exiting, irq>>
    BY <1>5 DEF do_yield, At, Return, Goto
  <2>2. TypeOK' /\ RunQueueOK'
    BY <1>0, <2>1 DEF TypeOK, SchedTypeOK, RunQueueOK, Location
  <2>3. TimerFrameLive' /\ SleeperArmed' /\ OwnerRunnable' /\ TickInUserMode'
    BY <1>0, <2>1
       DEF TypeOK, TimerFrameLive, SleeperArmed, Armed, OwnerRunnable, TickInUserMode
  <2>4. QED
    BY <2>2, <2>3 DEF IInv
<1>6. ASSUME NEW p \in Proc, NEW q \in Proc, do_kill(p, q) PROVE IInv'
  <2>1. /\ irq = "off" /\ current = p /\ pc[p] = "run"
        /\ pc' = [pc EXCEPT ![p] = IF p \in KThread THEN "run" ELSE "trap.return"]
        /\ exiting' \in [Proc -> BOOLEAN]
        /\ UNCHANGED <<current, need_resched, timer_list, irq>>
    BY <1>0, <1>6 DEF do_kill, At, Return, Goto, TypeOK
  <2>2. /\ SchedTypeOK' /\ RunQueueOK'
        /\ \/ UNCHANGED state
           \/ state' = [state EXCEPT ![q] = "RUNNABLE"]
    <3>1. CASE wakeup_proc(q)
      BY <1>0, <2>1, <3>1, WakeupFacts
    <3>2. CASE UNCHANGED <<state, wait_state, run_list, time_slice>>
      BY <1>0, <2>1, <3>2 DEF SchedTypeOK, RunQueueOK
    <3>3. QED
      BY <1>6, <3>1, <3>2 DEF do_kill
  <2>3. TypeOK'
    BY <1>0, <2>1, <2>2 DEF TypeOK, Location
  <2>4. TimerFrameLive' /\ SleeperArmed'
    <3>1. \A r \in Armed : pc'[r] = pc[r]
      BY <1>0, <1>a, <2>1 DEF TimerFrameLive, TypeOK
    <3>2. Armed' = Armed
      BY <2>1 DEF Armed
    <3>3. TimerFrameLive'
      BY <1>0, <2>1, <3>1, <3>2 DEF TimerFrameLive
    <3>4. SleeperArmed'
      BY <1>0, <2>2, <3>2 DEF SleeperArmed, SchedTypeOK
    <3>5. QED
      BY <3>3, <3>4
  <2>5. OwnerRunnable' /\ TickInUserMode'
    BY <1>0, <2>1, <2>2 DEF TypeOK, SchedTypeOK, OwnerRunnable, TickInUserMode
  <2>6. QED
    BY <2>2, <2>3, <2>4, <2>5 DEF IInv
<1>7. ASSUME NEW p \in Proc, TrapExit(p) PROVE IInv'
  <2>1. /\ irq = "off" /\ current = p /\ pc[p] = "trap.return"
        /\ state' = [state EXCEPT ![p] = "ZOMBIE"]
        /\ pc' = [pc EXCEPT ![p] = "exit.schedule"]
        /\ UNCHANGED <<wait_state, run_list, current, need_resched, time_slice,
                       timer_list, exiting, irq>>
    BY <1>7 DEF TrapExit, At, Goto
  <2>2. TypeOK' /\ RunQueueOK'
    BY <1>0, <2>1 DEF TypeOK, SchedTypeOK, RunQueueOK, Location, ProcState
  <2>3. TimerFrameLive' /\ SleeperArmed' /\ OwnerRunnable' /\ TickInUserMode'
    BY <1>0, <2>1
       DEF TypeOK, SchedTypeOK, TimerFrameLive, SleeperArmed, Armed, OwnerRunnable,
           TickInUserMode
  <2>4. QED
    BY <2>2, <2>3 DEF IInv
<1>8. ASSUME NEW p \in Proc, ExitSwitch(p) PROVE IInv'
  <2>1. /\ irq = "off" /\ current = p /\ pc[p] = "exit.schedule"
        /\ pc' = [pc EXCEPT ![p] = "gone"]
        /\ UNCHANGED <<state, wait_state, timer_list, exiting, irq>>
    BY <1>8 DEF ExitSwitch, At, Goto
  <2>2. /\ SchedTypeOK' /\ RunQueueOK'
        /\ current' \in Proc => state[current'] = "RUNNABLE"
    BY <1>0, <1>8, <2>1, ScheduleFacts DEF ExitSwitch
  <2>3. TypeOK' /\ TimerFrameLive' /\ SleeperArmed'
    BY <1>0, <2>1, <2>2 DEF TypeOK, TimerFrameLive, SleeperArmed, Armed, Location
  <2>4. OwnerRunnable' /\ TickInUserMode'
    BY <2>1, <2>2 DEF OwnerRunnable, TickInUserMode
  <2>5. QED
    BY <2>2, <2>3, <2>4 DEF IInv
<1>9. ASSUME NEW p \in Proc, TrapReturn(p) PROVE IInv'
  <2>1. /\ irq = "off" /\ current = p /\ pc[p] = "trap.return"
        /\ pc' = [pc EXCEPT ![p] = "run"]
        /\ UNCHANGED <<state, wait_state, timer_list, exiting, irq>>
    BY <1>9 DEF TrapReturn, At, Goto
  <2>2. /\ SchedTypeOK' /\ RunQueueOK'
        /\ current' \in Proc => state[current'] = "RUNNABLE"
    <3>1. CASE schedule
      BY <1>0, <2>1, <3>1, ScheduleFacts
    <3>2. CASE UNCHANGED <<run_list, current, need_resched, time_slice>>
      BY <1>0, <2>1, <3>2 DEF SchedTypeOK, RunQueueOK, OwnerRunnable
    <3>3. QED
      BY <1>9, <3>1, <3>2 DEF TrapReturn
  <2>3. TypeOK' /\ TimerFrameLive' /\ SleeperArmed'
    BY <1>0, <2>1, <2>2 DEF TypeOK, TimerFrameLive, SleeperArmed, Armed, Location
  <2>4. OwnerRunnable' /\ TickInUserMode'
    BY <2>1, <2>2 DEF OwnerRunnable, TickInUserMode
  <2>5. QED
    BY <2>2, <2>3, <2>4 DEF IInv
<1>10. ASSUME IdleLoop PROVE IInv'
  <2>1. irq = "off" /\ schedule /\ UNCHANGED <<state, wait_state, timer_list, exiting, irq, pc>>
    BY <1>10 DEF IdleLoop, sleep_vars
  <2>2. /\ SchedTypeOK' /\ RunQueueOK'
        /\ current' \in Proc => state[current'] = "RUNNABLE"
    BY <1>0, <2>1, ScheduleFacts
  <2>3. TypeOK' /\ TimerFrameLive' /\ SleeperArmed' /\ OwnerRunnable' /\ TickInUserMode'
    BY <1>0, <2>1, <2>2
       DEF TypeOK, TimerFrameLive, SleeperArmed, Armed, OwnerRunnable, TickInUserMode
  <2>4. QED
    BY <2>2, <2>3 DEF IInv
<1>11. ASSUME Tick PROVE IInv'
  <2>1. /\ InterruptsOn /\ irq' = "expire"
        /\ UNCHANGED <<sched_vars, timer_list, exiting, pc>>
    BY <1>11 DEF Tick
  <2>2. TypeOK' /\ RunQueueOK' /\ TimerFrameLive' /\ SleeperArmed' /\ OwnerRunnable'
    BY <1>0, <2>1
       DEF TypeOK, SchedTypeOK, RunQueueOK, TimerFrameLive, SleeperArmed, Armed,
           OwnerRunnable, sched_vars
  <2>3. TickInUserMode'
    BY <2>1 DEF TickInUserMode, InterruptsOn, sched_vars
  <2>4. QED
    BY <2>2, <2>3 DEF IInv
<1>12. ASSUME ExpireTimer PROVE IInv'
  <2> DEFINE p == Head(timer_list)
  <2>1. /\ irq = "expire" /\ timer_list # <<>> /\ wakeup_proc(p)
        /\ timer_list' = Tail(timer_list)
        /\ UNCHANGED <<current, need_resched, exiting, irq, pc>>
    BY <1>12 DEF ExpireTimer, Expiring
  <2>2. /\ p \in Proc
        /\ timer_list' \in Seq(Proc) /\ IsInjective(timer_list')
        /\ Range(timer_list) = Range(timer_list') \cup {p}
    BY <1>0, <2>1, TailFacts DEF TypeOK, TimerFrameLive
  <2> HIDE DEF p
  <2>3. /\ SchedTypeOK' /\ RunQueueOK'
        /\ state' = [state EXCEPT ![p] = "RUNNABLE"]
    BY <1>0, <2>1, <2>2, WakeupFacts
  <2>4. TypeOK' /\ TimerFrameLive' /\ SleeperArmed'
    BY <1>0, <2>1, <2>2, <2>3
       DEF TypeOK, SchedTypeOK, TimerFrameLive, SleeperArmed, Armed
  <2>5. OwnerRunnable' /\ TickInUserMode'
    BY <1>0, <2>1, <2>2, <2>3 DEF SchedTypeOK, OwnerRunnable, TickInUserMode
  <2>6. QED
    BY <2>3, <2>4, <2>5 DEF IInv
<1>13. ASSUME ChargeTick PROVE IInv'
  <2>1. /\ irq = "expire" /\ irq' = "off" /\ sched_class_proc_tick
        /\ UNCHANGED <<state, wait_state, run_list, current, timer_list, exiting>>
    BY <1>13 DEF ChargeTick
  <2>2. \/ UNCHANGED pc
        \/ /\ current \in Proc \ KThread
           /\ pc' = [pc EXCEPT ![current] = "trap.return"]
    BY <1>0, <1>13 DEF ChargeTick, Goto, SchedTypeOK
  <2>4. SchedTypeOK' /\ RunQueueOK'
    BY <1>0, <2>1, TickFacts
  <2>5. TypeOK' /\ SleeperArmed' /\ TickInUserMode'
    BY <1>0, <2>1, <2>2, <2>4 DEF TypeOK, SleeperArmed, Armed, TickInUserMode, Location
  <2>6. TimerFrameLive'
    <3>1. \A q \in Armed : pc'[q] = pc[q]
      BY <1>0, <1>a, <2>1, <2>2 DEF TimerFrameLive, TickInUserMode, TypeOK
    <3>2. Armed' = Armed
      BY <2>1 DEF Armed
    <3>3. QED
      BY <1>0, <2>1, <3>1, <3>2 DEF TimerFrameLive
  <2>7. OwnerRunnable'
    BY <1>0, <2>1, <2>2 DEF TypeOK, OwnerRunnable, TickInUserMode
  <2>8. QED
    BY <2>4, <2>5, <2>6, <2>7 DEF IInv
<1>14. ASSUME UNCHANGED vars PROVE IInv'
  BY <1>0, <1>14
     DEF vars, sched_vars, sleep_vars, IInv, TypeOK, SchedTypeOK, RunQueueOK,
         TimerFrameLive, SleeperArmed, Armed, OwnerRunnable, TickInUserMode
<1>15. QED
  BY <1>1, <1>2, <1>3, <1>4, <1>5, <1>6, <1>7, <1>8, <1>9, <1>10, <1>11, <1>12, <1>13,
     <1>14 DEF Next, Step, Clock

-----------------------------------------------------------------------------
\* The invariant holds in every reachable state.
THEOREM SleepInvariant == Spec => []IInv
<1>1. Init => IInv
  BY InitIInv
<1>2. IInv /\ [Next]_vars => IInv'
  BY NextIInv
<1>3. QED
  BY <1>1, <1>2, PTL DEF Spec

\* Type correctness of the scheduler, the timer list and the control state.
THEOREM TypeCorrect == Spec => []TypeOK
<1>1. IInv => TypeOK
  BY DEF IInv
<1>2. QED
  BY <1>1, SleepInvariant, PTL

\* wakeup_proc and schedule() never link a process twice, never link the owner of
\* the CPU and never lose a runnable process, wherever the ticks fall.
THEOREM RunQueueCorrect == Spec => []RunQueueOK
<1>1. IInv => RunQueueOK
  BY DEF IInv
<1>2. QED
  BY <1>1, SleepInvariant, PTL

\* timer_list never holds a timer_t of a do_sleep frame that has been left.
THEOREM TimerFramesLive == Spec => []TimerFrameLive
<1>1. IInv => TimerFrameLive
  BY DEF IInv
<1>2. QED
  BY <1>1, SleepInvariant, PTL

\* No wakeup of a sleeper is lost.
THEOREM SleepersArmed == Spec => []SleeperArmed
<1>1. IInv => SleeperArmed
  BY DEF IInv
<1>2. QED
  BY <1>1, SleepInvariant, PTL

-----------------------------------------------------------------------------
(***************************************************************************)
(* Refinement of Deadlines.  The delays of the linked timers are naturals, *)
(* and outside the interrupt handler the first one is not 0: a timer whose *)
(* time is up is taken off in the tick in which it is.                     *)
(***************************************************************************)
DelaysOK ==
    /\ expires \in [Proc -> Nat]
    /\ irq = "off" /\ timer_list # <<>> => expires[timer_list[1]] > 0

\* Elapsed is the running sum of the delays.
ElapsedOK ==
    /\ Elapsed \in [0 .. Len(timer_list) -> Nat]
    /\ Elapsed[0] = 0
    /\ \A i \in 1 .. Len(timer_list) :
         Elapsed[i] = Elapsed[i - 1] + expires[timer_list[i]]
    /\ \A i, j \in 0 .. Len(timer_list) : i <= j => Elapsed[i] <= Elapsed[j]

\* Countdown is what Elapsed says at the place of the process.
CountdownOK ==
    /\ Countdown = [p \in Proc |-> Countdown[p]]
    /\ \A i \in 1 .. Len(timer_list) : Countdown[timer_list[i]] = Elapsed[i]
    /\ \A p \in Proc \ Armed : Countdown[p] = -1

\* The recursive definition of Elapsed has a solution.
LEMMA ElapsedFacts == IInv /\ DelaysOK => ElapsedOK
<1> SUFFICES ASSUME IInv, DelaysOK PROVE ElapsedOK
  OBVIOUS
<1> DEFINE L == Len(timer_list)
           d == [i \in 1 .. L |-> expires[timer_list[i]]]
           Step1(f) == [i \in 0 .. L |-> IF i = 0 THEN 0
                                        ELSE f[i - 1] + expires[timer_list[i]]]
<1>1. L \in Nat /\ \A i \in 1 .. L : timer_list[i] \in Proc
  BY LenProperties, ElementOfSeq DEF IInv, TypeOK
<1>2. \A i \in 1 .. L : expires[timer_list[i]] \in Nat
  BY <1>1 DEF DelaysOK
<1>3. d \in [1 .. L -> Int] /\ \A i \in 1 .. L : d[i] = expires[timer_list[i]]
  BY <1>2
<1> HIDE DEF L, d
<1>4. PICK g \in [0 .. L -> Int] : g[0] = 0 /\ \A i \in 1 .. L : g[i] = g[i - 1] + d[i]
  BY <1>1, <1>3, SumsExist
<1>5. g = Step1(g)
  <2>1. \A i \in 0 .. L : g[i] = Step1(g)[i]
    BY <1>1, <1>3, <1>4
  <2>2. QED
    BY <1>4, <2>1
<1>6. Elapsed = CHOOSE f : f = Step1(f)
  BY DEF Elapsed, L
<1>7. Elapsed = Step1(Elapsed)
  <2> HIDE DEF Step1
  <2>1. QED
    BY <1>5, <1>6
<1>8. /\ DOMAIN Elapsed = 0 .. L /\ Elapsed[0] = 0
      /\ \A i \in 1 .. L : Elapsed[i] = Elapsed[i - 1] + expires[timer_list[i]]
  <2> DEFINE E == Elapsed
  <2>1. E = Step1(E)
    BY <1>7
  <2> HIDE DEF E
  <2>2. DOMAIN E = 0 .. L /\ E[0] = 0
    BY <1>1, <2>1
  <2>3. \A i \in 1 .. L : E[i] = E[i - 1] + expires[timer_list[i]]
    BY <1>1, <2>1
  <2>4. QED
    BY <2>2, <2>3 DEF E
<1> DEFINE T == {n \in Nat : n <= L => Elapsed[n] \in Nat}
<1>9. 0 \in T
  BY <1>8
<1>10. ASSUME NEW n \in Nat, n \in T PROVE n + 1 \in T
  <2>1. SUFFICES ASSUME n + 1 <= L PROVE Elapsed[n + 1] \in Nat
    OBVIOUS
  <2>2. n + 1 \in 1 .. L /\ n <= L /\ (n + 1) - 1 = n
    BY <1>1, <2>1
  <2>3. Elapsed[n + 1] = Elapsed[n] + expires[timer_list[n + 1]]
    BY <1>8, <2>2
  <2>4. Elapsed[n] \in Nat /\ expires[timer_list[n + 1]] \in Nat
    BY <1>2, <1>10, <2>2 DEF L
  <2>5. QED
    BY <2>3, <2>4
<1> HIDE DEF T
<1>11. Nat \subseteq T
  BY <1>9, <1>10, InductionOverSets
<1>12. \A i \in 0 .. L : Elapsed[i] \in Nat
  BY <1>1, <1>11 DEF T
<1>13. Elapsed \in [0 .. L -> Nat]
  <2>1. Elapsed = [i \in 0 .. L |-> Elapsed[i]]
    BY <1>7
  <2>2. QED
    BY <1>12, <2>1
<1>14. \A i \in 1 .. L : Elapsed[i - 1] <= Elapsed[i]
  <2> TAKE i \in 1 .. L
  <2>1. i - 1 \in 0 .. L /\ i \in 0 .. L
    BY <1>1
  <2>2. Elapsed[i - 1] \in Nat /\ expires[timer_list[i]] \in Nat
    BY <1>2, <1>12, <2>1 DEF L
  <2>3. QED
    BY <1>8, <2>2
<1>15. \A i, j \in 0 .. L : i <= j => Elapsed[i] <= Elapsed[j]
  <2> DEFINE E == Elapsed
  <2>1. E \in [0 .. L -> Int] /\ \A i \in 1 .. L : E[i - 1] <= E[i]
    BY <1>13, <1>14
  <2> HIDE DEF E
  <2>2. \A i, j \in 0 .. L : i <= j => E[i] <= E[j]
    BY <1>1, <2>1, SumsIncrease
  <2>3. QED
    BY <2>2 DEF E
<1>16. QED
  BY <1>8, <1>13, <1>15 DEF ElapsedOK, L

\* Countdown reads Elapsed at the only place of the process.
LEMMA CountdownFacts == IInv => CountdownOK
<1> SUFFICES ASSUME IInv PROVE CountdownOK
  OBVIOUS
<1>1. timer_list \in Seq(Proc) /\ IsInjective(timer_list)
  BY DEF IInv, TypeOK, TimerFrameLive
<1>2. ASSUME NEW i \in 1 .. Len(timer_list)
      PROVE  Countdown[timer_list[i]] = Elapsed[i]
  <2> DEFINE p == timer_list[i]
             k == CHOOSE j \in 1 .. Len(timer_list) : timer_list[j] = p
  <2>1. p \in Armed /\ p \in Proc /\ DOMAIN timer_list = 1 .. Len(timer_list)
    BY <1>1, RangeFacts, LenProperties DEF Armed
  <2>2. k \in 1 .. Len(timer_list) /\ timer_list[k] = p
    OBVIOUS
  <2>3. k = i
    BY <1>1, <2>1, <2>2 DEF IsInjective
  <2>4. Countdown[p] = Elapsed[k]
    BY <2>1 DEF Countdown
  <2> HIDE DEF k
  <2>5. QED
    BY <2>3, <2>4
<1>3. Countdown = [p \in Proc |-> Countdown[p]]
  BY DEF Countdown
<1>4. \A p \in Proc \ Armed : Countdown[p] = -1
  BY DEF Countdown
<1>5. QED
  BY <1>2, <1>3, <1>4 DEF CountdownOK

\* add_timer links p behind the m entries that expire no later, and gives it and
\* the entry that follows delays that leave every deadline where it was.
AddedAt(p, time, m) ==
    /\ timer_list' = InsertAt(timer_list, m + 1, p)
    /\ Elapsed[m] <= time
    /\ m < Len(timer_list) => time < Elapsed[m + 1]
    /\ expires' \in [Proc -> Nat]
    /\ expires'[p] = time - Elapsed[m]
    /\ m < Len(timer_list) => expires'[timer_list[m + 1]] = Elapsed[m + 1] - time
    /\ \A k \in 1 .. Len(timer_list) :
         k # m + 1 => expires'[timer_list[k]] = expires[timer_list[k]]

\* The entries add_timer walks past are the first of the list: the sums increase.
LEMMA AddTimerDelays ==
    ASSUME IInv, DelaysOK, ElapsedOK, NEW p \in Proc, p \notin Armed, NEW time \in Nat,
           add_timer(p, time)
    PROVE  \E m \in 0 .. Len(timer_list) : AddedAt(p, time, m)
<1> DEFINE L == Len(timer_list)
           E == Elapsed
           late == {i \in 1 .. L : E[i] <= time}
           passed == Cardinality(late)
           rest == time - E[passed]
<1>1. /\ timer_list \in Seq(Proc) /\ IsInjective(timer_list) /\ L \in Nat
      /\ DOMAIN timer_list = 1 .. L /\ \A i \in 1 .. L : timer_list[i] \in Proc
  BY LenProperties, ElementOfSeq DEF IInv, TypeOK, TimerFrameLive
<1>2. \A i \in 1 .. L : timer_list[i] # p
  BY <1>1 DEF Armed, Range
<1>3. /\ E \in [0 .. L -> Nat] /\ E[0] = 0
      /\ \A i \in 1 .. L : E[i] = E[i - 1] + expires[timer_list[i]]
      /\ \A i, j \in 0 .. L : i <= j => E[i] <= E[j]
  BY DEF ElapsedOK
<1>4. /\ timer_list' = InsertAt(timer_list, passed + 1, p)
      /\ expires' = [Shifted(passed + 1, -rest) EXCEPT ![p] = rest]
  BY DEF add_timer
<1>5. expires \in [Proc -> Nat]
  BY DEF DelaysOK
<1> HIDE DEF L, E
<1>6. PICK m \in 0 .. L : late = 1 .. m /\ E[m] <= time /\ (m < L => time < E[m + 1])
  <2> DEFINE T == {k \in 1 .. L + 1 : k = L + 1 \/ time < E[k]}
  <2>1. T \subseteq Nat /\ L + 1 \in T
    BY <1>1
  <2>2. PICK n \in T : \A k \in T : n <= k
    <3> HIDE DEF T
    <3>1. QED
      BY <2>1, LeastNatural
  <2>3. n - 1 \in 0 .. L /\ (n - 1 < L => time < E[(n - 1) + 1])
    BY <1>1, <2>2
  <2>4. ASSUME NEW k \in 1 .. L PROVE E[k] <= time <=> k <= n - 1
    <3>0. E[k] \in Nat
      BY <1>3
    <3>1. CASE k <= n - 1
      <4>1. k \notin T
        BY <1>1, <2>2, <3>1
      <4>2. QED
        BY <1>1, <3>0, <3>1, <4>1
    <3>2. CASE ~(k <= n - 1)
      <4>1. n \in 1 .. L /\ n <= k /\ time < E[n]
        BY <1>1, <2>2, <3>2
      <4>2. E[n] <= E[k] /\ E[n] \in Nat
        BY <1>1, <1>3, <4>1
      <4>3. QED
        BY <3>0, <3>2, <4>1, <4>2
    <3>3. QED
      BY <3>1, <3>2
  <2>5. late = 1 .. n - 1
    BY <1>1, <2>3, <2>4
  <2>6. E[n - 1] <= time
    BY <1>1, <1>3, <2>3, <2>4
  <2>7. QED
    BY <2>3, <2>5, <2>6
<1>7. passed = m
  <2>1. m \in Nat
    BY <1>1, <1>6
  <2>2. Cardinality(1 .. m) = m
    BY <2>1, FS_Interval
  <2>3. QED
    BY <1>6, <2>2
<1> DEFINE r == time - E[m]
<1>8. /\ timer_list' = InsertAt(timer_list, m + 1, p)
      /\ expires' = [Shifted(m + 1, -r) EXCEPT ![p] = r]
  BY <1>4, <1>7
<1>9. r \in Nat /\ E[m] \in Nat /\ (m < L => E[m + 1] \in Nat)
  BY <1>1, <1>3, <1>6
<1>10. CASE m = L
  <2>1. expires' = [expires EXCEPT ![p] = r]
    <3>1. m + 1 > Len(timer_list)
      BY <1>1, <1>6, <1>10 DEF L
    <3>2. Shifted(m + 1, -r) = expires
      BY <3>1 DEF Shifted
    <3>3. QED
      BY <1>8, <3>2
  <2>2. expires' \in [Proc -> Nat] /\ expires'[p] = r
    BY <1>5, <1>9, <2>1
  <2>3. \A k \in 1 .. L : expires'[timer_list[k]] = expires[timer_list[k]]
    BY <1>1, <1>2, <1>5, <2>1
  <2>4. AddedAt(p, time, m)
    BY <1>1, <1>6, <1>8, <1>10, <2>2, <2>3 DEF AddedAt, E, L
  <2>5. QED
    BY <1>6, <2>4 DEF L
<1>11. CASE m < L
  <2> DEFINE q == timer_list[m + 1]
  <2>1. m + 1 \in 1 .. L /\ q \in Proc /\ q # p
    BY <1>1, <1>2, <1>11
  <2>2. expires' = [[expires EXCEPT ![q] = @ + (-r)] EXCEPT ![p] = r]
    <3>1. ~(m + 1 > Len(timer_list))
      BY <1>1, <1>6, <1>11 DEF L
    <3>2. Shifted(m + 1, -r) = [expires EXCEPT ![q] = @ + (-r)]
      <4> HIDE DEF r
      <4>1. QED
        BY <3>1 DEF Shifted
    <3>3. QED
      BY <1>8, <3>2
  <2>3. E[m + 1] = E[m] + expires[q] /\ expires[q] \in Nat
    <3>1. (m + 1) - 1 = m
      BY <1>6
    <3>2. QED
      BY <1>3, <1>5, <2>1, <3>1
  <2>4. time < E[m + 1]
    BY <1>6, <1>11
  <2>5. expires[q] + (-r) = E[m + 1] - time /\ E[m + 1] - time \in Nat
    BY <1>9, <1>11, <2>3, <2>4
  <2> HIDE DEF q, r
  <2>6. expires' \in [Proc -> Nat] /\ expires'[p] = r /\ expires'[q] = E[m + 1] - time
    BY <1>5, <1>9, <2>1, <2>2, <2>5
  <2>7. ASSUME NEW k \in 1 .. L, k # m + 1
        PROVE  expires'[timer_list[k]] = expires[timer_list[k]]
    <3>1. timer_list[k] # q /\ timer_list[k] # p /\ timer_list[k] \in Proc
      BY <1>1, <1>2, <2>1, <2>7 DEF IsInjective, q
    <3>2. QED
      BY <1>5, <2>2, <3>1
  <2>8. AddedAt(p, time, m)
    BY <1>6, <1>8, <2>6, <2>7 DEF AddedAt, E, L, q, r
  <2>9. QED
    BY <1>6, <2>8 DEF L
<1>12. QED
  BY <1>1, <1>6, <1>10, <1>11

\* p is unlinked from its place, the i-th, and its delay goes to the entry that
\* follows.
RemovedFrom(p, i) ==
    /\ timer_list[i] = p
    /\ Len(timer_list') = Len(timer_list) - 1
    /\ \A k \in 1 .. i - 1 : timer_list'[k] = timer_list[k]
    /\ \A k \in i .. Len(timer_list) - 1 : timer_list'[k] = timer_list[k + 1]
    /\ expires' \in [Proc -> Nat]
    /\ i < Len(timer_list) =>
         expires'[timer_list[i + 1]] = expires[timer_list[i + 1]] + expires[p]
    /\ \A k \in 1 .. Len(timer_list) :
         k # i /\ k # i + 1 => expires'[timer_list[k]] = expires[timer_list[k]]

\* What del_timer does to the delays.
LEMMA DelTimerDelays ==
    ASSUME IInv, DelaysOK, NEW p \in Proc, p \in Armed, del_timer(p)
    PROVE  \E i \in 1 .. Len(timer_list) : RemovedFrom(p, i)
<1> DEFINE L == Len(timer_list)
           i == CHOOSE k \in 1 .. Len(timer_list) : timer_list[k] = p
<1>1. /\ timer_list \in Seq(Proc) /\ IsInjective(timer_list) /\ L \in Nat
      /\ DOMAIN timer_list = 1 .. L /\ \A k \in 1 .. L : timer_list[k] \in Proc
  BY LenProperties, ElementOfSeq DEF IInv, TypeOK, TimerFrameLive
<1>2. i \in 1 .. L /\ timer_list[i] = p
  <2>1. \E k \in 1 .. L : timer_list[k] = p
    BY <1>1 DEF Armed, Range
  <2>2. QED
    BY <2>1
<1>3. /\ timer_list' = RemoveAt(timer_list, i)
      /\ expires' = [Shifted(i + 1, expires[p]) EXCEPT ![p] = 0]
  BY DEF del_timer
<1>4. expires \in [Proc -> Nat]
  BY DEF DelaysOK
<1> HIDE DEF i
<1>a. /\ Len(timer_list') = L - 1
      /\ \A k \in 1 .. i - 1 : timer_list'[k] = timer_list[k]
      /\ \A k \in i .. L - 1 : timer_list'[k] = timer_list[k + 1]
  BY <1>1, <1>2, <1>3, RemoveAtFacts
<1> HIDE DEF L
<1>5. CASE i = L
  <2>0. i + 1 > Len(timer_list) /\ ~(i < Len(timer_list))
    BY <1>1, <1>5 DEF L
  <2>1. expires' = [expires EXCEPT ![p] = 0]
    <3>1. Shifted(i + 1, expires[p]) = expires
      BY <2>0 DEF Shifted
    <3>2. QED
      BY <1>3, <3>1
  <2>2. expires' \in [Proc -> Nat]
    BY <1>4, <2>1
  <2>3. ASSUME NEW k \in 1 .. L, k # i
        PROVE  expires'[timer_list[k]] = expires[timer_list[k]]
    <3>1. timer_list[k] # p /\ timer_list[k] \in Proc
      BY <1>1, <1>2, <2>3 DEF IsInjective
    <3>2. QED
      BY <1>4, <2>1, <3>1
  <2>4. RemovedFrom(p, i)
    BY <1>2, <1>a, <2>0, <2>2, <2>3 DEF RemovedFrom, L
  <2>5. QED
    BY <1>2, <2>4 DEF L
<1>6. CASE i < L
  <2> DEFINE q == timer_list[i + 1]
  <2>1. i + 1 \in 1 .. L /\ q \in Proc /\ q # p
    BY <1>1, <1>2, <1>6 DEF IsInjective
  <2>2. expires' = [[expires EXCEPT ![q] = @ + expires[p]] EXCEPT ![p] = 0]
    <3>1. ~(i + 1 > Len(timer_list))
      BY <1>1, <1>2, <1>6 DEF L
    <3>2. Shifted(i + 1, expires[p]) = [expires EXCEPT ![q] = @ + expires[p]]
      BY <3>1 DEF Shifted
    <3>3. QED
      BY <1>3, <3>2
  <2> HIDE DEF q
  <2>3. expires' \in [Proc -> Nat] /\ expires'[q] = expires[q] + expires[p]
    BY <1>4, <2>1, <2>2
  <2>4. ASSUME NEW k \in 1 .. L, k # i, k # i + 1
        PROVE  expires'[timer_list[k]] = expires[timer_list[k]]
    <3>1. timer_list[k] # p /\ timer_list[k] # q /\ timer_list[k] \in Proc
      BY <1>1, <1>2, <2>1, <2>4 DEF IsInjective, q
    <3>2. QED
      BY <1>4, <2>2, <3>1
  <2>5. RemovedFrom(p, i)
    BY <1>2, <1>a, <2>3, <2>4 DEF RemovedFrom, L, q
  <2>6. QED
    BY <1>2, <2>5 DEF L
<1>7. QED
  BY <1>1, <1>2, <1>5, <1>6

\* A timer that expires is the first and has no delay left to give.
LEMMA ExpireDelays ==
    ASSUME IInv, DelaysOK, ExpireTimer
    PROVE  /\ 1 \in 1 .. Len(timer_list) /\ RemovedFrom(timer_list[1], 1)
           /\ Head(timer_list) = timer_list[1]
           /\ expires[timer_list[1]] = 0
<1>1. /\ timer_list \in Seq(Proc) /\ timer_list # <<>> /\ expires[Head(timer_list)] = 0
      /\ timer_list' = Tail(timer_list) /\ expires' = expires
  BY DEF IInv, TypeOK, ExpireTimer, Expiring
<1>2. /\ Len(timer_list) \in Nat \ {0} /\ Head(timer_list) = timer_list[1]
      /\ Len(timer_list') = Len(timer_list) - 1
      /\ \A k \in 1 .. Len(timer_list) - 1 : timer_list'[k] = timer_list[k + 1]
      /\ \A k \in 1 .. Len(timer_list) : timer_list[k] \in Proc
  BY <1>1, TailFacts, ElementOfSeq
<1>3. expires \in [Proc -> Nat] /\ expires' \in [Proc -> Nat]
  BY <1>1 DEF DelaysOK
<1>4. ASSUME 1 < Len(timer_list)
      PROVE  expires'[timer_list[1 + 1]]
                = expires[timer_list[1 + 1]] + expires[timer_list[1]]
  <2>1. 1 + 1 \in 1 .. Len(timer_list)
    BY <1>2, <1>4
  <2>2. expires[timer_list[1 + 1]] \in Nat /\ expires[timer_list[1]] = 0
    BY <1>1, <1>2, <1>3, <2>1
  <2>3. QED
    BY <1>1, <2>2
<1>5. RemovedFrom(timer_list[1], 1)
  BY <1>1, <1>2, <1>3, <1>4 DEF RemovedFrom
<1>6. QED
  BY <1>1, <1>2, <1>5

\* A tick takes one from the first delay, and from the others nothing.
LEMMA TickDelays ==
    ASSUME IInv, DelaysOK, Tick
    PROVE  /\ timer_list' = timer_list /\ expires' \in [Proc -> Nat]
           /\ timer_list # <<>> => expires'[timer_list[1]] = expires[timer_list[1]] - 1
           /\ \A k \in 2 .. Len(timer_list) :
                expires'[timer_list[k]] = expires[timer_list[k]]
<1>1. /\ timer_list' = timer_list /\ expires' = Shifted(1, -1) /\ irq = "off"
      /\ expires \in [Proc -> Nat]
      /\ timer_list # <<>> => expires[timer_list[1]] > 0
  BY DEF Tick, DelaysOK
<1>2. /\ timer_list \in Seq(Proc) /\ IsInjective(timer_list) /\ Len(timer_list) \in Nat
      /\ DOMAIN timer_list = 1 .. Len(timer_list)
      /\ \A k \in 1 .. Len(timer_list) : timer_list[k] \in Proc
      /\ timer_list # <<>> <=> Len(timer_list) # 0
  BY LenProperties, ElementOfSeq, EmptySeq DEF IInv, TypeOK, TimerFrameLive
<1>3. CASE Len(timer_list) = 0
  <2>1. expires' = expires
    BY <1>1, <1>3 DEF Shifted
  <2>2. QED
    BY <1>1, <1>2, <1>3, <2>1
<1>4. CASE Len(timer_list) # 0
  <2> DEFINE q == timer_list[1]
  <2>1. 1 \in 1 .. Len(timer_list) /\ q \in Proc /\ expires[q] \in Nat /\ expires[q] > 0
    BY <1>1, <1>2, <1>4
  <2>2. expires' = [expires EXCEPT ![q] = @ + (-1)]
    BY <1>1, <2>1 DEF Shifted
  <2>3. \A k \in 2 .. Len(timer_list) : timer_list[k] # q
    BY <1>2, <2>1 DEF IsInjective
  <2> HIDE DEF q
  <2>4. expires' \in [Proc -> Nat] /\ expires'[q] = expires[q] - 1
    BY <1>1, <2>1, <2>2
  <2>5. \A k \in 2 .. Len(timer_list) : expires'[timer_list[k]] = expires[timer_list[k]]
    BY <1>1, <1>2, <2>2, <2>3
  <2>6. QED
    BY <1>1, <2>4, <2>5 DEF q
<1>5. QED
  BY <1>3, <1>4

\* The delays start and stay naturals, and a first delay of 0 is met only inside
\* the interrupt handler.
LEMMA NextDelays == IInv /\ DelaysOK /\ ElapsedOK /\ [Next]_vars => DelaysOK'
<1> SUFFICES ASSUME IInv, DelaysOK, ElapsedOK, [Next]_vars PROVE DelaysOK'
  OBVIOUS
<1>0. /\ timer_list \in Seq(Proc) /\ IsInjective(timer_list) /\ Len(timer_list) \in Nat
      /\ \A k \in 1 .. Len(timer_list) : timer_list[k] \in Proc
      /\ timer_list # <<>> <=> Len(timer_list) # 0
  BY LenProperties, ElementOfSeq, EmptySeq DEF IInv, TypeOK, TimerFrameLive
<1>1. ASSUME UNCHANGED <<timer_list, expires, irq>> PROVE DelaysOK'
  BY <1>1 DEF DelaysOK
<1>2. ASSUME NEW p \in Proc, NEW t \in 0 .. MaxSleep, do_sleep(p, t) PROVE DelaysOK'
  <2>1. CASE t = 0
    BY <1>1, <1>2, <2>1 DEF do_sleep
  <2>2. CASE t # 0
    <3>1. /\ irq = "off" /\ add_timer(p, t) /\ pc[p] = "run"
      BY <1>2, <2>2 DEF do_sleep, At
    <3>2. p \notin Armed /\ t \in Nat \ {0}
      BY <2>2, <3>1, SleepAssumption DEF IInv, TimerFrameLive
    <3>3. PICK m \in 0 .. Len(timer_list) : AddedAt(p, t, m)
      BY <3>1, <3>2, AddTimerDelays
    <3>4. /\ timer_list'[m + 1] = p
          /\ \A k \in 1 .. m : timer_list'[k] = timer_list[k]
      <4>1. m + 1 \in 1 .. Len(timer_list) + 1 /\ (m + 1) - 1 = m
        BY <1>0
      <4>2. timer_list' = InsertAt(timer_list, m + 1, p)
        BY <3>3 DEF AddedAt
      <4> DEFINE n == m + 1
      <4>3. n \in 1 .. Len(timer_list) + 1 /\ timer_list' = InsertAt(timer_list, n, p)
        BY <4>1, <4>2
      <4> HIDE DEF n
      <4>4. timer_list'[n] = p /\ \A k \in 1 .. n - 1 : timer_list'[k] = timer_list[k]
        BY <1>0, <4>3, InsertAtFacts
      <4>5. QED
        BY <4>1, <4>4 DEF n
    <3>5. expires' \in [Proc -> Nat]
      BY <3>3 DEF AddedAt
    <3>6. expires'[timer_list'[1]] > 0
      <4>1. CASE m = 0
        BY <3>2, <3>3, <3>4, <4>1 DEF AddedAt, ElapsedOK
      <4>2. CASE m # 0
        <5>1. 1 \in 1 .. Len(timer_list) /\ 1 \in 1 .. m /\ 1 # m + 1
          BY <1>0, <4>2
        <5>2. expires'[timer_list'[1]] = expires[timer_list[1]]
          BY <3>3, <3>4, <5>1 DEF AddedAt
        <5>3. QED
          BY <1>0, <3>1, <5>1, <5>2 DEF DelaysOK
      <4>3. QED
        BY <4>1, <4>2
    <3>7. QED
      BY <3>5, <3>6 DEF DelaysOK
  <2>3. QED
    BY <2>1, <2>2
<1>3. ASSUME NEW p \in Proc, SleepReturn(p) PROVE DelaysOK'
  <2>1. irq = "off" /\ irq' = irq /\ del_timer(p)
    BY <1>3 DEF SleepReturn, At
  <2>2. CASE p \notin Armed
    BY <1>1, <2>1, <2>2 DEF del_timer
  <2>3. CASE p \in Armed
    <3>1. PICK i \in 1 .. Len(timer_list) : RemovedFrom(p, i)
      BY <2>1, <2>3, DelTimerDelays
    <3>2. /\ expires' \in [Proc -> Nat] /\ expires \in [Proc -> Nat]
          /\ expires[timer_list[1]] > 0
      BY <1>0, <2>1, <3>1 DEF RemovedFrom, DelaysOK
    <3>3. ASSUME timer_list' # <<>> PROVE expires'[timer_list'[1]] > 0
      <4>1. Len(timer_list) > 1
        <5>1. timer_list' \in Seq(Proc)
          BY <2>1, DelTimerFacts DEF IInv, TypeOK, TimerFrameLive
        <5>2. Len(timer_list') \in Nat \ {0} /\ Len(timer_list') = Len(timer_list) - 1
          BY <3>1, <3>3, <5>1, EmptySeq, LenProperties DEF RemovedFrom
        <5>3. QED
          BY <1>0, <5>2
      <4>2. CASE i = 1
        <5>1. 1 + 1 \in 1 .. Len(timer_list) /\ 1 \in 1 .. Len(timer_list) - 1
          BY <1>0, <4>1
        <5>2. /\ timer_list'[1] = timer_list[1 + 1] /\ timer_list[1] = p
              /\ expires'[timer_list[1 + 1]] = expires[timer_list[1 + 1]] + expires[p]
          BY <3>1, <4>1, <4>2, <5>1 DEF RemovedFrom
        <5>3. expires[timer_list[1 + 1]] \in Nat /\ expires[p] \in Nat
          BY <1>0, <3>2, <5>1
        <5>4. QED
          BY <3>2, <5>2, <5>3
      <4>3. CASE i # 1
        <5>1. 1 \in 1 .. i - 1 /\ 1 \in 1 .. Len(timer_list) /\ 1 # i /\ 1 # i + 1
          BY <1>0, <4>3
        <5>2. expires'[timer_list'[1]] = expires[timer_list[1]]
          BY <3>1, <5>1 DEF RemovedFrom
        <5>3. QED
          BY <3>2, <5>2
      <4>4. QED
        BY <4>2, <4>3
    <3>4. QED
      BY <3>2, <3>3 DEF DelaysOK
  <2>4. QED
    BY <2>2, <2>3
<1>4. ASSUME Tick PROVE DelaysOK'
  BY <1>4, TickDelays DEF Tick, DelaysOK
<1>5. ASSUME ExpireTimer PROVE DelaysOK'
  BY <1>5 DEF ExpireTimer, Expiring, DelaysOK
<1>6. ASSUME ChargeTick PROVE DelaysOK'
  <2>1. /\ UNCHANGED <<timer_list, expires>>
        /\ timer_list # <<>> => expires[Head(timer_list)] # 0
    BY <1>6 DEF ChargeTick, Expiring
  <2>2. timer_list # <<>> => Head(timer_list) = timer_list[1] /\ timer_list[1] \in Proc
    BY <1>0, TailFacts
  <2>3. QED
    BY <2>1, <2>2 DEF DelaysOK
<1>7. ASSUME NEW p \in Proc,
             \/ do_fork(p) \/ SleepSwitch(p) \/ do_yield(p) \/ TrapExit(p)
             \/ ExitSwitch(p) \/ TrapReturn(p) \/ \E q \in Proc : do_kill(p, q)
      PROVE  DelaysOK'
  <2>1. UNCHANGED <<timer_list, expires, irq>>
    BY <1>7 DEF do_fork, SleepSwitch, do_yield, TrapExit, ExitSwitch, TrapReturn, do_kill
  <2>2. QED
    BY <1>1, <2>1
<1>8. ASSUME IdleLoop \/ UNCHANGED vars PROVE DelaysOK'
  BY <1>1, <1>8 DEF IdleLoop, vars, sleep_vars
<1>9. QED
  BY <1>2, <1>3, <1>4, <1>5, <1>6, <1>7, <1>8 DEF Next, Step, Clock

\* Everything a step of the timer list needs to know of one state.
TimersOK == IInv /\ DelaysOK /\ ElapsedOK /\ CountdownOK

\* Linking a timer moves no other deadline.
LEMMA AddCountdown ==
    ASSUME TimersOK, TimersOK', NEW p \in Proc, p \notin Armed, NEW time \in Nat,
           NEW m \in 0 .. Len(timer_list), AddedAt(p, time, m)
    PROVE  Countdown' = [Countdown EXCEPT ![p] = time]
<1> DEFINE L == Len(timer_list)
           E == Elapsed
           F == Elapsed'
           s == timer_list
           u == timer_list'
           d == [k \in 1 .. L |-> expires[s[k]]]
           n == m + 1
<1>1. s \in Seq(Proc) /\ L \in Nat /\ \A k \in 1 .. L : s[k] \in Proc
  BY LenProperties, ElementOfSeq DEF TimersOK, IInv, TypeOK
<1>2. n \in 1 .. L + 1 /\ u = InsertAt(s, n, p)
  BY <1>1 DEF AddedAt
<1>3. /\ E[0] = 0 /\ \A k \in 0 .. L : E[k] \in Nat
      /\ \A k \in 1 .. L : E[k] = E[k - 1] + expires[s[k]]
  BY DEF TimersOK, ElapsedOK
<1>4. /\ F[0] = 0
      /\ \A k \in 1 .. Len(u) : F[k] = F[k - 1] + expires'[u[k]]
  BY DEF TimersOK, ElapsedOK
<1>5. /\ \A k \in 1 .. L : Countdown[s[k]] = E[k]
      /\ \A k \in 1 .. Len(u) : Countdown'[u[k]] = F[k]
      /\ \A q \in Proc : q \notin Armed => Countdown[q] = -1
      /\ \A q \in Proc : q \notin Armed' => Countdown'[q] = -1
      /\ Countdown = [q \in Proc |-> Countdown[q]]
      /\ Countdown' = [q \in Proc |-> Countdown'[q]]
  BY DEF TimersOK, CountdownOK
<1>6. /\ expires'[p] = time - E[m]
      /\ m < L => expires'[s[m + 1]] = E[m + 1] - time
      /\ \A k \in 1 .. L : k # m + 1 => expires'[s[k]] = expires[s[k]]
  BY DEF AddedAt
<1>7. \A q \in Proc : q \in Armed => \E k \in 1 .. L : s[k] = q
  BY <1>1, RangeFacts DEF Armed
<1>8. \A k \in 1 .. L : d[k] = expires[s[k]]
  OBVIOUS
<1> HIDE DEF L, E, F, s, u, d, n
<1>9. /\ Len(u) = L + 1
      /\ \A k \in 1 .. n - 1 : u[k] = s[k]
      /\ u[n] = p
      /\ \A k \in n + 1 .. L + 1 : u[k] = s[k - 1]
      /\ Range(u) = Range(s) \cup {p}
  <2>1. Len(s) = L
    BY DEF L, s
  <2>2. n \in 1 .. Len(s) + 1
    BY <1>2, <2>1
  <2>a. s \in Seq(Proc) /\ u = InsertAt(s, n, p)
    BY <1>1, <1>2
  <2>d. PICK ss \in Seq(Proc) : ss = s
    BY <2>a
  <2>b. PICK nn \in 1 .. Len(ss) + 1 : nn = n
    BY <2>2, <2>d
  <2>c. /\ Len(InsertAt(ss, nn, p)) = Len(ss) + 1
        /\ \A k \in 1 .. nn - 1 : InsertAt(ss, nn, p)[k] = ss[k]
        /\ InsertAt(ss, nn, p)[nn] = p
        /\ \A k \in nn + 1 .. Len(ss) + 1 : InsertAt(ss, nn, p)[k] = ss[k - 1]
        /\ Range(InsertAt(ss, nn, p)) = Range(ss) \cup {p}
    BY InsertAtFacts
  <2>3. /\ Len(u) = Len(s) + 1
        /\ \A k \in 1 .. n - 1 : u[k] = s[k]
        /\ u[n] = p
        /\ \A k \in n + 1 .. Len(s) + 1 : u[k] = s[k - 1]
        /\ Range(u) = Range(s) \cup {p}
    BY <2>a, <2>b, <2>c, <2>d, Zenon
  <2>4. QED
    BY <2>1, <2>3
<1>a. Armed' = Armed \cup {p}
  BY <1>9 DEF Armed, s, u
<1>10. m \in 0 .. L /\ n = m + 1
  BY DEF n, L
<1>11. /\ \A k \in 1 .. m : F[k] = F[k - 1] + d[k]
       /\ F[m + 1] = F[m] + (time - E[m])
  <2>1. ASSUME NEW k \in 1 .. m PROVE F[k] = F[k - 1] + d[k]
    <3>1. k \in 1 .. Len(u) /\ k \in 1 .. L /\ k # m + 1 /\ u[k] = s[k]
      BY <1>1, <1>9, <1>10
    <3>2. QED
      BY <1>4, <1>6, <1>8, <3>1
  <2>2. F[m + 1] = F[m] + (time - E[m])
    <3>1. n \in 1 .. Len(u) /\ n - 1 = m
      BY <1>1, <1>9, <1>10
    <3>2. QED
      BY <1>4, <1>6, <1>9, <1>10, <3>1
  <2>3. QED
    BY <2>1, <2>2
<1>12. ASSUME NEW k \in m + 1 .. L
       PROVE  /\ k + 1 \in 1 .. Len(u) /\ u[k + 1] = s[k]
              /\ F[k + 1] = F[k] + expires'[s[k]]
  <2>1. k + 1 \in n + 1 .. L + 1 /\ (k + 1) - 1 = k /\ k + 1 \in 1 .. Len(u)
    BY <1>1, <1>9, <1>10
  <2>2. QED
    BY <1>4, <1>9, <2>1
<1>13. m < L => F[m + 2] = F[m + 1] + (E[m + 1] - time)
  <2>1. SUFFICES ASSUME m < L PROVE F[m + 2] = F[m + 1] + (E[m + 1] - time)
    OBVIOUS
  <2>2. m + 1 \in m + 1 .. L /\ (m + 1) + 1 = m + 2
    BY <1>1, <1>10, <2>1
  <2>3. QED
    BY <1>6, <1>12, <2>1, <2>2
<1>14. \A k \in m + 2 .. L : F[k + 1] = F[k] + d[k]
  <2> TAKE k \in m + 2 .. L
  <2>1. k \in m + 1 .. L /\ k \in 1 .. L /\ k # m + 1
    BY <1>1, <1>10
  <2>2. QED
    BY <1>6, <1>8, <1>12, <2>1
<1>15. /\ \A k \in 0 .. m : F[k] = E[k]
       /\ F[m + 1] = time
       /\ \A k \in m + 1 .. L : F[k + 1] = E[k]
  <2>1. /\ F[0] = E[0] /\ \A k \in 0 .. L : E[k] \in Int
        /\ \A k \in 1 .. L : E[k] = E[k - 1] + d[k]
    BY <1>3, <1>4, <1>8
  <2>2. Sums(E, d, L)
    BY <2>1 DEF Sums
  <2>3. SumsInserted(F, E, d, L, m, time)
    BY <1>11, <1>13, <1>14, <2>1 DEF SumsInserted
  <2>4. time \in Int
    OBVIOUS
  <2>5. QED
    BY <1>1, <1>10, <2>2, <2>3, <2>4, SumsAfterInsert
<1>16. ASSUME NEW q \in Proc PROVE Countdown'[q] = [Countdown EXCEPT ![p] = time][q]
  <2>1. CASE q = p
    <3>1. n \in 1 .. Len(u) /\ F[n] = time
      BY <1>1, <1>9, <1>10, <1>15
    <3>2. Countdown'[p] = time
      BY <1>5, <1>9, <3>1
    <3>3. QED
      BY <1>5, <2>1, <3>2
  <2>2. CASE q # p /\ q \in Armed
    <3>1. PICK k \in 1 .. L : s[k] = q
      BY <1>7, <2>2
    <3>2. Countdown'[q] = E[k]
      <4>1. CASE k <= m
        <5>1. k \in 1 .. n - 1 /\ k \in 1 .. Len(u) /\ k \in 0 .. m
          BY <1>1, <1>9, <1>10, <4>1
        <5>2. QED
          BY <1>5, <1>9, <1>15, <3>1, <5>1
      <4>2. CASE ~(k <= m)
        <5>1. k \in m + 1 .. L
          BY <1>1, <1>10, <4>2
        <5>2. QED
          BY <1>5, <1>12, <1>15, <3>1, <5>1
      <4>3. QED
        BY <4>1, <4>2
    <3>3. QED
      BY <1>5, <2>2, <3>1, <3>2
  <2>3. CASE q # p /\ q \notin Armed
    BY <1>5, <1>a, <2>3
  <2>4. QED
    BY <2>1, <2>2, <2>3
<1>17. QED
  BY <1>5, <1>16

\* Unlinking a timer, by hand or because it has expired, moves no other deadline.
LEMMA RemoveCountdown ==
    ASSUME TimersOK, TimersOK', NEW p \in Proc, NEW i \in 1 .. Len(timer_list),
           RemovedFrom(p, i), Armed' = Armed \ {p}
    PROVE  Countdown' = [Countdown EXCEPT ![p] = -1]
<1> DEFINE L == Len(timer_list)
           E == Elapsed
           F == Elapsed'
           s == timer_list
           u == timer_list'
           d == [k \in 1 .. L |-> expires[s[k]]]
<1>1. s \in Seq(Proc) /\ L \in Nat /\ \A k \in 1 .. L : s[k] \in Proc
  BY LenProperties, ElementOfSeq DEF TimersOK, IInv, TypeOK
<1>2. L \in Nat \ {0} /\ i \in 1 .. L
  BY <1>1
<1>3. /\ E[0] = 0 /\ \A k \in 0 .. L : E[k] \in Nat
      /\ \A k \in 1 .. L : E[k] = E[k - 1] + expires[s[k]]
  BY DEF TimersOK, ElapsedOK
<1>4. /\ F[0] = 0
      /\ \A k \in 1 .. Len(u) : F[k] = F[k - 1] + expires'[u[k]]
  BY DEF TimersOK, ElapsedOK
<1>5. /\ \A k \in 1 .. L : Countdown[s[k]] = E[k]
      /\ \A k \in 1 .. Len(u) : Countdown'[u[k]] = F[k]
      /\ \A q \in Proc : q \notin Armed => Countdown[q] = -1
      /\ \A q \in Proc : q \notin Armed' => Countdown'[q] = -1
      /\ Countdown = [q \in Proc |-> Countdown[q]]
      /\ Countdown' = [q \in Proc |-> Countdown'[q]]
  BY DEF TimersOK, CountdownOK
<1>6. /\ s[i] = p /\ Len(u) = L - 1
      /\ \A k \in 1 .. i - 1 : u[k] = s[k]
      /\ \A k \in i .. L - 1 : u[k] = s[k + 1]
      /\ i < L => expires'[s[i + 1]] = expires[s[i + 1]] + expires[p]
      /\ \A k \in 1 .. L : k # i /\ k # i + 1 => expires'[s[k]] = expires[s[k]]
  BY DEF RemovedFrom
<1>7. \A q \in Proc : q \in Armed => \E k \in 1 .. L : s[k] = q
  BY <1>1, RangeFacts DEF Armed
<1>8. \A k \in 1 .. L : d[k] = expires[s[k]]
  OBVIOUS
<1>a. \A k \in 1 .. L : expires[s[k]] \in Int
  <2> TAKE k \in 1 .. L
  <2>1. k - 1 \in 0 .. L /\ k \in 0 .. L
    BY <1>1
  <2>2. expires[s[k]] \in Nat
    BY <1>1 DEF TimersOK, DelaysOK
  <2>3. QED
    BY <2>2
<1> HIDE DEF L, E, F, s, u, d
<1>9. \A k \in 1 .. i - 1 : F[k] = F[k - 1] + d[k]
  <2> TAKE k \in 1 .. i - 1
  <2>1. k \in 1 .. Len(u) /\ k \in 1 .. L /\ k # i /\ k # i + 1
    BY <1>2, <1>6
  <2>2. QED
    BY <1>4, <1>6, <1>8, <2>1
<1>10. i < L => F[i] = F[i - 1] + (E[i + 1] - E[i - 1])
  <2>1. SUFFICES ASSUME i < L PROVE F[i] = F[i - 1] + (E[i + 1] - E[i - 1])
    OBVIOUS
  <2>2. /\ i \in 1 .. Len(u) /\ i \in i .. L - 1 /\ i + 1 \in 1 .. L /\ (i + 1) - 1 = i
        /\ i - 1 \in 0 .. L /\ i \in 1 .. L
    BY <1>2, <1>6, <2>1
  <2>3. F[i] = F[i - 1] + (expires[s[i + 1]] + expires[p])
    BY <1>4, <1>6, <2>1, <2>2
  <2>4. E[i] = E[i - 1] + expires[p] /\ E[i + 1] = E[i] + expires[s[i + 1]]
    BY <1>3, <1>6, <2>2
  <2>5. E[i - 1] \in Int /\ expires[p] \in Int /\ expires[s[i + 1]] \in Int
    BY <1>3, <1>6, <1>a, <2>2
  <2>6. expires[s[i + 1]] + expires[p] = E[i + 1] - E[i - 1]
    BY <2>4, <2>5
  <2>7. QED
    BY <2>3, <2>6
<1>11. \A k \in i + 1 .. L - 1 : F[k] = F[k - 1] + d[k + 1]
  <2> TAKE k \in i + 1 .. L - 1
  <2>1. /\ k \in 1 .. Len(u) /\ k \in i .. L - 1 /\ k + 1 \in 1 .. L
        /\ k + 1 # i /\ k + 1 # i + 1
    BY <1>2, <1>6
  <2>2. QED
    BY <1>4, <1>6, <1>8, <2>1
<1>12. /\ \A k \in 0 .. i - 1 : F[k] = E[k]
       /\ \A k \in i .. L - 1 : F[k] = E[k + 1]
  <2>1. /\ F[0] = E[0] /\ \A k \in 0 .. L : E[k] \in Int
        /\ \A k \in 1 .. L : E[k] = E[k - 1] + d[k]
    BY <1>3, <1>4, <1>8
  <2>2. Sums(E, d, L)
    BY <2>1 DEF Sums
  <2>3. SumsRemoved(F, E, d, L, i)
    BY <1>9, <1>10, <1>11, <2>1 DEF SumsRemoved
  <2>4. QED
    BY <1>2, <2>2, <2>3, SumsAfterRemove
<1>13. ASSUME NEW q \in Proc PROVE Countdown'[q] = [Countdown EXCEPT ![p] = -1][q]
  <2>1. CASE q = p \/ q \notin Armed
    BY <1>5, <2>1
  <2>2. CASE q # p /\ q \in Armed
    <3>1. PICK k \in 1 .. L : s[k] = q
      BY <1>7, <2>2
    <3>2. Countdown'[q] = E[k]
      <4>1. CASE k < i
        <5>1. k \in 1 .. i - 1 /\ k \in 1 .. Len(u) /\ k \in 0 .. i - 1
          BY <1>2, <1>6, <4>1
        <5>2. QED
          BY <1>5, <1>6, <1>12, <3>1, <5>1
      <4>2. CASE k > i
        <5>1. k - 1 \in i .. L - 1 /\ k - 1 \in 1 .. Len(u) /\ (k - 1) + 1 = k
          BY <1>2, <1>6, <4>2
        <5>2. u[k - 1] = q /\ F[k - 1] = E[k]
          BY <1>6, <1>12, <3>1, <5>1
        <5>3. QED
          BY <1>5, <5>1, <5>2
      <4>3. k # i
        BY <1>6, <2>2, <3>1
      <4>4. QED
        BY <1>2, <4>1, <4>2, <4>3
    <3>3. QED
      BY <1>5, <2>2, <3>1, <3>2
  <2>3. QED
    BY <2>1, <2>2
<1>14. QED
  BY <1>5, <1>13

\* A tick moves every deadline by one.
LEMMA TickCountdown ==
    ASSUME TimersOK, TimersOK', Tick
    PROVE  /\ \A p \in Proc : Countdown[p] # 0
           /\ Countdown' = [p \in Proc |-> IF Countdown[p] = -1 THEN -1
                                                               ELSE Countdown[p] - 1]
<1> DEFINE L == Len(timer_list)
           E == Elapsed
           F == Elapsed'
           s == timer_list
<1>1. s \in Seq(Proc) /\ L \in Nat /\ \A k \in 1 .. L : s[k] \in Proc
  BY LenProperties, ElementOfSeq DEF TimersOK, IInv, TypeOK
<1>2. /\ timer_list' = s /\ Len(timer_list') = L /\ Armed' = Armed
      /\ L # 0 => expires'[s[1]] = expires[s[1]] - 1 /\ expires[s[1]] > 0
      /\ \A k \in 2 .. L : expires'[s[k]] = expires[s[k]]
      /\ \A k \in 1 .. L : expires[s[k]] \in Nat
  <2>1. /\ timer_list' = s /\ irq = "off"
        /\ s # <<>> => expires'[s[1]] = expires[s[1]] - 1
        /\ \A k \in 2 .. L : expires'[s[k]] = expires[s[k]]
    BY TickDelays DEF TimersOK, Tick
  <2>2. L # 0 => s # <<>>
    BY <1>1, EmptySeq
  <2>3. QED
    BY <1>1, <2>1, <2>2 DEF TimersOK, DelaysOK, Armed
<1>3. /\ E[0] = 0 /\ \A k \in 0 .. L : E[k] \in Nat
      /\ \A k \in 1 .. L : E[k] = E[k - 1] + expires[s[k]]
      /\ \A k \in 1 .. L : 1 <= k => E[1] <= E[k]
  BY <1>1 DEF TimersOK, ElapsedOK
<1>4. F[0] = 0 /\ \A k \in 1 .. L : F[k] = F[k - 1] + expires'[s[k]]
  BY <1>2 DEF TimersOK, ElapsedOK
<1>5. /\ \A k \in 1 .. L : Countdown[s[k]] = E[k]
      /\ \A k \in 1 .. L : Countdown'[s[k]] = F[k]
      /\ \A q \in Proc : q \notin Armed => Countdown[q] = -1 /\ Countdown'[q] = -1
      /\ Countdown' = [q \in Proc |-> Countdown'[q]]
  BY <1>2 DEF TimersOK, CountdownOK
<1>6. \A q \in Proc : q \in Armed => \E k \in 1 .. L : s[k] = q
  BY <1>1, RangeFacts DEF Armed
<1> DEFINE T == {n \in Nat : n + 1 <= L => F[n + 1] = E[n + 1] - 1}
<1> HIDE DEF L, E, F, s
<1>7. 0 \in T
  <2>1. SUFFICES ASSUME 1 <= L PROVE F[1] = E[1] - 1
    OBVIOUS
  <2>2. 1 \in 1 .. L /\ 1 - 1 = 0 /\ L # 0
    BY <1>1, <2>1
  <2>3. /\ E[1] = E[0] + expires[s[1]] /\ F[1] = F[0] + expires'[s[1]]
        /\ expires[s[1]] \in Nat
    BY <1>2, <1>3, <1>4, <2>2
  <2>4. QED
    BY <1>2, <1>3, <1>4, <2>2, <2>3
<1>8. ASSUME NEW n \in Nat, n \in T PROVE n + 1 \in T
  <2>1. SUFFICES ASSUME (n + 1) + 1 <= L PROVE F[(n + 1) + 1] = E[(n + 1) + 1] - 1
    OBVIOUS
  <2> DEFINE k == (n + 1) + 1
  <2>2. k \in 1 .. L /\ k \in 2 .. L /\ k - 1 = n + 1 /\ n + 1 \in 0 .. L /\ n + 1 <= L
    BY <1>1, <2>1
  <2>3. F[n + 1] = E[n + 1] - 1
    BY <1>8, <2>2
  <2> HIDE DEF k
  <2>4. /\ E[k] = E[n + 1] + expires[s[k]] /\ F[k] = F[n + 1] + expires[s[k]]
        /\ E[n + 1] \in Nat /\ expires[s[k]] \in Nat
    BY <1>2, <1>3, <1>4, <2>2
  <2>5. F[k] = E[k] - 1
    BY <2>3, <2>4
  <2>6. QED
    BY <2>5 DEF k
<1> HIDE DEF T
<1>9. Nat \subseteq T
  BY <1>7, <1>8, InductionOverSets
<1>10. ASSUME NEW k \in 1 .. L PROVE F[k] = E[k] - 1 /\ E[k] \in Nat /\ E[k] > 0
  <2>1. k - 1 \in T /\ (k - 1) + 1 = k /\ k <= L /\ L # 0
    BY <1>1, <1>9
  <2>2. F[k] = E[k] - 1
    BY <2>1 DEF T
  <2>3. 1 \in 1 .. L /\ 1 - 1 = 0 /\ E[1] <= E[k] /\ k \in 0 .. L
    BY <1>1, <1>3
  <2>4. E[1] = E[0] + expires[s[1]] /\ expires[s[1]] \in Nat /\ expires[s[1]] > 0
    BY <1>2, <1>3, <2>1, <2>3
  <2>5. E[k] \in Nat
    BY <1>3, <2>3
  <2>6. QED
    BY <1>3, <2>2, <2>3, <2>4, <2>5
<1>11. ASSUME NEW q \in Proc
       PROVE  /\ Countdown[q] # 0
              /\ Countdown'[q] = IF Countdown[q] = -1 THEN -1 ELSE Countdown[q] - 1
  <2>1. CASE q \notin Armed
    BY <1>5, <2>1
  <2>2. CASE q \in Armed
    <3>1. PICK k \in 1 .. L : s[k] = q
      BY <1>6, <2>2
    <3>2. Countdown[q] = E[k] /\ Countdown'[q] = F[k]
      BY <1>5, <3>1
    <3>3. QED
      BY <1>10, <3>2
  <2>3. QED
    BY <2>1, <2>2
<1>12. QED
  BY <1>5, <1>11

\* A step that leaves the timer list and the delays alone moves no deadline.
LEMMA SameCountdown ==
    ASSUME UNCHANGED <<timer_list, expires>>
    PROVE  Countdown' = Countdown
<1>1. Elapsed' = Elapsed
  BY DEF Elapsed
<1>2. Armed' = Armed
  BY DEF Armed
<1>3. QED
  BY <1>1, <1>2 DEF Countdown

\* A linked timer has a deadline.
LEMMA ArmedCountdown == TimersOK => \A p \in Armed : Countdown[p] \in Nat
<1> SUFFICES ASSUME TimersOK, NEW p \in Armed PROVE Countdown[p] \in Nat
  OBVIOUS
<1>1. timer_list \in Seq(Proc) /\ Len(timer_list) \in Nat
  BY LenProperties DEF TimersOK, IInv, TypeOK
<1>2. PICK k \in 1 .. Len(timer_list) : timer_list[k] = p
  BY <1>1, RangeFacts DEF Armed
<1>3. k \in 0 .. Len(timer_list)
  BY <1>1
<1>4. Elapsed[k] \in Nat /\ Countdown[p] = Elapsed[k]
  BY <1>2, <1>3 DEF TimersOK, ElapsedOK, CountdownOK
<1>5. QED
  BY <1>4

\* The empty list has no deadlines.
LEMMA InitDeadlines == Init => DelaysOK /\ Abstract!Init
<1> SUFFICES ASSUME Init PROVE DelaysOK /\ Abstract!Init
  OBVIOUS
<1>1. DelaysOK
  BY DEF Init, DelaysOK
<1>2. Armed = {}
  BY DEF Init, Armed, Range
<1>3. Countdown = [p \in Proc |-> -1]
  BY <1>2 DEF Countdown
<1>4. {p \in Proc : state[p] = "SLEEPING"} = {}
  BY DEF Init, Thread
<1>5. QED
  BY <1>1, <1>3, <1>4 DEF Abstract!Init, Abstract!Unset

\* Every step of the kernel is a step of Deadlines or leaves its variables alone.
LEMMA NextDeadlines ==
    TimersOK /\ TimersOK' /\ [Next]_vars => [Abstract!Next]_(Abstract!vars)
<1> SUFFICES ASSUME TimersOK, TimersOK', [Next]_vars PROVE [Abstract!Next]_(Abstract!vars)
  OBVIOUS
<1> DEFINE asleep == {p \in Proc : state[p] = "SLEEPING"}
<1>0. /\ IInv /\ DelaysOK /\ ElapsedOK /\ SchedTypeOK /\ TimerFrameLive /\ SleeperArmed
      /\ OwnerRunnable /\ RunQueueOK /\ timer_list \in Seq(Proc)
  BY DEF TimersOK, IInv, TypeOK
<1>a. \A q \in Proc : q \in Thread
  BY DEF Thread
<1>b. /\ \A q \in Armed : q \in Proc /\ Countdown[q] \in Nat
      /\ \A q \in Proc \ Armed : Countdown[q] = -1
  BY <1>0, ArmedCountdown, RangeFacts DEF Armed, TimersOK, CountdownOK
<1>1. ASSUME UNCHANGED <<timer_list, expires>>, asleep' = asleep
      PROVE  UNCHANGED Abstract!vars
  BY <1>1, SameCountdown DEF Abstract!vars
<1>2. ASSUME NEW p \in Proc, do_fork(p) PROVE UNCHANGED Abstract!vars
  <2>1. state[p] = "UNINIT" /\ wakeup_proc(p) /\ UNCHANGED <<current, need_resched>>
    BY <1>2 DEF do_fork
  <2>2. state' = [state EXCEPT ![p] = "RUNNABLE"]
    BY <1>0, <2>1, WakeupFacts
  <2>3. asleep' = asleep
    BY <1>0, <1>a, <2>1, <2>2 DEF SchedTypeOK
  <2>4. QED
    BY <1>1, <1>2, <2>3 DEF do_fork
<1>3. ASSUME NEW p \in Proc, NEW t \in 0 .. MaxSleep, do_sleep(p, t)
      PROVE  [Abstract!Next]_(Abstract!vars)
  <2>1. CASE t = 0
    <3>1. UNCHANGED <<timer_list, expires, state>>
      BY <1>3, <2>1 DEF do_sleep
    <3>2. QED
      BY <1>1, <3>1
  <2>2. CASE t # 0
    <3>1. /\ add_timer(p, t) /\ pc[p] = "run" /\ current = p
          /\ state' = [state EXCEPT ![p] = "SLEEPING"]
      BY <1>3, <2>2 DEF do_sleep, At
    <3>2. p \notin Armed /\ t \in Nat /\ t \in 1 .. MaxSleep
      BY <1>0, <2>2, <3>1, SleepAssumption DEF TimerFrameLive
    <3>3. PICK m \in 0 .. Len(timer_list) : AddedAt(p, t, m)
      BY <1>0, <3>1, <3>2, AddTimerDelays
    <3>4. Countdown' = [Countdown EXCEPT ![p] = t]
      BY <3>2, <3>3, AddCountdown
    <3>5. Countdown[p] = -1
      BY <1>b, <3>2
    <3>6. state[p] = "RUNNABLE" /\ p \notin asleep
      BY <1>0, <3>1 DEF OwnerRunnable
    <3>7. asleep' = asleep \cup {p}
      BY <1>0, <1>a, <3>1 DEF SchedTypeOK
    <3>8. Abstract!Start(p, t)
      BY <3>4, <3>5, <3>6, <3>7 DEF Abstract!Start, Abstract!Unset
    <3>9. QED
      BY <3>2, <3>8 DEF Abstract!Next
  <2>3. QED
    BY <2>1, <2>2
<1>4. ASSUME NEW p \in Proc,
             SleepSwitch(p) \/ do_yield(p) \/ ExitSwitch(p) \/ TrapReturn(p)
      PROVE  UNCHANGED Abstract!vars
  <2>1. UNCHANGED <<state, timer_list, expires>>
    BY <1>4 DEF SleepSwitch, do_yield, ExitSwitch, TrapReturn
  <2>2. QED
    BY <1>1, <2>1
<1>5. ASSUME NEW p \in Proc, SleepReturn(p) PROVE [Abstract!Next]_(Abstract!vars)
  <2>1. current = p /\ pc[p] = "sleep.del_timer" /\ del_timer(p) /\ state' = state
    BY <1>5 DEF SleepReturn, At, sched_vars
  <2>2. CASE p \notin Armed
    <3>1. UNCHANGED <<timer_list, expires>>
      BY <2>1, <2>2 DEF del_timer
    <3>2. QED
      BY <1>1, <2>1, <3>1
  <2>3. CASE p \in Armed
    <3>1. PICK i \in 1 .. Len(timer_list) : RemovedFrom(p, i)
      BY <1>0, <2>1, <2>3, DelTimerDelays
    <3>2. Armed' = Armed \ {p}
      BY <1>0, <2>1, DelTimerFacts DEF TimerFrameLive, Armed
    <3>3. Countdown' = [Countdown EXCEPT ![p] = -1]
      BY <3>1, <3>2, RemoveCountdown
    <3>4. p \notin asleep
      BY <1>0, <2>1 DEF OwnerRunnable
    <3>5. Countdown[p] # -1
      BY <1>b, <2>3
    <3>6. Abstract!Cancel(p)
      BY <2>1, <3>3, <3>4, <3>5 DEF Abstract!Cancel, Abstract!Unset
    <3>7. QED
      BY <3>6 DEF Abstract!Next
  <2>4. QED
    BY <2>2, <2>3
<1>6. ASSUME NEW p \in Proc, NEW q \in Proc, do_kill(p, q)
      PROVE  [Abstract!Next]_(Abstract!vars)
  <2>1. UNCHANGED <<current, need_resched, timer_list, expires>>
    BY <1>6 DEF do_kill
  <2>2. CASE state' = state
    BY <1>1, <2>1, <2>2
  <2>3. CASE wakeup_proc(q)
    <3>1. state' = [state EXCEPT ![q] = "RUNNABLE"]
      BY <1>0, <2>1, <2>3, WakeupFacts
    <3>2. asleep' = asleep \ {q}
      BY <1>0, <1>a, <3>1 DEF SchedTypeOK
    <3>3. CASE q \notin asleep
      BY <1>1, <2>1, <3>2, <3>3
    <3>4. CASE q \in asleep
      <4>1. Countdown[q] # -1
        BY <1>0, <1>b, <3>4 DEF SleeperArmed
      <4>2. Countdown' = Countdown
        BY <2>1, SameCountdown
      <4>3. Abstract!Interrupt(q)
        BY <3>2, <3>4, <4>1, <4>2 DEF Abstract!Interrupt, Abstract!Unset
      <4>4. QED
        BY <4>3 DEF Abstract!Next
    <3>5. QED
      BY <3>3, <3>4
  <2>4. QED
    BY <1>6, <2>2, <2>3 DEF do_kill
<1>7. ASSUME NEW p \in Proc, TrapExit(p) PROVE UNCHANGED Abstract!vars
  <2>1. /\ current = p /\ pc[p] = "trap.return" /\ state' = [state EXCEPT ![p] = "ZOMBIE"]
        /\ UNCHANGED <<timer_list, expires>>
    BY <1>7 DEF TrapExit, At
  <2>2. state[p] = "RUNNABLE"
    BY <1>0, <2>1 DEF OwnerRunnable
  <2>3. asleep' = asleep
    BY <1>0, <1>a, <2>1, <2>2 DEF SchedTypeOK
  <2>4. QED
    BY <1>1, <2>1, <2>3
<1>8. ASSUME IdleLoop \/ ChargeTick \/ UNCHANGED vars PROVE UNCHANGED Abstract!vars
  <2>1. UNCHANGED <<state, timer_list, expires>>
    BY <1>8 DEF IdleLoop, ChargeTick, vars, sched_vars, sleep_vars
  <2>2. QED
    BY <1>1, <2>1
<1>9. ASSUME Tick PROVE [Abstract!Next]_(Abstract!vars)
  <2>1. asleep' = asleep
    BY <1>9 DEF Tick, sched_vars
  <2>2. Abstract!Advance
    BY <1>9, <2>1, TickCountdown DEF Abstract!Advance, Abstract!Unset
  <2>3. QED
    BY <2>2 DEF Abstract!Next
<1>10. ASSUME ExpireTimer PROVE [Abstract!Next]_(Abstract!vars)
  <2>a. timer_list[1] \in Proc
    BY <1>0, <1>10, ExpireDelays, ElementOfSeq
  <2>b. PICK p \in Proc : p = timer_list[1]
    BY <2>a
  <2>1. /\ 1 \in 1 .. Len(timer_list) /\ RemovedFrom(p, 1) /\ Head(timer_list) = p
        /\ expires[p] = 0
    BY <1>0, <1>10, <2>b, ExpireDelays
  <2>2. /\ timer_list # <<>> /\ wakeup_proc(p) /\ timer_list' = Tail(timer_list)
        /\ UNCHANGED <<current, need_resched>>
    BY <1>10, <2>1 DEF ExpireTimer, Expiring
  <2>3. p \in Proc /\ p \in Armed /\ Armed' = Armed \ {p}
    <3>1. /\ Head(timer_list) \in Range(timer_list) /\ Head(timer_list) \in Proc
          /\ Range(timer_list) = Range(Tail(timer_list)) \cup {Head(timer_list)}
          /\ Head(timer_list) \notin Range(Tail(timer_list))
      BY <1>0, <2>2, TailFacts DEF TimerFrameLive
    <3>2. QED
      BY <2>1, <2>2, <3>1 DEF Armed
  <2>4. Countdown' = [Countdown EXCEPT ![p] = -1]
    BY <2>1, <2>3, RemoveCountdown
  <2>5. Countdown[p] = 0
    <3>1. Countdown[p] = Elapsed[1] /\ Elapsed[1] = Elapsed[1 - 1] + expires[p]
      BY <2>1, <2>b DEF TimersOK, CountdownOK, ElapsedOK
    <3>2. Elapsed[1 - 1] = 0
      BY DEF TimersOK, ElapsedOK
    <3>3. QED
      BY <2>1, <3>1, <3>2
  <2>6. state' = [state EXCEPT ![p] = "RUNNABLE"]
    BY <1>0, <2>2, <2>3, WakeupFacts
  <2>7. asleep' = asleep \ {p}
    BY <1>0, <1>a, <2>3, <2>6 DEF SchedTypeOK
  <2>8. Abstract!Expire(p)
    BY <2>4, <2>5, <2>7 DEF Abstract!Expire, Abstract!Unset
  <2>9. QED
    BY <2>3, <2>8 DEF Abstract!Next
<1>11. QED
  BY <1>2, <1>3, <1>4, <1>5, <1>6, <1>7, <1>8, <1>9, <1>10 DEF Next, Step, Clock

\* The delta list implements independent countdowns, for any number of processes
\* and any sleep times: no timer that is linked, unlinked or expires moves the
\* deadline of another, and time does not pass a deadline.
THEOREM SleepImplementsDeadlines == Spec => ImplementsDeadlines
<1>1. Init => IInv /\ DelaysOK /\ Abstract!Init
  BY InitIInv, InitDeadlines
<1>2. IInv /\ DelaysOK => TimersOK
  BY ElapsedFacts, CountdownFacts DEF TimersOK
<1>3. IInv /\ [Next]_vars => IInv'
  BY NextIInv
<1>4. IInv /\ DelaysOK /\ [Next]_vars => DelaysOK'
  BY ElapsedFacts, NextDelays
<1>5. TimersOK /\ TimersOK' /\ [Next]_vars => [Abstract!Next]_(Abstract!vars)
  BY NextDeadlines
<1>6. QED
  BY <1>1, <1>2, <1>3, <1>4, <1>5, PTL DEF Spec, ImplementsDeadlines, Abstract!Spec
=============================================================================
