----------------------------- MODULE SemProofs -----------------------------
(***************************************************************************)
(* Semaphores lose no waiter and interrupt none, for every set of threads  *)
(* and semaphores and every first value.  The lemmas about the operations  *)
(* of module Semaphore hold for any client; the theorems of the first part *)
(* are about the most general one, module SemUsers.                        *)
(*                                                                         *)
(* The second part is about the dining philosophers of check_sync.c, for   *)
(* every number of them and of meals: no unit of a semaphore is lost or    *)
(* made up, the monitor has at most one owner, and neighbours never eat    *)
(* together.                                                               *)
(***************************************************************************)
EXTENDS SemUsers, CheckSync, KernelLemmas

InDown == {"down.schedule", "down.return"}

\* The threads asleep on a semaphore.
Waiting == {p \in Proc : state[p] = "SLEEPING" /\ wait_state[p] = "WT_KSEM"}

\* The owner of the CPU is awake, except on its way into schedule().
OwnerAwake ==
    \A p \in Proc :
      current = p /\ inside[p] \in {"no", "down.return"} => state[p] # "SLEEPING"

\* A thread inside __down waits for a semaphore or has been woken.
BlockedOK ==
    \A p \in Proc :
      /\ inside[p] \in InDown <=> downing[p] # NULL
      /\ inside[p] \in InDown => state[p] = "RUNNABLE" \/ p \in Waiting
      /\ p \in Waiting => wakeup_flags[p] = "WT_INTERRUPTED"

\* The inductive invariant: DownUninterrupted needs to know that whoever sleeps
\* inside __down sleeps there on a semaphore, so that neither do_kill nor a timer
\* wakes it; WaitQueueOK that a thread that calls down() is awake.
SemInv ==
    /\ SemTypeOK
    /\ RunQueueOK
    /\ WaitQueueOK
    /\ DownUninterrupted
    /\ OwnerAwake
    /\ BlockedOK

\* The same with the clients' own state.
IInv == SemInv /\ exiting \in [Proc -> BOOLEAN]

-----------------------------------------------------------------------------
\* Waking a thread that is not asleep in __down leaves the semaphores alone.
LEMMA WakeOutsider ==
    ASSUME SemInv, NEW p \in Proc, wakeup_proc(p), p \notin Waiting,
           UNCHANGED <<current, need_resched, sem_vars>>
    PROVE  SemInv' /\ Waiting' = Waiting
<1> USE SchedAssumption, SemAssumption DEF Thread
<1>0. /\ SemTypeOK /\ SchedTypeOK /\ RunQueueOK /\ WaitQueueOK /\ DownUninterrupted
      /\ OwnerAwake /\ BlockedOK
  BY DEF SemInv, SemTypeOK
<1>1. /\ SchedTypeOK' /\ RunQueueOK'
      /\ state' = [state EXCEPT ![p] = "RUNNABLE"]
  BY <1>0, WakeupFacts
<1>2. \A q \in Thread : q # p => wait_state'[q] = wait_state[q]
  BY <1>0, WakeupWaitState
<1>3. SemTypeOK'
  BY <1>0, <1>1 DEF SemTypeOK, sem_vars
<1>4. Waiting' = Waiting
  BY <1>0, <1>1, <1>2 DEF SchedTypeOK, Waiting
<1>5. WaitQueueOK'
  <2>1. \A q \in Proc :
          (state'[q] = "SLEEPING" /\ wait_state'[q] = "WT_KSEM")
            <=> (state[q] = "SLEEPING" /\ wait_state[q] = "WT_KSEM")
    BY <1>4 DEF Waiting
  <2>2. QED
    BY <1>0, <2>1 DEF WaitQueueOK, sem_vars
<1>6. DownUninterrupted' /\ BlockedOK'
  BY <1>0, <1>1, <1>2, <1>4 DEF DownUninterrupted, BlockedOK, InDown, SchedTypeOK, sem_vars
<1>7. OwnerAwake'
  BY <1>0, <1>1 DEF OwnerAwake, SchedTypeOK, sem_vars
<1>8. QED
  BY <1>1, <1>3, <1>4, <1>5, <1>6, <1>7 DEF SemInv

\* A thread that goes from inside[p] = loc to another place in the same call, by
\* calling schedule().
LEMMA SwitchKeeps ==
    ASSUME SemInv, NEW p \in Proc, NEW loc \in Inside, current = p, schedule,
           inside' = [inside EXCEPT ![p] = loc],
           inside[p] \in InDown <=> loc \in InDown,
           UNCHANGED <<state, wait_state, value, wait_queue, wakeup_flags, downing>>
    PROVE  SemInv' /\ Waiting' = Waiting
<1> USE SchedAssumption, SemAssumption DEF Thread
<1>0. /\ SemTypeOK /\ SchedTypeOK /\ RunQueueOK /\ WaitQueueOK /\ DownUninterrupted
      /\ OwnerAwake /\ BlockedOK
  BY DEF SemInv, SemTypeOK
<1>1. /\ SchedTypeOK' /\ RunQueueOK'
      /\ current' \in Proc => state[current'] = "RUNNABLE"
  BY <1>0, ScheduleFacts
<1>2. SemTypeOK'
  BY <1>0, <1>1 DEF SemTypeOK
<1>3. \A q \in Proc : inside'[q] \in InDown <=> inside[q] \in InDown
  BY <1>0 DEF SemTypeOK
<1>4. WaitQueueOK' /\ DownUninterrupted' /\ BlockedOK' /\ Waiting' = Waiting
  BY <1>0, <1>3 DEF WaitQueueOK, DownUninterrupted, BlockedOK, InDown, Waiting
<1>5. OwnerAwake'
  BY <1>1 DEF OwnerAwake
<1>6. QED
  BY <1>1, <1>2, <1>4, <1>5 DEF SemInv

\* A down that finds a unit.
LEMMA TakeKeeps ==
    ASSUME SemInv, NEW s \in Sem, TakeUnit(s)
    PROVE  SemInv' /\ Waiting' = Waiting
<1> USE SchedAssumption, SemAssumption DEF Thread
<1>0. /\ SemTypeOK /\ SchedTypeOK /\ RunQueueOK /\ WaitQueueOK /\ DownUninterrupted
      /\ OwnerAwake /\ BlockedOK
  BY DEF SemInv, SemTypeOK
<1>1. /\ value[s] > 0 /\ value' = [value EXCEPT ![s] = value[s] - 1]
      /\ UNCHANGED <<sched_vars, wait_queue, wakeup_flags, downing, inside>>
  BY DEF TakeUnit
<1>2. /\ value' \in [Sem -> Nat]
      /\ \A t \in Sem : value'[t] > 0 => value[t] > 0
  BY <1>0, <1>1 DEF SemTypeOK
<1>3. SemTypeOK'
  BY <1>0, <1>1, <1>2 DEF SemTypeOK, SchedTypeOK, sched_vars
<1>4. WaitQueueOK'
  BY <1>0, <1>1, <1>2 DEF WaitQueueOK, sched_vars
<1>5. /\ RunQueueOK' /\ DownUninterrupted' /\ OwnerAwake' /\ BlockedOK'
      /\ Waiting' = Waiting
  BY <1>0, <1>1 DEF RunQueueOK, DownUninterrupted, OwnerAwake, BlockedOK, Waiting, sched_vars
<1>6. QED
  BY <1>3, <1>4, <1>5 DEF SemInv

\* A down that finds none.
LEMMA WaitKeeps ==
    ASSUME SemInv, NEW p \in Proc, NEW s \in Sem, Running(p), WaitForUnit(p, s)
    PROVE  SemInv' /\ Waiting' = Waiting \cup {p} /\ p \notin Waiting
<1> USE SchedAssumption, SemAssumption DEF Thread
<1>0. /\ SemTypeOK /\ SchedTypeOK /\ RunQueueOK /\ WaitQueueOK /\ DownUninterrupted
      /\ OwnerAwake /\ BlockedOK
  BY DEF SemInv, SemTypeOK
<1>1. /\ value[s] = 0
      /\ state' = [state EXCEPT ![p] = "SLEEPING"]
      /\ wait_state' = [wait_state EXCEPT ![p] = "WT_KSEM"]
      /\ wait_queue' = [wait_queue EXCEPT ![s] = Append(wait_queue[s], p)]
      /\ wakeup_flags' = [wakeup_flags EXCEPT ![p] = "WT_INTERRUPTED"]
      /\ downing' = [downing EXCEPT ![p] = s]
      /\ inside' = [inside EXCEPT ![p] = "down.schedule"]
      /\ UNCHANGED <<run_list, current, need_resched, time_slice, value>>
  BY DEF WaitForUnit
<1>2. current = p /\ state[p] # "SLEEPING"
  BY <1>0 DEF Running, OwnerAwake
<1>3. \A t \in Sem : p \notin Range(wait_queue[t])
  BY <1>0, <1>2 DEF WaitQueueOK
<1>4. wait_queue[s] \in Seq(Proc) /\ IsInjective(wait_queue[s])
  BY <1>0 DEF SemTypeOK, WaitQueueOK
<1>5. /\ Append(wait_queue[s], p) \in Seq(Proc)
      /\ Range(Append(wait_queue[s], p)) = Range(wait_queue[s]) \cup {p}
      /\ IsInjective(Append(wait_queue[s], p))
  BY <1>3, <1>4, AppendFacts
<1>6. SchedTypeOK' /\ RunQueueOK'
  BY <1>0, <1>1, <1>2 DEF SchedTypeOK, RunQueueOK, ProcState, WaitState
<1>7. SemTypeOK'
  BY <1>0, <1>1, <1>5, <1>6 DEF SemTypeOK, Inside
<1>8. WaitQueueOK'
  <2>1. ASSUME NEW t \in Sem
        PROVE  /\ IsInjective(wait_queue'[t])
               /\ value'[t] > 0 => wait_queue'[t] = <<>>
               /\ \A q \in Proc : q \in Range(wait_queue'[t]) <=>
                    q \in Range(wait_queue[t]) \/ (q = p /\ t = s)
    <3>1. CASE t = s
      <4>1. wait_queue'[t] = Append(wait_queue[s], p)
        BY <1>0, <1>1, <3>1 DEF SemTypeOK
      <4>2. QED
        BY <1>1, <1>5, <3>1, <4>1
    <3>2. CASE t # s
      <4>1. wait_queue'[t] = wait_queue[t]
        BY <1>0, <1>1, <3>2 DEF SemTypeOK
      <4>2. QED
        BY <1>0, <1>1, <3>2, <4>1 DEF WaitQueueOK
    <3>3. QED
      BY <3>1, <3>2
  <2>2. \A q \in Proc : q # p =>
          /\ state'[q] = state[q] /\ wait_state'[q] = wait_state[q]
          /\ downing'[q] = downing[q] /\ inside'[q] = inside[q]
    BY <1>0, <1>1 DEF SemTypeOK, SchedTypeOK
  <2>3. /\ state'[p] = "SLEEPING" /\ wait_state'[p] = "WT_KSEM" /\ downing'[p] = s
        /\ inside'[p] = "down.schedule"
    BY <1>0, <1>1 DEF SemTypeOK, SchedTypeOK
  <2>4. QED
    BY <1>0, <1>2, <1>3, <2>1, <2>2, <2>3 DEF WaitQueueOK
<1>9. Waiting' = Waiting \cup {p} /\ p \notin Waiting
  BY <1>0, <1>1, <1>2 DEF Waiting, SchedTypeOK
<1>10. DownUninterrupted' /\ BlockedOK'
  BY <1>0, <1>1, <1>9 DEF DownUninterrupted, BlockedOK, InDown, SemTypeOK, SchedTypeOK
<1>11. OwnerAwake'
  BY <1>0, <1>1, <1>2 DEF OwnerAwake, SemTypeOK
<1>12. QED
  BY <1>6, <1>7, <1>8, <1>9, <1>10, <1>11 DEF SemInv

\* up() with a waiter: the first one leaves the queue, flagged and runnable.
LEMMA HandOver ==
    ASSUME SemInv, NEW s \in Sem, wait_queue[s] # <<>>, up(s)
    PROVE  /\ SemInv' /\ value' = value
           /\ \E f \in Waiting : downing[f] = s /\ Waiting' = Waiting \ {f}
<1> USE SchedAssumption, SemAssumption DEF Thread
<1> DEFINE first == Head(wait_queue[s])
<1>0. /\ SemTypeOK /\ SchedTypeOK /\ RunQueueOK /\ WaitQueueOK /\ DownUninterrupted
      /\ OwnerAwake /\ BlockedOK
  BY DEF SemInv, SemTypeOK
<1>1. /\ wait_queue' = [wait_queue EXCEPT ![s] = Tail(wait_queue[s])]
      /\ wakeup_flags' = [wakeup_flags EXCEPT ![first] = "WT_KSEM"]
      /\ wakeup_proc(first)
      /\ UNCHANGED <<value, current, need_resched, downing, inside>>
  BY DEF up
<1>2. wait_queue[s] \in Seq(Proc) /\ IsInjective(wait_queue[s])
  BY <1>0 DEF SemTypeOK, WaitQueueOK
<1>3. /\ first \in Proc /\ first \in Range(wait_queue[s])
      /\ Tail(wait_queue[s]) \in Seq(Proc) /\ IsInjective(Tail(wait_queue[s]))
      /\ Range(wait_queue[s]) = Range(Tail(wait_queue[s])) \cup {first}
      /\ first \notin Range(Tail(wait_queue[s]))
  BY <1>2, TailFacts
<1>4. state[first] = "SLEEPING" /\ wait_state[first] = "WT_KSEM" /\ downing[first] = s
  BY <1>0, <1>3 DEF WaitQueueOK
<1> HIDE DEF first
<1>5. /\ SchedTypeOK' /\ RunQueueOK'
      /\ state' = [state EXCEPT ![first] = "RUNNABLE"]
  BY <1>0, <1>1, <1>3, WakeupFacts
<1>6. \A q \in Thread : q # first => wait_state'[q] = wait_state[q]
  BY <1>0, <1>1, <1>3, WakeupWaitState
<1>7. SemTypeOK'
  BY <1>0, <1>1, <1>3, <1>5 DEF SemTypeOK
<1>8. first \in Waiting /\ Waiting' = Waiting \ {first}
  <2>1. /\ state \in [Thread -> ProcState] /\ first \in Proc /\ Proc \subseteq Thread
        /\ state'[first] = "RUNNABLE" /\ \A q \in Proc : q # first => state'[q] = state[q]
    BY <1>0, <1>3, <1>5 DEF SchedTypeOK, SemTypeOK, Thread
  <2>2. first \in Waiting /\ \A q \in Proc : q # first => (q \in Waiting' <=> q \in Waiting)
    BY <1>4, <1>6, <2>1 DEF Waiting
  <2>3. first \notin Waiting'
    BY <2>1 DEF Waiting
  <2>4. QED
    BY <2>2, <2>3 DEF Waiting
<1>9. WaitQueueOK'
  <2>1. ASSUME NEW t \in Sem
        PROVE  /\ IsInjective(wait_queue'[t])
               /\ value'[t] > 0 => wait_queue'[t] = <<>>
               /\ \A q \in Proc : q \in Range(wait_queue'[t]) <=>
                    q \in Range(wait_queue[t]) /\ q # first
    <3>1. CASE t = s
      <4>1. wait_queue'[t] = Tail(wait_queue[s])
        BY <1>0, <1>1, <3>1 DEF SemTypeOK
      <4>2. ~(value[t] > 0)
        BY <1>0, <3>1 DEF WaitQueueOK
      <4>3. QED
        BY <1>1, <1>3, <3>1, <4>1, <4>2
    <3>2. CASE t # s
      <4>1. wait_queue'[t] = wait_queue[t]
        BY <1>0, <1>1, <3>2 DEF SemTypeOK
      <4>2. first \notin Range(wait_queue[t])
        BY <1>0, <1>3, <1>4, <3>2 DEF WaitQueueOK
      <4>3. QED
        BY <1>0, <1>1, <4>1, <4>2 DEF WaitQueueOK
    <3>3. QED
      BY <3>1, <3>2
  <2>2. \A q \in Proc :
          (state'[q] = "SLEEPING" /\ wait_state'[q] = "WT_KSEM")
            <=> (q # first /\ state[q] = "SLEEPING" /\ wait_state[q] = "WT_KSEM")
    BY <1>8 DEF Waiting
  <2>3. QED
    BY <1>0, <1>1, <2>1, <2>2 DEF WaitQueueOK
<1>10. DownUninterrupted' /\ BlockedOK'
  BY <1>0, <1>1, <1>3, <1>5, <1>6, <1>8
     DEF DownUninterrupted, BlockedOK, InDown, SemTypeOK, SchedTypeOK
<1>11. OwnerAwake'
  BY <1>0, <1>1, <1>5 DEF OwnerAwake, SchedTypeOK
<1>12. QED
  BY <1>1, <1>4, <1>5, <1>7, <1>8, <1>9, <1>10, <1>11 DEF SemInv

\* up(): the unit is handed to a waiter, or added to the value if nobody waits.
LEMMA UpKeeps ==
    ASSUME SemInv, NEW s \in Sem, up(s)
    PROVE  /\ SemInv'
           /\ \/ /\ \A q \in Waiting : downing[q] # s
                 /\ value' = [value EXCEPT ![s] = value[s] + 1] /\ Waiting' = Waiting
              \/ /\ value' = value
                 /\ \E f \in Waiting : downing[f] = s /\ Waiting' = Waiting \ {f}
<1> USE SchedAssumption, SemAssumption DEF Thread
<1>0. /\ SemTypeOK /\ SchedTypeOK /\ RunQueueOK /\ WaitQueueOK /\ DownUninterrupted
      /\ OwnerAwake /\ BlockedOK
  BY DEF SemInv, SemTypeOK
<1>1. CASE wait_queue[s] = <<>>
  <2>1. /\ value' = [value EXCEPT ![s] = value[s] + 1]
        /\ UNCHANGED <<sched_vars, wait_queue, wakeup_flags, downing, inside>>
    BY <1>1 DEF up, sched_vars
  <2>2. SemTypeOK'
    BY <1>0, <2>1 DEF SemTypeOK, SchedTypeOK, sched_vars
  <2>3. WaitQueueOK'
    <3>1. \A t \in Sem : value'[t] > 0 => wait_queue[t] = <<>>
      BY <1>0, <1>1, <2>1 DEF WaitQueueOK, SemTypeOK
    <3>2. QED
      BY <1>0, <2>1, <3>1 DEF WaitQueueOK, sched_vars
  <2>4. /\ RunQueueOK' /\ DownUninterrupted' /\ OwnerAwake' /\ BlockedOK'
        /\ Waiting' = Waiting
    BY <1>0, <2>1 DEF RunQueueOK, DownUninterrupted, OwnerAwake, BlockedOK, Waiting,
                      sched_vars
  <2>5. \A q \in Waiting : downing[q] # s
    <3>1. Range(wait_queue[s]) = {}
      BY <1>1 DEF Range
    <3>2. QED
      BY <1>0, <3>1 DEF WaitQueueOK, Waiting
  <2>6. QED
    BY <2>1, <2>2, <2>3, <2>4, <2>5 DEF SemInv
<1>2. CASE wait_queue[s] # <<>>
  BY <1>2, HandOver
<1>3. QED
  BY <1>1, <1>2

\* The owner of the CPU goes to sleep for a while.
LEMMA SleepKeeps ==
    ASSUME SemInv, NEW p \in Proc, Running(p), do_sleep(p)
    PROVE  SemInv' /\ Waiting' = Waiting
<1> USE SchedAssumption, SemAssumption DEF Thread
<1>0. /\ SemTypeOK /\ SchedTypeOK /\ RunQueueOK /\ WaitQueueOK /\ DownUninterrupted
      /\ OwnerAwake /\ BlockedOK
  BY DEF SemInv, SemTypeOK
<1>1. /\ current = p /\ inside[p] = "no"
      /\ state' = [state EXCEPT ![p] = "SLEEPING"]
      /\ wait_state' = [wait_state EXCEPT ![p] = "WT_TIMER"]
      /\ inside' = [inside EXCEPT ![p] = "sleep.schedule"]
      /\ UNCHANGED <<run_list, current, need_resched, time_slice, value, wait_queue,
                     wakeup_flags, downing>>
  BY DEF Running, do_sleep
<1>2. state[p] # "SLEEPING" /\ \A t \in Sem : p \notin Range(wait_queue[t])
  BY <1>0, <1>1 DEF OwnerAwake, WaitQueueOK
<1>3. SchedTypeOK' /\ RunQueueOK'
  BY <1>0, <1>1, <1>2 DEF SchedTypeOK, RunQueueOK, ProcState, WaitState
<1>4. SemTypeOK'
  BY <1>0, <1>1, <1>3 DEF SemTypeOK, Inside
<1>5. Waiting' = Waiting
  BY <1>0, <1>1, <1>2 DEF SchedTypeOK, Waiting
<1>6. \A q \in Proc : inside'[q] \in InDown <=> inside[q] \in InDown
  BY <1>0, <1>1 DEF SemTypeOK, InDown
<1>7. WaitQueueOK'
  <2>1. \A q \in Proc :
          (state'[q] = "SLEEPING" /\ wait_state'[q] = "WT_KSEM")
            <=> (state[q] = "SLEEPING" /\ wait_state[q] = "WT_KSEM")
    BY <1>5 DEF Waiting
  <2>2. QED
    BY <1>0, <1>1, <1>6, <2>1 DEF WaitQueueOK, InDown
<1>8. DownUninterrupted' /\ BlockedOK' /\ OwnerAwake'
  BY <1>0, <1>1, <1>5, <1>6 DEF DownUninterrupted, BlockedOK, OwnerAwake, InDown,
                                SemTypeOK, SchedTypeOK
<1>9. QED
  BY <1>3, <1>4, <1>5, <1>7, <1>8 DEF SemInv

\* down() returns: its caller has left the queue already.
LEMMA ReturnKeeps ==
    ASSUME SemInv, NEW p \in Proc, DownReturn(p)
    PROVE  SemInv' /\ Waiting' = Waiting /\ p \notin Waiting
<1> USE SchedAssumption, SemAssumption DEF Thread
<1>0. /\ SemTypeOK /\ SchedTypeOK /\ RunQueueOK /\ WaitQueueOK /\ DownUninterrupted
      /\ OwnerAwake /\ BlockedOK
  BY DEF SemInv, SemTypeOK
<1>1. /\ current = p /\ inside[p] = "down.return"
      /\ wait_queue' = Unqueued(p, downing[p])
      /\ downing' = [downing EXCEPT ![p] = NULL]
      /\ inside' = [inside EXCEPT ![p] = "no"]
      /\ UNCHANGED <<sched_vars, value, wakeup_flags>>
  BY DEF DownReturn
<1>2. state[p] # "SLEEPING" /\ downing[p] \in Sem
  BY <1>0, <1>1 DEF OwnerAwake, BlockedOK, InDown, SemTypeOK
<1>3. \A t \in Sem : p \notin Range(wait_queue[t])
  BY <1>0, <1>2 DEF WaitQueueOK
<1>4. wait_queue' = wait_queue
  BY <1>1, <1>2, <1>3 DEF Unqueued
<1>5. SemTypeOK' /\ RunQueueOK' /\ Waiting' = Waiting /\ p \notin Waiting
  BY <1>0, <1>1, <1>2, <1>4 DEF SemTypeOK, SchedTypeOK, RunQueueOK, sched_vars, Inside,
                                Waiting
<1>6. WaitQueueOK'
  <2>1. \A q \in Proc : state[q] = "SLEEPING" => /\ downing'[q] = downing[q]
                                                /\ inside'[q] = inside[q]
    BY <1>0, <1>1, <1>2 DEF SemTypeOK
  <2>2. QED
    BY <1>0, <1>1, <1>2, <1>4, <2>1 DEF WaitQueueOK, sched_vars
<1>7. DownUninterrupted' /\ BlockedOK' /\ OwnerAwake'
  BY <1>0, <1>1, <1>2, <1>5 DEF DownUninterrupted, BlockedOK, OwnerAwake, InDown, SemTypeOK,
                                sched_vars
<1>8. QED
  BY <1>5, <1>6, <1>7 DEF SemInv

\* The idle loop gives the CPU away, a tick charges its owner.
LEMMA ClockKeeps ==
    ASSUME SemInv, IdleLoop \/ Tick
    PROVE  SemInv' /\ Waiting' = Waiting
<1> USE SchedAssumption, SemAssumption DEF Thread
<1>0. /\ SemTypeOK /\ SchedTypeOK /\ RunQueueOK /\ WaitQueueOK /\ DownUninterrupted
      /\ OwnerAwake /\ BlockedOK
  BY DEF SemInv, SemTypeOK
<1>1. UNCHANGED <<state, wait_state, sem_vars>>
  BY DEF IdleLoop, Tick
<1>2. SchedTypeOK' /\ RunQueueOK' /\ OwnerAwake'
  <2>1. CASE IdleLoop
    <3>1. schedule
      BY <2>1 DEF IdleLoop
    <3>2. /\ SchedTypeOK' /\ RunQueueOK'
          /\ current' \in Proc => state[current'] = "RUNNABLE"
      BY <1>0, <1>1, <3>1, ScheduleFacts
    <3>3. QED
      BY <1>1, <3>2 DEF OwnerAwake
  <2>2. CASE Tick
    <3>1. sched_class_proc_tick /\ UNCHANGED <<run_list, current>>
      BY <2>2 DEF Tick
    <3>2. SchedTypeOK' /\ RunQueueOK'
      BY <1>0, <1>1, <3>1, TickFacts
    <3>3. QED
      BY <1>0, <1>1, <3>1, <3>2 DEF OwnerAwake, sem_vars
  <2>3. QED
    BY <2>1, <2>2
<1>3. SemTypeOK'
  BY <1>0, <1>1, <1>2 DEF SemTypeOK, sem_vars
<1>4. WaitQueueOK' /\ DownUninterrupted' /\ BlockedOK' /\ Waiting' = Waiting
  BY <1>0, <1>1 DEF WaitQueueOK, DownUninterrupted, BlockedOK, Waiting, sem_vars
<1>5. QED
  BY <1>2, <1>3, <1>4 DEF SemInv

\* The calls of schedule() in down and do_sleep, and the end of a sleep.
LEMMA BlockedKeeps ==
    ASSUME SemInv, NEW p \in Proc, DownSwitch(p) \/ SleepSwitch(p) \/ TimerExpires(p)
    PROVE  SemInv' /\ Waiting' = Waiting
<1>1. CASE DownSwitch(p)
  BY <1>1, SwitchKeeps DEF DownSwitch, Inside, InDown
<1>2. CASE SleepSwitch(p)
  BY <1>2, SwitchKeeps DEF SleepSwitch, Inside, InDown
<1>3. CASE TimerExpires(p)
  BY <1>3, WakeOutsider DEF TimerExpires, Waiting
<1>4. QED
  BY <1>1, <1>2, <1>3

\* A step that touches neither the scheduler nor the semaphores.
LEMMA NothingChanges ==
    ASSUME SemInv, UNCHANGED <<sched_vars, sem_vars>>
    PROVE  SemInv' /\ Waiting' = Waiting
BY DEF SemInv, SemTypeOK, SchedTypeOK, RunQueueOK, WaitQueueOK, DownUninterrupted,
       OwnerAwake, BlockedOK, Waiting, sched_vars, sem_vars

-----------------------------------------------------------------------------
\* The invariant holds before any thread exists.
LEMMA InitIInv == UsersInit => IInv
<1> SUFFICES ASSUME UsersInit PROVE IInv
  OBVIOUS
<1> USE SchedAssumption, SemAssumption DEF Thread, UsersInit, SemInitial
<1>1. SemTypeOK /\ exiting \in [Proc -> BOOLEAN]
  BY DEF SemTypeOK, SchedTypeOK, ProcState, WaitState, Inside
<1>2. /\ Range(run_list) = {} /\ IsInjective(run_list)
      /\ \A s \in Sem : Range(wait_queue[s]) = {} /\ IsInjective(wait_queue[s])
  BY DEF Range, IsInjective
<1>3. QED
  BY <1>1, <1>2 DEF IInv, SemInv, RunQueueOK, WaitQueueOK, DownUninterrupted, OwnerAwake,
                    BlockedOK, InDown, Waiting

\* One step per action.
LEMMA NextIInv == IInv /\ [UsersNext]_user_vars => IInv'
<1> SUFFICES ASSUME IInv, [UsersNext]_user_vars PROVE IInv'
  OBVIOUS
<1> USE DEF IInv
<1>1. ASSUME NEW p \in Proc, Fork(p) PROVE IInv'
  BY <1>1, WakeOutsider DEF Fork, Create, Waiting
<1>2. ASSUME NEW p \in Proc, NEW s \in Sem, Down(p, s) PROVE IInv'
  BY <1>2, TakeKeeps, WaitKeeps DEF Down, down
<1>3. ASSUME NEW p \in Proc, NEW s \in Sem, Up(p, s) PROVE IInv'
  BY <1>3, UpKeeps DEF Up
<1>4. ASSUME NEW p \in Proc, NEW s \in Sem, try_down(p, s) PROVE IInv'
  BY <1>4, TakeKeeps DEF try_down
<1>5. ASSUME NEW p \in Proc, Sleep(p) PROVE IInv'
  BY <1>5, SleepKeeps DEF Sleep
<1>6. ASSUME NEW p \in Proc, NEW q \in Proc, do_kill(p, q) PROVE IInv'
  <2> DEFINE found == state[q] # "UNINIT" /\ ~exiting[q]
  <2>1. /\ exiting' \in [Proc -> BOOLEAN]
        /\ UNCHANGED <<current, need_resched, sem_vars>>
    BY <1>6 DEF do_kill
  <2>2. CASE found /\ wait_state[q] \in WT_INTERRUPTED
    <3>1. wakeup_proc(q) /\ q \notin Waiting
      BY <1>6, <2>2 DEF do_kill, WT_INTERRUPTED, Waiting
    <3>2. QED
      BY <2>1, <3>1, WakeOutsider
  <2>3. CASE ~(found /\ wait_state[q] \in WT_INTERRUPTED)
    <3>1. UNCHANGED <<sched_vars, sem_vars>>
      BY <1>6, <2>1, <2>3 DEF do_kill, sched_vars
    <3>2. QED
      BY <2>1, <3>1, NothingChanges
  <2>4. QED
    BY <2>2, <2>3
<1>7. ASSUME NEW p \in Proc, DownReturn(p), UNCHANGED exiting PROVE IInv'
  BY <1>7, ReturnKeeps
<1>8. ASSUME NEW p \in Proc, DownSwitch(p) \/ SleepSwitch(p) \/ TimerExpires(p),
             UNCHANGED exiting
      PROVE  IInv'
  BY <1>8, BlockedKeeps
<1>9. CASE (IdleLoop \/ Tick) /\ UNCHANGED exiting
  BY <1>9, ClockKeeps
<1>10. CASE UNCHANGED user_vars
  BY <1>10, NothingChanges DEF user_vars
<1> HIDE DEF IInv
<1>11. QED
  BY <1>1, <1>2, <1>3, <1>4, <1>5, <1>6, <1>7, <1>8, <1>9, <1>10 DEF UsersNext, Step

-----------------------------------------------------------------------------
\* The inductive invariant holds in every reachable state.
THEOREM SemInvariant == UsersSpec => []IInv
<1>1. QED
  BY InitIInv, NextIInv, PTL DEF UsersSpec

\* Type correctness of the scheduler and of the semaphores.
THEOREM SemTypeCorrect == UsersSpec => []UsersTypeOK
<1>1. IInv => UsersTypeOK
  BY DEF IInv, SemInv, UsersTypeOK
<1>2. QED
  BY SemInvariant, <1>1, PTL

\* No waiter is lost: the wait queues hold exactly the threads asleep on the
\* semaphore, and nobody waits while there is a unit (the assertion of __up).
THEOREM WaitQueueCorrect == UsersSpec => []WaitQueueOK
<1>1. IInv => WaitQueueOK
  BY DEF IInv, SemInv
<1>2. QED
  BY SemInvariant, <1>1, PTL

\* down() returns only with a unit (its assertion flags == 0).
THEOREM DownGetsUnit == UsersSpec => []DownUninterrupted
<1>1. IInv => DownUninterrupted
  BY DEF IInv, SemInv
<1>2. QED
  BY SemInvariant, <1>1, PTL

-----------------------------------------------------------------------------
(***************************************************************************)
(* Refinement: a down that finds a unit takes it, one that does not draws  *)
(* a number; up() calls the next number, down() returns when its own was   *)
(* called; every other step is invisible.                                  *)
(***************************************************************************)
Balance == [s \in Sem |-> value[s] - Len(wait_queue[s])]

Turns == [p \in Proc |-> Turn(p)]

\* Turn(p) is where p stands in the one queue that has it.
TurnOK ==
    \A p \in Proc :
      /\ \A s \in Sem : p \in Range(wait_queue[s]) =>
           Turn(p) \in 1 .. Len(wait_queue[s]) /\ wait_queue[s][Turn(p)] = p
      /\ (\A s \in Sem : p \notin Range(wait_queue[s])) => Turn(p) = 0

\* Turn is well defined: a waiter is in one queue, once.
LEMMA TurnFacts == IInv => TurnOK
<1> SUFFICES ASSUME IInv, NEW p \in Proc
             PROVE  /\ \A s \in Sem : p \in Range(wait_queue[s]) =>
                         Turn(p) \in 1 .. Len(wait_queue[s]) /\ wait_queue[s][Turn(p)] = p
                    /\ (\A s \in Sem : p \notin Range(wait_queue[s])) => Turn(p) = 0
  BY DEF TurnOK
<1>1. ASSUME NEW s \in Sem, p \in Range(wait_queue[s])
      PROVE  Turn(p) \in 1 .. Len(wait_queue[s]) /\ wait_queue[s][Turn(p)] = p
  <2>1. downing[p] = s
    BY <1>1 DEF IInv, SemInv, WaitQueueOK
  <2>2. \E i \in 1 .. Len(wait_queue[s]) : wait_queue[s][i] = p
    BY <1>1, RangeFacts DEF IInv, SemInv, SemTypeOK
  <2>3. Turn(p) = CHOOSE i \in 1 .. Len(wait_queue[s]) : wait_queue[s][i] = p
    BY <1>1, <2>1 DEF Turn
  <2>4. QED
    BY <2>2, <2>3
<1>2. QED
  BY <1>1 DEF Turn

\* A change of one semaphore's balance.
LEMMA BalanceMoves ==
    ASSUME NEW s \in Sem, NEW n,
           \A t \in Sem : value'[t] - Len(wait_queue'[t]) = IF t = s THEN n ELSE Balance[t]
    PROVE  Balance' = [Balance EXCEPT ![s] = n]
<1>1. Balance' = [t \in Sem |-> value'[t] - Len(wait_queue'[t])]
  BY DEF Balance
<1>2. DOMAIN Balance = Sem
  BY DEF Balance
<1>3. [Balance EXCEPT ![s] = n] = [t \in Sem |-> IF t = s THEN n ELSE Balance[t]]
  BY <1>2
<1>4. QED
  BY <1>1, <1>3

\* A waiter whose queue does not change keeps its turn.
LEMMA TurnKept ==
    ASSUME IInv, TurnOK, TurnOK', NEW q \in Proc, NEW t \in Sem,
           q \in Range(wait_queue[t]), wait_queue'[t] = wait_queue[t]
    PROVE  Turn(q)' = Turn(q)
<1>1. Turn(q) \in 1 .. Len(wait_queue[t]) /\ wait_queue[t][Turn(q)] = q
  BY DEF TurnOK
<1>2. Turn(q)' \in 1 .. Len(wait_queue[t]) /\ wait_queue[t][Turn(q)'] = q
  BY DEF TurnOK
<1>3. IsInjective(wait_queue[t]) /\ DOMAIN wait_queue[t] = 1 .. Len(wait_queue[t])
  BY LenProperties DEF IInv, SemInv, WaitQueueOK, SemTypeOK
<1>4. QED
  BY <1>1, <1>2, <1>3 DEF IsInjective

\* The same queues: the same turns.
LEMMA TurnsKept ==
    ASSUME IInv, TurnOK, TurnOK', UNCHANGED wait_queue
    PROVE  Turns' = Turns
<1>1. ASSUME NEW p \in Proc PROVE Turn(p)' = Turn(p)
  <2>1. CASE \E s \in Sem : p \in Range(wait_queue[s])
    BY <2>1, TurnKept
  <2>2. CASE \A s \in Sem : p \notin Range(wait_queue[s])
    BY <2>2 DEF TurnOK
  <2>3. QED
    BY <2>1, <2>2
<1>2. QED
  BY <1>1 DEF Turns

\* Nobody holds a number at the start.
LEMMA InitTickets == UsersInit => Abstract!Init
<1> SUFFICES ASSUME UsersInit PROVE Abstract!Init
  OBVIOUS
<1>1. \A s \in Sem : Range(wait_queue[s]) = {} /\ Len(wait_queue[s]) = 0
  BY DEF UsersInit, SemInitial, Range
<1>2. Balance = SemInit
  BY <1>1, SemAssumption DEF Balance, UsersInit, SemInitial
<1>3. Turns = [p \in Proc |-> 0]
  BY <1>1 DEF Turns, Turn
<1>4. QED
  BY <1>2, <1>3 DEF UsersInit, SemInitial, Abstract!Init, Balance, Turns

\* A down or try_down that finds a unit.
LEMMA TakeIsTake ==
    ASSUME IInv, TurnOK, TurnOK', NEW s \in Sem, TakeUnit(s)
    PROVE  Abstract!Take(s)
<1>1. /\ value[s] > 0 /\ value' = [value EXCEPT ![s] = value[s] - 1]
      /\ UNCHANGED <<wait_queue, downing>>
  BY DEF TakeUnit
<1>2. value \in [Sem -> Nat] /\ wait_queue \in [Sem -> Seq(Proc)]
  BY DEF IInv, SemInv, SemTypeOK
<1>3. \A t \in Sem : Len(wait_queue[t]) \in Nat
  BY <1>2, LenProperties
<1>4. Len(wait_queue[s]) = 0
  BY <1>1 DEF IInv, SemInv, WaitQueueOK
<1>5. Balance[s] > 0
  BY <1>1, <1>2, <1>4 DEF Balance
<1>6. Balance' = [Balance EXCEPT ![s] = Balance[s] - 1]
  <2>1. \A t \in Sem : value'[t] - Len(wait_queue'[t])
                        = IF t = s THEN Balance[s] - 1 ELSE Balance[t]
    BY <1>1, <1>2, <1>3 DEF Balance
  <2>2. QED
    BY <2>1, BalanceMoves
<1>7. Turns' = Turns
  BY <1>1, TurnsKept
<1>8. QED
  BY <1>1, <1>5, <1>6, <1>7 DEF Abstract!Take, Balance, Turns

\* A down that waits.
LEMMA WaitIsWait ==
    ASSUME IInv, IInv', TurnOK, TurnOK', NEW p \in Proc, NEW s \in Sem, Running(p),
           WaitForUnit(p, s)
    PROVE  Abstract!Wait(p, s)
<1>1. /\ value[s] = 0 /\ value' = value
      /\ wait_queue' = [wait_queue EXCEPT ![s] = Append(wait_queue[s], p)]
      /\ downing' = [downing EXCEPT ![p] = s]
  BY DEF WaitForUnit
<1>2. /\ value \in [Sem -> Nat] /\ wait_queue \in [Sem -> Seq(Proc)]
      /\ downing \in [Proc -> Sem \cup {NULL}]
  BY DEF IInv, SemInv, SemTypeOK
<1>3. downing[p] = NULL /\ state[p] # "SLEEPING"
  BY DEF IInv, SemInv, BlockedOK, InDown, OwnerAwake, Running
<1>4. \A t \in Sem : p \notin Range(wait_queue[t])
  BY <1>3 DEF IInv, SemInv, WaitQueueOK
<1> DEFINE n == Len(wait_queue[s])
<1>5. /\ \A t \in Sem : Len(wait_queue[t]) \in Nat
      /\ wait_queue'[s] = Append(wait_queue[s], p)
      /\ Len(wait_queue'[s]) = n + 1
      /\ \A i \in 1 .. n : wait_queue'[s][i] = wait_queue[s][i]
      /\ wait_queue'[s][n + 1] = p
      /\ Range(wait_queue'[s]) = Range(wait_queue[s]) \cup {p}
      /\ DOMAIN wait_queue'[s] = 1 .. n + 1
  <2>1. wait_queue[s] \in Seq(Proc) /\ wait_queue'[s] = Append(wait_queue[s], p)
    BY <1>1, <1>2
  <2>2. QED
    BY <1>2, <2>1, LenProperties, AppendProperties, AppendFacts
<1>6. \A t \in Sem : t # s => wait_queue'[t] = wait_queue[t]
  BY <1>1, <1>2
<1>7. Balance[s] = 0 - n /\ Balance' = [Balance EXCEPT ![s] = Balance[s] - 1]
  <2>1. Balance[s] = 0 - n
    BY <1>1 DEF Balance
  <2>2. \A t \in Sem : value'[t] - Len(wait_queue'[t])
                        = IF t = s THEN Balance[s] - 1 ELSE Balance[t]
    BY <1>1, <1>2, <1>5, <1>6 DEF Balance
  <2>3. QED
    BY <2>1, <2>2, BalanceMoves
<1>8. IsInjective(wait_queue'[s])
  BY DEF IInv, SemInv, WaitQueueOK
<1>9. Turn(p)' = 1 - Balance[s]
  <2>1. p \in Range(wait_queue'[s])
    BY <1>5
  <2>2. Turn(p)' \in 1 .. n + 1 /\ wait_queue'[s][Turn(p)'] = p
    BY <1>5, <2>1 DEF TurnOK
  <2>3. n + 1 \in 1 .. n + 1 /\ n \in Nat
    BY <1>5
  <2>4. Turn(p)' = n + 1
    BY <1>5, <1>8, <2>2, <2>3 DEF IsInjective
  <2>5. QED
    BY <1>5, <1>7, <2>4
<1>10. ASSUME NEW q \in Proc, q # p PROVE Turn(q)' = Turn(q)
  <2>1. CASE q \in Range(wait_queue[s])
    <3>1. Turn(q)' \in 1 .. n + 1 /\ wait_queue'[s][Turn(q)'] = q
      BY <1>5, <2>1 DEF TurnOK
    <3>2. Turn(q) \in 1 .. n /\ wait_queue[s][Turn(q)] = q
      BY <2>1 DEF TurnOK
    <3>3. wait_queue'[s][Turn(q)] = q /\ Turn(q) \in 1 .. n + 1
      BY <1>5, <3>2
    <3>4. QED
      BY <1>5, <1>8, <3>1, <3>3 DEF IsInjective
  <2>2. CASE \E t \in Sem : t # s /\ q \in Range(wait_queue[t])
    <3>1. PICK t \in Sem : t # s /\ q \in Range(wait_queue[t])
      BY <2>2
    <3>2. QED
      BY <1>6, <3>1, TurnKept
  <2>3. CASE \A t \in Sem : q \notin Range(wait_queue[t])
    <3>1. \A t \in Sem : q \notin Range(wait_queue'[t])
      BY <1>5, <1>6, <1>10, <2>3
    <3>2. QED
      BY <2>3, <3>1 DEF TurnOK
  <2>4. QED
    BY <2>1, <2>2, <2>3
<1>11. Turns' = [Turns EXCEPT ![p] = 1 - Balance[s]]
  BY <1>9, <1>10 DEF Turns
<1>12. Balance[s] <= 0
  BY <1>5, <1>7
<1>13. QED
  BY <1>1, <1>3, <1>7, <1>11, <1>12 DEF Abstract!Wait, Balance, Turns

\* up() calls the next number: the first waiter's turn has come, the others move
\* up by one.
LEMMA UpIsUp ==
    ASSUME IInv, TurnOK, TurnOK', NEW s \in Sem, up(s)
    PROVE  Abstract!Up(s)
<1>1. /\ value \in [Sem -> Nat] /\ wait_queue \in [Sem -> Seq(Proc)]
      /\ downing' = downing
  BY DEF IInv, SemInv, SemTypeOK, up
<1> DEFINE Next1(q) == IF downing[q] = s /\ Turns[q] > 0 THEN Turns[q] - 1 ELSE Turns[q]
           n == Len(wait_queue[s])
<1>2. \A t \in Sem : Len(wait_queue[t]) \in Nat
  BY <1>1, LenProperties
<1>3. /\ \A q \in Proc : Turns[q] = Turn(q)
      /\ \A q \in Proc : \A t \in Sem : q \in Range(wait_queue[t]) => downing[q] = t
  BY DEF Turns, IInv, SemInv, WaitQueueOK
<1>4. CASE wait_queue[s] = <<>>
  <2>1. value' = [value EXCEPT ![s] = value[s] + 1] /\ wait_queue' = wait_queue
    BY <1>4 DEF up
  <2>2. Balance' = [Balance EXCEPT ![s] = Balance[s] + 1]
    <3>1. \A t \in Sem : value'[t] - Len(wait_queue'[t])
                          = IF t = s THEN Balance[s] + 1 ELSE Balance[t]
      BY <1>1, <1>2, <2>1 DEF Balance
    <3>2. QED
      BY <3>1, BalanceMoves
  <2>3. Turns' = Turns
    BY <2>1, TurnsKept
  <2>4. ASSUME NEW q \in Proc, downing[q] = s PROVE ~(Turns[q] > 0)
    <3>1. Range(wait_queue[s]) = {}
      BY <1>4 DEF Range
    <3>2. \A t \in Sem : q \notin Range(wait_queue[t])
      BY <1>3, <2>4, <3>1
    <3>3. QED
      BY <1>3, <3>2 DEF TurnOK
  <2>5. Turns' = [q \in Proc |-> Next1(q)]
    <3>1. \A q \in Proc : Next1(q) = Turns[q]
      BY <2>4
    <3>2. QED
      BY <2>3, <3>1 DEF Turns
  <2>6. QED
    BY <1>1, <2>2, <2>5 DEF Abstract!Up, Balance, Turns
<1>5. CASE wait_queue[s] # <<>>
  <2>1. wait_queue' = [wait_queue EXCEPT ![s] = Tail(wait_queue[s])] /\ value' = value
    BY <1>5 DEF up
  <2>2. wait_queue[s] \in Seq(Proc) /\ IsInjective(wait_queue[s])
    BY <1>1 DEF IInv, SemInv, WaitQueueOK
  <2>3. /\ wait_queue'[s] = Tail(wait_queue[s])
        /\ \A t \in Sem : t # s => wait_queue'[t] = wait_queue[t]
    BY <1>1, <2>1
  <2>4. /\ n \in Nat \ {0} /\ DOMAIN wait_queue[s] = 1 .. n
        /\ Len(wait_queue'[s]) = n - 1
        /\ \A i \in 1 .. n - 1 : wait_queue'[s][i] = wait_queue[s][i + 1]
        /\ wait_queue[s][1] = Head(wait_queue[s])
        /\ Range(wait_queue[s]) = Range(wait_queue'[s]) \cup {Head(wait_queue[s])}
        /\ Head(wait_queue[s]) \notin Range(wait_queue'[s])
    BY <1>5, <2>2, <2>3, HeadTailProperties, LenProperties, EmptySeq, TailFacts
  <2>5. Balance' = [Balance EXCEPT ![s] = Balance[s] + 1]
    <3>1. \A t \in Sem : value'[t] - Len(wait_queue'[t])
                          = IF t = s THEN Balance[s] + 1 ELSE Balance[t]
      BY <1>1, <1>2, <2>1, <2>3, <2>4 DEF Balance
    <3>2. QED
      BY <3>1, BalanceMoves
  <2>6. ASSUME NEW q \in Proc PROVE Turn(q)' = Next1(q)
    <3>1. CASE q \in Range(wait_queue[s])
      <4>1. Turn(q) \in 1 .. n /\ wait_queue[s][Turn(q)] = q /\ downing[q] = s
        BY <1>3, <3>1 DEF TurnOK
      <4>2. Next1(q) = Turn(q) - 1
        BY <1>3, <4>1
      <4>3. CASE q \in Range(wait_queue'[s])
        <5>1. Turn(q)' \in 1 .. n - 1 /\ wait_queue'[s][Turn(q)'] = q
          BY <2>4, <4>3 DEF TurnOK
        <5>2. Turn(q)' + 1 \in 1 .. n /\ wait_queue[s][Turn(q)' + 1] = q
          BY <2>4, <5>1
        <5>3. Turn(q)' + 1 = Turn(q)
          BY <2>2, <2>4, <4>1, <5>2 DEF IsInjective
        <5>4. QED
          BY <4>2, <5>1, <5>3
      <4>4. CASE q \notin Range(wait_queue'[s])
        <5>1. q = wait_queue[s][1] /\ 1 \in 1 .. n
          BY <2>4, <3>1, <4>4
        <5>2. Turn(q) = 1
          BY <2>2, <2>4, <4>1, <5>1 DEF IsInjective
        <5>3. \A t \in Sem : q \notin Range(wait_queue'[t])
          BY <1>3, <2>3, <3>1, <4>4
        <5>4. Turn(q)' = 0
          BY <5>3 DEF TurnOK
        <5>5. QED
          BY <4>2, <5>2, <5>4
      <4>5. QED
        BY <4>3, <4>4
    <3>2. CASE \E t \in Sem : t # s /\ q \in Range(wait_queue[t])
      <4>1. PICK t \in Sem : t # s /\ q \in Range(wait_queue[t])
        BY <3>2
      <4>2. Turn(q)' = Turn(q)
        BY <2>3, <4>1, TurnKept
      <4>3. QED
        BY <1>3, <4>1, <4>2
    <3>3. CASE \A t \in Sem : q \notin Range(wait_queue[t])
      <4>1. \A t \in Sem : q \notin Range(wait_queue'[t])
        BY <2>3, <2>4, <3>3
      <4>2. Turn(q) = 0 /\ Turn(q)' = 0
        BY <3>3, <4>1 DEF TurnOK
      <4>3. QED
        BY <1>3, <4>2
    <3>4. QED
      BY <3>1, <3>2, <3>3
  <2>7. Turns' = [q \in Proc |-> Next1(q)]
    BY <2>6 DEF Turns
  <2>8. QED
    BY <1>1, <2>5, <2>7 DEF Abstract!Up, Balance, Turns
<1>6. QED
  BY <1>4, <1>5

\* down() returns when its number has been called.
LEMMA ReturnIsGo ==
    ASSUME IInv, TurnOK, TurnOK', NEW p \in Proc, DownReturn(p)
    PROVE  Abstract!Go(p)
<1>1. /\ current = p /\ inside[p] = "down.return"
      /\ wait_queue' = Unqueued(p, downing[p])
      /\ downing' = [downing EXCEPT ![p] = NULL]
      /\ value' = value
  BY DEF DownReturn
<1>2. downing[p] # NULL /\ state[p] # "SLEEPING" /\ downing[p] \in Sem
  BY <1>1 DEF IInv, SemInv, BlockedOK, InDown, OwnerAwake, SemTypeOK
<1>3. \A t \in Sem : p \notin Range(wait_queue[t])
  BY <1>2 DEF IInv, SemInv, WaitQueueOK
<1>4. wait_queue' = wait_queue
  BY <1>1, <1>2, <1>3 DEF Unqueued
<1>5. Turns[p] = 0 /\ Turns' = Turns
  BY <1>3, <1>4, TurnsKept DEF TurnOK, Turns
<1>6. Balance' = Balance
  BY <1>1, <1>4 DEF Balance
<1>7. QED
  BY <1>1, <1>2, <1>5, <1>6 DEF Abstract!Go, Balance, Turns

\* Every step is a step of the tickets or invisible there.
LEMMA NextTickets ==
    IInv /\ IInv' /\ TurnOK /\ TurnOK' /\ [UsersNext]_user_vars => [Abstract!Next]_(Abstract!vars)
<1> SUFFICES ASSUME IInv, IInv', TurnOK, TurnOK', [UsersNext]_user_vars
             PROVE  [Abstract!Next]_(Abstract!vars)
  OBVIOUS
<1>1. ASSUME NEW s \in Sem, TakeUnit(s) PROVE Abstract!Next
  BY <1>1, TakeIsTake DEF Abstract!Next
<1>2. ASSUME NEW p \in Proc, NEW s \in Sem, Running(p), WaitForUnit(p, s) PROVE Abstract!Next
  BY <1>2, WaitIsWait DEF Abstract!Next
<1>3. ASSUME NEW s \in Sem, up(s) PROVE Abstract!Next
  BY <1>3, UpIsUp DEF Abstract!Next
<1>4. ASSUME NEW p \in Proc, DownReturn(p) PROVE Abstract!Next
  BY <1>4, ReturnIsGo DEF Abstract!Next
<1>5. ASSUME UNCHANGED <<value, wait_queue, downing>> PROVE UNCHANGED Abstract!vars
  <2>1. Turns' = Turns /\ Balance' = Balance
    BY <1>5, TurnsKept DEF Balance
  <2>2. QED
    BY <1>5, <2>1 DEF Abstract!vars, Balance, Turns
<1>6. ASSUME NEW p \in Proc,
             Fork(p) \/ Sleep(p) \/ DownSwitch(p) \/ SleepSwitch(p) \/ TimerExpires(p)
      PROVE  UNCHANGED <<value, wait_queue, downing>>
  BY <1>6 DEF Fork, Create, Sleep, do_sleep, DownSwitch, SleepSwitch, TimerExpires, sem_vars
<1>7. ASSUME NEW p \in Proc, NEW q \in Proc, do_kill(p, q)
      PROVE  UNCHANGED <<value, wait_queue, downing>>
  BY <1>7 DEF do_kill, sem_vars
<1>8. ASSUME IdleLoop \/ Tick \/ UNCHANGED user_vars PROVE UNCHANGED <<value, wait_queue, downing>>
  BY <1>8 DEF IdleLoop, Tick, user_vars, sem_vars
<1>9. QED
  BY <1>1, <1>2, <1>3, <1>4, <1>5, <1>6, <1>7, <1>8
     DEF UsersNext, Step, Down, down, Up, try_down

\* Semaphores are fair counters: the detailed semaphore, with its hand-off through
\* the wait queue and with kills, sleeps and ticks around it, implements numbers
\* taken and called in order.
THEOREM SemImplementsTickets == UsersSpec => ImplementsTickets
<1>1. IInv' => TurnOK'
  BY TurnFacts, PTL
<1>2. QED
  BY InitTickets, NextTickets, SemInvariant, TurnFacts, <1>1, PTL
     DEF UsersSpec, ImplementsTickets, Abstract!Spec

-----------------------------------------------------------------------------
(* The dining philosophers of check_sync.c *)

Recorded == {"THINKING", "HUNGRY", "EATING"}

\* Where the philosophers of each part may be, and where they own mutex unless
\* they sleep on a semaphore.
Outside == {"loop", "take.down", "eat", "put.down", "exit.schedule", "gone"}

SignalLocs == {"signal", "signal.down", "signal.end"}

WaitLocs == {"wait", "wait.down", "wait.end"}

MonitorLocs == {"take.test", "take.check", "take.leave", "put.left", "put.right",
                "put.leave", "signal", "wait", "signal.end", "wait.end"}

SemaLocs == {"sema.take", "sema.leave", "sema.left", "sema.right", "sema.put"}

Locs == Outside \cup MonitorLocs \cup SemaLocs \cup {"signal.down", "wait.down", "sema.down"}

Holding == {i \in Proc \ Waiting : pc[i] \in MonitorLocs \cup SemaLocs}

\* mutex is free, or exactly one thread has it.
MutexOK ==
    \/ value[mutex] = 1 /\ Holding = {}
    \/ value[mutex] = 0 /\ \E i \in Proc : Holding = {i}

\* Neighbours do not eat together.
Apart(st) ==
    \A i \in Proc :
      st[i] = "EATING" /\ LEFT(i) # i => st[LEFT(i)] # "EATING" /\ st[RIGHT(i)] # "EATING"

ClientTypeOK ==
    /\ next_count \in Int
    /\ count \in [Cond -> Int]
    /\ arg \in [Proc -> Cond]
    /\ pc \in [Proc -> Locs] /\ ret \in [Proc -> Locs]
    /\ state_condvar \in [Proc -> Recorded]
    /\ state_sema \in [Proc -> Recorded]
    /\ iter \in [Proc -> 0 .. TIMES]
    /\ part \in {"sema", "condvar"}

\* A thread sleeps for a while before it takes or puts its forks only, and keeps
\* the CPU between the two semaphore operations of cond_signal and of cond_wait.
PlaceOK ==
    \A i \in Proc :
      /\ inside[i] = "sleep.schedule" => pc[i] \in {"take.down", "put.down"}
      /\ pc[i] \in {"signal.down", "wait.down"} => Running(i)

\* The second part, thread by thread: what it waits for, where the call it is in
\* returns to, and when it is recorded as eating.
CondPlace(i) ==
    /\ pc[i] \in Outside \cup MonitorLocs \cup {"signal.down", "wait.down"}
    /\ \/ downing[i] = NULL
       \/ downing[i] = mutex /\ pc[i] \in {"take.test", "put.left"}
       \/ downing[i] = next /\ pc[i] = "signal.end"
       \/ downing[i] = i /\ pc[i] = "wait.end"
    /\ pc[i] \in WaitLocs => arg[i] = i /\ ret[i] = "take.leave"
    /\ pc[i] \in SignalLocs => \/ ret[i] = "take.check" /\ state_condvar[i] = "EATING"
                               \/ ret[i] \in {"put.right", "put.leave"}
    /\ pc[i] = "signal" => state_condvar[arg[i]] = "EATING"
    /\ pc[i] = "take.check" => state_condvar[i] # "THINKING"
    /\ pc[i] = "wait.end" /\ i \notin Waiting => state_condvar[i] = "EATING"
    /\ pc[i] \in {"take.leave", "eat"} => state_condvar[i] = "EATING"

\* The signallers and the waiters that the counts stand for.
Signallers == {p \in Proc : pc[p] \in {"signal.down", "signal.end"}}

Waiters(c) == {p \in Proc : pc[p] \in {"wait.down", "wait.end"} /\ arg[p] = c}

CondInv ==
    /\ \A i \in Proc : CondPlace(i)
    /\ value[next] = 0 /\ \A c \in Cond : value[c] = 0
    /\ CountsExact
    /\ Apart(state_condvar)

\* The first part, thread by thread: the unit of s[i] is visible or on its way
\* exactly from the moment somebody sets i eating until i has taken it.
Due(i) == state_sema[i] = "EATING" /\ (pc[i] \in {"sema.leave", "sema.down"} \/ downing[i] = i)

SemaPlace(i) ==
    /\ pc[i] \in Outside \cup SemaLocs \cup {"sema.down"}
    /\ \/ downing[i] = NULL
       \/ downing[i] = mutex /\ pc[i] \in {"sema.take", "sema.left"}
       \/ downing[i] = i /\ pc[i] = "eat"
    /\ state_sema[i] = "HUNGRY" => pc[i] \in {"sema.leave", "sema.down"} \/ downing[i] = i
    /\ pc[i] = "eat" /\ downing[i] = NULL => state_sema[i] = "EATING"
    /\ downing[i] = i /\ i \notin Waiting => value[i] = 0 /\ Due(i)
    /\ ~(downing[i] = i /\ i \notin Waiting) => value[i] = IF Due(i) THEN 1 ELSE 0

SemaInv ==
    /\ \A i \in Proc : SemaPlace(i)
    /\ Apart(state_sema)

\* The inductive invariant.
CheckInv ==
    /\ SemInv
    /\ ClientTypeOK
    /\ PlaceOK
    /\ MutexOK
    /\ part = "condvar" => CondInv
    /\ part = "sema" => SemaInv

-----------------------------------------------------------------------------
\* The table: LEFT and RIGHT are each other's inverse, and a philosopher is its
\* own neighbour only when it is alone.
LEMMA Neighbours ==
    ASSUME NEW i \in Proc
    PROVE  /\ LEFT(i) \in Proc /\ RIGHT(i) \in Proc
           /\ RIGHT(LEFT(i)) = i /\ LEFT(RIGHT(i)) = i
           /\ LEFT(i) = i <=> RIGHT(i) = i
<1>0. N \in Nat \ {0} /\ Proc = 0 .. N - 1
  BY PhilosophersAssumption
<1>1. ASSUME NEW a \in Int, 0 <= a, a < 2 * N
      PROVE  a % N = IF a < N THEN a ELSE a - N
  <2>1. /\ 0 <= a /\ a < N => a % N = a
        /\ N <= a /\ a < 2 * N => a % N = a - N
    BY <1>0, ModFacts
  <2>2. QED
    BY <1>0, <1>1, <2>1
<1>2. ASSUME NEW k \in 0 .. N - 1 PROVE LEFT(k) = IF k = 0 THEN N - 1 ELSE k - 1
  <2> DEFINE a == k - 1 + N
  <2>1. a \in Int /\ 0 <= a /\ a < 2 * N
    BY <1>0
  <2>2. a % N = IF a < N THEN a ELSE a - N
    BY <1>1, <2>1
  <2>3. QED
    BY <1>0, <2>2 DEF LEFT
<1>3. ASSUME NEW k \in 0 .. N - 1 PROVE RIGHT(k) = IF k = N - 1 THEN 0 ELSE k + 1
  <2> DEFINE a == k + 1
  <2>1. a \in Int /\ 0 <= a /\ a < 2 * N
    BY <1>0
  <2>2. a % N = IF a < N THEN a ELSE a - N
    BY <1>1, <2>1
  <2>3. QED
    BY <1>0, <2>2 DEF RIGHT
<1>4. LEFT(i) \in Proc /\ RIGHT(i) \in Proc
  BY <1>0, <1>2, <1>3
<1>5. RIGHT(LEFT(i)) = i /\ LEFT(RIGHT(i)) = i
  BY <1>0, <1>2, <1>3, <1>4
<1>6. LEFT(i) = i <=> RIGHT(i) = i
  BY <1>0, <1>2, <1>3
<1>7. QED
  BY <1>4, <1>5, <1>6

\* One who stops eating, or who begins to when neither neighbour eats, leaves the
\* neighbours apart.
LEMMA ApartKept ==
    ASSUME NEW st, NEW j \in Proc, NEW v, Apart(st), DOMAIN st = Proc,
           v = "EATING" => st[LEFT(j)] # "EATING" /\ st[RIGHT(j)] # "EATING"
    PROVE  Apart([st EXCEPT ![j] = v])
<1> DEFINE new == [st EXCEPT ![j] = v]
<1>1. \A i \in Proc : new[i] = IF i = j THEN v ELSE st[i]
  OBVIOUS
<1> HIDE DEF new
<1>2. ASSUME NEW i \in Proc, new[i] = "EATING", LEFT(i) # i
      PROVE  new[LEFT(i)] # "EATING" /\ new[RIGHT(i)] # "EATING"
  <2>1. LEFT(i) \in Proc /\ RIGHT(i) \in Proc /\ RIGHT(i) # i
    BY <1>2, Neighbours
  <2>2. LEFT(i) = j => i = RIGHT(j)
    BY Neighbours
  <2>3. RIGHT(i) = j => i = LEFT(j)
    BY Neighbours
  <2>4. CASE i = j
    BY <1>1, <1>2, <2>1, <2>4
  <2>5. CASE i # j
    <3>1. st[LEFT(i)] # "EATING" /\ st[RIGHT(i)] # "EATING"
      BY <1>1, <1>2, <2>5 DEF Apart
    <3>2. LEFT(i) = j \/ RIGHT(i) = j => v # "EATING"
      BY <1>1, <1>2, <2>2, <2>3, <2>5
    <3>3. QED
      BY <1>1, <2>1, <3>1, <3>2
  <2>6. QED
    BY <2>4, <2>5
<1>3. QED
  BY <1>2 DEF Apart, new

-----------------------------------------------------------------------------
\* check_sync has created the philosophers and nobody has run yet.
LEMMA InitCheckInv == CheckInit => CheckInv
<1> SUFFICES ASSUME CheckInit PROVE CheckInv
  OBVIOUS
<1> USE SchedAssumption, SemAssumption, MonitorAssumption, PhilosophersAssumption
    DEF Thread, CheckInit, Init
<1>1. run_list \in Seq(Proc) /\ IsInjective(run_list) /\ Range(run_list) = Proc
  <2>1. /\ \A i \in 1 .. N : run_list[i] = i - 1 /\ run_list[i] \in Proc
        /\ DOMAIN run_list = 1 .. N
    OBVIOUS
  <2>2. run_list \in [1 .. N -> Proc]
    OBVIOUS
  <2>3. run_list \in Seq(Proc)
    BY <2>2, FunctionIsSeq
  <2>4. IsInjective(run_list)
    BY <2>1 DEF IsInjective
  <2>5. \A p \in Proc : p + 1 \in 1 .. N /\ run_list[p + 1] = p
    BY <2>1
  <2>6. Range(run_list) = Proc
    <3>1. \A x \in Range(run_list) : x \in Proc
      BY <2>1 DEF Range
    <3>2. \A p \in Proc : p \in Range(run_list)
      BY <2>1, <2>5 DEF Range
    <3>3. QED
      BY <3>1, <3>2
  <2>7. QED
    BY <2>3, <2>4, <2>6
<1>2. SemTypeOK
  BY <1>1 DEF SemTypeOK, SchedTypeOK, ProcState, WaitState, Inside
<1>3. \A s \in Sem : Range(wait_queue[s]) = {} /\ IsInjective(wait_queue[s])
  BY DEF Range, IsInjective
<1>4. Waiting = {} /\ Holding = {}
  BY DEF Waiting, Holding, MonitorLocs, SemaLocs
<1>5. SemInv
  BY <1>1, <1>2, <1>3, <1>4 DEF SemInv, RunQueueOK, WaitQueueOK, DownUninterrupted,
                                OwnerAwake, BlockedOK, InDown
<1>6. ClientTypeOK /\ PlaceOK /\ MutexOK
  <2>1. ClientTypeOK
    <3>1. next_count \in Int /\ count \in [Cond -> Int] /\ arg \in [Proc -> Cond]
      OBVIOUS
    <3>2. pc \in [Proc -> Locs] /\ ret \in [Proc -> Locs]
      BY DEF Locs, Outside
    <3>3. /\ state_condvar \in [Proc -> Recorded] /\ state_sema \in [Proc -> Recorded]
          /\ iter \in [Proc -> 0 .. TIMES] /\ part \in {"sema", "condvar"}
      BY DEF Recorded
    <3>4. QED
      BY <3>1, <3>2, <3>3 DEF ClientTypeOK
  <2>2. PlaceOK
    BY DEF PlaceOK
  <2>3. MutexOK
    BY <1>4 DEF MutexOK
  <2>4. QED
    BY <2>1, <2>2, <2>3
<1>7. CondInv
  <2>1. \A i \in Proc : CondPlace(i)
    BY DEF CondPlace, Outside, WaitLocs, SignalLocs
  <2>2. value[next] = 0 /\ \A c \in Cond : value[c] = 0
    OBVIOUS
  <2>3. CountsExact
    <3>1. /\ {p \in Proc : pc[p] \in {"signal.down", "signal.end"}} = {}
          /\ \A c \in Cond :
               {p \in Proc : pc[p] \in {"wait.down", "wait.end"} /\ arg[p] = c} = {}
      OBVIOUS
    <3>2. Cardinality({}) = 0
      BY FS_EmptySet
    <3>3. QED
      BY <3>1, <3>2 DEF CountsExact
  <2>4. Apart(state_condvar)
    BY Neighbours DEF Apart
  <2>5. QED
    BY <2>1, <2>2, <2>3, <2>4 DEF CondInv
<1>8. SemaInv
  <2>1. Apart(state_sema)
    BY Neighbours DEF Apart
  <2>2. \A i \in Proc : SemaPlace(i)
    BY DEF SemaPlace, Due, Outside
  <2>3. QED
    BY <2>1, <2>2 DEF SemaInv
<1>9. QED
  BY <1>5, <1>6, <1>7, <1>8 DEF CheckInv

-----------------------------------------------------------------------------
\* The thread that owns the CPU waits for nothing, nobody else is between the two
\* operations of a signal or of a wait, and inside the mutex it is alone.
LEMMA RunningFacts ==
    ASSUME CheckInv, NEW p \in Proc, Running(p)
    PROVE  /\ downing[p] = NULL /\ p \notin Waiting
           /\ \A q \in Proc : q # p => pc[q] \notin {"signal.down", "wait.down"}
           /\ pc[p] \in MonitorLocs \cup SemaLocs => value[mutex] = 0 /\ Holding = {p}
<1>1. downing[p] = NULL /\ p \notin Waiting
  BY DEF CheckInv, SemInv, BlockedOK, OwnerAwake, InDown, Running, Waiting
<1>2. \A q \in Proc : q # p => pc[q] \notin {"signal.down", "wait.down"}
  BY DEF CheckInv, PlaceOK, Running
<1>3. ASSUME pc[p] \in MonitorLocs \cup SemaLocs PROVE value[mutex] = 0 /\ Holding = {p}
  <2>1. p \in Holding
    BY <1>1, <1>3 DEF Holding
  <2>2. QED
    BY <2>1 DEF CheckInv, MutexOK
<1>4. QED
  BY <1>1, <1>2, <1>3

\* A step of the thread that owns the CPU, from one place to the next.
LEMMA PlaceStep ==
    ASSUME CheckInv, NEW p \in Proc, NEW loc, current = p,
           pc' = [pc EXCEPT ![p] = loc],
           \A q \in Proc : q # p => inside'[q] = inside[q],
           inside'[p] = "sleep.schedule" => loc \in {"take.down", "put.down"},
           loc \in {"signal.down", "wait.down"} => Running(p)'
    PROVE  PlaceOK'
<1>1. pc \in [Proc -> Locs] /\ PlaceOK
  BY DEF CheckInv, ClientTypeOK
<1>2. ASSUME NEW q \in Proc, q # p
      PROVE  /\ inside'[q] = "sleep.schedule" => pc'[q] \in {"take.down", "put.down"}
             /\ pc'[q] \notin {"signal.down", "wait.down"}
  BY <1>1, <1>2 DEF PlaceOK, Running
<1>3. QED
  BY <1>1, <1>2 DEF PlaceOK

\* Steps that the philosophers do not notice: the clock, and the calls of schedule().
LEMMA ClientIdle ==
    ASSUME CheckInv, SemInv', PlaceOK', Waiting' = Waiting, UNCHANGED <<value, downing>>,
           UNCHANGED <<monitor_vars, state_condvar, iter, part, state_sema>>
    PROVE  CheckInv'
<1>1. ClientTypeOK' /\ MutexOK'
  BY DEF CheckInv, ClientTypeOK, MutexOK, Holding, monitor_vars
<1>2. part' = "condvar" => CondInv'
  <2>1. SUFFICES ASSUME part = "condvar" PROVE CondInv'
    OBVIOUS
  <2>2. \A i \in Proc : CondPlace(i)'
    BY <2>1 DEF CheckInv, CondInv, CondPlace, monitor_vars
  <2>3. CountsExact' /\ Apart(state_condvar)' /\ value'[next] = 0
        /\ \A c \in Cond : value'[c] = 0
    BY <2>1 DEF CheckInv, CondInv, CountsExact, Apart, monitor_vars
  <2>4. QED
    BY <2>2, <2>3 DEF CondInv
<1>3. part' = "sema" => SemaInv'
  <2>1. SUFFICES ASSUME part = "sema" PROVE SemaInv'
    OBVIOUS
  <2>2. \A i \in Proc : SemaPlace(i)'
    BY <2>1 DEF CheckInv, SemaInv, SemaPlace, Due, monitor_vars
  <2>3. Apart(state_sema)'
    BY <2>1 DEF CheckInv, SemaInv, Apart
  <2>4. QED
    BY <2>2, <2>3 DEF SemaInv
<1>4. QED
  BY <1>1, <1>2, <1>3 DEF CheckInv

\* What another thread's step leaves of a philosopher's place in the second part:
\* it may be set eating, and it may be woken if it is then recorded as eating.
LEMMA CondOthers ==
    ASSUME NEW i \in Proc, CondPlace(i), pc'[i] = pc[i], downing'[i] = downing[i],
           arg'[i] = arg[i], ret'[i] = ret[i],
           \/ state_condvar'[i] = state_condvar[i]
           \/ state_condvar[i] = "HUNGRY" /\ state_condvar'[i] = "EATING",
           pc[i] = "signal" => state_condvar'[arg[i]] = "EATING",
           pc[i] = "wait.end" /\ i \notin Waiting' =>
             i \notin Waiting \/ state_condvar'[i] = "EATING"
    PROVE  CondPlace(i)'
BY DEF CondPlace, WaitLocs, SignalLocs

\* The counts stand for finite sets.
LEMMA CountFacts ==
    /\ IsFiniteSet(Signallers) /\ Cardinality(Signallers) \in Nat
    /\ \A c \in Cond : IsFiniteSet(Waiters(c)) /\ Cardinality(Waiters(c)) \in Nat
<1>1. IsFiniteSet(Proc)
  BY PhilosophersAssumption, FS_Interval
<1>2. Signallers \subseteq Proc /\ \A c \in Cond : Waiters(c) \subseteq Proc
  BY DEF Signallers, Waiters
<1>3. IsFiniteSet(Signallers) /\ \A c \in Cond : IsFiniteSet(Waiters(c))
  BY <1>1, <1>2, FS_Subset
<1>4. QED
  BY <1>3, FS_CardinalityType

\* A thread that neither joins nor leaves the signallers or the waiters.
LEMMA CountsKept ==
    ASSUME CountsExact, NEW p \in Proc, UNCHANGED <<next_count, count>>,
           \A q \in Proc : q # p => pc'[q] = pc[q] /\ arg'[q] = arg[q],
           pc'[p] \in {"signal.down", "signal.end"} <=> pc[p] \in {"signal.down", "signal.end"},
           \/ pc[p] \notin {"wait.down", "wait.end"} /\ pc'[p] \notin {"wait.down", "wait.end"}
           \/ /\ pc[p] \in {"wait.down", "wait.end"} /\ pc'[p] \in {"wait.down", "wait.end"}
              /\ arg'[p] = arg[p]
    PROVE  CountsExact'
<1>1. Signallers' = Signallers
  BY DEF Signallers
<1>2. \A c \in Cond : Waiters(c)' = Waiters(c)
  BY DEF Waiters
<1>3. QED
  BY <1>1, <1>2 DEF CountsExact, Signallers, Waiters

-----------------------------------------------------------------------------
\* A step between two places outside of the mutex, in either part: thinking, eating
\* and leaving.
LEMMA OutsideStep ==
    ASSUME CheckInv, NEW p \in Proc, NEW loc, Running(p), pc[p] \in Outside,
           loc \in Outside \ {"eat"}, pc' = [pc EXCEPT ![p] = loc],
           SemInv', PlaceOK', Waiting' = Waiting, iter' \in [Proc -> 0 .. TIMES],
           UNCHANGED <<value, downing, ret, arg, next_count, count, state_condvar, part,
                       state_sema>>
    PROVE  CheckInv'
<1>0. /\ pc \in [Proc -> Locs] /\ ClientTypeOK /\ MutexOK
      /\ downing[p] = NULL /\ p \notin Waiting
  BY RunningFacts DEF CheckInv, ClientTypeOK
<1>1. pc'[p] = loc /\ \A q \in Proc : q # p => pc'[q] = pc[q]
  BY <1>0
<1>2. ClientTypeOK'
  BY <1>0 DEF ClientTypeOK, Locs
<1>3. Holding' = Holding
  BY <1>1 DEF Holding, Outside, MonitorLocs, SemaLocs
<1>4. MutexOK'
  BY <1>0, <1>3 DEF MutexOK
<1>5. part' = "condvar" => CondInv'
  <2>1. SUFFICES ASSUME part = "condvar" PROVE CondInv'
    OBVIOUS
  <2>2. CondInv
    BY <2>1 DEF CheckInv
  <2>3. CondPlace(p)'
    BY <1>0, <1>1, <2>2 DEF CondInv, CondPlace, Outside, WaitLocs, SignalLocs
  <2>4. ASSUME NEW i \in Proc, i # p PROVE CondPlace(i)'
    <3>1. CondPlace(i)
      BY <2>2 DEF CondInv
    <3>2. pc[i] = "signal" => state_condvar'[arg[i]] = "EATING"
      BY <3>1 DEF CondPlace
    <3>3. QED
      BY <1>1, <2>4, <3>1, <3>2, CondOthers
  <2>5. CountsExact'
    BY <1>1, <2>2, CountsKept DEF CondInv, Outside
  <2>6. Apart(state_condvar)' /\ value'[next] = 0 /\ \A c \in Cond : value'[c] = 0
    BY <2>2 DEF CondInv, Apart
  <2>7. QED
    BY <2>3, <2>4, <2>5, <2>6 DEF CondInv
<1>6. part' = "sema" => SemaInv'
  <2>1. SUFFICES ASSUME part = "sema" PROVE SemaInv'
    OBVIOUS
  <2>2. SemaInv
    BY <2>1 DEF CheckInv
  <2>3. SemaPlace(p)'
    BY <1>0, <1>1, <2>2, SemAssumption, MonitorAssumption, PhilosophersAssumption
       DEF SemaInv, SemaPlace, Due, Outside
  <2>4. ASSUME NEW i \in Proc, i # p PROVE SemaPlace(i)'
    BY <1>1, <2>2, <2>4 DEF SemaInv, SemaPlace, Due
  <2>5. Apart(state_sema)'
    BY <2>2 DEF SemaInv, Apart
  <2>6. QED
    BY <2>3, <2>4, <2>5 DEF SemaInv
<1>7. QED
  BY <1>2, <1>4, <1>5, <1>6 DEF CheckInv

\* do_exit: the thread becomes a zombie and keeps the CPU until schedule().
LEMMA QuitKeeps ==
    ASSUME SemInv, NEW p \in Proc, Running(p), state' = [state EXCEPT ![p] = "ZOMBIE"],
           UNCHANGED <<wait_state, run_list, current, need_resched, time_slice, sem_vars>>
    PROVE  SemInv' /\ Waiting' = Waiting
<1> USE SchedAssumption DEF Thread
<1>0. /\ SemTypeOK /\ SchedTypeOK /\ RunQueueOK /\ WaitQueueOK /\ DownUninterrupted
      /\ OwnerAwake /\ BlockedOK /\ current = p /\ inside[p] = "no"
  BY DEF SemInv, SemTypeOK, Running
<1>1. /\ state[p] # "SLEEPING" /\ state'[p] = "ZOMBIE"
      /\ \A q \in Proc : q # p => state'[q] = state[q]
  BY <1>0 DEF OwnerAwake, SchedTypeOK
<1>2. SemTypeOK' /\ RunQueueOK'
  BY <1>0, <1>1 DEF SemTypeOK, SchedTypeOK, RunQueueOK, ProcState, sem_vars
<1>3. Waiting' = Waiting
  BY <1>1 DEF Waiting
<1>4. WaitQueueOK'
  <2>1. \A q \in Proc :
          (state'[q] = "SLEEPING" /\ wait_state'[q] = "WT_KSEM")
            <=> (state[q] = "SLEEPING" /\ wait_state[q] = "WT_KSEM")
    BY <1>3 DEF Waiting
  <2>2. QED
    BY <1>0, <2>1 DEF WaitQueueOK, sem_vars
<1>5. DownUninterrupted' /\ OwnerAwake' /\ BlockedOK'
  BY <1>0, <1>1, <1>3 DEF DownUninterrupted, OwnerAwake, BlockedOK, InDown, sem_vars
<1>6. QED
  BY <1>2, <1>3, <1>4, <1>5 DEF SemInv

\* The call of schedule() in do_exit.
LEMMA ExitKeeps ==
    ASSUME SemInv, schedule, UNCHANGED <<state, wait_state, sem_vars>>
    PROVE  SemInv' /\ Waiting' = Waiting
<1> USE SchedAssumption DEF Thread
<1>0. /\ SemTypeOK /\ SchedTypeOK /\ RunQueueOK /\ WaitQueueOK /\ DownUninterrupted
      /\ OwnerAwake /\ BlockedOK
  BY DEF SemInv, SemTypeOK
<1>1. /\ SchedTypeOK' /\ RunQueueOK'
      /\ current' \in Proc => state[current'] = "RUNNABLE"
  BY <1>0, ScheduleFacts
<1>2. SemTypeOK' /\ OwnerAwake'
  BY <1>0, <1>1 DEF SemTypeOK, OwnerAwake, sem_vars
<1>3. WaitQueueOK' /\ DownUninterrupted' /\ BlockedOK' /\ Waiting' = Waiting
  BY <1>0 DEF WaitQueueOK, DownUninterrupted, BlockedOK, Waiting, sem_vars
<1>4. QED
  BY <1>1, <1>2, <1>3 DEF SemInv

\* Think, Eat, Quit and ExitSwitch.
LEMMA OutsideActions ==
    ASSUME CheckInv, NEW p \in Proc, Think(p) \/ Eat(p) \/ Quit(p) \/ ExitSwitch(p),
           UNCHANGED <<state_sema, part>>
    PROVE  CheckInv'
<1>0. /\ SemInv /\ pc \in [Proc -> Locs] /\ inside \in [Proc -> Inside]
      /\ iter \in [Proc -> 0 .. TIMES] /\ TIMES \in Nat
  BY PhilosophersAssumption DEF CheckInv, ClientTypeOK, SemInv, SemTypeOK
<1>1. CASE Think(p)
  <2>1. /\ Running(p) /\ pc[p] = "loop" /\ iter[p] < TIMES /\ do_sleep(p)
        /\ iter' = [iter EXCEPT ![p] = iter[p] + 1]
        /\ pc' = [pc EXCEPT ![p] = "take.down"]
        /\ UNCHANGED <<ret, arg, next_count, count, state_condvar>>
    BY <1>1 DEF Think, At, Goto
  <2>2. SemInv' /\ Waiting' = Waiting
    BY <1>0, <2>1, SleepKeeps
  <2>3. /\ UNCHANGED <<value, downing, current>>
        /\ inside' = [inside EXCEPT ![p] = "sleep.schedule"]
    BY <2>1 DEF do_sleep
  <2>4. PlaceOK'
    BY <1>0, <2>1, <2>3, PlaceStep DEF Running
  <2>5. iter' \in [Proc -> 0 .. TIMES]
    BY <1>0, <2>1
  <2>6. QED
    BY <2>1, <2>2, <2>3, <2>4, <2>5, OutsideStep DEF Outside
<1>2. CASE Eat(p)
  <2>1. /\ Running(p) /\ pc[p] = "eat" /\ do_sleep(p)
        /\ pc' = [pc EXCEPT ![p] = "put.down"]
        /\ UNCHANGED <<ret, arg, next_count, count, state_condvar, iter>>
    BY <1>2 DEF Eat, At, Goto
  <2>2. SemInv' /\ Waiting' = Waiting
    BY <1>0, <2>1, SleepKeeps
  <2>3. /\ UNCHANGED <<value, downing, current>>
        /\ inside' = [inside EXCEPT ![p] = "sleep.schedule"]
    BY <2>1 DEF do_sleep
  <2>4. PlaceOK'
    BY <1>0, <2>1, <2>3, PlaceStep DEF Running
  <2>5. QED
    BY <1>0, <2>1, <2>2, <2>3, <2>4, OutsideStep DEF Outside
<1>3. CASE Quit(p)
  <2>1. /\ Running(p) /\ pc[p] = "loop" /\ state' = [state EXCEPT ![p] = "ZOMBIE"]
        /\ pc' = [pc EXCEPT ![p] = "exit.schedule"]
        /\ UNCHANGED <<wait_state, run_list, current, need_resched, time_slice, sem_vars>>
        /\ UNCHANGED <<ret, arg, next_count, count, state_condvar, iter>>
    BY <1>3 DEF Quit, At, Goto
  <2>2. SemInv' /\ Waiting' = Waiting
    BY <1>0, <2>1, QuitKeeps
  <2>3. UNCHANGED <<value, downing, inside>>
    BY <2>1 DEF sem_vars
  <2>4. PlaceOK'
    BY <1>0, <2>1, <2>3, PlaceStep DEF Running
  <2>5. QED
    BY <1>0, <2>1, <2>2, <2>3, <2>4, OutsideStep DEF Outside
<1>4. CASE ExitSwitch(p)
  <2>1. /\ Running(p) /\ pc[p] = "exit.schedule" /\ schedule
        /\ pc' = [pc EXCEPT ![p] = "gone"]
        /\ UNCHANGED <<state, wait_state, sem_vars>>
        /\ UNCHANGED <<ret, arg, next_count, count, state_condvar, iter>>
    BY <1>4 DEF ExitSwitch, At, Goto
  <2>2. SemInv' /\ Waiting' = Waiting
    BY <1>0, <2>1, ExitKeeps
  <2>3. UNCHANGED <<value, downing, inside>>
    BY <2>1 DEF sem_vars
  <2>4. PlaceOK'
    BY <1>0, <2>1, <2>3, PlaceStep DEF Running
  <2>5. QED
    BY <1>0, <2>1, <2>2, <2>3, <2>4, OutsideStep DEF Outside
<1>5. QED
  BY <1>1, <1>2, <1>3, <1>4

\* down() returns to a philosopher, in either part.
LEMMA ReturnStep ==
    ASSUME CheckInv, NEW p \in Proc, DownReturn(p),
           UNCHANGED <<monitor_vars, state_condvar, iter, part, state_sema>>
    PROVE  CheckInv'
<1>0. /\ SemInv /\ ClientTypeOK /\ MutexOK /\ PlaceOK
      /\ downing \in [Proc -> Sem \cup {NULL}] /\ inside \in [Proc -> Inside]
  BY DEF CheckInv, SemInv, SemTypeOK
<1>1. SemInv' /\ Waiting' = Waiting /\ p \notin Waiting
  BY <1>0, ReturnKeeps
<1>2. /\ current = p /\ inside[p] = "down.return"
      /\ UNCHANGED <<value, next_count, count, pc, ret, arg>>
      /\ downing'[p] = NULL /\ \A q \in Proc : q # p => downing'[q] = downing[q]
      /\ inside'[p] = "no" /\ \A q \in Proc : q # p => inside'[q] = inside[q]
  BY <1>0 DEF DownReturn, monitor_vars
<1>3. ClientTypeOK' /\ MutexOK'
  BY <1>0, <1>1, <1>2 DEF ClientTypeOK, MutexOK, Holding
<1>4. PlaceOK'
  <2>1. pc[p] \notin {"signal.down", "wait.down"}
    BY <1>0, <1>2 DEF PlaceOK, Running
  <2>2. pc' = [pc EXCEPT ![p] = pc[p]]
    BY <1>0, <1>2 DEF ClientTypeOK
  <2>3. QED
    BY <1>2, <2>1, <2>2, PlaceStep
<1>5. part' = "condvar" => CondInv'
  <2>1. SUFFICES ASSUME part = "condvar" PROVE CondInv'
    OBVIOUS
  <2>2. CondInv
    BY <2>1 DEF CheckInv
  <2>3. CondPlace(p)'
    BY <1>1, <1>2, <2>2 DEF CondInv, CondPlace
  <2>4. ASSUME NEW i \in Proc, i # p PROVE CondPlace(i)'
    BY <1>1, <1>2, <2>2, <2>4 DEF CondInv, CondPlace
  <2>5. /\ CountsExact' /\ Apart(state_condvar)'
        /\ value'[next] = 0 /\ \A c \in Cond : value'[c] = 0
    BY <1>2, <2>2 DEF CondInv, CountsExact, Apart
  <2>6. QED
    BY <2>3, <2>4, <2>5 DEF CondInv
<1>6. part' = "sema" => SemaInv'
  <2>1. SUFFICES ASSUME part = "sema" PROVE SemaInv'
    OBVIOUS
  <2>2. SemaInv
    BY <2>1 DEF CheckInv
  <2>3. SemaPlace(p)'
    <3>1. SemaPlace(p) /\ NULL # p /\ mutex # p
      BY <2>2, SemAssumption, MonitorAssumption, PhilosophersAssumption DEF SemaInv
    <3>2. CASE downing[p] = p
      BY <1>1, <1>2, <3>1, <3>2 DEF SemaPlace, Due
    <3>3. CASE downing[p] # p
      BY <1>1, <1>2, <3>1, <3>3 DEF SemaPlace, Due
    <3>4. QED
      BY <3>2, <3>3
  <2>4. ASSUME NEW i \in Proc, i # p PROVE SemaPlace(i)'
    BY <1>1, <1>2, <2>2, <2>4 DEF SemaInv, SemaPlace, Due
  <2>5. Apart(state_sema)'
    BY <2>2 DEF SemaInv, Apart
  <2>6. QED
    BY <2>3, <2>4, <2>5 DEF SemaInv
<1>7. QED
  BY <1>1, <1>3, <1>4, <1>5, <1>6 DEF CheckInv

\* The calls of schedule() in down and do_sleep.
LEMMA SwitchStep ==
    ASSUME CheckInv, NEW p \in Proc, DownSwitch(p) \/ SleepSwitch(p),
           UNCHANGED <<monitor_vars, state_condvar, iter, part, state_sema>>
    PROVE  CheckInv'
<1>0. SemInv /\ ClientTypeOK /\ PlaceOK /\ inside \in [Proc -> Inside]
  BY DEF CheckInv, SemInv, SemTypeOK
<1>1. SemInv' /\ Waiting' = Waiting
  BY <1>0, BlockedKeeps
<1>2. /\ current = p /\ inside[p] # "no" /\ UNCHANGED <<value, downing, pc>>
      /\ inside'[p] \in {"no", "down.return"}
      /\ \A q \in Proc : q # p => inside'[q] = inside[q]
  BY <1>0 DEF DownSwitch, SleepSwitch, monitor_vars
<1>3. PlaceOK'
  <2>1. pc[p] \notin {"signal.down", "wait.down"}
    BY <1>0, <1>2 DEF PlaceOK, Running
  <2>2. pc' = [pc EXCEPT ![p] = pc[p]]
    BY <1>0, <1>2 DEF ClientTypeOK
  <2>3. QED
    BY <1>2, <2>1, <2>2, PlaceStep
<1>4. QED
  BY <1>1, <1>2, <1>3, ClientIdle

\* The clock.
LEMMA ClockStep ==
    ASSUME CheckInv, Clock
    PROVE  CheckInv'
<1>0. SemInv /\ PlaceOK
  BY DEF CheckInv
<1>1. UNCHANGED <<monitor_vars, state_condvar, iter, part, state_sema>>
  BY DEF Clock, Rest
<1>2. CASE IdleTick \/ IdleLoop
  <2>1. current = idleproc /\ (IdleLoop \/ Tick)
    BY <1>2 DEF IdleTick, IdleLoop
  <2>2. SemInv' /\ Waiting' = Waiting /\ UNCHANGED <<value, downing, inside>>
    BY <1>0, <2>1, ClockKeeps DEF IdleLoop, Tick, sem_vars
  <2>3. PlaceOK'
    BY <1>0, <1>1, <2>1, <2>2, SchedAssumption DEF PlaceOK, Running, monitor_vars
  <2>4. QED
    BY <1>1, <2>2, <2>3, ClientIdle
<1>3. ASSUME NEW i \in Proc, TimerExpires(i) PROVE CheckInv'
  <2>1. SemInv' /\ Waiting' = Waiting /\ UNCHANGED <<value, downing, inside, current>>
    BY <1>0, <1>3, BlockedKeeps DEF TimerExpires, sem_vars
  <2>2. PlaceOK'
    BY <1>0, <1>1, <2>1 DEF PlaceOK, Running, monitor_vars
  <2>3. QED
    BY <1>1, <2>1, <2>2, ClientIdle
<1>4. QED
  BY <1>2, <1>3 DEF Clock

-----------------------------------------------------------------------------
(***************************************************************************)
(* The second part.                                                        *)
(***************************************************************************)

\* While one thread has the monitor, every other one in it sleeps on a semaphore
\* and is in the call that put it there.
LEMMA CondAlone ==
    ASSUME CheckInv, part = "condvar", NEW p \in Proc, Holding = {p},
           NEW q \in Proc, q # p, pc[q] \in MonitorLocs
    PROVE  /\ q \in Waiting
           /\ \/ downing[q] = mutex /\ pc[q] \in {"take.test", "put.left"}
              \/ downing[q] = next /\ pc[q] = "signal.end"
              \/ downing[q] = q /\ pc[q] = "wait.end"
<1>1. q \in Waiting
  BY DEF Holding
<1>2. downing[q] # NULL
  BY <1>1 DEF CheckInv, SemInv, WaitQueueOK, Waiting
<1>3. QED
  BY <1>1, <1>2 DEF CheckInv, CondInv, CondPlace

\* A step inside the monitor that uses no semaphore.
LEMMA MonitorStep ==
    ASSUME CheckInv, part = "condvar", NEW p \in Proc, Running(p), pc[p] \in MonitorLocs,
           UNCHANGED <<sched_vars, sem_vars, iter, part, state_sema>>,
           ClientTypeOK',
           pc'[p] \in MonitorLocs,
           \A q \in Proc : q # p => pc'[q] = pc[q] /\ arg'[q] = arg[q] /\ ret'[q] = ret[q],
           CondPlace(p)', CountsExact', Apart(state_condvar)',
           \A q \in Proc : q # p =>
             \/ state_condvar'[q] = state_condvar[q]
             \/ state_condvar[q] = "HUNGRY" /\ state_condvar'[q] = "EATING"
    PROVE  CheckInv'
<1>0. /\ SemInv /\ CondInv /\ MutexOK /\ PlaceOK
      /\ Holding = {p} /\ p \notin Waiting
  BY RunningFacts DEF CheckInv
<1>1. SemInv' /\ Waiting' = Waiting
  BY <1>0, NothingChanges
<1>2. UNCHANGED <<value, downing, inside, current>>
  BY DEF sched_vars, sem_vars
<1>3. Holding' = Holding
  BY <1>1 DEF Holding
<1>4. MutexOK'
  BY <1>0, <1>2, <1>3 DEF MutexOK
<1>5. PlaceOK'
  BY <1>0, <1>2 DEF PlaceOK, MonitorLocs, Running
<1>6. ASSUME NEW i \in Proc, i # p PROVE CondPlace(i)'
  <2>1. CondPlace(i)
    BY <1>0 DEF CondInv
  <2>2. pc[i] # "signal"
    BY <1>0, <1>6, CondAlone DEF MonitorLocs
  <2>3. QED
    BY <1>1, <1>2, <1>6, <2>1, <2>2, CondOthers
<1>7. CondInv'
  BY <1>0, <1>2, <1>6 DEF CondInv
<1>8. QED
  BY <1>1, <1>4, <1>5, <1>7 DEF CheckInv

\* What phi_test_condvar does to the records.
LEMMA TestFacts ==
    ASSUME NEW i \in Proc, NEW j \in Proc, NEW st \in [Proc -> Recorded], NEW back,
           Apart(st), phi_test_condvar(i, j, st, back)
    PROVE  /\ state_condvar' \in [Proc -> Recorded] /\ Apart(state_condvar)'
           /\ \A q \in Proc : \/ state_condvar'[q] = st[q]
                              \/ st[q] = "HUNGRY" /\ state_condvar'[q] = "EATING"
           /\ \/ /\ state_condvar'[j] = "EATING"
                 /\ pc' = [pc EXCEPT ![i] = "signal"]
                 /\ arg' = [arg EXCEPT ![i] = j] /\ ret' = [ret EXCEPT ![i] = back]
              \/ pc' = [pc EXCEPT ![i] = back] /\ UNCHANGED <<ret, arg>>
<1>1. CASE st[j] = "HUNGRY" /\ st[LEFT(j)] # "EATING" /\ st[RIGHT(j)] # "EATING"
  <2>1. /\ state_condvar' = [st EXCEPT ![j] = "EATING"]
        /\ pc' = [pc EXCEPT ![i] = "signal"]
        /\ arg' = [arg EXCEPT ![i] = j] /\ ret' = [ret EXCEPT ![i] = back]
    BY <1>1 DEF phi_test_condvar, Call
  <2>2. Apart([st EXCEPT ![j] = "EATING"])
    BY <1>1, ApartKept
  <2>3. Apart(state_condvar)'
    BY <2>1, <2>2 DEF Apart
  <2>4. QED
    BY <1>1, <2>1, <2>3 DEF Recorded
<1>2. CASE ~(st[j] = "HUNGRY" /\ st[LEFT(j)] # "EATING" /\ st[RIGHT(j)] # "EATING")
  <2>1. /\ state_condvar' = st /\ pc' = [pc EXCEPT ![i] = back] /\ UNCHANGED <<ret, arg>>
    BY <1>2 DEF phi_test_condvar, Goto
  <2>2. QED
    BY <2>1 DEF Apart
<1>3. QED
  BY <1>1, <1>2

\* A philosopher changes its own record and tests another one, or itself.
LEMMA TestStep ==
    ASSUME CheckInv, part = "condvar", NEW p \in Proc, NEW j \in Proc, Running(p),
           NEW v \in Recorded, NEW back,
           \/ pc[p] = "take.test" /\ v = "HUNGRY" /\ j = p /\ back = "take.check"
           \/ pc[p] = "put.left" /\ v = "THINKING" /\ back = "put.right"
           \/ pc[p] = "put.right" /\ v = state_condvar[p] /\ back = "put.leave",
           phi_test_condvar(p, j, [state_condvar EXCEPT ![p] = v], back),
           UNCHANGED <<sched_vars, sem_vars, next_count, count, iter, part, state_sema>>
    PROVE  CheckInv'
<1> DEFINE st == [state_condvar EXCEPT ![p] = v]
<1>0. /\ ClientTypeOK /\ CondInv /\ downing[p] = NULL /\ CountsExact /\ Cond = Proc
      /\ state_condvar \in [Proc -> Recorded] /\ pc \in [Proc -> Locs]
      /\ ret \in [Proc -> Locs] /\ arg \in [Proc -> Cond]
  BY RunningFacts, PhilosophersAssumption DEF CheckInv, ClientTypeOK, CondInv
<1>1. /\ st \in [Proc -> Recorded] /\ st[p] = v
      /\ \A q \in Proc : q # p => st[q] = state_condvar[q]
  BY <1>0
<1>2. Apart(st)
  <2>1. CASE v = "EATING"
    <3>1. st = state_condvar
      BY <1>0, <2>1
    <3>2. QED
      BY <1>0, <3>1 DEF CondInv
  <2>2. CASE v # "EATING"
    <3>1. Apart(state_condvar) /\ DOMAIN state_condvar = Proc
      BY <1>0 DEF CondInv
    <3>2. QED
      BY <2>2, <3>1, ApartKept
  <2>3. QED
    BY <2>1, <2>2
<1> HIDE DEF st
<1>3. /\ state_condvar' \in [Proc -> Recorded] /\ Apart(state_condvar)'
      /\ \A q \in Proc : \/ state_condvar'[q] = st[q]
                         \/ st[q] = "HUNGRY" /\ state_condvar'[q] = "EATING"
      /\ \/ /\ state_condvar'[j] = "EATING"
            /\ pc' = [pc EXCEPT ![p] = "signal"]
            /\ arg' = [arg EXCEPT ![p] = j] /\ ret' = [ret EXCEPT ![p] = back]
         \/ pc' = [pc EXCEPT ![p] = back] /\ UNCHANGED <<ret, arg>>
  <2>1. phi_test_condvar(p, j, st, back)
    BY DEF st
  <2>2. QED
    BY <1>1, <1>2, <2>1, TestFacts
<1>4. /\ pc'[p] \in MonitorLocs /\ pc[p] \in MonitorLocs
      /\ \A q \in Proc : q # p => pc'[q] = pc[q] /\ arg'[q] = arg[q] /\ ret'[q] = ret[q]
  BY <1>0, <1>3 DEF MonitorLocs
<1>5. ClientTypeOK'
  <2>1. back \in Locs /\ "signal" \in Locs
    BY DEF Locs, MonitorLocs
  <2>2. pc' \in [Proc -> Locs] /\ ret' \in [Proc -> Locs] /\ arg' \in [Proc -> Cond]
    BY <1>0, <1>3, <2>1
  <2>3. QED
    BY <1>0, <1>3, <2>2 DEF ClientTypeOK
<1>6. downing'[p] = NULL /\ Waiting' = Waiting
  BY <1>0 DEF sem_vars, sched_vars, Waiting
<1>7. CondPlace(p)'
  <2>1. CASE /\ state_condvar'[j] = "EATING" /\ pc' = [pc EXCEPT ![p] = "signal"]
             /\ arg' = [arg EXCEPT ![p] = j] /\ ret' = [ret EXCEPT ![p] = back]
    <3>1. pc'[p] = "signal" /\ arg'[p] = j /\ ret'[p] = back
      BY <1>0, <2>1
    <3>2. (back = "take.check" /\ j = p) \/ back \in {"put.right", "put.leave"}
      OBVIOUS
    <3>3. QED
      BY <1>6, <2>1, <3>1, <3>2 DEF CondPlace, MonitorLocs, WaitLocs, SignalLocs
  <2>2. CASE pc' = [pc EXCEPT ![p] = back] /\ UNCHANGED <<ret, arg>>
    <3>1. pc'[p] = back
      BY <1>0, <2>2
    <3>2. back = "take.check" => state_condvar'[p] # "THINKING"
      BY <1>1, <1>3
    <3>3. QED
      BY <1>6, <2>2, <3>1, <3>2 DEF CondPlace, MonitorLocs, WaitLocs, SignalLocs
  <2>3. QED
    BY <1>3, <2>1, <2>2
<1>8. CountsExact'
  <2>1. /\ pc[p] \notin {"signal.down", "signal.end", "wait.down", "wait.end"}
        /\ pc'[p] \notin {"signal.down", "signal.end", "wait.down", "wait.end"}
    BY <1>0, <1>3
  <2>2. QED
    BY <1>0, <1>4, <2>1, CountsKept
<1>9. \A q \in Proc : q # p => \/ state_condvar'[q] = state_condvar[q]
                               \/ state_condvar[q] = "HUNGRY" /\ state_condvar'[q] = "EATING"
  BY <1>1, <1>3
<1>10. QED
  BY <1>3, <1>4, <1>5, <1>7, <1>8, <1>9, MonitorStep

\* TakeTest, PutLeft and PutRight.
LEMMA TestActions ==
    ASSUME CheckInv, part = "condvar", NEW p \in Proc,
           TakeTest(p) \/ PutLeft(p) \/ PutRight(p), UNCHANGED <<state_sema, part>>
    PROVE  CheckInv'
<1>0. state_condvar \in [Proc -> Recorded] /\ LEFT(p) \in Proc /\ RIGHT(p) \in Proc
  BY Neighbours DEF CheckInv, ClientTypeOK
<1>1. CASE TakeTest(p)
  BY <1>1, TestStep DEF TakeTest, At, Recorded
<1>2. CASE PutLeft(p)
  BY <1>0, <1>2, TestStep DEF PutLeft, At, Recorded
<1>3. CASE PutRight(p)
  <2>1. [state_condvar EXCEPT ![p] = state_condvar[p]] = state_condvar
    BY <1>0
  <2>2. state_condvar[p] \in Recorded
    BY <1>0
  <2>3. phi_test_condvar(p, RIGHT(p), [state_condvar EXCEPT ![p] = state_condvar[p]],
                         "put.leave")
    BY <1>3, <2>1 DEF PutRight
  <2>4. PICK v \in Recorded : v = state_condvar[p]
    BY <2>2
  <2>5. QED
    BY <1>0, <1>3, <2>3, <2>4, TestStep DEF PutRight, At
<1>4. QED
  BY <1>1, <1>2, <1>3

\* The philosopher looks at its record and waits, or leaves.
LEMMA TakeCheckStep ==
    ASSUME CheckInv, part = "condvar", NEW p \in Proc, TakeCheck(p),
           UNCHANGED <<state_sema, part>>
    PROVE  CheckInv'
<1>0. /\ Running(p) /\ pc[p] = "take.check" /\ ClientTypeOK /\ CondInv
      /\ downing[p] = NULL /\ CountsExact /\ Cond = Proc
      /\ UNCHANGED <<sched_vars, sem_vars, next_count, count, state_condvar, iter>>
  BY RunningFacts, PhilosophersAssumption DEF CheckInv, CondInv, TakeCheck, At
<1>1. /\ pc \in [Proc -> Locs] /\ ret \in [Proc -> Locs] /\ arg \in [Proc -> Cond]
      /\ state_condvar \in [Proc -> Recorded] /\ "wait" \in Locs /\ "take.leave" \in Locs
  BY <1>0 DEF ClientTypeOK, Locs, MonitorLocs
<1>2. \/ /\ state_condvar[p] = "HUNGRY" /\ pc' = [pc EXCEPT ![p] = "wait"]
         /\ arg' = [arg EXCEPT ![p] = p] /\ ret' = [ret EXCEPT ![p] = "take.leave"]
      \/ /\ state_condvar[p] = "EATING" /\ pc' = [pc EXCEPT ![p] = "take.leave"]
         /\ UNCHANGED <<ret, arg>>
  <2>1. state_condvar[p] \in {"HUNGRY", "EATING"}
    BY <1>0, <1>1 DEF CondInv, CondPlace, Recorded
  <2>2. QED
    BY <2>1 DEF TakeCheck, Call, Goto
<1>3. /\ pc'[p] \in {"wait", "take.leave"}
      /\ pc'[p] = "wait" => arg'[p] = p /\ ret'[p] = "take.leave"
      /\ pc'[p] = "take.leave" => state_condvar[p] = "EATING"
      /\ \A q \in Proc : q # p => pc'[q] = pc[q] /\ arg'[q] = arg[q] /\ ret'[q] = ret[q]
  BY <1>1, <1>2
<1>4. ClientTypeOK'
  <2>1. pc' \in [Proc -> Locs] /\ ret' \in [Proc -> Locs] /\ arg' \in [Proc -> Cond]
    BY <1>0, <1>1, <1>2
  <2>2. QED
    BY <1>0, <2>1 DEF ClientTypeOK
<1>5. CondPlace(p)'
  BY <1>0, <1>3 DEF CondPlace, sem_vars, MonitorLocs, WaitLocs, SignalLocs
<1>6. CountsExact'
  BY <1>0, <1>3, CountsKept
<1>7. Apart(state_condvar)'
  BY <1>0 DEF CondInv, Apart
<1>8. QED
  BY <1>0, <1>3, <1>4, <1>5, <1>6, <1>7, MonitorStep DEF MonitorLocs

\* The ends of cond_signal and of cond_wait, and a signal that nobody waits for.
LEMMA BackStep ==
    ASSUME CheckInv, part = "condvar", NEW p \in Proc,
           SignalNobody(p) \/ SignalEnd(p) \/ WaitEnd(p),
           UNCHANGED <<state_condvar, iter, state_sema, part>>
    PROVE  CheckInv'
<1>0. /\ Running(p) /\ pc[p] \in {"signal", "signal.end", "wait.end"} /\ ClientTypeOK
      /\ CondInv /\ downing[p] = NULL /\ p \notin Waiting /\ CountsExact /\ Cond = Proc
      /\ CondPlace(p) /\ pc' = [pc EXCEPT ![p] = ret[p]]
      /\ UNCHANGED <<sched_vars, sem_vars, ret, arg>>
  BY RunningFacts, PhilosophersAssumption
     DEF CheckInv, CondInv, SignalNobody, SignalEnd, WaitEnd, At, Goto
<1>1. /\ pc \in [Proc -> Locs] /\ ret \in [Proc -> Locs] /\ arg \in [Proc -> Cond]
      /\ next_count \in Int /\ count \in [Cond -> Int]
  BY <1>0 DEF ClientTypeOK
<1>2. /\ ret[p] \in {"take.check", "put.right", "put.leave", "take.leave"}
      /\ ret[p] \in {"take.check", "take.leave"} => state_condvar[p] = "EATING"
      /\ pc[p] = "wait.end" => arg[p] = p
  BY <1>0 DEF CondPlace, SignalLocs, WaitLocs
<1>3. pc'[p] = ret[p] /\ \A q \in Proc : q # p => pc'[q] = pc[q]
  BY <1>0, <1>1
<1>4. CondPlace(p)'
  BY <1>0, <1>2, <1>3 DEF CondPlace, sem_vars, MonitorLocs, WaitLocs, SignalLocs
<1>5. CountsExact' /\ next_count' \in Int /\ count' \in [Cond -> Int]
  <2>1. CASE SignalNobody(p)
    <3>1. pc[p] = "signal" /\ UNCHANGED <<next_count, count>>
      BY <2>1 DEF SignalNobody, At
    <3>2. CountsExact'
      BY <1>0, <1>2, <1>3, <3>1, CountsKept
    <3>3. QED
      BY <1>1, <3>1, <3>2
  <2>2. CASE SignalEnd(p)
    <3>1. pc[p] = "signal.end" /\ next_count' = next_count - 1 /\ count' = count
      BY <2>2 DEF SignalEnd, At
    <3>2. Signallers' = Signallers \ {p} /\ p \in Signallers
      BY <1>2, <1>3, <3>1 DEF Signallers
    <3>3. \A c \in Cond : Waiters(c)' = Waiters(c)
      BY <1>0, <1>2, <1>3, <3>1 DEF Waiters
    <3>4. Cardinality(Signallers') = Cardinality(Signallers) - 1
      BY <3>2, CountFacts, FS_RemoveElement
    <3>5. CountsExact'
      BY <1>0, <3>1, <3>3, <3>4 DEF CountsExact, Signallers, Waiters
    <3>6. QED
      BY <1>1, <3>1, <3>5
  <2>3. CASE WaitEnd(p)
    <3>1. /\ pc[p] = "wait.end" /\ count' = [count EXCEPT ![p] = count[p] - 1]
          /\ next_count' = next_count /\ arg[p] = p
      BY <1>2, <2>3 DEF WaitEnd, At
    <3>2. Signallers' = Signallers
      BY <1>2, <1>3, <3>1 DEF Signallers
    <3>3. /\ Waiters(p)' = Waiters(p) \ {p} /\ p \in Waiters(p)
          /\ \A c \in Cond : c # p => Waiters(c)' = Waiters(c)
      BY <1>0, <1>2, <1>3, <3>1 DEF Waiters
    <3>4. IsFiniteSet(Waiters(p)) /\ p \in Cond
      BY <1>0, CountFacts
    <3>5. Cardinality(Waiters(p)') = Cardinality(Waiters(p)) - 1
      BY <3>3, <3>4, FS_RemoveElement
    <3>6. count[p] = Cardinality(Waiters(p))
      BY <1>0, <3>4 DEF CountsExact, Waiters
    <3>7. \A c \in Cond : count'[c] = Cardinality(Waiters(c)')
      <4>1. ASSUME NEW c \in Cond, c # p PROVE count'[c] = Cardinality(Waiters(c)')
        <5>1. count'[c] = count[c] /\ Waiters(c)' = Waiters(c)
          BY <1>1, <3>1, <3>3, <4>1
        <5>2. QED
          BY <1>0, <5>1 DEF CountsExact, Waiters
      <4>2. count'[p] = Cardinality(Waiters(p)')
        BY <1>1, <3>1, <3>4, <3>5, <3>6
      <4>3. QED
        BY <4>1, <4>2
    <3>8. CountsExact'
      BY <1>0, <3>1, <3>2, <3>7 DEF CountsExact, Signallers, Waiters
    <3>9. QED
      BY <1>1, <3>1, <3>8
  <2>4. QED
    BY <2>1, <2>2, <2>3
<1>6. ClientTypeOK'
  <2>1. pc' \in [Proc -> Locs]
    BY <1>0, <1>1
  <2>2. QED
    BY <1>0, <1>5, <2>1 DEF ClientTypeOK
<1>7. Apart(state_condvar)'
  BY <1>0 DEF CondInv, Apart
<1>8. QED
  BY <1>0, <1>2, <1>3, <1>4, <1>5, <1>6, <1>7, MonitorStep DEF MonitorLocs

\* A philosopher goes to sleep on mutex, on next or on its condition variable.
LEMMA CondSleeps ==
    ASSUME CheckInv, part = "condvar", NEW p \in Proc, NEW s \in Sem, NEW loc, Running(p),
           \/ s = mutex /\ pc[p] \in {"take.down", "put.down"} /\ loc \in {"take.test", "put.left"}
           \/ s = next /\ pc[p] = "signal.down" /\ loc = "signal.end"
           \/ s = p /\ pc[p] = "wait.down" /\ loc = "wait.end",
           WaitForUnit(p, s), pc' = [pc EXCEPT ![p] = loc],
           UNCHANGED <<ret, arg, next_count, count, state_condvar, iter, part, state_sema>>
    PROVE  CheckInv'
<1>0. /\ SemInv /\ ClientTypeOK /\ CondInv /\ MutexOK /\ CountsExact /\ current = p
      /\ pc \in [Proc -> Locs] /\ downing \in [Proc -> Sem \cup {NULL}]
      /\ inside \in [Proc -> Inside]
  BY DEF CheckInv, CondInv, ClientTypeOK, SemInv, SemTypeOK, Running
<1>1. SemInv' /\ Waiting' = Waiting \cup {p} /\ p \notin Waiting
  BY <1>0, WaitKeeps
<1>2. /\ value' = value /\ downing'[p] = s /\ inside'[p] = "down.schedule"
      /\ \A q \in Proc : q # p => downing'[q] = downing[q] /\ inside'[q] = inside[q]
  BY <1>0 DEF WaitForUnit
<1>3. pc'[p] = loc /\ \A q \in Proc : q # p => pc'[q] = pc[q]
  BY <1>0
<1>4. Holding' = Holding
  BY <1>1, <1>3 DEF Holding, MonitorLocs, SemaLocs
<1>5. MutexOK'
  BY <1>0, <1>2, <1>4 DEF MutexOK
<1>6. PlaceOK'
  BY <1>0, <1>2, PlaceStep
<1>7. ClientTypeOK'
  <2>1. loc \in Locs
    BY DEF Locs, MonitorLocs
  <2>2. QED
    BY <1>0, <2>1 DEF ClientTypeOK
<1>8. CondPlace(p)'
  <2>1. CondPlace(p) /\ p \in Waiting'
    BY <1>0, <1>1 DEF CondInv
  <2>2. QED
    BY <1>2, <1>3, <2>1 DEF CondPlace, MonitorLocs, WaitLocs, SignalLocs
<1>9. ASSUME NEW i \in Proc, i # p PROVE CondPlace(i)'
  <2>1. CondPlace(i)
    BY <1>0 DEF CondInv
  <2>2. pc[i] = "signal" => state_condvar'[arg[i]] = "EATING"
    BY <2>1 DEF CondPlace
  <2>3. QED
    BY <1>1, <1>2, <1>3, <1>9, <2>1, <2>2, CondOthers
<1>10. CountsExact'
  BY <1>0, <1>3, CountsKept
<1>11. CondInv'
  BY <1>0, <1>2, <1>8, <1>9, <1>10 DEF CondInv, Apart
<1>12. QED
  BY <1>1, <1>5, <1>6, <1>7, <1>11 DEF CheckInv

\* A philosopher enters the monitor while it is free.
LEMMA CondEnters ==
    ASSUME CheckInv, part = "condvar", NEW p \in Proc, NEW loc, Running(p),
           pc[p] \in {"take.down", "put.down"}, loc \in {"take.test", "put.left"},
           TakeUnit(mutex), pc' = [pc EXCEPT ![p] = loc],
           UNCHANGED <<ret, arg, next_count, count, state_condvar, iter, part, state_sema>>
    PROVE  CheckInv'
<1>0. /\ SemInv /\ ClientTypeOK /\ CondInv /\ MutexOK /\ CountsExact /\ current = p
      /\ pc \in [Proc -> Locs] /\ value \in [Sem -> Nat]
      /\ downing[p] = NULL /\ p \notin Waiting /\ inside[p] = "no"
      /\ mutex \in Sem /\ next \in Sem /\ mutex # next /\ Cond \subseteq Sem /\ mutex \notin Cond
  BY RunningFacts, MonitorAssumption
     DEF CheckInv, CondInv, ClientTypeOK, SemInv, SemTypeOK, Running
<1>1. SemInv' /\ Waiting' = Waiting
  BY <1>0, TakeKeeps
<1>2. /\ value[mutex] > 0 /\ value' = [value EXCEPT ![mutex] = value[mutex] - 1]
      /\ UNCHANGED <<downing, inside>>
  BY DEF TakeUnit
<1>3. /\ value[mutex] = 1 /\ Holding = {} /\ value'[mutex] = 0 /\ value'[next] = 0
      /\ \A c \in Cond : value'[c] = 0
  BY <1>0, <1>2 DEF MutexOK, CondInv
<1>4. pc'[p] = loc /\ \A q \in Proc : q # p => pc'[q] = pc[q]
  BY <1>0
<1>5. Holding' = {p}
  BY <1>0, <1>1, <1>3, <1>4 DEF Holding, MonitorLocs
<1>6. MutexOK'
  BY <1>3, <1>5 DEF MutexOK
<1>7. PlaceOK'
  BY <1>0, <1>2, PlaceStep
<1>8. ClientTypeOK'
  <2>1. loc \in Locs
    BY DEF Locs, MonitorLocs
  <2>2. QED
    BY <1>0, <2>1 DEF ClientTypeOK
<1>9. CondPlace(p)'
  BY <1>0, <1>2, <1>4 DEF CondPlace, MonitorLocs, WaitLocs, SignalLocs
<1>10. ASSUME NEW i \in Proc, i # p PROVE CondPlace(i)'
  <2>1. CondPlace(i)
    BY <1>0 DEF CondInv
  <2>2. pc[i] = "signal" => state_condvar'[arg[i]] = "EATING"
    BY <2>1 DEF CondPlace
  <2>3. QED
    BY <1>1, <1>2, <1>4, <1>10, <2>1, <2>2, CondOthers
<1>11. CountsExact'
  BY <1>0, <1>4, CountsKept
<1>12. CondInv'
  BY <1>0, <1>3, <1>9, <1>10, <1>11 DEF CondInv, Apart
<1>13. QED
  BY <1>1, <1>6, <1>7, <1>8, <1>12 DEF CheckInv

\* The downs of the second part: entering the monitor, and the second halves of
\* cond_signal and cond_wait, which never find a unit.
LEMMA CondDowns ==
    ASSUME CheckInv, part = "condvar", NEW p \in Proc,
           \/ Enter(p, "take.down", "take.test") \/ Enter(p, "put.down", "put.left")
           \/ (SignalDown(p) \/ WaitDown(p)) /\ UNCHANGED <<state_condvar, iter>>,
           UNCHANGED <<state_sema, part>>
    PROVE  CheckInv'
<1>0. /\ mutex \in Sem /\ next \in Sem /\ p \in Sem /\ value[next] = 0 /\ value[p] = 0
      /\ pc[p] = "wait.down" => arg[p] = p
  BY MonitorAssumption, PhilosophersAssumption DEF CheckInv, CondInv, CondPlace, WaitLocs
<1>1. CASE Enter(p, "take.down", "take.test") \/ Enter(p, "put.down", "put.left")
  <2>1. PICK loc \in {"take.test", "put.left"} : pc' = [pc EXCEPT ![p] = loc]
    BY <1>1 DEF Enter, Goto
  <2>2. /\ Running(p) /\ pc[p] \in {"take.down", "put.down"}
        /\ TakeUnit(mutex) \/ WaitForUnit(p, mutex)
        /\ UNCHANGED <<ret, arg, next_count, count, state_condvar, iter>>
    BY <1>1 DEF Enter, At, Goto, down
  <2>3. CASE TakeUnit(mutex)
    BY <2>1, <2>2, <2>3, CondEnters
  <2>4. CASE WaitForUnit(p, mutex)
    BY <1>0, <2>1, <2>2, <2>4, CondSleeps
  <2>5. QED
    BY <2>2, <2>3, <2>4
<1>2. CASE SignalDown(p) /\ UNCHANGED <<state_condvar, iter>>
  <2>1. /\ Running(p) /\ pc[p] = "signal.down" /\ WaitForUnit(p, next)
        /\ pc' = [pc EXCEPT ![p] = "signal.end"]
        /\ UNCHANGED <<ret, arg, next_count, count, state_condvar, iter>>
    BY <1>0, <1>2 DEF SignalDown, At, Goto, down, TakeUnit
  <2>2. QED
    BY <1>0, <2>1, CondSleeps
<1>3. CASE WaitDown(p) /\ UNCHANGED <<state_condvar, iter>>
  <2>1. /\ Running(p) /\ pc[p] = "wait.down" /\ WaitForUnit(p, p)
        /\ pc' = [pc EXCEPT ![p] = "wait.end"]
        /\ UNCHANGED <<ret, arg, next_count, count, state_condvar, iter>>
    BY <1>0, <1>3 DEF WaitDown, At, Goto, down, TakeUnit
  <2>2. QED
    BY <1>0, <2>1, CondSleeps
<1>4. QED
  BY <1>1, <1>2, <1>3

\* The owner of the monitor gives it away: to nobody, or to a thread that sleeps in it.
LEMMA CondPasses ==
    ASSUME CheckInv, part = "condvar", NEW p \in Proc, NEW loc, Running(p),
           pc[p] \in MonitorLocs, loc \in {"eat", "loop", "signal.down", "wait.down"},
           pc' = [pc EXCEPT ![p] = loc], SemInv',
           \/ value' = [value EXCEPT ![mutex] = value[mutex] + 1] /\ Waiting' = Waiting
           \/ /\ value' = value
              /\ \E f \in Waiting : /\ Waiting' = Waiting \ {f}
                                    /\ pc[f] \in MonitorLocs
                                    /\ pc[f] = "wait.end" => state_condvar[f] = "EATING",
           CondPlace(p)', CountsExact', ClientTypeOK',
           UNCHANGED <<downing, inside, current, ret, arg, state_condvar, part>>
    PROVE  CheckInv'
<1>0. /\ CondInv /\ MutexOK /\ current = p /\ inside[p] = "no"
      /\ pc \in [Proc -> Locs] /\ value \in [Sem -> Nat]
      /\ Holding = {p} /\ value[mutex] = 0 /\ p \notin Waiting
      /\ mutex \in Sem /\ next \in Sem /\ mutex # next /\ Cond \subseteq Sem /\ mutex \notin Cond
  BY RunningFacts, MonitorAssumption
     DEF CheckInv, CondInv, ClientTypeOK, SemInv, SemTypeOK, Running
<1>1. pc'[p] = loc /\ \A q \in Proc : q # p => pc'[q] = pc[q]
  BY <1>0
<1>2. loc \notin MonitorLocs \cup SemaLocs
  BY DEF MonitorLocs, SemaLocs
<1>3. MutexOK' /\ value'[next] = 0 /\ \A c \in Cond : value'[c] = 0
  <2>1. CASE value' = [value EXCEPT ![mutex] = value[mutex] + 1] /\ Waiting' = Waiting
    <3>1. value'[mutex] = 1 /\ value'[next] = 0 /\ \A c \in Cond : value'[c] = 0
      BY <1>0, <2>1 DEF CondInv
    <3>2. Holding' = {}
      BY <1>0, <1>1, <1>2, <2>1 DEF Holding
    <3>3. QED
      BY <3>1, <3>2 DEF MutexOK
  <2>2. CASE value' = value /\ \E f \in Waiting : Waiting' = Waiting \ {f} /\ pc[f] \in MonitorLocs
    <3>1. PICK f \in Waiting : Waiting' = Waiting \ {f} /\ pc[f] \in MonitorLocs
      BY <2>2
    <3>2. f \in Proc /\ f # p
      BY <1>0, <3>1 DEF Waiting
    <3>3. Holding' = {f}
      BY <1>0, <1>1, <1>2, <3>1, <3>2 DEF Holding
    <3>4. QED
      BY <1>0, <2>2, <3>2, <3>3 DEF MutexOK, CondInv
  <2>3. QED
    BY <2>1, <2>2
<1>4. PlaceOK'
  BY <1>0, PlaceStep DEF Running
<1>5. ASSUME NEW i \in Proc, i # p PROVE CondPlace(i)'
  <2>1. CondPlace(i)
    BY <1>0 DEF CondInv
  <2>2. pc[i] = "signal" => state_condvar'[arg[i]] = "EATING"
    BY <2>1 DEF CondPlace
  <2>3. pc[i] = "wait.end" /\ i \notin Waiting' =>
          i \notin Waiting \/ state_condvar'[i] = "EATING"
    OBVIOUS
  <2>4. QED
    BY <1>1, <1>5, <2>1, <2>2, <2>3, CondOthers
<1>6. CondInv'
  BY <1>0, <1>3, <1>5 DEF CondInv, Apart
<1>7. QED
  BY <1>3, <1>4, <1>6 DEF CheckInv

\* Leaving the monitor: to the first signaller if one waits, else to a newcomer, else
\* mutex is free again.
LEMMA ReleaseFacts ==
    ASSUME CheckInv, part = "condvar", NEW p \in Proc, Running(p),
           pc[p] \in {"wait", "take.leave", "put.leave"}, Release
    PROVE  /\ SemInv' /\ UNCHANGED <<downing, inside, current>>
           /\ \/ value' = [value EXCEPT ![mutex] = value[mutex] + 1] /\ Waiting' = Waiting
              \/ /\ value' = value
                 /\ \E f \in Waiting : /\ Waiting' = Waiting \ {f}
                                       /\ pc[f] \in MonitorLocs \ {"wait.end"}
<1>0. /\ SemInv /\ CondInv /\ Holding = {p} /\ p \notin Waiting
      /\ mutex \in Sem /\ next \in Sem /\ mutex # next
      /\ \A q \in Proc : q # mutex /\ q # next
      /\ NULL # mutex /\ NULL # next
  BY RunningFacts, MonitorAssumption, SemAssumption, PhilosophersAssumption
     DEF CheckInv, MonitorLocs
<1>1. ASSUME NEW f \in Waiting, downing[f] \in {mutex, next}
      PROVE  pc[f] \in MonitorLocs \ {"wait.end"}
  <2>1. f \in Proc /\ CondPlace(f)
    BY <1>0 DEF CondInv, Waiting
  <2>2. QED
    BY <1>0, <1>1, <2>1 DEF CondPlace, MonitorLocs
<1>2. CASE next_count > 0
  <2>1. up(next)
    BY <1>2 DEF Release
  <2>2. /\ SemInv'
        /\ \/ \A q \in Waiting : downing[q] # next
           \/ value' = value /\ \E f \in Waiting : downing[f] = next /\ Waiting' = Waiting \ {f}
    BY <1>0, <2>1, UpKeeps
  <2>3. \E q \in Waiting : downing[q] = next
    <3>1. Signallers # {}
      <4>1. next_count = Cardinality(Signallers)
        BY <1>0 DEF CondInv, CountsExact, Signallers
      <4>2. QED
        BY <1>2, <4>1, FS_EmptySet
    <3>2. PICK q \in Proc : pc[q] \in {"signal.down", "signal.end"}
      BY <3>1 DEF Signallers
    <3>3. q # p
      BY <3>2
    <3>4. pc[q] = "signal.end"
      BY <3>2, <3>3, RunningFacts
    <3>5. QED
      BY <1>0, <3>3, <3>4, CondAlone DEF MonitorLocs
  <2>4. QED
    BY <1>1, <2>1, <2>2, <2>3 DEF up
<1>3. CASE ~(next_count > 0)
  <2>1. up(mutex)
    BY <1>3 DEF Release
  <2>2. /\ SemInv'
        /\ \/ value' = [value EXCEPT ![mutex] = value[mutex] + 1] /\ Waiting' = Waiting
           \/ value' = value /\ \E f \in Waiting : downing[f] = mutex /\ Waiting' = Waiting \ {f}
    BY <1>0, <2>1, UpKeeps
  <2>3. QED
    BY <1>1, <2>1, <2>2 DEF up
<1>4. QED
  BY <1>2, <1>3

\* WaitRelease counts the waiter and lets the monitor go.
LEMMA WaitReleaseStep ==
    ASSUME CheckInv, part = "condvar", NEW p \in Proc, WaitRelease(p),
           UNCHANGED <<state_condvar, iter, state_sema, part>>
    PROVE  CheckInv'
<1>0. /\ Running(p) /\ pc[p] = "wait" /\ ClientTypeOK /\ CondInv /\ CountsExact
      /\ downing[p] = NULL /\ Cond = Proc /\ CondPlace(p) /\ Release
      /\ pc' = [pc EXCEPT ![p] = "wait.down"] /\ UNCHANGED <<ret, arg, next_count>>
  BY RunningFacts, PhilosophersAssumption
     DEF CheckInv, CondInv, WaitRelease, At, Goto
<1>1. /\ pc \in [Proc -> Locs] /\ count \in [Cond -> Int] /\ arg[p] = p /\ p \in Cond
      /\ pc[p] \in MonitorLocs
  BY <1>0 DEF ClientTypeOK, CondPlace, WaitLocs, MonitorLocs
<1>2. count' = [count EXCEPT ![p] = count[p] + 1]
  BY <1>1 DEF WaitRelease
<1>3. /\ SemInv' /\ UNCHANGED <<downing, inside, current>>
      /\ \/ value' = [value EXCEPT ![mutex] = value[mutex] + 1] /\ Waiting' = Waiting
         \/ /\ value' = value
            /\ \E f \in Waiting : Waiting' = Waiting \ {f} /\ pc[f] \in MonitorLocs \ {"wait.end"}
  BY <1>0, <1>1, ReleaseFacts
<1>4. pc'[p] = "wait.down" /\ \A q \in Proc : q # p => pc'[q] = pc[q]
  BY <1>0, <1>1
<1>5. CountsExact'
  <2>1. Signallers' = Signallers
    BY <1>0, <1>4 DEF Signallers
  <2>2. /\ Waiters(p)' = Waiters(p) \cup {p} /\ p \notin Waiters(p)
        /\ \A c \in Cond : c # p => Waiters(c)' = Waiters(c)
    BY <1>0, <1>1, <1>4 DEF Waiters
  <2>3. IsFiniteSet(Waiters(p)) /\ count[p] = Cardinality(Waiters(p))
    BY <1>0, <1>1, CountFacts DEF CountsExact, Waiters
  <2>4. Cardinality(Waiters(p)') = Cardinality(Waiters(p)) + 1
    BY <2>2, <2>3, FS_AddElement
  <2>5. ASSUME NEW c \in Cond, c # p PROVE count'[c] = Cardinality(Waiters(c)')
    <3>1. count'[c] = count[c] /\ Waiters(c)' = Waiters(c)
      BY <1>1, <1>2, <2>2, <2>5
    <3>2. QED
      BY <1>0, <3>1 DEF CountsExact, Waiters
  <2>6. count'[p] = Cardinality(Waiters(p)')
    BY <1>1, <1>2, <2>3, <2>4
  <2>7. QED
    <3>1. next_count' = Cardinality(Signallers')
      BY <1>0, <2>1 DEF CountsExact, Signallers
    <3>2. \A c \in Cond : count'[c] = Cardinality(Waiters(c)')
      BY <2>5, <2>6
    <3>3. QED
      BY <3>1, <3>2 DEF CountsExact, Signallers, Waiters
<1>6. ClientTypeOK'
  <2>1. pc' \in [Proc -> Locs] /\ count' \in [Cond -> Int]
    BY <1>0, <1>1, <1>2 DEF Locs
  <2>2. QED
    BY <1>0, <2>1 DEF ClientTypeOK
<1>7. CondPlace(p)'
  BY <1>0, <1>3, <1>4 DEF CondPlace, WaitLocs, SignalLocs
<1>8. QED
  BY <1>0, <1>1, <1>3, <1>5, <1>6, <1>7, CondPasses

\* A philosopher leaves the monitor, to eat or for the next round.
LEMMA LeaveStep ==
    ASSUME CheckInv, part = "condvar", NEW p \in Proc,
           Leave(p, "take.leave", "eat") \/ Leave(p, "put.leave", "loop"),
           UNCHANGED <<state_sema, part>>
    PROVE  CheckInv'
<1>0. /\ Running(p) /\ pc[p] \in {"take.leave", "put.leave"} /\ ClientTypeOK /\ CondInv
      /\ CountsExact /\ downing[p] = NULL /\ CondPlace(p) /\ Release
      /\ UNCHANGED <<ret, arg, next_count, count, state_condvar, iter>>
  BY RunningFacts DEF CheckInv, CondInv, Leave, At, Goto
<1>1. PICK loc \in {"eat", "loop"} : /\ pc' = [pc EXCEPT ![p] = loc]
                                     /\ loc = "eat" => pc[p] = "take.leave"
  BY DEF Leave, Goto, At
<1>2. pc \in [Proc -> Locs] /\ pc[p] \in MonitorLocs /\ loc \in Locs
  BY <1>0 DEF ClientTypeOK, MonitorLocs, Locs, Outside
<1>3. /\ SemInv' /\ UNCHANGED <<downing, inside, current>>
      /\ \/ value' = [value EXCEPT ![mutex] = value[mutex] + 1] /\ Waiting' = Waiting
         \/ /\ value' = value
            /\ \E f \in Waiting : Waiting' = Waiting \ {f} /\ pc[f] \in MonitorLocs \ {"wait.end"}
  BY <1>0, <1>2, ReleaseFacts
<1>4. pc'[p] = loc /\ \A q \in Proc : q # p => pc'[q] = pc[q]
  BY <1>1, <1>2
<1>5. CountsExact'
  BY <1>0, <1>4, CountsKept
<1>6. ClientTypeOK'
  BY <1>0, <1>1, <1>2 DEF ClientTypeOK
<1>7. CondPlace(p)'
  BY <1>0, <1>1, <1>3, <1>4 DEF CondPlace, Outside, WaitLocs, SignalLocs
<1>8. QED
  BY <1>0, <1>1, <1>2, <1>3, <1>5, <1>6, <1>7, CondPasses

\* SignalUp: the monitor goes to a waiter, whom the signaller has set eating.
LEMMA SignalUpStep ==
    ASSUME CheckInv, part = "condvar", NEW p \in Proc, SignalUp(p),
           UNCHANGED <<state_condvar, iter, state_sema, part>>
    PROVE  CheckInv'
<1>0. /\ Running(p) /\ pc[p] = "signal" /\ ClientTypeOK /\ CondInv /\ CountsExact
      /\ downing[p] = NULL /\ Cond = Proc /\ CondPlace(p) /\ SemInv
      /\ pc' = [pc EXCEPT ![p] = "signal.down"] /\ UNCHANGED <<ret, arg, count>>
      /\ next_count' = next_count + 1 /\ count[arg[p]] > 0 /\ up(arg[p])
      /\ pc[p] \in MonitorLocs
  BY RunningFacts, PhilosophersAssumption
     DEF CheckInv, CondInv, SignalUp, At, Goto, MonitorLocs
<1>1. PICK c \in Proc : c = arg[p]
  BY <1>0 DEF ClientTypeOK
<1>2. /\ pc \in [Proc -> Locs] /\ next_count \in Int /\ Holding = {p} /\ c \in Sem
      /\ c # mutex /\ c # next /\ c # NULL /\ state_condvar[c] = "EATING"
  BY <1>0, <1>1, RunningFacts, MonitorAssumption, SemAssumption
     DEF ClientTypeOK, CondPlace
<1>3. \E q \in Waiting : downing[q] = c
  <2>1. count[c] = Cardinality(Waiters(c))
    BY <1>0 DEF CountsExact, Waiters
  <2>2. Waiters(c) # {}
    BY <1>0, <1>1, <2>1, FS_EmptySet
  <2>3. PICK q \in Proc : pc[q] \in {"wait.down", "wait.end"} /\ arg[q] = c
    BY <2>2 DEF Waiters
  <2>4. q # p
    BY <1>0, <2>3
  <2>5. pc[q] = "wait.end"
    BY <1>0, <2>3, <2>4, RunningFacts
  <2>6. q \in Waiting /\ downing[q] = q
    BY <1>2, <2>4, <2>5, CondAlone DEF MonitorLocs
  <2>7. q = c
    BY <1>0, <2>3, <2>5 DEF CondInv, CondPlace, WaitLocs
  <2>8. QED
    BY <2>6, <2>7
<1>4. /\ SemInv' /\ value' = value
      /\ \E f \in Waiting : downing[f] = c /\ Waiting' = Waiting \ {f}
  <2>1. up(c)
    BY <1>0, <1>1
  <2>2. /\ SemInv'
        /\ \/ \A q \in Waiting : downing[q] # c
           \/ value' = value /\ \E f \in Waiting : downing[f] = c /\ Waiting' = Waiting \ {f}
    BY <1>0, <1>2, <2>1, UpKeeps
  <2>3. QED
    BY <1>3, <2>2
<1>5. UNCHANGED <<downing, inside, current>>
  BY <1>0 DEF up
<1>6. PICK f \in Waiting : downing[f] = c /\ Waiting' = Waiting \ {f}
  BY <1>4
<1>7. pc[f] \in MonitorLocs /\ state_condvar[f] = "EATING"
  <2>1. f \in Proc /\ CondPlace(f)
    BY <1>0, <1>6 DEF CondInv, Waiting
  <2>2. f = c /\ pc[f] = "wait.end"
    BY <1>2, <1>6, <2>1 DEF CondPlace
  <2>3. QED
    BY <1>2, <2>2 DEF MonitorLocs
<1>8. pc'[p] = "signal.down" /\ \A q \in Proc : q # p => pc'[q] = pc[q]
  BY <1>0, <1>2
<1>9. CountsExact'
  <2>1. Signallers' = Signallers \cup {p} /\ p \notin Signallers
    BY <1>0, <1>8 DEF Signallers
  <2>2. \A d \in Cond : Waiters(d)' = Waiters(d)
    BY <1>0, <1>8 DEF Waiters
  <2>3. IsFiniteSet(Signallers) /\ next_count = Cardinality(Signallers)
    BY <1>0, CountFacts DEF CountsExact, Signallers
  <2>4. Cardinality(Signallers') = Cardinality(Signallers) + 1
    BY <2>1, <2>3, FS_AddElement
  <2>5. QED
    BY <1>0, <2>2, <2>3, <2>4 DEF CountsExact, Signallers, Waiters
<1>10. ClientTypeOK'
  <2>1. pc' \in [Proc -> Locs] /\ next_count' \in Int
    BY <1>0, <1>2 DEF Locs
  <2>2. QED
    BY <1>0, <2>1 DEF ClientTypeOK
<1>11. CondPlace(p)'
  BY <1>0, <1>5, <1>8 DEF CondPlace, WaitLocs, SignalLocs
<1>12. QED
  BY <1>0, <1>4, <1>5, <1>6, <1>7, <1>9, <1>10, <1>11, CondPasses

-----------------------------------------------------------------------------
(***************************************************************************)
(* The first part.                                                         *)
(***************************************************************************)

\* What the proofs below use of the constants and of the invariant.
LEMMA SemaFacts ==
    ASSUME CheckInv, part = "sema", NEW p \in Proc, Running(p)
    PROVE  /\ SemInv /\ SemaInv /\ ClientTypeOK /\ MutexOK /\ SemaPlace(p) /\ current = p
           /\ pc \in [Proc -> Locs] /\ value \in [Sem -> Nat] /\ inside \in [Proc -> Inside]
           /\ downing \in [Proc -> Sem \cup {NULL}] /\ state_sema \in [Proc -> Recorded]
           /\ downing[p] = NULL /\ p \notin Waiting /\ inside[p] = "no"
           /\ mutex \in Sem /\ Proc \subseteq Sem
           /\ \A q \in Proc : q # mutex /\ q # NULL /\ q # next
           /\ mutex # NULL
BY RunningFacts, MonitorAssumption, SemAssumption, PhilosophersAssumption
   DEF CheckInv, SemaInv, ClientTypeOK, SemInv, SemTypeOK, Running

\* Who sleeps on a semaphore in the first part: outside of the mutex, or before the
\* meal, each on its own.
LEMMA SemaWaiters ==
    ASSUME CheckInv, part = "sema", NEW f \in Waiting
    PROVE  /\ f \in Proc
           /\ \/ downing[f] = mutex /\ pc[f] \in {"sema.take", "sema.left"}
              \/ downing[f] = f /\ pc[f] = "eat"
<1>1. f \in Proc /\ downing[f] # NULL
  BY DEF CheckInv, SemInv, WaitQueueOK, Waiting
<1>2. QED
  BY <1>1 DEF CheckInv, SemaInv, SemaPlace

\* A philosopher enters, or goes to sleep on mutex.
LEMMA SemaEnterStep ==
    ASSUME CheckInv, part = "sema", NEW p \in Proc,
           Enter(p, "take.down", "sema.take") \/ Enter(p, "put.down", "sema.left"),
           UNCHANGED <<state_sema, part>>
    PROVE  CheckInv'
<1>1. PICK loc \in {"sema.take", "sema.left"} : pc' = [pc EXCEPT ![p] = loc]
  BY DEF Enter, Goto
<1>2. /\ Running(p) /\ pc[p] \in {"take.down", "put.down"}
      /\ TakeUnit(mutex) \/ WaitForUnit(p, mutex)
      /\ UNCHANGED <<ret, arg, next_count, count, state_condvar, iter>>
  BY DEF Enter, At, Goto, down
<1>3. /\ SemInv /\ SemaInv /\ ClientTypeOK /\ MutexOK /\ SemaPlace(p) /\ current = p
      /\ pc \in [Proc -> Locs] /\ value \in [Sem -> Nat] /\ inside \in [Proc -> Inside]
      /\ downing \in [Proc -> Sem \cup {NULL}]
      /\ downing[p] = NULL /\ p \notin Waiting /\ inside[p] = "no" /\ mutex \in Sem
      /\ Proc \subseteq Sem /\ \A q \in Proc : q # mutex /\ q # NULL
  BY <1>2, SemaFacts
<1>4. pc'[p] = loc /\ \A q \in Proc : q # p => pc'[q] = pc[q]
  BY <1>1, <1>3
<1>5. ClientTypeOK'
  <2>1. loc \in Locs
    BY DEF Locs, SemaLocs
  <2>2. QED
    BY <1>1, <1>2, <1>3, <2>1 DEF ClientTypeOK
<1>6. Apart(state_sema)'
  BY <1>3 DEF SemaInv, Apart
<1>7. CASE TakeUnit(mutex)
  <2>1. SemInv' /\ Waiting' = Waiting
    BY <1>3, <1>7, TakeKeeps
  <2>2. /\ value[mutex] > 0 /\ value' = [value EXCEPT ![mutex] = value[mutex] - 1]
        /\ UNCHANGED <<downing, inside>>
    BY <1>7 DEF TakeUnit
  <2>3. /\ Holding = {} /\ value'[mutex] = 0 /\ \A q \in Proc : value'[q] = value[q]
    BY <1>3, <2>2 DEF MutexOK
  <2>4. Holding' = {p}
    BY <1>3, <1>4, <2>1, <2>3 DEF Holding, SemaLocs
  <2>5. MutexOK'
    BY <2>3, <2>4 DEF MutexOK
  <2>6. PlaceOK'
    BY <1>1, <1>3, <2>2, PlaceStep
  <2>7. SemaPlace(p)'
    BY <1>2, <1>3, <1>4, <2>1, <2>2, <2>3 DEF SemaPlace, Due, SemaLocs
  <2>8. ASSUME NEW i \in Proc, i # p PROVE SemaPlace(i)'
    BY <1>3, <1>4, <2>1, <2>2, <2>3, <2>8 DEF SemaInv, SemaPlace, Due
  <2>9. QED
    BY <1>5, <1>6, <2>1, <2>5, <2>6, <2>7, <2>8 DEF CheckInv, SemaInv
<1>8. CASE WaitForUnit(p, mutex)
  <2>1. SemInv' /\ Waiting' = Waiting \cup {p}
    BY <1>2, <1>3, <1>8, WaitKeeps
  <2>2. /\ value' = value /\ downing'[p] = mutex /\ inside'[p] = "down.schedule"
        /\ \A q \in Proc : q # p => downing'[q] = downing[q] /\ inside'[q] = inside[q]
    BY <1>3, <1>8 DEF WaitForUnit
  <2>3. Holding' = Holding
    BY <1>2, <1>4, <2>1 DEF Holding, MonitorLocs, SemaLocs
  <2>4. MutexOK'
    BY <1>3, <2>2, <2>3 DEF MutexOK
  <2>5. PlaceOK'
    BY <1>1, <1>3, <2>2, PlaceStep
  <2>6. SemaPlace(p)'
    BY <1>2, <1>3, <1>4, <2>1, <2>2 DEF SemaPlace, Due, SemaLocs
  <2>7. ASSUME NEW i \in Proc, i # p PROVE SemaPlace(i)'
    BY <1>3, <1>4, <2>1, <2>2, <2>7 DEF SemaInv, SemaPlace, Due
  <2>8. QED
    BY <1>5, <1>6, <2>1, <2>4, <2>5, <2>6, <2>7 DEF CheckInv, SemaInv
<1>9. QED
  BY <1>2, <1>7, <1>8

\* The philosopher takes the unit it has been given, or waits for it.
LEMMA SemaDownStep ==
    ASSUME CheckInv, part = "sema", NEW p \in Proc, SemaDown(p), UNCHANGED part
    PROVE  CheckInv'
<1>1. /\ Running(p) /\ pc[p] = "sema.down" /\ pc' = [pc EXCEPT ![p] = "eat"]
      /\ TakeUnit(p) \/ WaitForUnit(p, p)
      /\ UNCHANGED <<ret, arg, next_count, count, state_condvar, iter, state_sema>>
  BY DEF SemaDown, At, Goto, down, Aside
<1>2. /\ SemInv /\ SemaInv /\ ClientTypeOK /\ MutexOK /\ SemaPlace(p) /\ current = p
      /\ pc \in [Proc -> Locs] /\ value \in [Sem -> Nat] /\ inside \in [Proc -> Inside]
      /\ downing \in [Proc -> Sem \cup {NULL}] /\ state_sema \in [Proc -> Recorded]
      /\ downing[p] = NULL /\ p \notin Waiting /\ inside[p] = "no" /\ mutex \in Sem
      /\ Proc \subseteq Sem /\ \A q \in Proc : q # mutex /\ q # NULL
  BY <1>1, SemaFacts
<1>3. pc'[p] = "eat" /\ \A q \in Proc : q # p => pc'[q] = pc[q]
  BY <1>1, <1>2
<1>4. ClientTypeOK'
  <2>1. "eat" \in Locs
    BY DEF Locs, Outside
  <2>2. QED
    BY <1>1, <1>2, <2>1 DEF ClientTypeOK
<1>5. Apart(state_sema)'
  BY <1>1, <1>2 DEF SemaInv, Apart
<1>6. CASE TakeUnit(p)
  <2>1. SemInv' /\ Waiting' = Waiting
    BY <1>2, <1>6, TakeKeeps
  <2>2. /\ value[p] > 0 /\ value' = [value EXCEPT ![p] = value[p] - 1]
        /\ UNCHANGED <<downing, inside>>
    BY <1>6 DEF TakeUnit
  <2>3. value[p] = 1 /\ state_sema[p] = "EATING"
    BY <1>2, <2>2 DEF SemaPlace, Due
  <2>4. /\ value'[p] = 0 /\ value'[mutex] = value[mutex]
        /\ \A q \in Proc : q # p => value'[q] = value[q]
    BY <1>2, <2>2, <2>3
  <2>5. Holding' = Holding
    BY <1>1, <1>3, <2>1 DEF Holding, MonitorLocs, SemaLocs
  <2>6. MutexOK'
    BY <1>2, <2>4, <2>5 DEF MutexOK
  <2>7. PlaceOK'
    BY <1>1, <1>2, <2>2, PlaceStep
  <2>8. SemaPlace(p)'
    BY <1>1, <1>2, <1>3, <2>1, <2>2, <2>3, <2>4 DEF SemaPlace, Due, Outside
  <2>9. ASSUME NEW i \in Proc, i # p PROVE SemaPlace(i)'
    BY <1>1, <1>2, <1>3, <2>1, <2>2, <2>4, <2>9 DEF SemaInv, SemaPlace, Due
  <2>10. QED
    BY <1>4, <1>5, <2>1, <2>6, <2>7, <2>8, <2>9 DEF CheckInv, SemaInv
<1>7. CASE WaitForUnit(p, p)
  <2>1. SemInv' /\ Waiting' = Waiting \cup {p}
    BY <1>1, <1>2, <1>7, WaitKeeps
  <2>2. /\ value[p] = 0 /\ value' = value /\ downing'[p] = p /\ inside'[p] = "down.schedule"
        /\ \A q \in Proc : q # p => downing'[q] = downing[q] /\ inside'[q] = inside[q]
    BY <1>2, <1>7 DEF WaitForUnit
  <2>3. state_sema[p] # "EATING"
    BY <1>1, <1>2, <2>2 DEF SemaPlace, Due
  <2>4. Holding' = Holding
    BY <1>1, <1>3, <2>1 DEF Holding, MonitorLocs, SemaLocs
  <2>5. MutexOK'
    BY <1>2, <2>2, <2>4 DEF MutexOK
  <2>6. PlaceOK'
    BY <1>1, <1>2, <2>2, PlaceStep
  <2>7. SemaPlace(p)'
    BY <1>1, <1>2, <1>3, <2>1, <2>2, <2>3 DEF SemaPlace, Due, Outside
  <2>8. ASSUME NEW i \in Proc, i # p PROVE SemaPlace(i)'
    BY <1>1, <1>2, <1>3, <2>1, <2>2, <2>8 DEF SemaInv, SemaPlace, Due
  <2>9. QED
    BY <1>4, <1>5, <2>1, <2>5, <2>6, <2>7, <2>8 DEF CheckInv, SemaInv
<1>8. QED
  BY <1>1, <1>6, <1>7

\* A philosopher leaves the mutex, which goes to one who waits for it or is free.
LEMMA SemaUpStep ==
    ASSUME CheckInv, part = "sema", NEW p \in Proc,
           SemaUp(p, "sema.leave", "sema.down") \/ SemaUp(p, "sema.put", "loop"),
           UNCHANGED part
    PROVE  CheckInv'
<1>1. /\ Running(p) /\ pc[p] \in {"sema.leave", "sema.put"} /\ up(mutex)
      /\ UNCHANGED <<ret, arg, next_count, count, state_condvar, iter, state_sema>>
  BY DEF SemaUp, At, Goto, Aside
<1>2. PICK loc : /\ pc' = [pc EXCEPT ![p] = loc]
                 /\ \/ pc[p] = "sema.leave" /\ loc = "sema.down"
                    \/ pc[p] = "sema.put" /\ loc = "loop"
  BY DEF SemaUp, At, Goto
<1>3. /\ SemInv /\ SemaInv /\ ClientTypeOK /\ MutexOK /\ SemaPlace(p) /\ current = p
      /\ pc \in [Proc -> Locs] /\ value \in [Sem -> Nat]
      /\ downing[p] = NULL /\ p \notin Waiting /\ inside[p] = "no" /\ mutex \in Sem
      /\ Proc \subseteq Sem /\ \A q \in Proc : q # mutex /\ q # NULL
  BY <1>1, SemaFacts
<1>4. Holding = {p} /\ value[mutex] = 0
  BY <1>1, RunningFacts DEF SemaLocs
<1>5. pc'[p] = loc /\ \A q \in Proc : q # p => pc'[q] = pc[q]
  BY <1>2, <1>3
<1>6. ClientTypeOK'
  <2>1. loc \in Locs
    BY <1>2 DEF Locs, Outside
  <2>2. QED
    BY <1>1, <1>2, <1>3, <2>1 DEF ClientTypeOK
<1>7. /\ SemInv'
      /\ \/ value' = [value EXCEPT ![mutex] = value[mutex] + 1] /\ Waiting' = Waiting
         \/ /\ value' = value
            /\ \E f \in Waiting : downing[f] = mutex /\ Waiting' = Waiting \ {f}
  BY <1>1, <1>3, UpKeeps
<1>8. UNCHANGED <<downing, inside, current>>
  BY <1>1 DEF up
<1>9. loc \notin MonitorLocs \cup SemaLocs
  BY <1>2 DEF MonitorLocs, SemaLocs
<1>10. MutexOK'
  <2>1. CASE value' = [value EXCEPT ![mutex] = value[mutex] + 1] /\ Waiting' = Waiting
    <3>1. value'[mutex] = 1
      BY <1>3, <1>4, <2>1
    <3>2. Holding' = {}
      BY <1>4, <1>5, <1>9, <2>1 DEF Holding
    <3>3. QED
      BY <3>1, <3>2 DEF MutexOK
  <2>2. CASE /\ value' = value
             /\ \E f \in Waiting : downing[f] = mutex /\ Waiting' = Waiting \ {f}
    <3>1. PICK f \in Waiting : downing[f] = mutex /\ Waiting' = Waiting \ {f}
      BY <2>2
    <3>2. f \in Proc /\ f # p /\ pc[f] \in SemaLocs
      BY <1>3, <3>1, SemaWaiters DEF SemaLocs
    <3>3. Holding' = {f}
      BY <1>4, <1>5, <1>9, <3>1, <3>2 DEF Holding
    <3>4. QED
      BY <1>4, <2>2, <3>2, <3>3 DEF MutexOK
  <2>3. QED
    BY <1>7, <2>1, <2>2
<1>11. PlaceOK'
  BY <1>2, <1>3, <1>8, PlaceStep
<1>12. \A q \in Proc : value'[q] = value[q] /\ (downing[q] = q => (q \in Waiting' <=> q \in Waiting))
  BY <1>3, <1>7
<1>13. SemaPlace(p)'
  BY <1>1, <1>2, <1>3, <1>5, <1>8, <1>12 DEF SemaPlace, Due, SemaLocs, Outside
<1>14. ASSUME NEW i \in Proc, i # p PROVE SemaPlace(i)'
  BY <1>1, <1>3, <1>5, <1>8, <1>12, <1>14 DEF SemaInv, SemaPlace, Due
<1>15. Apart(state_sema)'
  BY <1>1, <1>3 DEF SemaInv, Apart
<1>16. QED
  BY <1>6, <1>7, <1>10, <1>11, <1>13, <1>14, <1>15 DEF CheckInv, SemaInv

\* A philosopher that owns mutex changes its own record and tests j, who gets its
\* unit if it may eat.
LEMMA SemaTestStep ==
    ASSUME CheckInv, part = "sema", NEW p \in Proc, NEW j \in Proc, Running(p),
           NEW v \in Recorded, NEW loc,
           \/ pc[p] = "sema.take" /\ v = "HUNGRY" /\ j = p /\ loc = "sema.leave"
           \/ pc[p] = "sema.left" /\ v = "THINKING" /\ loc = "sema.right"
           \/ pc[p] = "sema.right" /\ v = state_sema[p] /\ loc = "sema.put",
           phi_test_sema(j, [state_sema EXCEPT ![p] = v]),
           pc' = [pc EXCEPT ![p] = loc],
           UNCHANGED <<ret, arg, next_count, count, state_condvar, iter, part>>
    PROVE  CheckInv'
<1>1. /\ SemInv /\ SemaInv /\ ClientTypeOK /\ MutexOK /\ SemaPlace(p) /\ current = p
      /\ pc \in [Proc -> Locs] /\ value \in [Sem -> Nat] /\ inside \in [Proc -> Inside]
      /\ downing \in [Proc -> Sem \cup {NULL}] /\ state_sema \in [Proc -> Recorded]
      /\ downing[p] = NULL /\ p \notin Waiting /\ inside[p] = "no" /\ mutex \in Sem
      /\ Proc \subseteq Sem /\ \A q \in Proc : q # mutex /\ q # NULL
  BY SemaFacts
<1>2. Holding = {p} /\ value[mutex] = 0
  BY RunningFacts DEF SemaLocs
<1>3. pc'[p] = loc /\ \A q \in Proc : q # p => pc'[q] = pc[q]
  BY <1>1
<1>4. PICK st : st = [state_sema EXCEPT ![p] = v]
  OBVIOUS
<1>5. st \in [Proc -> Recorded] /\ st[p] = v /\ \A q \in Proc : q # p => st[q] = state_sema[q]
  BY <1>1, <1>4
<1>6. value[p] = 0 /\ state_sema[p] # "HUNGRY"
  BY <1>1 DEF SemaPlace, Due
<1>7. Apart(st)
  <2>1. v # "EATING" \/ v = state_sema[p]
    OBVIOUS
  <2>2. CASE v # "EATING"
    BY <1>1, <1>4, <2>2, ApartKept DEF SemaInv
  <2>3. CASE v = state_sema[p]
    <3>1. st = state_sema
      BY <1>1, <1>4, <2>3
    <3>2. QED
      BY <1>1, <3>1 DEF SemaInv
  <2>4. QED
    BY <2>1, <2>2, <2>3
<1>8. \/ /\ st[j] = "HUNGRY" /\ st[LEFT(j)] # "EATING" /\ st[RIGHT(j)] # "EATING"
         /\ state_sema' = [st EXCEPT ![j] = "EATING"] /\ up(j)
      \/ state_sema' = st /\ UNCHANGED <<sched_vars, sem_vars>>
  BY <1>4 DEF phi_test_sema
<1>9. "sema.leave" \in Locs /\ "sema.right" \in Locs /\ "sema.put" \in Locs
      /\ loc \in SemaLocs /\ loc \notin {"signal.down", "wait.down"} /\ pc[p] \in SemaLocs
  BY DEF Locs, SemaLocs
<1>10. CASE /\ st[j] = "HUNGRY" /\ st[LEFT(j)] # "EATING" /\ st[RIGHT(j)] # "EATING"
            /\ state_sema' = [st EXCEPT ![j] = "EATING"] /\ up(j)
  <2>1. /\ state_sema' \in [Proc -> Recorded] /\ state_sema'[j] = "EATING"
        /\ \A q \in Proc : q # j => state_sema'[q] = st[q]
    BY <1>5, <1>10 DEF Recorded
  <2>2. Apart(state_sema)'
    <3>1. Apart([st EXCEPT ![j] = "EATING"])
      BY <1>5, <1>7, <1>10, ApartKept
    <3>2. QED
      BY <1>10, <3>1 DEF Apart
  <2>3. UNCHANGED <<downing, inside, current>>
    BY <1>10 DEF up
  <2>4. /\ SemInv'
        /\ \/ /\ \A q \in Waiting : downing[q] # j
              /\ value' = [value EXCEPT ![j] = value[j] + 1] /\ Waiting' = Waiting
           \/ /\ value' = value
              /\ \E f \in Waiting : downing[f] = j /\ Waiting' = Waiting \ {f}
    BY <1>1, <1>10, UpKeeps
  <2>5. \/ /\ j \in Waiting => downing[j] # j
           /\ value' = [value EXCEPT ![j] = value[j] + 1] /\ Waiting' = Waiting
        \/ /\ value' = value /\ j \in Waiting /\ downing[j] = j /\ pc[j] = "eat"
           /\ Waiting' = Waiting \ {j}
    <3>1. CASE /\ value' = value
               /\ \E f \in Waiting : downing[f] = j /\ Waiting' = Waiting \ {f}
      <4>1. PICK f \in Waiting : downing[f] = j /\ Waiting' = Waiting \ {f}
        BY <3>1
      <4>2. f = j /\ pc[f] = "eat"
        BY <1>1, <4>1, SemaWaiters
      <4>3. QED
        BY <3>1, <4>1, <4>2
    <3>2. QED
      BY <2>4, <3>1
  <2>6. /\ value'[mutex] = 0
        /\ \A q \in Proc : q # j => value'[q] = value[q] /\ (q \in Waiting' <=> q \in Waiting)
    BY <1>1, <1>2, <2>5
  <2>7. Holding' = {p}
    <3>1. \A q \in Proc : q \in Holding' <=> q = p
      <4>1. ASSUME NEW q \in Proc, q # p PROVE q \notin Holding'
        BY <1>2, <1>3, <2>5, <4>1 DEF Holding, MonitorLocs, SemaLocs
      <4>2. p \in Holding'
        BY <1>1, <1>3, <1>9, <2>5 DEF Holding
      <4>3. QED
        BY <4>1, <4>2
    <3>2. QED
      BY <3>1 DEF Holding
  <2>8. MutexOK'
    BY <2>6, <2>7 DEF MutexOK
  <2>9. PlaceOK'
    BY <1>1, <1>9, <2>3, PlaceStep
  <2>10. ClientTypeOK'
    BY <1>1, <1>9, <2>1 DEF ClientTypeOK
  <2>11. j = p => pc[p] = "sema.take" /\ value'[p] = 1 /\ p \notin Waiting'
    BY <1>1, <1>5, <1>6, <1>10, <2>5
  <2>12. SemaPlace(p)'
    <3>1. CASE j = p
      BY <1>1, <1>3, <1>9, <2>1, <2>3, <2>11, <3>1 DEF SemaPlace, Due
    <3>2. CASE j # p
      <4>1. /\ state_sema'[p] # "HUNGRY" /\ value'[p] = 0 /\ p \notin Waiting'
            /\ loc \in {"sema.right", "sema.put"} /\ downing'[p] = NULL
        BY <1>1, <1>5, <1>6, <2>1, <2>3, <2>6, <3>2
      <4>2. QED
        BY <1>1, <1>3, <1>9, <4>1 DEF SemaPlace, Due
    <3>3. QED
      BY <3>1, <3>2
  <2>13. ASSUME NEW i \in Proc, i # p PROVE SemaPlace(i)'
    <3>1. SemaPlace(i) /\ pc'[i] = pc[i] /\ downing'[i] = downing[i]
      BY <1>1, <1>3, <2>3, <2>13 DEF SemaInv
    <3>2. CASE i = j
      <4>1. state_sema[i] = "HUNGRY" /\ state_sema'[i] = "EATING" /\ ~Due(i) /\ value[i] = 0
        BY <1>5, <1>10, <2>1, <2>13, <3>1, <3>2 DEF SemaPlace, Due
      <4>2. CASE value' = value /\ i \in Waiting /\ downing[i] = i /\ Waiting' = Waiting \ {i}
        BY <3>1, <4>1, <4>2 DEF SemaPlace, Due
      <4>3. CASE /\ i \in Waiting => downing[i] # i
                 /\ value' = [value EXCEPT ![i] = value[i] + 1] /\ Waiting' = Waiting
        <5>1. value'[i] = 1
          BY <1>1, <4>1, <4>3
        <5>2. downing[i] # i /\ pc[i] \in {"sema.leave", "sema.down"}
          BY <3>1, <4>1, <4>3 DEF SemaPlace, Due
        <5>3. QED
          BY <1>1, <3>1, <4>1, <4>3, <5>1, <5>2 DEF SemaPlace, Due
      <4>4. QED
        BY <2>5, <3>2, <4>2, <4>3
    <3>3. CASE i # j
      <4>1. state_sema'[i] = state_sema[i] /\ value'[i] = value[i] /\ (i \in Waiting' <=> i \in Waiting)
        BY <1>5, <2>1, <2>6, <2>13, <3>3
      <4>2. QED
        BY <3>1, <4>1 DEF SemaPlace, Due
    <3>4. QED
      BY <3>2, <3>3
  <2>14. QED
    BY <2>2, <2>4, <2>8, <2>9, <2>10, <2>12, <2>13 DEF CheckInv, SemaInv
<1>11. CASE state_sema' = st /\ UNCHANGED <<sched_vars, sem_vars>>
  <2>1. SemInv' /\ Waiting' = Waiting
    BY <1>1, <1>11, NothingChanges
  <2>2. UNCHANGED <<value, downing, inside, current>>
    BY <1>11 DEF sched_vars, sem_vars
  <2>3. Apart(state_sema)'
    BY <1>7, <1>11 DEF Apart
  <2>4. Holding' = {p}
    <3>1. \A q \in Proc : q \in Holding' <=> q = p
      BY <1>1, <1>2, <1>3, <1>9, <2>1 DEF Holding
    <3>2. QED
      BY <3>1 DEF Holding
  <2>5. MutexOK'
    BY <1>2, <2>2, <2>4 DEF MutexOK
  <2>6. PlaceOK'
    BY <1>1, <1>9, <2>2, PlaceStep
  <2>7. ClientTypeOK'
    BY <1>1, <1>5, <1>9, <1>11 DEF ClientTypeOK
  <2>8. SemaPlace(p)'
    <3>1. /\ value'[p] = 0 /\ p \notin Waiting' /\ downing'[p] = NULL /\ state_sema'[p] = v
          /\ \/ loc = "sema.leave" /\ v = "HUNGRY"
             \/ loc \in {"sema.right", "sema.put"} /\ v # "HUNGRY"
      BY <1>1, <1>5, <1>6, <1>11, <2>1, <2>2
    <3>2. QED
      BY <1>1, <1>3, <1>9, <3>1 DEF SemaPlace, Due
  <2>9. ASSUME NEW i \in Proc, i # p PROVE SemaPlace(i)'
    BY <1>1, <1>3, <1>5, <1>11, <2>1, <2>2, <2>9 DEF SemaInv, SemaPlace, Due
  <2>10. QED
    BY <2>1, <2>3, <2>5, <2>6, <2>7, <2>8, <2>9 DEF CheckInv, SemaInv
<1>12. QED
  BY <1>8, <1>10, <1>11

\* The tests of phi_take_forks_sema and phi_put_forks_sema.
LEMMA SemaTestActions ==
    ASSUME CheckInv, part = "sema", NEW p \in Proc,
           SemaTake(p) \/ SemaPutLeft(p) \/ SemaPutRight(p), UNCHANGED part
    PROVE  CheckInv'
<1>1. LEFT(p) \in Proc /\ RIGHT(p) \in Proc /\ state_sema \in [Proc -> Recorded]
  BY Neighbours DEF CheckInv, ClientTypeOK
<1>2. CASE SemaTake(p)
  <2>1. /\ Running(p) /\ pc[p] = "sema.take" /\ pc' = [pc EXCEPT ![p] = "sema.leave"]
        /\ phi_test_sema(p, [state_sema EXCEPT ![p] = "HUNGRY"])
        /\ UNCHANGED <<ret, arg, next_count, count, state_condvar, iter>>
    BY <1>2 DEF SemaTake, At, Goto, Aside
  <2>2. "HUNGRY" \in Recorded
    BY DEF Recorded
  <2>3. QED
    BY <2>1, <2>2, SemaTestStep
<1>3. CASE SemaPutLeft(p)
  <2>1. /\ Running(p) /\ pc[p] = "sema.left" /\ pc' = [pc EXCEPT ![p] = "sema.right"]
        /\ phi_test_sema(LEFT(p), [state_sema EXCEPT ![p] = "THINKING"])
        /\ UNCHANGED <<ret, arg, next_count, count, state_condvar, iter>>
    BY <1>3 DEF SemaPutLeft, At, Goto, Aside
  <2>2. "THINKING" \in Recorded
    BY DEF Recorded
  <2>3. QED
    BY <1>1, <2>1, <2>2, SemaTestStep
<1>4. CASE SemaPutRight(p)
  <2>1. /\ Running(p) /\ pc[p] = "sema.right" /\ pc' = [pc EXCEPT ![p] = "sema.put"]
        /\ phi_test_sema(RIGHT(p), state_sema)
        /\ UNCHANGED <<ret, arg, next_count, count, state_condvar, iter>>
    BY <1>4 DEF SemaPutRight, At, Goto, Aside
  <2>2. PICK v \in Recorded : v = state_sema[p] /\ [state_sema EXCEPT ![p] = v] = state_sema
    BY <1>1
  <2>3. phi_test_sema(RIGHT(p), [state_sema EXCEPT ![p] = v])
    BY <2>1, <2>2
  <2>4. QED
    BY <1>1, <2>1, <2>2, <2>3, SemaTestStep
<1>5. QED
  BY <1>2, <1>3, <1>4

-----------------------------------------------------------------------------
\* A thread in one of the calls of schedule(), or back from it.
LEMMA BlockedStep ==
    ASSUME CheckInv, NEW p \in Proc, Blocked(p), UNCHANGED <<state_sema, part>>
    PROVE  CheckInv'
BY ReturnStep, SwitchStep DEF Blocked

\* One step per action, of the first part.
LEMMA SemaStep ==
    ASSUME CheckInv, part = "sema", NEW p \in Proc, philosopher_using_semaphore(p),
           UNCHANGED part
    PROVE  CheckInv'
<1>1. CASE (Think(p) \/ Eat(p) \/ Quit(p) \/ ExitSwitch(p) \/ Blocked(p)) /\ UNCHANGED state_sema
  BY <1>1, OutsideActions, BlockedStep
<1>2. CASE phi_take_forks_sema(p)
  BY <1>2, SemaEnterStep, SemaTestActions, SemaUpStep, SemaDownStep DEF phi_take_forks_sema
<1>3. CASE phi_put_forks_sema(p)
  BY <1>3, SemaEnterStep, SemaTestActions, SemaUpStep DEF phi_put_forks_sema
<1>4. QED
  BY <1>1, <1>2, <1>3 DEF philosopher_using_semaphore

\* One step per action, of the second part.
LEMMA CondStep ==
    ASSUME CheckInv, part = "condvar", NEW p \in Proc, philosopher_using_condvar(p),
           UNCHANGED <<state_sema, part>>
    PROVE  CheckInv'
<1>1. CASE Think(p) \/ Eat(p) \/ Quit(p) \/ ExitSwitch(p) \/ Blocked(p)
  BY <1>1, OutsideActions, BlockedStep
<1>2. CASE phi_take_forks_condvar(p)
  BY <1>2, CondDowns, TestActions, TakeCheckStep, LeaveStep DEF phi_take_forks_condvar
<1>3. CASE phi_put_forks_condvar(p)
  BY <1>3, CondDowns, TestActions, LeaveStep DEF phi_put_forks_condvar
<1>4. CASE MonitorCall(p)
  BY <1>4, SignalUpStep, BackStep, CondDowns, WaitReleaseStep
     DEF MonitorCall, cond_signal, cond_wait
<1>5. QED
  BY <1>1, <1>2, <1>3, <1>4 DEF philosopher_using_condvar

\* The invariant is inductive.
LEMMA NextCheckInv == CheckInv /\ [Next]_vars => CheckInv'
<1> SUFFICES ASSUME CheckInv, [Next]_vars PROVE CheckInv'
  OBVIOUS
<1>1. CASE Clock
  BY <1>1, ClockStep
<1>2. ASSUME NEW p \in Proc, Philosopher(p) PROVE CheckInv'
  BY <1>2, SemaStep, CondStep DEF Philosopher
<1>3. CASE UNCHANGED vars
  <2>1. UNCHANGED <<sched_vars, sem_vars, monitor_vars, state_condvar, iter, part, state_sema>>
    BY <1>3 DEF vars
  <2>2. SemInv' /\ Waiting' = Waiting
    BY <2>1, NothingChanges DEF CheckInv
  <2>3. PlaceOK'
    BY <2>1 DEF CheckInv, PlaceOK, Running, sched_vars, sem_vars, monitor_vars
  <2>4. QED
    BY <2>1, <2>2, <2>3, ClientIdle DEF sem_vars
<1>4. QED
  BY <1>1, <1>2, <1>3 DEF Next

\* A thread inside the mutex owns it, by the test of the properties, unless it
\* sleeps on a semaphore.
LEMMA OwnerFacts ==
    ASSUME CheckInv, NEW i \in Proc
    PROVE  /\ pc[i] \in MonitorLocs \cup SemaLocs =>
                (inside[i] = "no" \/ Handed(i) <=> i \notin Waiting)
           /\ downing[i] = i => (Handed(i) <=> i \notin Waiting)
<1>0. /\ WaitQueueOK /\ DownUninterrupted /\ BlockedOK /\ PlaceOK
      /\ inside[i] \in Inside /\ i # NULL
  BY MonitorAssumption, SemAssumption, PhilosophersAssumption
     DEF CheckInv, SemInv, SemTypeOK
<1>1. i \in Waiting => inside[i] \in InDown /\ ~Handed(i)
  BY <1>0 DEF WaitQueueOK, BlockedOK, Waiting, Handed, InDown
<1>2. i \notin Waiting /\ inside[i] \in InDown => Handed(i)
  BY <1>0 DEF DownUninterrupted, BlockedOK, InDown, Handed
<1>3. pc[i] \in MonitorLocs \cup SemaLocs => inside[i] # "sleep.schedule"
  BY <1>0 DEF PlaceOK, MonitorLocs, SemaLocs
<1>4. downing[i] = i => inside[i] \in InDown
  BY <1>0 DEF BlockedOK
<1>5. QED
  BY <1>0, <1>1, <1>2, <1>3, <1>4 DEF Inside, InDown

\* The invariant accounts for every unit.
LEMMA UnitsFollow == CheckInv => UnitsExact
<1> SUFFICES ASSUME CheckInv PROVE UnitsExact
  OBVIOUS
<1>0. /\ SemInv /\ ClientTypeOK /\ MutexOK /\ value \in [Sem -> Nat] /\ SemTypeOK
      /\ part = "condvar" \/ part = "sema"
  BY DEF CheckInv, SemInv, SemTypeOK, ClientTypeOK
<1>1. value[mutex] + Cardinality(Holding) = 1
  <2>1. CASE value[mutex] = 1 /\ Holding = {}
    BY <2>1, FS_EmptySet
  <2>2. CASE value[mutex] = 0 /\ \E i \in Proc : Holding = {i}
    <3>1. PICK i \in Proc : Holding = {i}
      BY <2>2
    <3>2. Cardinality({i}) = 1
      BY FS_Singleton
    <3>3. QED
      BY <2>2, <3>1, <3>2
  <2>3. QED
    BY <1>0, <2>1, <2>2 DEF MutexOK
<1>2. CASE part = "sema"
  <2>1. ASSUME NEW i \in Proc
        PROVE  i \in Holding <=> (inside[i] = "no" \/ Handed(i)) /\ pc[i] \in SemaLocs
    <3>1. pc[i] \notin MonitorLocs
      BY <1>2 DEF CheckInv, SemaInv, SemaPlace, MonitorLocs, SemaLocs, Outside
    <3>2. QED
      BY <3>1, OwnerFacts DEF Holding
  <2>2. Holding = {i \in Proc : /\ inside[i] = "no" \/ Handed(i)
                                /\ pc[i] \in {"sema.take", "sema.leave", "sema.left",
                                              "sema.right", "sema.put"}}
    BY <2>1 DEF Holding, SemaLocs
  <2>3. ASSUME NEW i \in Proc
        PROVE  value[i] + (IF downing[i] = i /\ Handed(i) THEN 1 ELSE 0)
                 = IF Due(i) THEN 1 ELSE 0
    <3>1. SemaPlace(i)
      BY <1>2 DEF CheckInv, SemaInv
    <3>2. downing[i] = i => (Handed(i) <=> i \notin Waiting)
      BY OwnerFacts
    <3>3. CASE downing[i] = i /\ i \notin Waiting
      BY <3>1, <3>2, <3>3 DEF SemaPlace
    <3>4. CASE ~(downing[i] = i /\ i \notin Waiting)
      BY <3>1, <3>2, <3>4 DEF SemaPlace
    <3>5. QED
      BY <3>3, <3>4
  <2>4. SemaExact
    BY <1>1, <2>2, <2>3 DEF SemaExact, Due
  <2>5. QED
    BY <1>2, <2>4 DEF UnitsExact
<1>3. CASE part = "condvar"
  <2>1. ASSUME NEW i \in Proc
        PROVE  i \in Holding <=> (inside[i] = "no" \/ Handed(i)) /\ pc[i] \in MonitorLocs
    <3>1. pc[i] \notin SemaLocs
      BY <1>3 DEF CheckInv, CondInv, CondPlace, MonitorLocs, SemaLocs, Outside
    <3>2. QED
      BY <3>1, OwnerFacts DEF Holding
  <2>2. Owner = Holding
    BY <2>1 DEF Owner, Holding, Handed, MonitorLocs
  <2>3. CountsExact
    BY <1>3 DEF CheckInv, CondInv
  <2>4. next_count \in Nat /\ count \in [Cond -> Nat]
    <3>1. next_count \in Nat /\ \A c \in Cond : count[c] \in Nat
      BY <2>3, CountFacts DEF CountsExact, Signallers, Waiters
    <3>2. QED
      BY <1>0, <3>1 DEF ClientTypeOK
  <2>5. TypeOK
    BY <1>0, <2>4 DEF TypeOK, ClientTypeOK, Recorded
  <2>6. QED
    BY <1>1, <1>3, <2>2, <2>3, <2>5 DEF UnitsExact, MonitorExclusive
<1>4. QED
  BY <1>0, <1>2, <1>3

\* The invariant keeps neighbours apart.
LEMMA ForksFollow == CheckInv => ForksExclusive
<1> SUFFICES ASSUME CheckInv PROVE ForksExclusive
  OBVIOUS
<1>1. CASE part = "sema"
  <2>1. Apart(state_sema)
    BY <1>1 DEF CheckInv, SemaInv
  <2>2. \A i \in Proc : pc[i] \in {"take.leave", "eat"} /\ downing[i] = NULL =>
                          state_sema[i] = "EATING"
    BY <1>1 DEF CheckInv, SemaInv, SemaPlace, Outside, SemaLocs
  <2>3. QED
    BY <1>1, <2>1, <2>2 DEF ForksExclusive, Apart
<1>2. CASE part = "condvar"
  <2>1. Apart(state_condvar)
    BY <1>2 DEF CheckInv, CondInv
  <2>2. \A i \in Proc : pc[i] \in {"take.leave", "eat"} => state_condvar[i] = "EATING"
    BY <1>2 DEF CheckInv, CondInv, CondPlace
  <2>3. QED
    BY <1>2, <2>1, <2>2 DEF ForksExclusive, Apart
<1>3. QED
  BY <1>1, <1>2 DEF CheckInv, ClientTypeOK

-----------------------------------------------------------------------------
\* check_sync keeps the invariant, whatever the number of philosophers and of
\* meals, in both of its parts.
THEOREM CheckInvariant == Spec => []CheckInv
<1>1. QED
  BY InitCheckInv, NextCheckInv, PTL DEF Spec

\* No unit is lost or made up: mutex is free or belongs to exactly one philosopher
\* through every hand-over of up() and of cond_signal, s[i] has a unit exactly while
\* one is owed to i, and next_count and cv.count are the numbers of the threads that
\* wait.
THEOREM UnitsAlwaysExact == Spec => []UnitsExact
<1>1. QED
  BY CheckInvariant, UnitsFollow, PTL

\* Neighbours never eat together, and whoever eats is recorded as eating, although
\* the philosophers do not test again after the wait.
THEOREM ForksNeverShared == Spec => []ForksExclusive
<1>1. QED
  BY CheckInvariant, ForksFollow, PTL
=============================================================================
