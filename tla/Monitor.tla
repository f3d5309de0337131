------------------------------ MODULE Monitor ------------------------------
(***************************************************************************)
(* The Hoare monitor of kern/sync/monitor.c on semaphores: cond_signal and *)
(* cond_wait, one step per semaphore operation.  The client sets ret[p] to *)
(* where the call returns and arg[p] to the condition variable.            *)
(***************************************************************************)
EXTENDS Semaphore

CONSTANTS Cond,       \* the condition variables; cv.sem is the member of Sem
          mutex,      \* mtp->mutex
          next        \* mtp->next

ASSUME MonitorAssumption ==
    /\ Sem = Cond \cup {mutex, next} /\ mutex # next
    /\ Cond \cap {mutex, next} = {}
    /\ SemInit = [x \in Sem |-> IF x = mutex THEN 1 ELSE 0]

VARIABLES next_count,   \* signallers that wait for the monitor
          count,        \* cv.count
          pc, ret, arg

monitor_vars == <<next_count, count, pc, ret, arg>>

At(p, loc) == Running(p) /\ pc[p] = loc

Goto(p, loc) == pc' = [pc EXCEPT ![p] = loc] /\ UNCHANGED <<ret, arg>>

\* Calls the routine at loc on condition c, to return to back.
Call(p, loc, c, back) ==
    /\ pc' = [pc EXCEPT ![p] = loc]
    /\ arg' = [arg EXCEPT ![p] = c]
    /\ ret' = [ret EXCEPT ![p] = back]

-----------------------------------------------------------------------------
\* cond_signal with a waiter: the signaller hands the monitor to it and waits for
\* its turn on next.
SignalUp(p) ==
    /\ At(p, "signal") /\ count[arg[p]] > 0
    /\ next_count' = next_count + 1
    /\ up(arg[p])
    /\ Goto(p, "signal.down")
    /\ UNCHANGED count

SignalNobody(p) ==
    /\ At(p, "signal") /\ count[arg[p]] <= 0
    /\ Goto(p, ret[p])
    /\ UNCHANGED <<sched_vars, sem_vars, next_count, count>>

\* Mutant: the signaller goes on in the monitor.
Mutant_SignalDown_Skipped(p) ==
    /\ At(p, "signal.down")
    /\ Goto(p, "signal.end")
    /\ UNCHANGED <<sched_vars, sem_vars, next_count, count>>

SignalDown(p) ==
    /\ At(p, "signal.down")
    /\ down(p, next)
    /\ Goto(p, "signal.end")
    /\ UNCHANGED <<next_count, count>>

SignalEnd(p) ==
    /\ At(p, "signal.end")
    /\ next_count' = next_count - 1
    /\ Goto(p, ret[p])
    /\ UNCHANGED <<sched_vars, sem_vars, count>>

-----------------------------------------------------------------------------
\* Gives the monitor to a signaller, or to somebody outside.
Release == IF next_count > 0 THEN up(next) ELSE up(mutex)

WaitRelease(p) ==
    /\ At(p, "wait")
    /\ count' = [count EXCEPT ![arg[p]] = @ + 1]
    /\ Release
    /\ Goto(p, "wait.down")
    /\ UNCHANGED next_count

WaitDown(p) ==
    /\ At(p, "wait.down")
    /\ down(p, arg[p])
    /\ Goto(p, "wait.end")
    /\ UNCHANGED <<next_count, count>>

WaitEnd(p) ==
    /\ At(p, "wait.end")
    /\ count' = [count EXCEPT ![arg[p]] = @ - 1]
    /\ Goto(p, ret[p])
    /\ UNCHANGED <<sched_vars, sem_vars, next_count>>

cond_signal(p) == SignalUp(p) \/ SignalNobody(p) \/ SignalDown(p) \/ SignalEnd(p)

cond_wait(p) == WaitRelease(p) \/ WaitDown(p) \/ WaitEnd(p)

-----------------------------------------------------------------------------
\* next_count and cv.count are exact: the threads that a release must choose
\* between are those that really wait.
CountsExact ==
    /\ next_count = Cardinality({p \in Proc : pc[p] \in {"signal.down", "signal.end"}})
    /\ \A c \in Cond :
         count[c] = Cardinality({p \in Proc : pc[p] \in {"wait.down", "wait.end"}
                                              /\ arg[p] = c})
=============================================================================
