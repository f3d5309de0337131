----------------------------- MODULE Deadlines -----------------------------
(***************************************************************************)
(* What the timer list promises, without the list: every sleeper has its   *)
(* own countdown, all countdowns advance together, and a sleeper is woken  *)
(* during the very tick in which its countdown reaches 0 or, earlier, by a *)
(* kill.                                                                   *)
(***************************************************************************)
EXTENDS Integers

CONSTANTS Proc, MaxSleep

VARIABLES left,    \* ticks to go, or Unset
          asleep   \* the processes that wait

Unset == -1

vars == <<left, asleep>>

Init == left = [p \in Proc |-> Unset] /\ asleep = {}

Start(p, time) ==
    /\ left[p] = Unset /\ p \notin asleep
    /\ left' = [left EXCEPT ![p] = time]
    /\ asleep' = asleep \cup {p}

\* Time does not pass while somebody's time is up.
Advance ==
    /\ \A p \in Proc : left[p] # 0
    /\ left' = [p \in Proc |-> IF left[p] = Unset THEN Unset ELSE left[p] - 1]
    /\ UNCHANGED asleep

\* The countdown is over: the process is awake, if it was not already.
Expire(p) ==
    /\ left[p] = 0
    /\ left' = [left EXCEPT ![p] = Unset]
    /\ asleep' = asleep \ {p}

\* A kill wakes a sleeper whose countdown still runs ...
Interrupt(p) ==
    /\ p \in asleep /\ left[p] # Unset
    /\ asleep' = asleep \ {p}
    /\ UNCHANGED left

\* ... and the process itself stops the countdown.
Cancel(p) ==
    /\ p \notin asleep /\ left[p] # Unset
    /\ left' = [left EXCEPT ![p] = Unset]
    /\ UNCHANGED asleep

Next ==
    \/ Advance
    \/ \E p \in Proc :
         \/ \E t \in 1 .. MaxSleep : Start(p, t)
         \/ Expire(p)
         \/ Interrupt(p)
         \/ Cancel(p)

Spec == Init /\ [][Next]_vars
=============================================================================
