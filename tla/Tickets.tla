------------------------------ MODULE Tickets ------------------------------
(***************************************************************************)
(* What a semaphore promises: every down takes the next number, every up   *)
(* calls one, and the numbers are called in the order in which they were   *)
(* taken.  A caller whose number has not been called waits until as many   *)
(* ups have come as were missing when it called down; nothing else lets it *)
(* go on, and nothing makes it wait longer.                                *)
(***************************************************************************)
EXTENDS Integers

CONSTANTS Proc, Sem, SemInit, NULL

VARIABLES balance,  \* first value plus ups minus downs
          pending,  \* the semaphore a caller of down waits for
          turn      \* the number of ups a waiter still needs

vars == <<balance, pending, turn>>

Init ==
    /\ balance = SemInit
    /\ pending = [p \in Proc |-> NULL]
    /\ turn = [p \in Proc |-> 0]

\* A down or try_down that finds a unit.
Take(s) ==
    /\ balance[s] > 0
    /\ balance' = [balance EXCEPT ![s] = @ - 1]
    /\ UNCHANGED <<pending, turn>>

Wait(p, s) ==
    /\ pending[p] = NULL /\ balance[s] <= 0
    /\ balance' = [balance EXCEPT ![s] = @ - 1]
    /\ pending' = [pending EXCEPT ![p] = s]
    /\ turn' = [turn EXCEPT ![p] = 1 - balance[s]]

Up(s) ==
    /\ balance' = [balance EXCEPT ![s] = @ + 1]
    /\ turn' = [p \in Proc |-> IF pending[p] = s /\ turn[p] > 0 THEN turn[p] - 1
                                                                ELSE turn[p]]
    /\ UNCHANGED pending

Go(p) ==
    /\ pending[p] # NULL /\ turn[p] = 0
    /\ pending' = [pending EXCEPT ![p] = NULL]
    /\ UNCHANGED <<balance, turn>>

Next ==
    \/ \E s \in Sem : Take(s) \/ Up(s)
    \/ \E p \in Proc : Go(p) \/ \E s \in Sem : Wait(p, s)

Spec == Init /\ [][Next]_vars
=============================================================================
