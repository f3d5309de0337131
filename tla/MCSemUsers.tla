---------------------------- MODULE MCSemUsers -----------------------------
(***************************************************************************)
(* SemUsers on two semaphores.                                             *)
(***************************************************************************)
EXTENDS SemUsers

CONSTANTS m, s      \* a mutex and a semaphore that starts at 0

FirstValues == [x \in Sem |-> IF x = m THEN 1 ELSE 0]

Threads == Permutations(Proc)
=============================================================================
