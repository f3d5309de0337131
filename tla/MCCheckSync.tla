---------------------------- MODULE MCCheckSync ----------------------------
(***************************************************************************)
(* CheckSync, a small table.                                               *)
(***************************************************************************)
EXTENDS CheckSync

FirstValues == [x \in Sem |-> IF x = mutex THEN 1 ELSE 0]
=============================================================================
