---------------------------- MODULE InputChannel ----------------------------
(***************************************************************************)
(* What the console input promises: a bounded channel of characters shared *)
(* by all readers.  A character that finds the channel full replaces the   *)
(* oldest one.                                                             *)
(***************************************************************************)
EXTENDS Integers, Sequences

CONSTANTS Proc, Char, Capacity

VARIABLES unread,   \* the characters nobody has read, oldest first
          taken     \* what each reader's current or last read has got

Init == unread = <<>> /\ taken = [p \in Proc |-> <<>>]

Type(c) ==
    /\ unread' = IF Len(unread) < Capacity THEN Append(unread, c)
                                           ELSE [unread EXCEPT ![1] = c]
    /\ UNCHANGED taken

Begin(p) ==
    /\ taken' = [taken EXCEPT ![p] = <<>>]
    /\ UNCHANGED unread

Take(p) ==
    /\ unread # <<>>
    /\ taken' = [taken EXCEPT ![p] = Append(@, Head(unread))]
    /\ unread' = Tail(unread)

Next ==
    \/ \E c \in Char : Type(c)
    \/ \E p \in Proc : Begin(p) \/ Take(p)

Spec == Init /\ [][Next]_<<unread, taken>>
=============================================================================
