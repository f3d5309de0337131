------------------------------- MODULE GetPid -------------------------------
(***************************************************************************)
(* get_pid of kern/process/proc.c: which pid a new process gets.           *)
(*                                                                         *)
(* `pids' is proc_list, newest first, each process by its pid; idleproc,   *)
(* pid 0, is counted in nr_process and not linked.  last_pid and next_safe *)
(* are the static variables of the function: it is to hold between calls   *)
(* that no process has a pid between them, so that a call may take the     *)
(* next pid without looking at the list.  The turns of the loop over the   *)
(* list are steps; `scan' is the entry the loop has come to, 0 when        *)
(* get_pid does not run and Len(pids) + 1 when it returns.                 *)
(***************************************************************************)
EXTENDS Integers, SequencesExt

CONSTANTS MaxProcess,    \* MAX_PROCESS
          MAX_PID

ASSUME PidAssumption ==
    /\ MaxProcess \in Nat /\ MAX_PID \in Nat
    /\ MaxProcess > 1
    /\ MAX_PID > MaxProcess     \* the static_assert of get_pid

VARIABLES pids, last_pid, next_safe, scan

pid_vars == <<pids, last_pid, next_safe, scan>>

\* nr_process.  Where Proc has a name already, this module uses another one.
NrProcess == Len(pids) + 1

PidInit ==
    /\ pids = <<>>
    /\ last_pid = MAX_PID /\ next_safe = MAX_PID
    /\ scan = 0

\* inside: the list is searched from its head for the candidate pid.
Search(pid) ==
    /\ last_pid' = IF pid >= MAX_PID THEN 1 ELSE pid
    /\ next_safe' = MAX_PID
    /\ scan' = 1

\* do_fork calls get_pid: the next pid is taken as it is while it is below
\* next_safe.
get_pid ==
    /\ scan = 0 /\ NrProcess < MaxProcess
    /\ IF last_pid + 1 >= MAX_PID \/ last_pid + 1 >= next_safe
         THEN Search(last_pid + 1)
         ELSE /\ last_pid' = last_pid + 1
              /\ scan' = NrProcess
              /\ UNCHANGED next_safe
    /\ UNCHANGED pids

\* Mutant: a search that has to be repeated begins with pid 1.
Mutant_Taken_FromOne ==
    /\ scan \in 1 .. Len(pids) /\ pids[scan] = last_pid
    /\ IF last_pid + 1 >= next_safe
         THEN last_pid' = 1 /\ next_safe' = MAX_PID /\ scan' = 1
         ELSE last_pid' = last_pid + 1 /\ scan' = scan + 1 /\ UNCHANGED next_safe
    /\ UNCHANGED pids

\* Mutant: the search goes on where it is.
Mutant_Taken_NoRepeat ==
    /\ scan \in 1 .. Len(pids) /\ pids[scan] = last_pid
    /\ IF last_pid + 1 >= next_safe
         THEN /\ last_pid' = IF last_pid + 1 >= MAX_PID THEN 1 ELSE last_pid + 1
              /\ next_safe' = MAX_PID
         ELSE /\ last_pid' = last_pid + 1
              /\ UNCHANGED next_safe
    /\ scan' = scan + 1
    /\ UNCHANGED pids

\* The entry has the candidate pid: the next one is tried, from here while it is
\* known to be safe and from the head of the list otherwise.
Taken ==
    /\ scan \in 1 .. Len(pids) /\ pids[scan] = last_pid
    /\ IF last_pid + 1 >= next_safe
         THEN Search(last_pid + 1)
         ELSE last_pid' = last_pid + 1 /\ scan' = scan + 1 /\ UNCHANGED next_safe
    /\ UNCHANGED pids

\* Mutant: next_safe is what the last entry says, not the least of them.
Mutant_Other_LastOnly ==
    /\ scan \in 1 .. Len(pids) /\ pids[scan] # last_pid
    /\ next_safe' = IF pids[scan] > last_pid THEN pids[scan] ELSE next_safe
    /\ scan' = scan + 1
    /\ UNCHANGED <<pids, last_pid>>

\* The entry has another pid: next_safe is the least one above the candidate.
Other ==
    /\ scan \in 1 .. Len(pids) /\ pids[scan] # last_pid
    /\ next_safe' = IF pids[scan] > last_pid /\ next_safe > pids[scan]
                      THEN pids[scan] ELSE next_safe
    /\ scan' = scan + 1
    /\ UNCHANGED <<pids, last_pid>>

\* get_pid returns last_pid, and set_links links the process at the head.
link_pid ==
    /\ scan = NrProcess
    /\ pids' = InsertAt(pids, 1, last_pid)
    /\ scan' = 0
    /\ UNCHANGED <<last_pid, next_safe>>

\* remove_links, called by do_wait for a child that has exited; initproc, pid 1,
\* has no parent that waits.
unlink_pid(i) ==
    /\ scan = 0 /\ pids[i] # 1
    /\ pids' = RemoveAt(pids, i)
    /\ UNCHANGED <<last_pid, next_safe, scan>>

InCall == Taken \/ Other \/ link_pid

PidNext == get_pid \/ InCall \/ \E i \in 1 .. Len(pids) : unlink_pid(i)

PidSpec == PidInit /\ [][PidNext]_pid_vars

\* A call is executed to its end.
FairPidSpec == PidSpec /\ WF_pid_vars(InCall)

-----------------------------------------------------------------------------
Pid == 1 .. MAX_PID - 1

PidTypeOK ==
    /\ pids \in Seq(Pid)
    /\ last_pid \in 1 .. MAX_PID
    /\ next_safe \in 1 .. MAX_PID
    /\ scan \in 0 .. NrProcess

\* No two processes have the same pid, whatever was forked and reaped, and
\* however often the pids have wrapped around.
UniquePids == IsInjective(pids)

\* Between calls no process has a pid between last_pid and next_safe: what the
\* next call relies on when it does not search.
GapIsFree ==
    scan = 0 => \A p \in Range(pids) : ~(last_pid < p /\ p < next_safe)

\* A call of get_pid finds a pid: the search is repeated only finitely often,
\* because MAX_PID > MaxProcess leaves a pid free.
SearchEnds == scan # 0 ~> scan = 0

\* What the loop knows of the entries it has passed; inductive with the above.
Passed ==
    scan # 0 =>
      /\ last_pid < MAX_PID
      /\ \A k \in 1 .. scan - 1 :
           pids[k] # last_pid /\ ~(last_pid < pids[k] /\ pids[k] < next_safe)

PidInv == PidTypeOK /\ UniquePids /\ GapIsFree /\ Passed
=============================================================================
