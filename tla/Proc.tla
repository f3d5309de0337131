-------------------------------- MODULE Proc --------------------------------
(***************************************************************************)
(* The process life cycle of kern/process/proc.c: do_fork, do_exit,        *)
(* do_wait, do_kill, the process tree with its cptr/optr/yptr links, and   *)
(* init_main, on top of the scheduler.                                     *)
(*                                                                         *)
(* A process structure is a member of Proc; a member that is not in        *)
(* `allocated' is free memory.  Its pid is the structure itself (get_pid   *)
(* has a module of its own).  User processes run with interrupts off in    *)
(* the kernel; initproc is a kernel thread and takes ticks anywhere, but a *)
(* tick in the kernel only charges its slice.                              *)
(***************************************************************************)
EXTENDS Sched

CONSTANTS initproc,      \* the kernel thread that runs init_main, pid 1
          NULL,
          MAX_PROCESS,   \* proc.h: bound on nr_process
          CanKill,       \* the processes that do_kill may be asked to kill
          FilesMayFail   \* whether copy_files may run out of memory

ASSUME ProcAssumption ==
    /\ initproc \in Proc /\ IsFiniteSet(Proc)
    /\ NULL \notin Thread
    /\ MAX_PROCESS \in Nat
    /\ CanKill \subseteq Proc
    /\ FilesMayFail \in BOOLEAN

VARIABLES allocated,   \* the process structures in use
          proc_list,   \* the ones linked in proc_list (and in hash_list)
          nr_process,
          parent, cptr, optr, yptr,  \* the links of the process tree
          exiting,     \* proc->flags & PF_EXITING
          waitpid,     \* the argument of do_wait, NULL for "any child"
          pc

tree == <<parent, cptr, optr, yptr>>

table == <<allocated, proc_list, nr_process>>

proc_vars == <<table, tree, exiting, waitpid, pc>>

vars == <<sched_vars, proc_vars>>

User == Proc \ {initproc}

Location ==
    {"user", "trap.return",
     "wait.scan", "wait.schedule", "wait.woken",
     "exit", "exit.notify", "exit.reparent", "gone",
     "init.fork", "init.schedule", "init.done", "panic"}

At(p, loc) == current = p /\ pc[p] = loc

Goto(p, loc) == pc' = [pc EXCEPT ![p] = loc]

-----------------------------------------------------------------------------
\* proc_init: idleproc has created initproc, which has not run yet.
Init ==
    /\ state = [p \in Thread |-> IF p \in {idleproc, initproc} THEN "RUNNABLE"
                                                               ELSE "UNINIT"]
    /\ wait_state = [p \in Thread |-> "none"]
    /\ run_list = <<initproc>>
    /\ current = idleproc
    /\ need_resched = [p \in Thread |-> p = idleproc]
    /\ time_slice = [p \in Thread |-> IF p = initproc THEN MAX_TIME_SLICE ELSE 0]
    /\ allocated = {initproc}
    /\ proc_list = {initproc}
    /\ nr_process = 2
    /\ parent = [p \in Thread |-> IF p = initproc THEN idleproc ELSE NULL]
    /\ cptr = [p \in Thread |-> IF p = idleproc THEN initproc ELSE NULL]
    /\ optr = [p \in Thread |-> NULL]
    /\ yptr = [p \in Thread |-> NULL]
    /\ exiting = [p \in Proc |-> FALSE]
    /\ waitpid = [p \in Proc |-> NULL]
    /\ pc = [p \in Proc |-> IF p = initproc THEN "init.fork" ELSE "user"]

-----------------------------------------------------------------------------
(***************************************************************************)
(* The process tree.                                                       *)
(***************************************************************************)

\* Pushes c on the list of children of p.  Sets the four links.
LinkChild(c, p) ==
    LET oldest == cptr[p]
    IN  /\ parent' = [parent EXCEPT ![c] = p]
        /\ optr' = [optr EXCEPT ![c] = oldest]
        /\ yptr' = IF oldest = NULL THEN [yptr EXCEPT ![c] = NULL]
                                    ELSE [yptr EXCEPT ![c] = NULL, ![oldest] = c]

\* set_links: proc_list, nr_process and the parent's list of children.
set_links(c, p) ==
    /\ LinkChild(c, p)
    /\ cptr' = [cptr EXCEPT ![p] = c]
    /\ proc_list' = proc_list \cup {c}
    /\ nr_process' = nr_process + 1

\* The links after c has been taken out of its list; NULL where there is no
\* neighbour to update.
WithoutLink(c) ==
    [o |-> IF yptr[c] = NULL THEN optr ELSE [optr EXCEPT ![yptr[c]] = optr[c]],
     y |-> IF optr[c] = NULL THEN yptr ELSE [yptr EXCEPT ![optr[c]] = yptr[c]],
     k |-> IF yptr[c] = NULL THEN [cptr EXCEPT ![parent[c]] = optr[c]] ELSE cptr]

\* Mutant: the next younger sibling is forgotten.
Mutant_remove_links_KeepsYounger(c) ==
    LET w == WithoutLink(c)
    IN  /\ optr' = [optr EXCEPT ![c] = NULL]
        /\ yptr' = [w.y EXCEPT ![c] = NULL]
        /\ cptr' = w.k
        /\ parent' = [parent EXCEPT ![c] = NULL]
        /\ proc_list' = proc_list \ {c}
        /\ nr_process' = nr_process - 1

\* remove_links and unhash_proc of a structure that is freed right afterwards
\* (its own links are reset with it).
remove_links(c) ==
    LET w == WithoutLink(c)
    IN  /\ optr' = [w.o EXCEPT ![c] = NULL]
        /\ yptr' = [w.y EXCEPT ![c] = NULL]
        /\ cptr' = w.k
        /\ parent' = [parent EXCEPT ![c] = NULL]
        /\ proc_list' = proc_list \ {c}
        /\ nr_process' = nr_process - 1

\* The children of p in list order, followed through optr.
Child(p) ==
    LET walk[n \in 1 .. Cardinality(Proc)] ==
          IF n = 1 THEN cptr[p]
          ELSE IF walk[n - 1] = NULL THEN NULL ELSE optr[walk[n - 1]]
    IN  walk

Children(p) == Range(Child(p)) \ {NULL}

-----------------------------------------------------------------------------
(***************************************************************************)
(* do_fork                                                                 *)
(***************************************************************************)
Forking(p) == At(p, "user") \/ At(p, "init.fork")

\* Where a system call of p ends.
Return(p) == Goto(p, IF p = initproc THEN "wait.scan" ELSE "trap.return")

\* No free slot, or no memory for the structure, the kernel stack or the
\* address space: everything taken so far is given back.  init_main panics if it
\* cannot create the first process, so it is not given this outcome.
ForkRefused(p) ==
    /\ At(p, "user")
    /\ Return(p)
    /\ UNCHANGED <<sched_vars, table, tree, exiting, waitpid>>

do_fork(p, c) ==
    /\ Forking(p)
    /\ nr_process < MAX_PROCESS
    /\ c \notin allocated \cup proc_list
    /\ allocated' = allocated \cup {c}
    /\ set_links(c, p)
    /\ wakeup_proc(c)
    /\ Return(p)
    /\ UNCHANGED <<current, need_resched, exiting, waitpid>>

\* copy_files fails after the child has been linked: bad_fork_cleanup_kstack
\* frees the structure and leaves it linked and counted.
ForkFilesFail(p, c) ==
    /\ FilesMayFail
    /\ At(p, "user")
    /\ nr_process < MAX_PROCESS
    /\ c \notin allocated \cup proc_list
    /\ set_links(c, p)
    /\ Return(p)
    /\ UNCHANGED <<sched_vars, allocated, exiting, waitpid>>

-----------------------------------------------------------------------------
(***************************************************************************)
(* do_exit                                                                 *)
(***************************************************************************)
sys_exit(p) ==
    /\ At(p, "user")
    /\ Goto(p, "exit")
    /\ UNCHANGED <<sched_vars, table, tree, exiting, waitpid>>

\* Becomes a zombie; initproc must not exit.
do_exit(p) ==
    /\ At(p, "exit")
    /\ IF p = initproc
         THEN Goto(p, "panic") /\ UNCHANGED state
         ELSE Goto(p, "exit.notify") /\ state' = [state EXCEPT ![p] = "ZOMBIE"]
    /\ UNCHANGED <<wait_state, run_list, current, need_resched, time_slice, table, tree,
                   exiting, waitpid>>

\* Mutant: the parent is woken by the first tick that notices, that is, never.
Mutant_NotifyParent_Silent(p) ==
    /\ At(p, "exit.notify")
    /\ Goto(p, "exit.reparent")
    /\ UNCHANGED <<sched_vars, table, tree, exiting, waitpid>>

\* Wakes the parent if it waits for a child.
NotifyParent(p) ==
    /\ At(p, "exit.notify")
    /\ IF wait_state[parent[p]] = "WT_CHILD"
         THEN wakeup_proc(parent[p])
         ELSE UNCHANGED <<state, wait_state, run_list, time_slice>>
    /\ Goto(p, "exit.reparent")
    /\ UNCHANGED <<current, need_resched, table, tree, exiting, waitpid>>

\* Mutant: initproc is not told about the zombies it inherits.
Mutant_Reparent_NoWakeup(p) ==
    /\ At(p, "exit.reparent") /\ cptr[p] # NULL
    /\ LinkChild(cptr[p], initproc)
    /\ cptr' = [cptr EXCEPT ![p] = optr[cptr[p]], ![initproc] = cptr[p]]
    /\ UNCHANGED <<sched_vars, table, exiting, waitpid, pc>>

\* One round of the loop that gives the children to initproc.
Reparent(p) ==
    LET c == cptr[p]
    IN  /\ At(p, "exit.reparent") /\ c # NULL
        /\ LinkChild(c, initproc)
        /\ cptr' = [cptr EXCEPT ![p] = optr[c], ![initproc] = c]
        /\ IF state[c] = "ZOMBIE" /\ wait_state[initproc] = "WT_CHILD"
             THEN wakeup_proc(initproc)
             ELSE UNCHANGED <<state, wait_state, run_list, time_slice>>
        /\ UNCHANGED <<current, need_resched, table, exiting, waitpid, pc>>

ExitSwitch(p) ==
    /\ At(p, "exit.reparent") /\ cptr[p] = NULL
    /\ schedule
    /\ Goto(p, "gone")
    /\ UNCHANGED <<state, wait_state, table, tree, exiting, waitpid>>

-----------------------------------------------------------------------------
(***************************************************************************)
(* do_wait                                                                 *)
(***************************************************************************)
sys_wait(p, pid) ==
    /\ At(p, "user")
    /\ waitpid' = [waitpid EXCEPT ![p] = pid]
    /\ Goto(p, "wait.scan")
    /\ UNCHANGED <<sched_vars, table, tree, exiting>>

\* Mutant: haskid is set for a dead child only.
Mutant_Candidates_DeadOnly(p) ==
    {c \in Children(p) : state[c] = "ZOMBIE"}

\* The children do_wait looks at.
Candidates(p) ==
    IF waitpid[p] = NULL
      THEN Children(p)
      ELSE {c \in proc_list : c = waitpid[p] /\ parent[c] = p}

Zombies(p) == {c \in Candidates(p) : state[c] = "ZOMBIE"}

\* do_wait stops at c: the child asked for, or the first zombie of the list.
Found(p, c) ==
    /\ c \in Zombies(p)
    /\ waitpid[p] = NULL =>
         \E i \in DOMAIN Child(p) :
           Child(p)[i] = c /\ \A j \in 1 .. i - 1 : state[Child(p)[j]] # "ZOMBIE"

\* found: the child is unlinked and its structure freed.  init_main then calls
\* schedule() before it waits again.
WaitReap(p) ==
    /\ At(p, "wait.scan")
    /\ \E c \in Proc :
         /\ Found(p, c)
         /\ remove_links(c)
         /\ allocated' = allocated \ {c}
         /\ state' = [state EXCEPT ![c] = "UNINIT"]
         /\ time_slice' = [time_slice EXCEPT ![c] = 0]
         /\ need_resched' = [need_resched EXCEPT ![c] = FALSE]
         /\ exiting' = [exiting EXCEPT ![c] = FALSE]
         /\ pc' = [pc EXCEPT ![c] = "user",
                             ![p] = IF p = initproc THEN "init.schedule"
                                                    ELSE "trap.return"]
    /\ waitpid' = [waitpid EXCEPT ![p] = NULL]
    /\ UNCHANGED <<wait_state, run_list, current>>

WaitSleep(p) ==
    /\ At(p, "wait.scan") /\ Zombies(p) = {} /\ Candidates(p) # {}
    /\ state' = [state EXCEPT ![p] = "SLEEPING"]
    /\ wait_state' = [wait_state EXCEPT ![p] = "WT_CHILD"]
    /\ Goto(p, "wait.schedule")
    /\ UNCHANGED <<run_list, current, need_resched, time_slice, table, tree, exiting,
                   waitpid>>

\* -E_BAD_PROC, at which init_main leaves its loop.
WaitNoChild(p) ==
    /\ At(p, "wait.scan") /\ Candidates(p) = {}
    /\ Goto(p, IF p = initproc THEN "init.done" ELSE "trap.return")
    /\ waitpid' = [waitpid EXCEPT ![p] = NULL]
    /\ UNCHANGED <<sched_vars, table, tree, exiting>>

WaitSwitch(p) ==
    /\ At(p, "wait.schedule")
    /\ schedule
    /\ Goto(p, "wait.woken")
    /\ UNCHANGED <<state, wait_state, table, tree, exiting, waitpid>>

\* Mutant: do_wait does not look at PF_EXITING and scans again.
Mutant_WaitWoken_IgnoresKill(p) ==
    /\ At(p, "wait.woken")
    /\ Goto(p, "wait.scan")
    /\ UNCHANGED <<sched_vars, table, tree, exiting, waitpid>>

\* schedule() has returned: a killed process exits, any other looks again.
WaitWoken(p) ==
    /\ At(p, "wait.woken")
    /\ Goto(p, IF exiting[p] THEN "exit" ELSE "wait.scan")
    /\ UNCHANGED <<sched_vars, table, tree, exiting, waitpid>>

-----------------------------------------------------------------------------
do_kill(p, target) ==
    LET marks == target \in proc_list /\ ~exiting[target]
    IN  /\ At(p, "user")
        /\ exiting' = [exiting EXCEPT ![target] = marks \/ @]
        /\ IF marks /\ wait_state[target] \in WT_INTERRUPTED
             THEN wakeup_proc(target)
             ELSE UNCHANGED <<state, wait_state, run_list, time_slice>>
        /\ Return(p)
        /\ UNCHANGED <<current, need_resched, table, tree, waitpid>>

\* trap() on the way back to user mode.
TrapReturn(p) ==
    /\ At(p, "trap.return")
    /\ Goto(p, IF exiting[p] THEN "exit" ELSE "user")
    /\ IF ~exiting[p] /\ need_resched[p]
         THEN schedule
         ELSE UNCHANGED <<run_list, current, need_resched, time_slice>>
    /\ UNCHANGED <<state, wait_state, table, tree, exiting, waitpid>>

\* The loop of init_main: while (do_wait(0, NULL) == 0) schedule();
InitSwitch ==
    /\ At(initproc, "init.schedule")
    /\ schedule
    /\ Goto(initproc, "wait.scan")
    /\ UNCHANGED <<state, wait_state, table, tree, exiting, waitpid>>

IdleLoop ==
    /\ current = idleproc /\ need_resched[idleproc]
    /\ schedule
    /\ UNCHANGED <<state, wait_state, proc_vars>>

\* The clock interrupt, as far as no timer is concerned.
Tick ==
    /\ current \in {idleproc, initproc} \cup {p \in User : pc[p] = "user"}
    /\ sched_class_proc_tick
    /\ IF current \in User THEN Goto(current, "trap.return") ELSE UNCHANGED pc
    /\ UNCHANGED <<state, wait_state, run_list, current, table, tree, exiting, waitpid>>

-----------------------------------------------------------------------------
\* The system stops when init_main has returned or somebody has panicked.
Halted == \E p \in Proc : pc[p] \in {"init.done", "panic"}

KernelStep(p) ==
    \/ do_exit(p)
    \/ NotifyParent(p)
    \/ Reparent(p)
    \/ ExitSwitch(p)
    \/ WaitReap(p)
    \/ WaitSleep(p)
    \/ WaitNoChild(p)
    \/ WaitSwitch(p)
    \/ WaitWoken(p)
    \/ TrapReturn(p)

UserStep(p) ==
    \/ ForkRefused(p)
    \/ \E c \in Proc : ForkFilesFail(p, c)
    \/ sys_exit(p)
    \/ \E pid \in User \cup {NULL} : sys_wait(p, pid)
    \/ \E q \in CanKill : do_kill(p, q)

Next ==
    \/ /\ ~Halted
       /\ \/ \E p \in Proc : KernelStep(p)
          \/ \E p \in User : UserStep(p)
          \/ \E p, c \in Proc : do_fork(p, c)
          \/ InitSwitch
          \/ IdleLoop
          \/ Tick
    \/ Halted /\ UNCHANGED vars

Spec == Init /\ [][Next]_vars

(***************************************************************************)
(* Fairness: a thread in the kernel keeps running, and a tick that is      *)
(* pending is taken when interrupts are on again (strong fairness: system  *)
(* calls mask it over and over).  User code may spin for ever.             *)
(***************************************************************************)
KernelRuns ==
    \/ \E p \in Proc : KernelStep(p)
    \/ \E c \in Proc : do_fork(initproc, c)
    \/ InitSwitch
    \/ IdleLoop

Fairness ==
    /\ SF_vars(~Halted /\ Tick)
    /\ WF_vars(~Halted /\ KernelRuns)

FairSpec == Spec /\ Fairness

-----------------------------------------------------------------------------
TypeOK ==
    /\ SchedTypeOK
    /\ allocated \subseteq Proc /\ proc_list \subseteq Proc /\ nr_process \in Nat
    /\ {parent, cptr, optr, yptr} \subseteq [Thread -> Thread \cup {NULL}]
    /\ exiting \in [Proc -> BOOLEAN]
    /\ waitpid \in [Proc -> Proc \cup {NULL}]
    /\ pc \in [Proc -> Location]

\* proc_list and nr_process describe the processes that exist ("proc_list: the
\* process set's list", "nr_process: the number of process set", proc.c:540).
TableOK ==
    /\ proc_list = allocated
    /\ nr_process = Cardinality(allocated) + 1

\* The table is exact and the links are a tree: following cptr and optr from a
\* process visits exactly its children, each once, and yptr leads back.  The list
\* of a process that is giving its children away is exempt from the yptr part.  A
\* process that has given up the CPU for good leaves no child behind, and its
\* structure stays until its parent has reaped it.
TreeOK ==
    /\ TypeOK /\ TableOK
    /\ \A p \in Thread :
         /\ Children(p) = {c \in Proc : parent[c] = p}
         /\ \A i, j \in DOMAIN Child(p) :
              Child(p)[i] = Child(p)[j] /\ Child(p)[i] # NULL => i = j
         /\ p \in Proc /\ pc[p] # "exit.reparent" =>
              \A i \in DOMAIN Child(p) :
                Child(p)[i] # NULL =>
                  yptr[Child(p)[i]] = IF i = 1 THEN NULL ELSE Child(p)[i - 1]
         /\ p \in Proc /\ pc[p] = "gone" =>
              /\ state[p] = "ZOMBIE" /\ wait_state[p] = "none" /\ cptr[p] = NULL
              /\ p \in proc_list /\ parent[p] \in allocated

\* No exit notification is lost: a process asleep in do_wait still has a child
\* to wait for, and none of those it waits for is a zombie that has notified its
\* parent, whether the child exited, was inherited as a zombie or the parent was
\* busy at the time.
WaiterNotForgotten ==
    \A p \in Proc :
      state[p] = "SLEEPING" =>
        /\ Candidates(p) # {}
        /\ \A c \in Zombies(p) : pc[c] = "exit.notify"

\* The assertions at the end of init_main (proc.c:1227): when there is nobody
\* left to wait for, initproc is the only process besides idleproc.
InitLeavesNobody ==
    pc[initproc] = "init.done" =>
      /\ cptr[initproc] = NULL /\ yptr[initproc] = NULL /\ optr[initproc] = NULL
      /\ nr_process = 2
      /\ proc_list = {initproc}

\* A process that waits while a child of its is dead leaves do_wait: it reaps some
\* child, or it is killed itself.  It need not be this child: do_wait takes the
\* youngest zombie, so a stream of new ones may keep an old one waiting for ever.
Waiting == {"wait.scan", "wait.schedule", "wait.woken"}

WaitReturns ==
    \A p \in Proc :
      (pc[p] \in Waiting /\ Zombies(p) # {}) ~> (pc[p] \notin Waiting)

\* do_kill works on a process that sleeps in do_wait and on one that is about to
\* return to user mode: either exits.
KilledWaiterExits ==
    \A p \in CanKill :
      (exiting[p] /\ (\/ pc[p] = "trap.return"
                      \/ pc[p] = "wait.woken" /\ state[p] = "RUNNABLE"))
        ~> (state[p] \in {"ZOMBIE", "UNINIT"})

\* "do_kill - kill process with pid by set this process's flags with PF_EXITING"
\* (proc.c:1124): whoever is marked exits, wherever the kill found it.  Does not
\* hold: trap() tests the flag before schedule() (trap.c:251), not after it.
KilledExits ==
    \A p \in User : exiting[p] ~> (state[p] \in {"ZOMBIE", "UNINIT"})
=============================================================================
