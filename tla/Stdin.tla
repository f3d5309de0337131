------------------------------- MODULE Stdin -------------------------------
(***************************************************************************)
(* The console input device, kern/fs/devs/dev_stdin.c: a ring buffer that  *)
(* the clock interrupt fills and dev_stdin_read empties, with a wait queue *)
(* of the readers that found it empty.                                     *)
(*                                                                         *)
(* Readers are user processes, so dev_stdin_read runs with interrupts off  *)
(* and is interrupted only where it gives up the CPU.  The interrupt is    *)
(* broken into its calls (the tick, dev_stdin_write, one wakeup_wait per   *)
(* waiter); `intr' says which of them is next, and nothing else runs until *)
(* the handler is done.                                                    *)
(*                                                                         *)
(* p_rpos and p_wpos only grow in the code; they are compared with each    *)
(* other and reduced modulo the size of the buffer, and never more than    *)
(* one buffer apart, so they are kept here modulo twice that size.         *)
(***************************************************************************)
EXTENDS Sched

CONSTANTS Char,            \* the characters the console delivers
          NUL,             \* '\0': cons_getc has none, an unused slot
          STDIN_BUFSIZE,
          MaxLen           \* bound: the longest read

ASSUME StdinAssumption ==
    /\ IsFiniteSet(Proc)
    /\ NUL \notin Char
    /\ STDIN_BUFSIZE \in Nat \ {0}
    /\ MaxLen \in Nat \ {0}

VARIABLES stdin_buffer,
          p_rpos, p_wpos,
          wait_queue,     \* the waiting readers, first one first
          wakeup_flags,   \* wait->wakeup_flags of the reader's wait_t
          len,            \* the length asked for by the read in progress
          buf,            \* the characters it has copied
          exiting,        \* proc->flags & PF_EXITING
          pc,             \* where each process is
          intr            \* what the clock interrupt does next

ring == <<stdin_buffer, p_rpos, p_wpos>>

queue == <<wait_queue, wakeup_flags>>

call == <<len, buf>>

vars == <<sched_vars, ring, queue, call, exiting, pc, intr>>

Modulus == 2 * STDIN_BUFSIZE

\* p_wpos - p_rpos
Unread == (p_wpos - p_rpos) % Modulus

At(p, loc) == intr = "none" /\ current = p /\ pc[p] = loc

Goto(p, loc) == pc' = [pc EXCEPT ![p] = loc]

-----------------------------------------------------------------------------
\* stdin_device_init, with the processes running in user mode.
Init ==
    /\ state = [p \in Thread |-> "RUNNABLE"]
    /\ wait_state = [p \in Thread |-> "none"]
    /\ run_list \in SetToSeqs(Proc)
    /\ current = idleproc
    /\ need_resched = [p \in Thread |-> p = idleproc]
    /\ time_slice = [p \in Thread |-> IF p = idleproc THEN 0 ELSE MAX_TIME_SLICE]
    /\ stdin_buffer = [i \in 0 .. STDIN_BUFSIZE - 1 |-> NUL]
    /\ p_rpos = 0 /\ p_wpos = 0
    /\ wait_queue = <<>>
    /\ wakeup_flags = [p \in Proc |-> "WT_INTERRUPTED"]
    /\ len = [p \in Proc |-> 0]
    /\ buf = [p \in Proc |-> <<>>]
    /\ exiting = [p \in Proc |-> FALSE]
    /\ pc = [p \in Proc |-> "user"]
    /\ intr = "none"

-----------------------------------------------------------------------------
(***************************************************************************)
(* The clock interrupt, taken in user mode or by the idle thread.          *)
(***************************************************************************)
Interruptible == current = idleproc \/ \E p \in Proc : At(p, "user")

\* run_timer_list, as far as the current thread is concerned.
Tick ==
    /\ intr = "none" /\ Interruptible
    /\ sched_class_proc_tick
    /\ intr' = "write"
    /\ UNCHANGED <<state, wait_state, run_list, current, ring, queue, call, exiting, pc>>

\* Mutant: the position moves on although the buffer is full.
Mutant_dev_stdin_write_Overruns(c) ==
    /\ intr = "write"
    /\ stdin_buffer' = [stdin_buffer EXCEPT ![p_wpos % STDIN_BUFSIZE] = c]
    /\ p_wpos' = (p_wpos + 1) % Modulus
    /\ intr' = "wakeup"
    /\ UNCHANGED <<sched_vars, p_rpos, queue, call, exiting, pc>>

\* A character has come.  The slot is written before the bound is tested: into a
\* full buffer it goes over the oldest unread character.
dev_stdin_write(c) ==
    /\ intr = "write"
    /\ stdin_buffer' = [stdin_buffer EXCEPT ![p_wpos % STDIN_BUFSIZE] = c]
    /\ p_wpos' = IF Unread < STDIN_BUFSIZE THEN (p_wpos + 1) % Modulus ELSE p_wpos
    /\ intr' = "wakeup"
    /\ UNCHANGED <<sched_vars, p_rpos, queue, call, exiting, pc>>

\* cons_getc returned '\0'.
NoInput ==
    /\ intr = "write"
    /\ intr' = "done"
    /\ UNCHANGED <<sched_vars, ring, queue, call, exiting, pc>>

\* Mutant: only the first reader is woken.
Mutant_wakeup_queue_FirstOnly ==
    /\ intr = "wakeup"
    /\ intr' = "done"
    /\ IF wait_queue = <<>>
         THEN UNCHANGED <<state, wait_state, run_list, time_slice, queue>>
         ELSE /\ wait_queue' = Tail(wait_queue)
              /\ wakeup_flags' = [wakeup_flags EXCEPT ![Head(wait_queue)] = "WT_KBD"]
              /\ wakeup_proc(Head(wait_queue))
    /\ UNCHANGED <<current, need_resched, ring, call, exiting, pc>>

\* wakeup_queue(wait_queue, WT_KBD, 1): everybody is taken off the queue and
\* woken, one after the other.  A reader that a kill has woken already is still
\* in the queue: it is flagged like the others, and wakeup_proc only warns.
wakeup_queue ==
    /\ intr = "wakeup"
    /\ IF wait_queue = <<>>
         THEN /\ intr' = "done"
              /\ UNCHANGED <<state, wait_state, run_list, time_slice, queue>>
         ELSE /\ wait_queue' = Tail(wait_queue)
              /\ wakeup_flags' = [wakeup_flags EXCEPT ![Head(wait_queue)] = "WT_KBD"]
              /\ wakeup_proc(Head(wait_queue))
              /\ UNCHANGED intr
    /\ UNCHANGED <<current, need_resched, ring, call, exiting, pc>>

\* The end of the handler; from user mode trap() goes on to its return path.
InterruptDone ==
    /\ intr = "done"
    /\ intr' = "none"
    /\ pc' = IF current = idleproc THEN pc ELSE [pc EXCEPT ![current] = "trap.return"]
    /\ UNCHANGED <<sched_vars, ring, queue, call, exiting>>

-----------------------------------------------------------------------------
(***************************************************************************)
(* dev_stdin_read                                                          *)
(***************************************************************************)

\* A read system call on descriptor 0.
sys_read(p, n) ==
    /\ At(p, "user")
    /\ len' = [len EXCEPT ![p] = n]
    /\ buf' = [buf EXCEPT ![p] = <<>>]
    /\ Goto(p, "read")
    /\ UNCHANGED <<sched_vars, ring, queue, exiting, intr>>

\* One turn of the loop that finds a character.
CopyChar(p) ==
    /\ At(p, "read") /\ Len(buf[p]) < len[p]
    /\ p_rpos # p_wpos
    /\ buf' = [buf EXCEPT ![p] = Append(@, stdin_buffer[p_rpos % STDIN_BUFSIZE])]
    /\ p_rpos' = (p_rpos + 1) % Modulus
    /\ UNCHANGED <<sched_vars, stdin_buffer, p_wpos, queue, len, exiting, pc, intr>>

\* Mutant: the reader sleeps without joining the queue.
Mutant_WaitForChar_Unqueued(p) ==
    /\ At(p, "read") /\ Len(buf[p]) < len[p]
    /\ p_rpos = p_wpos
    /\ wakeup_flags' = [wakeup_flags EXCEPT ![p] = "WT_INTERRUPTED"]
    /\ state' = [state EXCEPT ![p] = "SLEEPING"]
    /\ wait_state' = [wait_state EXCEPT ![p] = "WT_KBD"]
    /\ Goto(p, "read.schedule")
    /\ UNCHANGED <<run_list, current, need_resched, time_slice, ring, wait_queue, call,
                   exiting, intr>>

\* wait_current_set: the buffer is empty.
WaitForChar(p) ==
    /\ At(p, "read") /\ Len(buf[p]) < len[p]
    /\ p_rpos = p_wpos
    /\ wait_queue' = Append(wait_queue, p)
    /\ wakeup_flags' = [wakeup_flags EXCEPT ![p] = "WT_INTERRUPTED"]
    /\ state' = [state EXCEPT ![p] = "SLEEPING"]
    /\ wait_state' = [wait_state EXCEPT ![p] = "WT_KBD"]
    /\ Goto(p, "read.schedule")
    /\ UNCHANGED <<run_list, current, need_resched, time_slice, ring, call, exiting, intr>>

ReadSwitch(p) ==
    /\ At(p, "read.schedule")
    /\ schedule
    /\ Goto(p, "read.woken")
    /\ UNCHANGED <<state, wait_state, ring, queue, call, exiting, intr>>

\* Mutant: the wait_t stays in the queue of a reader woken by a kill.
Mutant_ReadWoken_NoDel(p) ==
    /\ At(p, "read.woken")
    /\ Goto(p, IF wakeup_flags[p] = "WT_KBD" THEN "read" ELSE "trap.return")
    /\ len' = IF wakeup_flags[p] = "WT_KBD" THEN len ELSE [len EXCEPT ![p] = 0]
    /\ UNCHANGED <<sched_vars, ring, queue, buf, exiting, intr>>

\* wait_current_del: the wait_t is unlinked if it is still in the queue.
Unqueued(p) ==
    IF p \notin Range(wait_queue)
      THEN wait_queue
      ELSE RemoveAt(wait_queue,
                    CHOOSE i \in 1 .. Len(wait_queue) : wait_queue[i] = p)

\* wait_current_del, then again if a character woke the reader; otherwise the
\* read ends with what it has.
ReadWoken(p) ==
    LET again == wakeup_flags[p] = "WT_KBD"
    IN  /\ At(p, "read.woken")
        /\ wait_queue' = Unqueued(p)
        /\ Goto(p, IF again THEN "read" ELSE "trap.return")
        /\ len' = IF again THEN len ELSE [len EXCEPT ![p] = 0]
        /\ UNCHANGED <<sched_vars, ring, wakeup_flags, buf, exiting, intr>>

\* All the characters asked for have been copied.
ReadReturn(p) ==
    /\ At(p, "read") /\ Len(buf[p]) = len[p]
    /\ len' = [len EXCEPT ![p] = 0]
    /\ Goto(p, "trap.return")
    /\ UNCHANGED <<sched_vars, ring, queue, buf, exiting, intr>>

-----------------------------------------------------------------------------
do_kill(p, target) ==
    LET marks == state[target] # "ZOMBIE" /\ ~exiting[target]
    IN  /\ At(p, "user")
        /\ exiting' = [exiting EXCEPT ![target] = marks \/ @]
        /\ IF marks /\ wait_state[target] \in WT_INTERRUPTED
             THEN wakeup_proc(target)
             ELSE UNCHANGED <<state, wait_state, run_list, time_slice>>
        /\ Goto(p, "trap.return")
        /\ UNCHANGED <<current, need_resched, ring, queue, call, intr>>

\* The end of trap(): a killed process exits, a preempted one gives way.
TrapExit(p) ==
    /\ At(p, "trap.return") /\ exiting[p]
    /\ state' = [state EXCEPT ![p] = "ZOMBIE"]
    /\ Goto(p, "exit.schedule")
    /\ UNCHANGED <<wait_state, run_list, current, need_resched, time_slice, ring, queue,
                   call, exiting, intr>>

ExitSwitch(p) ==
    /\ At(p, "exit.schedule")
    /\ schedule
    /\ Goto(p, "gone")
    /\ UNCHANGED <<state, wait_state, ring, queue, call, exiting, intr>>

TrapReturn(p) ==
    /\ At(p, "trap.return") /\ ~exiting[p]
    /\ IF need_resched[p] THEN schedule
                          ELSE UNCHANGED <<run_list, time_slice, current, need_resched>>
    /\ Goto(p, "user")
    /\ UNCHANGED <<state, wait_state, ring, queue, call, exiting, intr>>

\* cpu_idle
IdleLoop ==
    /\ intr = "none" /\ current = idleproc /\ need_resched[idleproc]
    /\ schedule
    /\ UNCHANGED <<state, wait_state, ring, queue, call, exiting, pc, intr>>

\* What a process does in the kernel.
InKernel(p) ==
    \/ CopyChar(p) \/ WaitForChar(p) \/ ReadSwitch(p) \/ ReadWoken(p) \/ ReadReturn(p)
    \/ TrapExit(p) \/ ExitSwitch(p) \/ TrapReturn(p)

Handler ==
    \/ NoInput \/ \E c \in Char : dev_stdin_write(c)
    \/ wakeup_queue
    \/ InterruptDone

Next ==
    \/ Tick \/ Handler \/ IdleLoop
    \/ \E p \in Proc :
         \/ InKernel(p)
         \/ \E n \in 1 .. MaxLen : sys_read(p, n)
         \/ \E q \in Proc : do_kill(p, q)

Spec == Init /\ [][Next]_vars

\* The kernel and the interrupt handler run to their end, the clock keeps
\* ticking, and the idle loop executes between ticks.
FairSpec ==
    /\ Spec
    /\ WF_vars(\E p \in Proc : InKernel(p)) /\ WF_vars(Handler)
    /\ SF_vars(Tick) /\ SF_vars(IdleLoop)

-----------------------------------------------------------------------------
TypeOK ==
    /\ SchedTypeOK
    /\ stdin_buffer \in [0 .. STDIN_BUFSIZE - 1 -> Char \cup {NUL}]
    /\ p_rpos \in 0 .. Modulus - 1 /\ p_wpos \in 0 .. Modulus - 1
    /\ Unread <= STDIN_BUFSIZE
    /\ wait_queue \in Seq(Proc)
    /\ wakeup_flags \in [Proc -> {"WT_INTERRUPTED", "WT_KBD"}]
    /\ len \in [Proc -> 0 .. MaxLen]
    /\ buf \in [Proc -> Seq(Char)] /\ \A p \in Proc : Len(buf[p]) <= MaxLen
    /\ exiting \in [Proc -> BOOLEAN]
    /\ pc \in [Proc -> {"user", "trap.return", "read", "read.schedule", "read.woken",
                        "exit.schedule", "gone"}]
    /\ intr \in {"none", "write", "wakeup", "done"}

\* No reader sleeps on input: outside the interrupt handler nobody is in the wait
\* queue while a character is unread, and every process asleep in dev_stdin_read
\* is in the queue, so the next character finds it (dev_stdin.c:30 and 52).
NoSleepOnInput ==
    /\ intr # "wakeup" /\ wait_queue # <<>> => Unread = 0
    /\ \A p \in Proc : wait_state[p] = "WT_KBD" => p \in Range(wait_queue)

\* A wait_t is in the queue once, and only while its frame, dev_stdin_read's, is
\* live: no exited process and no finished read leaves one behind.
WaitFramesLive ==
    /\ TypeOK
    /\ IsInjective(wait_queue)
    /\ \A p \in Range(wait_queue) : pc[p] \in {"read.schedule", "read.woken"}

\* The unread characters, oldest first.
UnreadChars ==
    [i \in 1 .. Unread |-> stdin_buffer[(p_rpos + i - 1) % STDIN_BUFSIZE]]

Channel == INSTANCE InputChannel WITH unread <- UnreadChars, taken <- buf, Capacity <- STDIN_BUFSIZE

\* The ring buffer is a bounded channel: every character typed is read by one
\* reader, once and in the order of typing, unless the buffer was full.
ImplementsChannel == Channel!Spec

Typed == \E c \in Char : dev_stdin_write(c)

\* As long as characters come, the readers do not wait for each other: if every
\* live process is reading, some read ends.
InputServesReaders ==
    []<><<Typed>>_vars =>
      (\A p \in Proc : len[p] > 0) ~> (\E p \in Proc : len[p] = 0)

\* A killed reader does not read on: as long as characters come, it leaves
\* dev_stdin_read, from where trap() makes it exit.  Does not hold: dev_stdin_read
\* never looks at PF_EXITING, and waits again once it was woken (dev_stdin.c:59).
KilledReaderLeaves ==
    []<><<Typed>>_vars =>
      \A p \in Proc : exiting[p] /\ len[p] > 0 ~> len[p] = 0
=============================================================================
