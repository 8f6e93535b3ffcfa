-------------------------------- MODULE Tty --------------------------------
(***************************************************************************)
(* The terminal's input side: kernel/tty.c, fed by drivers/ps2.c.  One     *)
(* line buffer and one slot for the task that reads; the reader always     *)
(* sleeps first and is put back in the ring by the interrupt of the Enter  *)
(* key.  The characters themselves are left out; bufi counts them.         *)
(***************************************************************************)
EXTENDS Sched

CONSTANT TTY_BUF_SIZE

ASSUME TtyAssumption == TTY_BUF_SIZE \in Nat

VARIABLES bufi, waiting_task, release

ttyVars == <<bufi, waiting_task, release>>

\* A byte from the keyboard: 0xf0 announces a key release, every other byte
\* is a key, Enter or another one.
Scancodes == {"release", "enter", "other"}

\* Mutant: the reader sleeps without telling the terminal.
stdin_read_unannounced(t) ==
    /\ schedule_sleep(rr)
    /\ kctx' = [kctx EXCEPT ![t] = "stdin_read"]
    /\ UNCHANGED <<state, exit_status, pid, parent, children, sibling, mem,
                   next_pid, wstatus, ttyVars>>

stdin_read(t) ==
    \/ /\ waiting_task # NULL
       /\ panic("tty_waiters")
       /\ UNCHANGED ttyVars
    \/ /\ waiting_task = NULL
       /\ waiting_task' = current
       /\ schedule_sleep(rr)
       /\ kctx' = [kctx EXCEPT ![t] = "stdin_read"]
       /\ UNCHANGED <<state, exit_status, pid, parent, children, sibling, mem,
                      next_pid, wstatus, bufi, release>>

\* The rest of stdin_read, once schedule_sleep returns: the line is copied
\* out (what does not fit in the caller's buffer is lost) and discarded.
stdin_read_return(t) ==
    /\ bufi' = 0
    /\ kctx' = [kctx EXCEPT ![t] = "user"]
    /\ UNCHANGED <<current, rr, state, exit_status, pid, alive_ticks, parent,
                   children, sibling, mem, next_pid, wstatus, kernel,
                   waiting_task, release>>

\* Mutant: no limit on the buffer (cut off far past its end).
tty_send_key_unchecked(key) ==
    /\ bufi <= TTY_BUF_SIZE + 2
    /\ bufi' = bufi + 1
    /\ UNCHANGED <<schedVars, waiting_task>>

\* Mutant: the woken reader stays in waiting_task.
tty_send_key_keeps_reader(key) ==
    /\ bufi <= TTY_BUF_SIZE
    /\ bufi' = bufi + 1
    /\ rr' = IF key = "enter" /\ waiting_task \notin Queued(rr) \cup {NULL}
             THEN sched_rr_insert_proc(rr, current, waiting_task) ELSE rr
    /\ UNCHANGED waiting_task
    /\ UNCHANGED <<current, state, exit_status, pid, alive_ticks, parent,
                   children, sibling, mem, kctx, next_pid, wstatus, kernel>>

\* Mutant: Enter wakes the reader but is not stored.
tty_send_key_drops_enter(key) ==
    /\ bufi <= TTY_BUF_SIZE
    /\ IF key = "enter" /\ waiting_task # NULL
       THEN /\ rr' = sched_rr_insert_proc(rr, current, waiting_task)
            /\ waiting_task' = NULL /\ UNCHANGED bufi
       ELSE bufi' = bufi + 1 /\ UNCHANGED <<rr, waiting_task>>
    /\ UNCHANGED <<current, state, exit_status, pid, alive_ticks, parent,
                   children, sibling, mem, kctx, next_pid, wstatus, kernel>>

\* Mutant: Enter forgets the reader without putting it back in the ring.
tty_send_key_loses_reader(key) ==
    /\ bufi <= TTY_BUF_SIZE
    /\ bufi' = bufi + 1
    /\ waiting_task' = IF key = "enter" THEN NULL ELSE waiting_task
    /\ UNCHANGED rr
    /\ UNCHANGED <<current, state, exit_status, pid, alive_ticks, parent,
                   children, sibling, mem, kctx, next_pid, wstatus, kernel>>

tty_send_key(key) ==
    \/ /\ bufi > TTY_BUF_SIZE
       /\ panic("tty_overflow")
       /\ UNCHANGED <<bufi, waiting_task>>
    \/ /\ bufi <= TTY_BUF_SIZE
       /\ bufi' = bufi + 1
       /\ IF key = "enter" /\ waiting_task # NULL
          THEN /\ rr' = sched_rr_insert_proc(rr, current, waiting_task)
               /\ waiting_task' = NULL
          ELSE UNCHANGED <<rr, waiting_task>>
       /\ UNCHANGED <<current, state, exit_status, pid, alive_ticks, parent,
                      children, sibling, mem, kctx, next_pid, wstatus, kernel>>

\* The byte that follows 0xf0 names the released key and is swallowed.
ps2_key_in(data) ==
    IF release \/ data = "release"
    THEN release' = ~release /\ UNCHANGED <<schedVars, bufi, waiting_task>>
    ELSE tty_send_key(data) /\ UNCHANGED release

TtyInit == bufi = 0 /\ waiting_task = NULL /\ release = FALSE
=============================================================================
