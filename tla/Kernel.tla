------------------------------- MODULE Kernel -------------------------------
(***************************************************************************)
(* The running system: the scheduler, the process table and the terminal,  *)
(* driven by the timer interrupt, the keyboard interrupt and the system    *)
(* calls of the user programs.                                             *)
(*                                                                         *)
(* The user programs are a parameter.  With FirstProgram = "init_fork" they *)
(* are the shipped ones: /init forks, execs /sh in the child and spins;    *)
(* /sh reads a line, forks, execs the line in the child and waits; a       *)
(* command exits with status 0.  With FirstProgram = "any" every task      *)
(* makes any system call at any moment.                                    *)
(***************************************************************************)
EXTENDS Tty

CONSTANT FirstProgram

ASSUME KernelAssumption == FirstProgram \in {"any", "init_fork"}

VARIABLE user      \* the next system call of each task's program

vars == <<schedVars, ttyVars, user>>

Programs == {"any", "init_fork", "init_exec", "init_spin",
             "sh_read", "sh_fork", "sh_exec", "sh_wait", "cmd_exit"}

Init == SchedInit /\ TtyInit /\ user = [t \in Tasks |-> FirstProgram]

Calls(ps) == UserMode /\ user[current] \in ps \cup {"any"}

\* The programs' control flow: what follows a call
AfterFork(p)  == IF p = "sh_fork" THEN "sh_wait"
                 ELSE IF p = "init_fork" THEN "init_spin" ELSE p
ForkChild(p)  == IF p = "sh_fork" THEN "sh_exec"
                 ELSE IF p = "init_fork" THEN "init_exec" ELSE p
AfterExec(p)  == IF p = "sh_exec" THEN "cmd_exit"
                 ELSE IF p = "init_exec" THEN "sh_read" ELSE p
AfterRead(p)  == IF p = "sh_read" THEN "sh_fork" ELSE p
AfterWait(p)  == IF p = "sh_wait" THEN "sh_read" ELSE p

sys_fork ==
    /\ Calls({"init_fork", "sh_fork"})
    /\ next_pid # PidBound
    /\ \/ /\ Allocatable = {}
          /\ panic("heap_exhausted")
          /\ UNCHANGED user
       \/ \E new \in Allocatable, lost \in SUBSET Stale :
             /\ sched_fork(new, lost)
             /\ user' = [user EXCEPT ![new] = ForkChild(user[current]),
                                     ![current] = AfterFork(@)]
    /\ UNCHANGED ttyVars

\* /sh is on the disk; the line typed at the prompt need not name a file.
sys_exec ==
    /\ Calls({"init_exec", "sh_exec"})
    /\ \/ /\ user[current] # "init_exec"
          /\ panic("no_such_path")
          /\ UNCHANGED user
       \/ \E lost \in SUBSET Stale :
             /\ sched_exec(lost)
             /\ user' = [user EXCEPT ![current] = AfterExec(@)]
    /\ UNCHANGED ttyVars

sys_wait ==
    /\ Calls({"sh_wait"})
    /\ do_wait(current)
    /\ user' = [user EXCEPT ![current] = AfterWait(@)]
    /\ UNCHANGED ttyVars

sys_exit ==
    /\ Calls({"cmd_exit"})
    /\ \E status \in IF user[current] = "any" THEN Statuses ELSE {0} :
          do_exit(current, status)
    /\ UNCHANGED <<ttyVars, user>>

sys_read ==
    /\ Calls({"sh_read"})
    /\ stdin_read(current)
    /\ user' = [user EXCEPT ![current] = AfterRead(@)]

\* An invalid instruction, a protection fault or a page fault in user code
user_fault ==
    /\ UserMode /\ user[current] = "any"
    /\ panic("exception")
    /\ UNCHANGED <<ttyVars, user>>

Syscall == sys_fork \/ sys_exec \/ sys_wait \/ sys_exit \/ sys_read

\* The task that was just switched to continues inside its system call,
\* before anything else can happen.
resume_do_wait ==
    /\ kernel = "running" /\ kctx[current] = "do_wait"
    /\ do_wait(current)
    /\ UNCHANGED <<ttyVars, user>>

resume_stdin_read ==
    /\ kernel = "running" /\ kctx[current] = "stdin_read"
    /\ stdin_read_return(current)
    /\ UNCHANGED user

Resume == resume_do_wait \/ resume_stdin_read

timer_interrupt ==
    /\ UserMode
    /\ sched_maybe_preempt
    /\ UNCHANGED <<ttyVars, user>>

keyboard_interrupt ==
    /\ UserMode
    /\ \E data \in Scancodes : ps2_key_in(data)
    /\ UNCHANGED user

halted == kernel # "running" /\ UNCHANGED vars     \* panic: for (;;) { }

Next == \/ Syscall \/ Resume \/ user_fault
        \/ timer_interrupt \/ keyboard_interrupt \/ halted

(***************************************************************************)
(* Fairness: the timer keeps ticking, kernel code in progress continues,   *)
(* and a task that gets the CPU again and again reaches its next system    *)
(* call (its progress accumulates over its time slices).  Nothing is       *)
(* assumed of the keyboard.                                                *)
(***************************************************************************)
Fairness ==
    /\ WF_vars(timer_interrupt)
    /\ WF_vars(Resume)
    /\ \A t \in Tasks : SF_vars(current = t /\ Syscall)

Spec     == Init /\ [][Next]_vars
FairSpec == Spec /\ Fairness

(***************************************************************************)
(* Safety, whatever the programs do.                                       *)
(***************************************************************************)
\* The type of every variable.
TypeOK ==
    /\ current \in Tasks
    /\ rr \in Links
    /\ state \in [Tasks -> TaskState]
    /\ exit_status \in [Tasks -> Statuses]
    /\ pid \in [Tasks -> Nat]
    /\ alive_ticks \in [Tasks -> 0 .. PREEMPT_TICK_COUNT]
    /\ parent \in [Tasks -> Tasks \cup {NULL}]
    /\ children \in [Tasks -> Tasks \cup {NULL}]
    /\ sibling \in [Tasks -> Tasks \cup {NULL, WILD}]
    /\ mem \in [Tasks -> {"live", "stale", "free"}]
    /\ kctx \in [Tasks -> {"user", "do_wait", "stdin_read", "do_exit"}]
    /\ next_pid \in FirstPid .. PidBound
    /\ wstatus \in Statuses
    /\ kernel \in Halts \cup {"running"}
    /\ bufi \in 0 .. TTY_BUF_SIZE + 1
    /\ waiting_task \in Tasks \cup {NULL}
    /\ release \in BOOLEAN
    /\ user \in [Tasks -> Programs]

\* next and prev undo each other, and a task is in both or in neither.
Linked(l) ==
    \A t \in Tasks :
       /\ l.next[t] = NULL <=> l.prev[t] = NULL
       /\ l.next[t] # NULL => /\ l.prev[l.next[t]] = t
                              /\ l.next[l.prev[t]] = t

\* No part of the queue is closed under next but the whole: walking next
\* from any queued task meets all of them.
OneRing(l) ==
    \A S \in SUBSET Queued(l) :
       S # {} /\ (\A t \in S : l.next[t] \in S) => S = Queued(l)

\* sched_rr_insert_proc and sched_rr_remove_proc keep the queued tasks in a
\* single doubly linked ring, however sleeps, wake-ups, forks and exits mix.
RingOK == Linked(rr) /\ OneRing(rr)

\* The ring holds exactly the tasks that can use the CPU: the allocated ones
\* in TASK_RUNNING, less the reader the terminal is holding (whose state
\* stdin_read leaves at TASK_RUNNING), and the task that has the CPU is one of
\* them.  So no task is woken twice, a freed task is never scheduled, and a
\* zombie never gets the CPU back: the return in do_exit is "Never hit".
RunQueueExact ==
    kernel = "running" =>
       /\ current \in Queued(rr)
       /\ \A t \in Tasks :
             t \in Queued(rr) <=> /\ mem[t] = "live"
                                  /\ state[t] = "TASK_RUNNING"
                                  /\ waiting_task # t

\* Every allocated task off the ring can still be put back or freed: it is a
\* zombie, or it sleeps in do_wait with the state do_exit looks for, or the
\* terminal knows it.  A task off the ring in any other way is lost forever.
SleeperHasWaker ==
    kernel = "running" =>
       \A t \in Tasks :
          mem[t] = "live" /\ t \notin Queued(rr) =>
             \/ state[t] = "TASK_ZOMBIE"  /\ kctx[t] = "do_exit"
             \/ state[t] = "TASK_WAITING" /\ kctx[t] = "do_wait"
             \/ waiting_task = t          /\ kctx[t] = "stdin_read"

\* A task that gets the CPU has its whole time slice before it: every way of
\* giving the CPU away resets alive_ticks.
FreshSlice ==
    kernel = "running" =>
       \A t \in Tasks : mem[t] = "live" /\ t # current => alive_ticks[t] = 0

\* As long as next_pid has not wrapped, no two allocated tasks share a pid,
\* which switch_to takes for the identity of a task.
PidsUnique ==
    \A s, t \in Tasks :
       mem[s] = "live" /\ mem[t] = "live" /\ pid[s] = pid[t] => s = t

\* The panic "switch to same process" has one cause: the last runnable task
\* went to sleep and there is nothing to switch to.
SwitchPanicOnlyWhenIdle == kernel = "same_process" => Queued(rr) = {}

(***************************************************************************)
(* What the shipped programs rely on; other programs can break each.       *)
(***************************************************************************)
\* do_wait: "No zombie children, sleep until a child exits".  A task that
\* sleeps in wait has no exited child it could have collected.
WaiterHasNoZombie ==
    kernel = "running" =>
       \A t, c \in Tasks :
          mem[t] = "live" /\ state[t] = "TASK_WAITING" =>
             ~(mem[c] = "live" /\ state[c] = "TASK_ZOMBIE" /\ parent[c] = t)

\* The kernel stops only for a command that does not exist or for too much
\* input: the missing idle task, the single reader of the terminal and the
\* dangling children pointers do no harm under /init and /sh.
OnlyUserErrorsHalt == kernel \in {"running", "no_such_path", "tty_overflow"}

\* A reader put back in the ring finds a line: nobody empties the buffer
\* between the Enter key and the moment the reader gets the CPU.
ReaderHasLine ==
    \A t \in Tasks :
       mem[t] = "live" /\ kctx[t] = "stdin_read" /\ waiting_task # t => bufi > 0

\* wait frees only an exited child of its caller.
OwnZombieReaped ==
    [][\A t \in Tasks :
          mem[t] = "live" /\ mem'[t] # "live" =>
             /\ state[t] = "TASK_ZOMBIE" /\ parent[t] = current
             /\ kctx[current] \in {"user", "do_wait"}]_vars

\* Every exited command is collected, unless the kernel stops first.
ZombieReaped ==
    \A t \in Tasks :
       (mem[t] = "live" /\ state[t] = "TASK_ZOMBIE")
          ~> (mem[t] # "live" \/ kernel # "running")

\* A reader woken by Enter returns to its program, unless the kernel stops.
ReaderResumes ==
    \A t \in Tasks :
       (kctx[t] = "stdin_read" /\ waiting_task # t)
          ~> (kctx[t] = "user" \/ kernel # "running")

(***************************************************************************)
(* The ring implements a queue: the task that has the CPU is its head.     *)
(***************************************************************************)
Nth[i \in Nat] == IF i = 1 THEN current ELSE rr.next[Nth[i - 1]]

RunQueueOf == IF kernel = "running"
              THEN [i \in 1 .. Cardinality(Queued(rr)) |-> Nth[i]]
              ELSE <<>>

Abstract == INSTANCE RunQueue WITH queue <- RunQueueOf

\* Every step of the kernel is a step of the queue specification.
ImplementsRunQueue == Abstract!Spec
=============================================================================
