------------------------------- MODULE Sched -------------------------------
(***************************************************************************)
(* The scheduler and the process table: kernel/sched.c, kernel/fork.c and  *)
(* kernel/exit.c.                                                          *)
(*                                                                         *)
(* A task_struct is a slot of the kernel heap, so the tasks are addresses. *)
(* A freed slot keeps its contents ("stale") until another allocation      *)
(* overwrites them ("free": what a read through a dangling pointer returns *)
(* is unknown).  System calls and interrupt handlers run with interrupts   *)
(* disabled, so each is one step up to the point where it gives the CPU    *)
(* away; kctx records where the code continues when the task is switched   *)
(* to again.                                                               *)
(***************************************************************************)
EXTENDS Naturals, FiniteSets

CONSTANTS
    NTasks,              \* bound: task_structs that fit in the kernel heap
    PREEMPT_TICK_COUNT,  \* timer ticks of a time slice
    FirstPid,            \* initial value of next_pid
    PidMod,              \* 2^32: next_pid is a uint32_t
    PidBound,            \* bound: fork is cut off when next_pid gets here
    Statuses             \* bound: exit statuses the programs use

ASSUME SchedAssumption ==
    /\ NTasks \in Nat \ {0}
    /\ PREEMPT_TICK_COUNT \in Nat
    /\ FirstPid \in Nat /\ FirstPid > 1
    /\ PidBound \in Nat /\ FirstPid <= PidBound
    /\ PidMod \in Nat /\ PidBound < PidMod
    /\ 0 \in Statuses

Tasks == 1 .. NTasks
NULL  == 0
WILD  == NTasks + 1      \* a pointer read from overwritten memory

\* enum task_state; TASK_SLEEPING is never assigned
TaskState == {"TASK_RUNNING", "TASK_WAITING", "TASK_ZOMBIE"}

\* Why the kernel stopped: a panic, a page fault taken in the kernel, or a
\* use of freed memory whose effect the source does not determine.
Halts == {"same_process", "page_fault", "exception", "no_such_path",
          "heap_exhausted", "tty_waiters", "tty_overflow", "undefined"}

VARIABLES
    current,       \* the task that has the CPU
    rr,            \* task->next and task->prev, the scheduling ring
    state, exit_status, pid, alive_ticks,
    parent, children, sibling,
    mem,           \* the heap slot: "live", "stale" or "free"
    kctx,          \* where the task continues: "user" or inside a handler
    next_pid,
    wstatus,       \* what do_wait last stored through its wstatus argument
    kernel         \* "running" or one of Halts

schedVars == <<current, rr, state, exit_status, pid, alive_ticks, parent,
               children, sibling, mem, kctx, next_pid, wstatus, kernel>>

\* The CPU executes user code: only then do interrupts and system calls come.
UserMode == kernel = "running" /\ kctx[current] = "user"

(***************************************************************************)
(* The scheduling ring.                                                    *)
(***************************************************************************)
Links == [next : [Tasks -> Tasks \cup {NULL}],
          prev : [Tasks -> Tasks \cup {NULL}]]

Queued(l) == {t \in Tasks : l.next[t] # NULL}

\* Mutant: the old successor of current keeps its prev.
insert_forgets_prev(l, cur, t) ==
    [next |-> [l.next EXCEPT ![t] = l.next[cur], ![cur] = t],
     prev |-> [l.prev EXCEPT ![t] = cur]]

\* Mutant: insertion before current instead of after it.
insert_before(l, cur, t) ==
    [next |-> [l.next EXCEPT ![t] = cur, ![l.prev[cur]] = t],
     prev |-> [l.prev EXCEPT ![t] = l.prev[cur], ![cur] = t]]

sched_rr_insert_proc(l, cur, t) ==
    [next |-> [l.next EXCEPT ![t] = l.next[cur], ![cur] = t],
     prev |-> [l.prev EXCEPT ![t] = cur, ![l.next[cur]] = t]]

sched_rr_remove_proc(l, t) ==
    [next |-> [l.next EXCEPT ![l.prev[t]] = l.next[t], ![t] = NULL],
     prev |-> [l.prev EXCEPT ![l.next[t]] = l.prev[t], ![t] = NULL]]

\* current is assigned before the check: the panic finds it already changed.
switch_to(t) ==
    /\ current' = t
    /\ kernel' = IF pid[current] = pid[t] THEN "same_process" ELSE kernel

\* Mutant: no test for a ring of one.
schedule_unguarded ==
    /\ alive_ticks' = [alive_ticks EXCEPT ![current] = 0]
    /\ switch_to(rr.next[current])

schedule ==
    /\ alive_ticks' = [alive_ticks EXCEPT ![current] = 0]
    /\ IF rr.next[current] = current
       THEN UNCHANGED <<current, kernel>>
       ELSE switch_to(rr.next[current])

\* Mutant: a task that goes to sleep keeps its ticks.
schedule_sleep_keeps_ticks(l) ==
    /\ rr' = sched_rr_remove_proc(l, current)
    /\ switch_to(l.next[current])
    /\ UNCHANGED alive_ticks

\* l: the ring as the caller left it
schedule_sleep(l) ==
    /\ alive_ticks' = [alive_ticks EXCEPT ![current] = 0]
    /\ rr' = sched_rr_remove_proc(l, current)
    /\ switch_to(l.next[current])

sched_maybe_preempt ==
    /\ \/ /\ alive_ticks[current] < PREEMPT_TICK_COUNT
          /\ alive_ticks' = [alive_ticks EXCEPT ![current] = @ + 1]
          /\ UNCHANGED <<current, kernel>>
       \/ /\ alive_ticks[current] >= PREEMPT_TICK_COUNT
          /\ schedule
    /\ UNCHANGED <<rr, state, exit_status, pid, parent, children, sibling,
                   mem, kctx, next_pid, wstatus>>

(***************************************************************************)
(* fork: a new task_struct from the heap, in the ring and in the tree.     *)
(***************************************************************************)
Stale == {s \in Tasks : mem[s] = "stale"}

\* First fit: a hole that still holds a whole freed task_struct is taken
\* before any hole at a higher address.
Allocatable == {s \in Tasks : mem[s] # "live" /\ \A r \in Stale : r >= s}

\* The heap after allocations that put other objects over the slots lost
Overwrite(m, lost) == [s \in Tasks |-> IF s \in lost THEN "free" ELSE m[s]]

\* What reading sibling of slot c yields once new has been zeroed in heap m
SiblingOf(c, new, m) ==
    IF c = new THEN {NULL}
    ELSE IF m[c] = "free" THEN {NULL, WILD}
    ELSE {sibling[c]}

tree_insert_proc(p, t, m) ==
    /\ parent' = [parent EXCEPT ![t] = p]
    /\ \E s \in IF children[p] = NULL THEN {NULL}
                ELSE SiblingOf(children[p], t, m) :
          sibling' = [sibling EXCEPT ![t] = s]
    /\ children' = [children EXCEPT ![t] = NULL, ![p] = t]

\* Mutant: next_pid is not advanced.
do_fork_same_pid(new) ==
    /\ state' = [state EXCEPT ![new] = "TASK_RUNNING"]
    /\ exit_status' = [exit_status EXCEPT ![new] = 0]
    /\ alive_ticks' = [alive_ticks EXCEPT ![new] = 0]
    /\ pid' = [pid EXCEPT ![new] = next_pid]
    /\ kctx' = [kctx EXCEPT ![new] = "user"]
    /\ UNCHANGED next_pid

\* kcalloc zeroes the slot; pid and state are then filled in
do_fork(new) ==
    /\ state' = [state EXCEPT ![new] = "TASK_RUNNING"]
    /\ exit_status' = [exit_status EXCEPT ![new] = 0]
    /\ alive_ticks' = [alive_ticks EXCEPT ![new] = 0]
    /\ pid' = [pid EXCEPT ![new] = next_pid]
    /\ next_pid' = (next_pid + 1) % PidMod
    /\ kctx' = [kctx EXCEPT ![new] = "user"]

sched_fork(new, lost) ==
    /\ do_fork(new)
    /\ mem' = [Overwrite(mem, lost) EXCEPT ![new] = "live"]
    /\ rr' = sched_rr_insert_proc(rr, current, new)
    /\ tree_insert_proc(current, new, mem')
    /\ UNCHANGED <<current, wstatus, kernel>>

\* A panic: the handler never returns and the CPU stays in the kernel.
panic(why) ==
    /\ kernel' = why
    /\ UNCHANGED <<current, rr, state, exit_status, pid, alive_ticks, parent,
                   children, sibling, mem, kctx, next_pid, wstatus>>

\* exec replaces the address space; to the scheduler it is an allocation.
sched_exec(lost) ==
    /\ mem' = Overwrite(mem, lost)
    /\ UNCHANGED <<current, rr, state, exit_status, pid, alive_ticks, parent,
                   children, sibling, kctx, next_pid, wstatus, kernel>>

(***************************************************************************)
(* wait and exit.                                                          *)
(***************************************************************************)
\* What a task pointer may be
Pointers == Tasks \cup {NULL, WILD}

\* The loop over t->children goes on behind a child that has not exited.
PassedOver(c) == c \in Tasks /\ mem[c] # "free" /\ state[c] # "TASK_ZOMBIE"

\* The values child takes: the least set with the first one and, with every
\* one that is passed over, its sibling
Visited(first) ==
    {c \in Pointers :
       \A X \in SUBSET Pointers :
          first \in X /\ (\A x \in X : PassedOver(x) => sibling[x] \in X) => c \in X}

\* The values child may have when the loop ends; none if it never ends
Scan(first) ==
    UNION {IF c \in Tasks /\ mem[c] = "free" THEN {NULL, WILD} ELSE {c} :
             c \in {x \in Visited(first) : ~PassedOver(x)}}

task_free(t) == mem' = [mem EXCEPT ![t] = "stale"]

\* Mutant: the first child is freed whether it has exited or not.
do_wait_any_child(t) ==
    /\ children[t] # NULL
    /\ wstatus' = exit_status[t]
    /\ task_free(children[t])
    /\ kctx' = [kctx EXCEPT ![t] = "user"]
    /\ UNCHANGED <<current, rr, state, exit_status, pid, alive_ticks, parent,
                   children, sibling, next_pid, kernel>>

\* Runs when t calls wait and again whenever t, asleep in it, gets the CPU.
do_wait(t) ==
    \E child \in Scan(children[t]) :
       \/ /\ child = NULL
          /\ state' = [state EXCEPT ![current] = "TASK_WAITING"]
          /\ kctx' = [kctx EXCEPT ![current] = "do_wait"]
          /\ schedule_sleep(rr)
          /\ UNCHANGED <<exit_status, pid, parent, children, sibling, mem,
                         next_pid, wstatus>>
       \/ /\ child \in Tasks
          /\ state[child] = "TASK_ZOMBIE" /\ mem[child] = "live"
          /\ wstatus' = exit_status[t]
          /\ task_free(child)
          /\ kctx' = [kctx EXCEPT ![t] = "user"]
          /\ UNCHANGED <<current, rr, state, exit_status, pid, alive_ticks,
                         parent, children, sibling, next_pid, kernel>>
       \/ /\ child # NULL      \* freed twice, or a wild pointer freed
          /\ child \in Tasks => mem[child] # "live"
          /\ panic("undefined")

\* Mutant: the parent is put in the ring but stays TASK_WAITING.
do_exit_leaves_waiting(t, status) ==
    /\ exit_status' = [exit_status EXCEPT ![t] = status]
    /\ state' = [state EXCEPT ![t] = "TASK_ZOMBIE"]
    /\ parent[t] # NULL
    /\ schedule_sleep(IF state[parent[t]] = "TASK_WAITING"
                      THEN sched_rr_insert_proc(rr, current, parent[t])
                      ELSE rr)
    /\ kctx' = [kctx EXCEPT ![t] = "do_exit"]
    /\ UNCHANGED <<pid, parent, children, sibling, mem, next_pid, wstatus>>

\* Mutant: nobody is woken.
do_exit_wakes_nobody(t, status) ==
    /\ exit_status' = [exit_status EXCEPT ![t] = status]
    /\ state' = [state EXCEPT ![t] = "TASK_ZOMBIE"]
    /\ schedule_sleep(rr)
    /\ kctx' = [kctx EXCEPT ![t] = "do_exit"]
    /\ UNCHANGED <<pid, parent, children, sibling, mem, next_pid, wstatus>>

do_exit(t, status) ==
    LET p      == parent[t]
        zombie == [state EXCEPT ![t] = "TASK_ZOMBIE"]
        wakes  == mem[p] # "free" /\ zombie[p] = "TASK_WAITING"
    IN  /\ exit_status' = [exit_status EXCEPT ![t] = status]
        /\ \/ /\ IF p = NULL THEN kernel' = "page_fault"
                 ELSE mem[p] = "free" /\ kernel' = "undefined"
              /\ state' = zombie
              /\ UNCHANGED <<current, rr, alive_ticks, kctx>>
           \/ /\ p # NULL
              /\ state' = IF wakes THEN [zombie EXCEPT ![p] = "TASK_RUNNING"]
                                   ELSE zombie
              /\ schedule_sleep(IF wakes
                                THEN sched_rr_insert_proc(rr, current, p)
                                ELSE rr)
              /\ kctx' = [kctx EXCEPT ![t] = "do_exit"]
        /\ UNCHANGED <<pid, parent, children, sibling, mem, next_pid, wstatus>>

(***************************************************************************)
(* start_init: the kernel enters the first task, alone in the ring.        *)
(***************************************************************************)
Only(t, v, none) == [s \in Tasks |-> IF s = t THEN v ELSE none]

SchedInit ==
    /\ current = 1
    /\ rr = [next |-> Only(1, 1, NULL), prev |-> Only(1, 1, NULL)]
    /\ state = [s \in Tasks |-> "TASK_RUNNING"]
    /\ mem = Only(1, "live", "free")
    /\ pid = Only(1, 1, 0)
    /\ kctx = [s \in Tasks |-> "user"]
    /\ parent = [s \in Tasks |-> NULL]
    /\ children = [s \in Tasks |-> NULL]
    /\ sibling = [s \in Tasks |-> NULL]
    /\ exit_status = [s \in Tasks |-> 0]
    /\ alive_ticks = [s \in Tasks |-> 0]
    /\ next_pid = FirstPid
    /\ wstatus = 0
    /\ kernel = "running"
=============================================================================
