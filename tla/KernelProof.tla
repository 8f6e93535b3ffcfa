---------------------------- MODULE KernelProof ----------------------------
(***************************************************************************)
(* Proofs about the scheduler, the process table and the terminal for any  *)
(* number of task slots, any time slice, any buffer and any programs; then *)
(* about the shipped ones: /init, /sh and the commands that /sh runs.      *)
(***************************************************************************)
EXTENDS Kernel, WellFoundedInduction, TLAPS

(***************************************************************************)
(* The ring operations.                                                    *)
(***************************************************************************)
Ring(l) == l \in Links /\ Linked(l) /\ OneRing(l)

\* sched_rr_insert_proc, called with a task that is off the ring, yields one
\* ring with that task right behind cur.
LEMMA InsertRing ==
    ASSUME NEW l, Ring(l), NEW cur \in Queued(l), NEW t \in Tasks \ Queued(l)
    PROVE  LET m == sched_rr_insert_proc(l, cur, t) IN
           /\ Ring(m)
           /\ Queued(m) = Queued(l) \cup {t}
           /\ m.next[cur] = t
<1> DEFINE m == sched_rr_insert_proc(l, cur, t)
           n == l.next[cur]
<1>0. NULL \notin Tasks /\ cur \in Tasks /\ t \in Tasks /\ cur # t
  BY SchedAssumption DEF Tasks, NULL, Queued
<1>1. n \in Tasks /\ n # t /\ l.prev[n] = cur /\ l.prev[t] = NULL /\ l.next[t] = NULL
  BY <1>0 DEF Ring, Links, Linked, Queued
<1>2. m \in Links
  BY <1>0, <1>1 DEF sched_rr_insert_proc, Links, Ring
<1>3. \A x \in Tasks : m.next[x] = IF x = cur THEN t ELSE IF x = t THEN n ELSE l.next[x]
  BY <1>0 DEF sched_rr_insert_proc, Links, Ring
<1>4. \A x \in Tasks : m.prev[x] = IF x = n THEN t ELSE IF x = t THEN cur ELSE l.prev[x]
  BY <1>0, <1>1 DEF sched_rr_insert_proc, Links, Ring
<1>5. Queued(m) = Queued(l) \cup {t}
  BY <1>0, <1>1, <1>3 DEF Queued
<1>6. Linked(m)
  <2> SUFFICES ASSUME NEW x \in Tasks
               PROVE  /\ m.next[x] = NULL <=> m.prev[x] = NULL
                      /\ m.next[x] # NULL => /\ m.prev[m.next[x]] = x
                                             /\ m.next[m.prev[x]] = x
    BY DEF Linked
  <2>1. /\ l.next[x] = NULL <=> l.prev[x] = NULL
        /\ l.next[x] # NULL => /\ l.prev[l.next[x]] = x
                               /\ l.next[l.prev[x]] = x
    BY DEF Ring, Linked
  <2>2. l.next[x] \in Tasks \cup {NULL} /\ l.prev[x] \in Tasks \cup {NULL}
    BY DEF Ring, Links
  <2>3. CASE x = cur
    BY <1>0, <1>1, <1>3, <1>4, <2>1, <2>2, <2>3 
  <2>4. CASE x = t
    BY <1>0, <1>1, <1>3, <1>4, <2>1, <2>2, <2>4 
  <2>5. CASE x # cur /\ x # t
    BY <1>0, <1>1, <1>3, <1>4, <2>1, <2>2, <2>5 
  <2> QED BY <2>3, <2>4, <2>5
<1>7. OneRing(m)
  <2> SUFFICES ASSUME NEW S \in SUBSET Queued(m), S # {},
                      \A x \in S : m.next[x] \in S
               PROVE  S = Queued(m)
    BY DEF OneRing
  <2> DEFINE R == S \ {t}
  <2>1. R \in SUBSET Queued(l)
    BY <1>5
  <2>2. cur \in S => t \in S
    BY <1>0, <1>3
  <2>3. t \in S => n \in R
    BY <1>0, <1>1, <1>3
  <2>4. R # {}
    BY <2>3
  <2>5. \A x \in R : l.next[x] \in R
    <3> TAKE x \in R
    <3>1. x \in Tasks /\ l.next[x] # t
      BY <1>0, <1>1, <2>1 DEF Queued, Ring, Linked
    <3>2. CASE x = cur
      BY <2>2, <2>3, <3>2
    <3>3. CASE x # cur
      BY <1>3, <3>1, <3>3
    <3> QED BY <3>2, <3>3
  <2>6. R = Queued(l)
    BY <2>1, <2>4, <2>5 DEF Ring, OneRing
  <2> QED BY <1>5, <2>2, <2>6
<1> QED BY <1>0, <1>2, <1>3, <1>5, <1>6, <1>7 DEF Ring

\* sched_rr_remove_proc takes a task off the ring and leaves the others in
\* one ring.
LEMMA RemoveRing ==
    ASSUME NEW l, Ring(l), NEW t \in Queued(l)
    PROVE  LET m == sched_rr_remove_proc(l, t) IN
           /\ Ring(m)
           /\ Queued(m) = Queued(l) \ {t}
<1> DEFINE m == sched_rr_remove_proc(l, t)
           n == l.next[t]
           p == l.prev[t]
<1>0. NULL \notin Tasks /\ t \in Tasks
  BY SchedAssumption DEF Tasks, NULL, Queued
<1>1. n \in Tasks /\ p \in Tasks /\ l.prev[n] = t /\ l.next[p] = t
  BY <1>0 DEF Ring, Links, Linked, Queued
<1>2. m \in Links
  BY <1>0, <1>1 DEF sched_rr_remove_proc, Links, Ring
<1>3. \A x \in Tasks : m.next[x] = IF x = t THEN NULL ELSE IF x = p THEN n ELSE l.next[x]
  BY <1>0, <1>1 DEF sched_rr_remove_proc, Links, Ring
<1>4. \A x \in Tasks : m.prev[x] = IF x = t THEN NULL ELSE IF x = n THEN p ELSE l.prev[x]
  BY <1>0, <1>1 DEF sched_rr_remove_proc, Links, Ring
<1>5. Queued(m) = Queued(l) \ {t}
  BY <1>0, <1>1, <1>3 DEF Queued
<1>6. \A x \in Tasks : /\ l.next[x] = NULL <=> l.prev[x] = NULL
                       /\ l.next[x] # NULL => /\ l.prev[l.next[x]] = x
                                              /\ l.next[l.prev[x]] = x
                       /\ l.next[x] \in Tasks \cup {NULL}
                       /\ l.prev[x] \in Tasks \cup {NULL}
  BY DEF Ring, Linked, Links
<1>7. Linked(m)
  <2> SUFFICES ASSUME NEW x \in Tasks
               PROVE  /\ m.next[x] = NULL <=> m.prev[x] = NULL
                      /\ m.next[x] # NULL => /\ m.prev[m.next[x]] = x
                                             /\ m.next[m.prev[x]] = x
    BY DEF Linked
  <2>1. CASE x = t
    BY <1>0, <1>3, <1>4, <2>1
  <2>2. CASE x # t /\ x = p
    BY <1>0, <1>1, <1>3, <1>4, <1>6, <2>2
  <2>3. CASE x # t /\ x # p
    BY <1>0, <1>1, <1>3, <1>4, <1>6, <2>3
  <2> QED BY <2>1, <2>2, <2>3
<1>8. OneRing(m)
  <2> SUFFICES ASSUME NEW S \in SUBSET Queued(m), S # {},
                      \A x \in S : m.next[x] \in S
               PROVE  S = Queued(m)
    BY DEF OneRing
  <2> DEFINE R == IF p \in S THEN S \cup {t} ELSE S
  <2>1. t \notin S /\ S \subseteq Tasks
    BY <1>5 DEF Queued
  <2>2. p \in S => n \in S
    BY <1>1, <1>3, <2>1
  <2>3. \A x \in R : l.next[x] \in R
    <3> TAKE x \in R
    <3>1. CASE x = t
      BY <2>1, <2>2, <3>1
    <3>2. CASE x = p
      BY <1>1, <2>1, <2>2, <3>2
    <3>3. CASE x # t /\ x # p
      BY <1>3, <2>1, <3>3
    <3> QED BY <3>1, <3>2, <3>3
  <2>4. R \in SUBSET Queued(l) /\ R # {}
    BY <1>5
  <2>5. R = Queued(l)
    BY <2>3, <2>4 DEF Ring, OneRing
  <2> QED BY <1>5, <2>1, <2>5
<1> QED BY <1>2, <1>5, <1>7, <1>8 DEF Ring

\* A task that is its own successor is alone in the ring.
LEMMA SingletonRing ==
    ASSUME NEW l, Ring(l), NEW t \in Queued(l), l.next[t] = t
    PROVE  Queued(l) = {t}
BY DEF Ring, OneRing

(***************************************************************************)
(* The inductive invariant: the properties of Kernel, and what they lean   *)
(* on.                                                                     *)
(***************************************************************************)
\* A freed task_struct still reads TASK_ZOMBIE, so do_exit does not wake a
\* parent that is gone.
StaleIsZombie == \A t \in Tasks : mem[t] = "stale" => state[t] = "TASK_ZOMBIE"

\* The terminal's reader is allocated and asleep in stdin_read.
ReaderOK ==
    kernel = "running" /\ waiting_task # NULL =>
       /\ mem[waiting_task] = "live"
       /\ state[waiting_task] = "TASK_RUNNING"
       /\ kctx[waiting_task] = "stdin_read"

\* Every pid in use was handed out before next_pid.
PidsBelow == \A t \in Tasks : mem[t] = "live" => pid[t] < next_pid

Safety == /\ TypeOK /\ RingOK /\ RunQueueExact /\ SleeperHasWaker
          /\ FreshSlice /\ PidsUnique /\ SwitchPanicOnlyWhenIdle

IInv == Safety /\ StaleIsZombie /\ ReaderOK /\ PidsBelow

\* The null pointer is no task's address.
LEMMA NullNotTask == NULL \notin Tasks
BY SchedAssumption DEF NULL, Tasks

\* The ring while the kernel runs.
LEMMA RunningRing ==
    ASSUME IInv, kernel = "running"
    PROVE  /\ Ring(rr) /\ current \in Queued(rr) /\ current \in Tasks
           /\ mem[current] = "live" /\ state[current] = "TASK_RUNNING"
           /\ waiting_task # current
BY DEF IInv, Safety, TypeOK, RingOK, Ring, RunQueueExact, Queued

\* schedule_sleep gives the CPU to another queued task, or panics because
\* there is none.
LEMMA SleepStep ==
    ASSUME IInv, kernel = "running",
           NEW l, Ring(l), current \in Queued(l),
           \A t \in Queued(l) : mem[t] = "live",
           schedule_sleep(l)
    PROVE  /\ Ring(rr')
           /\ Queued(rr') = Queued(l) \ {current}
           /\ current' \in Tasks
           /\ kernel' \in {"running", "same_process"}
           /\ kernel' = "running" => current' \in Queued(rr')
           /\ kernel' = "same_process" => Queued(rr') = {}
           /\ alive_ticks' = [alive_ticks EXCEPT ![current] = 0]
<1> DEFINE n == l.next[current]
<1>1. Ring(rr') /\ Queued(rr') = Queued(l) \ {current}
  BY RemoveRing DEF schedule_sleep
<1>2. n \in Queued(l) /\ n \in Tasks
  BY NullNotTask DEF Queued, Ring, Links, Linked
<1>3. n # current => pid[current] # pid[n]
  BY <1>2 DEF IInv, Safety, PidsUnique, Queued
<1>4. n = current => Queued(l) = {current}
  BY SingletonRing
<1>5. /\ current' = n /\ alive_ticks' = [alive_ticks EXCEPT ![current] = 0]
      /\ kernel' = IF pid[current] = pid[n] THEN "same_process" ELSE kernel
  BY DEF schedule_sleep, switch_to
<1> QED BY <1>1, <1>2, <1>3, <1>4, <1>5

\* A panic leaves everything but kernel as it is.
LEMMA PanicInv ==
    ASSUME IInv, NEW why \in Halts \ {"same_process"}, panic(why),
           UNCHANGED ttyVars, user' \in [Tasks -> Programs]
    PROVE  IInv'
<1> USE DEF panic, ttyVars
<1>1. kernel' = why /\ why # "running" /\ why # "same_process"
  BY DEF Halts
<1>2. TypeOK'
  BY DEF IInv, Safety, TypeOK
<1>3. RingOK' /\ PidsUnique' /\ StaleIsZombie' /\ PidsBelow'
  BY DEF IInv, Safety, RingOK, PidsUnique, StaleIsZombie, PidsBelow
<1>4. RunQueueExact' /\ SleeperHasWaker' /\ FreshSlice' /\ ReaderOK'
      /\ SwitchPanicOnlyWhenIdle'
  BY <1>1 DEF RunQueueExact, SleeperHasWaker, FreshSlice, ReaderOK,
              SwitchPanicOnlyWhenIdle
<1> QED BY <1>2, <1>3, <1>4 DEF IInv, Safety

\* start_init leaves init alone in the ring: the invariant holds at the start.
LEMMA InitInv == Init => IInv
<1> SUFFICES ASSUME Init PROVE IInv
  OBVIOUS
<1> USE SchedAssumption, KernelAssumption, TtyAssumption, NullNotTask
        DEF Init, SchedInit, TtyInit, Only
<1>1. 1 \in Tasks
  BY DEF Tasks
<1>2. TypeOK
  <2>1. rr \in Links
    BY <1>1 DEF Links
  <2>2. release \in BOOLEAN
    OBVIOUS
  <2>3. /\ exit_status \in [Tasks -> Statuses] /\ pid \in [Tasks -> Nat]
        /\ alive_ticks \in [Tasks -> 0 .. PREEMPT_TICK_COUNT]
        /\ mem \in [Tasks -> {"live", "stale", "free"}]
    OBVIOUS
  <2>4. next_pid \in FirstPid .. PidBound /\ bufi \in 0 .. TTY_BUF_SIZE + 1
    OBVIOUS
  <2> QED BY <1>1, <2>1, <2>2, <2>3, <2>4 DEF TypeOK, TaskState, Programs
<1>3. Queued(rr) = {1}
  BY <1>1 DEF Queued
<1>4. RingOK
  BY <1>1, <1>3 DEF RingOK, Linked, OneRing
<1>5. RunQueueExact /\ SleeperHasWaker /\ FreshSlice /\ SwitchPanicOnlyWhenIdle
  BY <1>1, <1>3 DEF RunQueueExact, SleeperHasWaker, FreshSlice,
                    SwitchPanicOnlyWhenIdle
<1>6. PidsUnique /\ StaleIsZombie /\ ReaderOK /\ PidsBelow
  BY <1>1 DEF PidsUnique, StaleIsZombie, ReaderOK, PidsBelow
<1> QED BY <1>2, <1>4, <1>5, <1>6 DEF IInv, Safety

(***************************************************************************)
(* One lemma per handler.                                                  *)
(***************************************************************************)
LEMMA ForkInv ==
    ASSUME IInv, kernel = "running", next_pid # PidBound,
           NEW new \in Allocatable, NEW lost \in SUBSET Stale,
           sched_fork(new, lost), UNCHANGED ttyVars,
           user' \in [Tasks -> Programs]
    PROVE  IInv'
<1> USE NullNotTask DEF ttyVars
<1>1. Ring(rr) /\ current \in Queued(rr) /\ current \in Tasks /\ waiting_task # current
  BY RunningRing
<1>2. new \in Tasks /\ mem[new] # "live" /\ new \notin Queued(rr) /\ new # waiting_task
      /\ new # current
  BY <1>1 DEF Allocatable, IInv, Safety, RunQueueExact, ReaderOK
<1>3. Ring(rr') /\ Queued(rr') = Queued(rr) \cup {new}
  BY <1>1, <1>2, InsertRing DEF sched_fork
<1>4. /\ mem' \in [Tasks -> {"live", "stale", "free"}]
      /\ \A t \in Tasks : t # new => \/ mem'[t] = mem[t]
                                     \/ mem[t] = "stale" /\ mem'[t] = "free"
      /\ mem'[new] = "live"
  BY <1>2 DEF sched_fork, Overwrite, Stale, IInv, Safety, TypeOK
<1>5. /\ state' = [state EXCEPT ![new] = "TASK_RUNNING"]
      /\ exit_status' = [exit_status EXCEPT ![new] = 0]
      /\ alive_ticks' = [alive_ticks EXCEPT ![new] = 0]
      /\ pid' = [pid EXCEPT ![new] = next_pid]
      /\ kctx' = [kctx EXCEPT ![new] = "user"]
      /\ UNCHANGED <<current, wstatus, kernel>>
  BY DEF sched_fork, do_fork
<1>6. next_pid' = next_pid + 1 /\ next_pid \in Nat /\ next_pid' \in FirstPid .. PidBound
  <2>1. next_pid \in FirstPid .. PidBound /\ next_pid' = (next_pid + 1) % PidMod
    BY DEF sched_fork, do_fork, IInv, Safety, TypeOK
  <2>2. next_pid + 1 < PidMod /\ next_pid + 1 \in Nat
    BY <2>1, SchedAssumption
  <2> QED BY <2>1, <2>2, SchedAssumption
<1>7. TypeOK'
  <2>1. /\ parent' \in [Tasks -> Tasks \cup {NULL}]
        /\ children' \in [Tasks -> Tasks \cup {NULL}]
    BY <1>1, <1>2 DEF sched_fork, tree_insert_proc, IInv, Safety, TypeOK
  <2>2. sibling' \in [Tasks -> Tasks \cup {NULL, WILD}]
    <3>1. PICK x \in IF children[current] = NULL THEN {NULL}
                     ELSE SiblingOf(children[current], new, mem') :
             sibling' = [sibling EXCEPT ![new] = x]
      BY DEF sched_fork, tree_insert_proc
    <3>2. x \in Tasks \cup {NULL, WILD}
      BY <1>1, <3>1 DEF SiblingOf, IInv, Safety, TypeOK
    <3> QED BY <3>1, <3>2 DEF IInv, Safety, TypeOK
  <2>3. rr' \in Links
    BY <1>3 DEF Ring
  <2>4. alive_ticks' \in [Tasks -> 0 .. PREEMPT_TICK_COUNT] /\ pid' \in [Tasks -> Nat]
    <3>1. 0 \in 0 .. PREEMPT_TICK_COUNT
      BY SchedAssumption
    <3>2. /\ alive_ticks \in [Tasks -> 0 .. PREEMPT_TICK_COUNT]
          /\ pid \in [Tasks -> Nat]
      BY DEF IInv, Safety, TypeOK
    <3> QED BY <1>5, <1>6, <3>1, <3>2
  <2>5. exit_status' \in [Tasks -> Statuses] /\ state' \in [Tasks -> TaskState]
        /\ kctx' \in [Tasks -> {"user", "do_wait", "stdin_read", "do_exit"}]
    BY <1>5, SchedAssumption DEF IInv, Safety, TypeOK, TaskState
  <2> QED BY <1>4, <1>5, <1>6, <2>1, <2>2, <2>3, <2>4, <2>5 DEF IInv, Safety, TypeOK
<1>8. RingOK'
  BY <1>3 DEF Ring, RingOK
<1>9. RunQueueExact' /\ SleeperHasWaker' /\ FreshSlice'
  BY <1>1, <1>2, <1>3, <1>4, <1>5
     DEF IInv, Safety, TypeOK, RunQueueExact, SleeperHasWaker, FreshSlice
<1>10. PidsUnique' /\ PidsBelow'
  BY <1>2, <1>4, <1>5, <1>6 DEF IInv, Safety, TypeOK, PidsUnique, PidsBelow
<1>11. SwitchPanicOnlyWhenIdle' /\ StaleIsZombie' /\ ReaderOK'
  BY <1>2, <1>4, <1>5 DEF IInv, Safety, TypeOK, SwitchPanicOnlyWhenIdle,
     StaleIsZombie, ReaderOK
<1> QED BY <1>7, <1>8, <1>9, <1>10, <1>11 DEF IInv, Safety

\* exec only disturbs freed slots of the heap.
LEMMA ExecInv ==
    ASSUME IInv, kernel = "running", NEW lost \in SUBSET Stale,
           sched_exec(lost), UNCHANGED ttyVars, user' \in [Tasks -> Programs]
    PROVE  IInv'
<1> USE DEF ttyVars, sched_exec
<1>1. /\ mem' \in [Tasks -> {"live", "stale", "free"}]
      /\ \A t \in Tasks : /\ mem'[t] = "live" <=> mem[t] = "live"
                          /\ mem'[t] = "stale" => mem[t] = "stale"
  BY DEF Overwrite, Stale, IInv, Safety, TypeOK
<1>2. TypeOK'
  BY <1>1 DEF IInv, Safety, TypeOK
<1>3. RingOK' /\ RunQueueExact' /\ SleeperHasWaker'
  BY <1>1 DEF IInv, Safety, RingOK, RunQueueExact, SleeperHasWaker
<1>4. FreshSlice' /\ PidsUnique' /\ SwitchPanicOnlyWhenIdle' /\ StaleIsZombie'
  BY <1>1 DEF IInv, Safety, FreshSlice, PidsUnique, SwitchPanicOnlyWhenIdle,
     StaleIsZombie
<1>5. ReaderOK' /\ PidsBelow'
  BY <1>1 DEF IInv, Safety, TypeOK, ReaderOK, PidsBelow, NULL
<1> QED BY <1>2, <1>3, <1>4, <1>5 DEF IInv, Safety

\* wait, when called and when resumed: it sleeps with nobody to collect, or
\* frees an exited child that is in no ring.
LEMMA WaitInv ==
    ASSUME IInv, kernel = "running", do_wait(current), UNCHANGED ttyVars,
           user' \in [Tasks -> Programs]
    PROVE  IInv'
<1> USE NullNotTask DEF ttyVars
<1>1. /\ Ring(rr) /\ current \in Queued(rr) /\ current \in Tasks
      /\ mem[current] = "live" /\ state[current] = "TASK_RUNNING"
      /\ waiting_task # current
  BY RunningRing
<1>2. CASE /\ state' = [state EXCEPT ![current] = "TASK_WAITING"]
           /\ kctx' = [kctx EXCEPT ![current] = "do_wait"]
           /\ schedule_sleep(rr)
           /\ UNCHANGED <<exit_status, pid, parent, children, sibling, mem,
                          next_pid, wstatus>>
  <2>1. \A t \in Queued(rr) : mem[t] = "live"
    BY DEF IInv, Safety, RunQueueExact, Queued
  <2>2. /\ Ring(rr')
        /\ Queued(rr') = Queued(rr) \ {current}
        /\ current' \in Tasks
        /\ kernel' \in {"running", "same_process"}
        /\ kernel' = "running" => current' \in Queued(rr')
        /\ kernel' = "same_process" => Queued(rr') = {}
        /\ alive_ticks' = [alive_ticks EXCEPT ![current] = 0]
    BY <1>1, <1>2, <2>1, SleepStep
  <2>3. TypeOK'
    <3>1. alive_ticks' \in [Tasks -> 0 .. PREEMPT_TICK_COUNT]
      BY <2>2, SchedAssumption DEF IInv, Safety, TypeOK
    <3>2. state' \in [Tasks -> TaskState]
      BY <1>2 DEF IInv, Safety, TypeOK, TaskState
    <3> QED BY <1>2, <2>2, <3>1, <3>2 DEF IInv, Safety, TypeOK, Ring, Halts
  <2>4. RingOK' /\ SwitchPanicOnlyWhenIdle'
    BY <2>2 DEF Ring, RingOK, SwitchPanicOnlyWhenIdle
  <2>5. RunQueueExact' /\ SleeperHasWaker' /\ FreshSlice'
    BY <1>1, <1>2, <2>2 DEF IInv, Safety, TypeOK, RunQueueExact,
       SleeperHasWaker, FreshSlice
  <2>6. PidsUnique' /\ PidsBelow' /\ StaleIsZombie' /\ ReaderOK'
    BY <1>1, <1>2, <2>2 DEF IInv, Safety, TypeOK, PidsUnique, PidsBelow,
       StaleIsZombie, ReaderOK
  <2> QED BY <2>3, <2>4, <2>5, <2>6 DEF IInv, Safety
<1>3. ASSUME NEW child \in Tasks,
             state[child] = "TASK_ZOMBIE", mem[child] = "live",
             wstatus' = exit_status[current],
             task_free(child),
             kctx' = [kctx EXCEPT ![current] = "user"],
             UNCHANGED <<current, rr, state, exit_status, pid, alive_ticks,
                         parent, children, sibling, next_pid, kernel>>
      PROVE  IInv'
  <2>1. /\ mem' = [mem EXCEPT ![child] = "stale"] /\ child # current
        /\ child \notin Queued(rr) /\ child # waiting_task
    BY <1>1, <1>3 DEF task_free, IInv, Safety, RunQueueExact, ReaderOK
  <2>2. TypeOK'
    BY <1>1, <1>3, <2>1 DEF IInv, Safety, TypeOK
  <2>3. RingOK' /\ RunQueueExact' /\ SwitchPanicOnlyWhenIdle'
    BY <1>1, <1>3, <2>1 DEF IInv, Safety, TypeOK, RingOK, RunQueueExact,
       SwitchPanicOnlyWhenIdle
  <2>4. SleeperHasWaker' /\ FreshSlice' /\ ReaderOK'
    BY <1>1, <1>3, <2>1 DEF IInv, Safety, TypeOK, SleeperHasWaker, FreshSlice,
       ReaderOK
  <2>5. PidsUnique' /\ PidsBelow' /\ StaleIsZombie'
    BY <1>1, <1>3, <2>1 DEF IInv, Safety, TypeOK, PidsUnique, PidsBelow,
       StaleIsZombie
  <2> QED BY <2>2, <2>3, <2>4, <2>5 DEF IInv, Safety
<1>4. CASE panic("undefined")
  BY <1>4, PanicInv DEF Halts
<1> QED BY <1>2, <1>3, <1>4 DEF do_wait

\* exit: the task leaves the ring for good, and the waiting parent, if any,
\* enters it exactly once.
LEMMA ExitInv ==
    ASSUME IInv, kernel = "running", NEW status \in Statuses,
           do_exit(current, status), UNCHANGED ttyVars,
           user' \in [Tasks -> Programs]
    PROVE  IInv'
<1> USE NullNotTask DEF ttyVars
<1> DEFINE p == parent[current]
           zombie == [state EXCEPT ![current] = "TASK_ZOMBIE"]
           wakes == mem[p] # "free" /\ zombie[p] = "TASK_WAITING"
           l == IF wakes THEN sched_rr_insert_proc(rr, current, p) ELSE rr
<1>1. /\ Ring(rr) /\ current \in Queued(rr) /\ current \in Tasks
      /\ mem[current] = "live" /\ state[current] = "TASK_RUNNING"
      /\ waiting_task # current
  BY RunningRing
<1>2. /\ exit_status' = [exit_status EXCEPT ![current] = status]
      /\ UNCHANGED <<pid, parent, children, sibling, mem, next_pid, wstatus>>
  BY DEF do_exit
<1>3. PidsUnique' /\ PidsBelow' /\ exit_status' \in [Tasks -> Statuses]
  BY <1>1, <1>2 DEF IInv, Safety, TypeOK, PidsUnique, PidsBelow
<1>4. zombie \in [Tasks -> TaskState] /\ state \in [Tasks -> TaskState]
  BY <1>1 DEF IInv, Safety, TypeOK, TaskState
<1>5. CASE /\ kernel' \in {"page_fault", "undefined"}
           /\ state' = zombie
           /\ UNCHANGED <<current, rr, alive_ticks, kctx>>
  <2>1. TypeOK'
    BY <1>2, <1>3, <1>4, <1>5 DEF IInv, Safety, TypeOK, Halts
  <2>2. RingOK' /\ RunQueueExact' /\ SleeperHasWaker' /\ FreshSlice'
        /\ SwitchPanicOnlyWhenIdle' /\ ReaderOK'
    BY <1>5 DEF IInv, Safety, RingOK, RunQueueExact, SleeperHasWaker,
       FreshSlice, SwitchPanicOnlyWhenIdle, ReaderOK
  <2>3. StaleIsZombie'
    BY <1>1, <1>2, <1>4, <1>5 DEF IInv, StaleIsZombie
  <2> QED BY <1>3, <2>1, <2>2, <2>3 DEF IInv, Safety
<1>6. CASE /\ p # NULL
           /\ state' = IF wakes THEN [zombie EXCEPT ![p] = "TASK_RUNNING"]
                                ELSE zombie
           /\ schedule_sleep(l)
           /\ kctx' = [kctx EXCEPT ![current] = "do_exit"]
  <2>1. p \in Tasks
    BY <1>1, <1>6 DEF IInv, Safety, TypeOK
  <2>2. wakes => /\ mem[p] = "live" /\ state[p] = "TASK_WAITING"
                 /\ p # current /\ p \notin Queued(rr) /\ p # waiting_task
                 /\ kctx[p] = "do_wait"
    <3> SUFFICES ASSUME wakes
                 PROVE  /\ mem[p] = "live" /\ state[p] = "TASK_WAITING"
                        /\ p # current /\ p \notin Queued(rr) /\ p # waiting_task
                        /\ kctx[p] = "do_wait"
      OBVIOUS
    <3>1. p # current /\ state[p] = "TASK_WAITING"
      BY <1>1, <1>4, <2>1
    <3>2. mem[p] = "live"
      BY <2>1, <3>1 DEF IInv, Safety, TypeOK, StaleIsZombie
    <3>3. p \notin Queued(rr) /\ p # waiting_task
      BY <2>1, <3>1 DEF IInv, Safety, RunQueueExact, ReaderOK
    <3>4. kctx[p] = "do_wait"
      BY <2>1, <3>1, <3>2, <3>3 DEF IInv, Safety, SleeperHasWaker
    <3> QED BY <3>1, <3>2, <3>3, <3>4
  <2>3. /\ Ring(l) /\ current \in Queued(l)
        /\ Queued(l) = IF wakes THEN Queued(rr) \cup {p} ELSE Queued(rr)
    <3> HIDE DEF wakes, p
    <3>1. CASE wakes
      <4>1. l = sched_rr_insert_proc(rr, current, p)
        BY <3>1
      <4>2. p \in Tasks \ Queued(rr)
        BY <2>1, <2>2, <3>1
      <4>3. Ring(l) /\ Queued(l) = Queued(rr) \cup {p}
        BY <1>1, <4>1, <4>2, InsertRing
      <4> QED BY <1>1, <3>1, <4>3
    <3>2. CASE ~wakes
      BY <1>1, <3>2
    <3> QED BY <3>1, <3>2
  <2>4. \A t \in Queued(l) : mem[t] = "live"
    BY <2>2, <2>3 DEF IInv, Safety, RunQueueExact, Queued
  <2> HIDE DEF l
  <2>5. /\ Ring(rr')
        /\ Queued(rr') = Queued(l) \ {current}
        /\ current' \in Tasks
        /\ kernel' \in {"running", "same_process"}
        /\ kernel' = "running" => current' \in Queued(rr')
        /\ kernel' = "same_process" => Queued(rr') = {}
        /\ alive_ticks' = [alive_ticks EXCEPT ![current] = 0]
    BY <1>6, <2>3, <2>4, SleepStep
  <2>6. /\ state'[current] = "TASK_ZOMBIE"
        /\ state' \in [Tasks -> TaskState]
        /\ \A t \in Tasks \ {current} :
              state'[t] = IF wakes /\ t = p THEN "TASK_RUNNING" ELSE state[t]
    BY <1>1, <1>4, <1>6, <2>1, <2>2 DEF TaskState
  <2> HIDE DEF wakes, zombie, p
  <2>7. kctx' \in [Tasks -> {"user", "do_wait", "stdin_read", "do_exit"}]
        /\ alive_ticks' \in [Tasks -> 0 .. PREEMPT_TICK_COUNT]
    <3>1. 0 \in 0 .. PREEMPT_TICK_COUNT
      BY SchedAssumption
    <3>2. /\ alive_ticks \in [Tasks -> 0 .. PREEMPT_TICK_COUNT]
          /\ kctx \in [Tasks -> {"user", "do_wait", "stdin_read", "do_exit"}]
      BY DEF IInv, Safety, TypeOK
    <3> QED BY <1>6, <2>5, <3>1, <3>2
  <2>8. TypeOK'
    BY <1>2, <1>3, <2>5, <2>6, <2>7 DEF IInv, Safety, TypeOK, Ring, Halts
  <2>9. RingOK' /\ SwitchPanicOnlyWhenIdle'
    BY <2>5 DEF Ring, RingOK, SwitchPanicOnlyWhenIdle
  <2>10. RunQueueExact'
    BY <1>1, <1>2, <2>2, <2>3, <2>5, <2>6 DEF IInv, Safety, RunQueueExact
  <2>11. SleeperHasWaker'
    BY <1>1, <1>2, <1>6, <2>2, <2>3, <2>5, <2>6
       DEF IInv, Safety, TypeOK, SleeperHasWaker
  <2>12. FreshSlice' /\ StaleIsZombie' /\ ReaderOK'
    BY <1>1, <1>2, <1>6, <2>2, <2>5, <2>6
       DEF IInv, Safety, TypeOK, FreshSlice, StaleIsZombie, ReaderOK
  <2> QED BY <1>3, <2>8, <2>9, <2>10, <2>11, <2>12 DEF IInv, Safety
<1> QED BY <1>5, <1>6 DEF do_exit

\* read: the task leaves the ring and the terminal remembers it.
LEMMA ReadInv ==
    ASSUME IInv, kernel = "running", stdin_read(current),
           user' \in [Tasks -> Programs]
    PROVE  IInv'
<1> USE NullNotTask DEF ttyVars
<1>1. /\ Ring(rr) /\ current \in Queued(rr) /\ current \in Tasks
      /\ mem[current] = "live" /\ state[current] = "TASK_RUNNING"
  BY RunningRing
<1>2. CASE panic("tty_waiters") /\ UNCHANGED ttyVars
  BY <1>2, PanicInv DEF Halts
<1>3. CASE /\ waiting_task = NULL
           /\ waiting_task' = current
           /\ schedule_sleep(rr)
           /\ kctx' = [kctx EXCEPT ![current] = "stdin_read"]
           /\ UNCHANGED <<state, exit_status, pid, parent, children, sibling,
                          mem, next_pid, wstatus, bufi, release>>
  <2>1. \A t \in Queued(rr) : mem[t] = "live"
    BY DEF IInv, Safety, RunQueueExact, Queued
  <2>2. /\ Ring(rr')
        /\ Queued(rr') = Queued(rr) \ {current}
        /\ current' \in Tasks
        /\ kernel' \in {"running", "same_process"}
        /\ kernel' = "running" => current' \in Queued(rr')
        /\ kernel' = "same_process" => Queued(rr') = {}
        /\ alive_ticks' = [alive_ticks EXCEPT ![current] = 0]
    BY <1>1, <1>3, <2>1, SleepStep
  <2>3. TypeOK'
    <3>1. alive_ticks' \in [Tasks -> 0 .. PREEMPT_TICK_COUNT]
      BY <2>2, SchedAssumption DEF IInv, Safety, TypeOK
    <3> QED BY <1>1, <1>3, <2>2, <3>1 DEF IInv, Safety, TypeOK, Ring, Halts
  <2>4. RingOK' /\ SwitchPanicOnlyWhenIdle'
    BY <2>2 DEF Ring, RingOK, SwitchPanicOnlyWhenIdle
  <2>5. RunQueueExact' /\ SleeperHasWaker' /\ FreshSlice'
    BY <1>1, <1>3, <2>2 DEF IInv, Safety, TypeOK, RunQueueExact,
       SleeperHasWaker, FreshSlice
  <2>6. PidsUnique' /\ PidsBelow' /\ StaleIsZombie' /\ ReaderOK'
    BY <1>1, <1>3, <2>2 DEF IInv, Safety, TypeOK, PidsUnique, PidsBelow,
       StaleIsZombie, ReaderOK
  <2> QED BY <2>3, <2>4, <2>5, <2>6 DEF IInv, Safety
<1> QED BY <1>2, <1>3 DEF stdin_read

\* The rest of read touches neither the ring nor the process table.
LEMMA ReadReturnInv ==
    ASSUME IInv, kernel = "running", stdin_read_return(current), UNCHANGED user
    PROVE  IInv'
<1> USE DEF stdin_read_return
<1>1. /\ current \in Queued(rr) /\ current \in Tasks
      /\ waiting_task # current
  BY RunningRing
<1>2. TypeOK'
  BY <1>1, TtyAssumption DEF IInv, Safety, TypeOK
<1>3. RingOK' /\ RunQueueExact' /\ FreshSlice' /\ PidsUnique'
      /\ SwitchPanicOnlyWhenIdle'
  BY DEF IInv, Safety, RingOK, RunQueueExact, FreshSlice, PidsUnique,
         SwitchPanicOnlyWhenIdle
<1>4. SleeperHasWaker'
  BY <1>1 DEF IInv, Safety, TypeOK, SleeperHasWaker
<1>5. StaleIsZombie' /\ ReaderOK' /\ PidsBelow'
  BY <1>1 DEF IInv, Safety, TypeOK, StaleIsZombie, ReaderOK, PidsBelow
<1> QED BY <1>2, <1>3, <1>4, <1>5 DEF IInv, Safety

\* A key: at most the reader the terminal remembers enters the ring.
LEMMA KeyInv ==
    ASSUME IInv, kernel = "running", NEW data \in Scancodes,
           ps2_key_in(data), UNCHANGED user
    PROVE  IInv'
<1> USE NullNotTask
<1>1. Ring(rr) /\ current \in Queued(rr) /\ current \in Tasks
  BY RunningRing
<1>2. CASE release' = ~release /\ UNCHANGED <<schedVars, bufi, waiting_task>>
  <2>1. TypeOK'
    <3>1. release' \in BOOLEAN
      BY <1>2
    <3> QED BY <1>2, <3>1 DEF IInv, Safety, TypeOK, schedVars
  <2>2. RingOK' /\ RunQueueExact' /\ SleeperHasWaker' /\ FreshSlice'
        /\ PidsUnique' /\ SwitchPanicOnlyWhenIdle'
    BY <1>2 DEF IInv, Safety, RingOK, RunQueueExact, SleeperHasWaker,
       FreshSlice, PidsUnique, SwitchPanicOnlyWhenIdle, schedVars
  <2>3. StaleIsZombie' /\ ReaderOK' /\ PidsBelow'
    BY <1>2 DEF IInv, StaleIsZombie, ReaderOK, PidsBelow, schedVars
  <2> QED BY <2>1, <2>2, <2>3 DEF IInv, Safety
<1>3. CASE panic("tty_overflow") /\ UNCHANGED <<bufi, waiting_task, release>>
  <2>1. user' \in [Tasks -> Programs]
    BY DEF IInv, Safety, TypeOK
  <2> QED BY <1>3, <2>1, PanicInv DEF Halts, ttyVars
<1>4. CASE /\ bufi <= TTY_BUF_SIZE
           /\ bufi' = bufi + 1
           /\ IF data = "enter" /\ waiting_task # NULL
              THEN /\ rr' = sched_rr_insert_proc(rr, current, waiting_task)
                   /\ waiting_task' = NULL
              ELSE UNCHANGED <<rr, waiting_task>>
           /\ UNCHANGED <<current, state, exit_status, pid, alive_ticks,
                          parent, children, sibling, mem, kctx, next_pid,
                          wstatus, kernel, release>>
  <2>1. bufi' \in 0 .. TTY_BUF_SIZE + 1
    BY <1>4, TtyAssumption DEF IInv, Safety, TypeOK
  <2>2. PidsUnique' /\ FreshSlice' /\ StaleIsZombie' /\ PidsBelow'
    BY <1>4 DEF IInv, Safety, PidsUnique, FreshSlice, StaleIsZombie, PidsBelow
  <2>3. CASE UNCHANGED <<rr, waiting_task>>
    BY <1>4, <2>1, <2>2, <2>3 DEF IInv, Safety, TypeOK, RingOK, RunQueueExact,
       SleeperHasWaker, SwitchPanicOnlyWhenIdle, ReaderOK
  <2>4. CASE /\ waiting_task # NULL
             /\ rr' = sched_rr_insert_proc(rr, current, waiting_task)
             /\ waiting_task' = NULL
    <3>1. waiting_task \in Tasks \ Queued(rr) /\ mem[waiting_task] = "live"
          /\ state[waiting_task] = "TASK_RUNNING"
      BY <2>4 DEF IInv, Safety, TypeOK, RunQueueExact, ReaderOK
    <3>2. Ring(rr') /\ Queued(rr') = Queued(rr) \cup {waiting_task}
      BY <1>1, <2>4, <3>1, InsertRing
    <3>3. TypeOK'
      BY <1>4, <2>1, <2>4, <3>2 DEF IInv, Safety, TypeOK, Ring
    <3>4. RunQueueExact' /\ SleeperHasWaker' /\ ReaderOK'
      BY <1>4, <2>4, <3>1, <3>2 DEF IInv, Safety, TypeOK, RunQueueExact,
         SleeperHasWaker, ReaderOK
    <3>5. RingOK' /\ SwitchPanicOnlyWhenIdle'
      BY <1>4, <3>2 DEF Ring, RingOK, SwitchPanicOnlyWhenIdle
    <3> QED BY <2>2, <3>3, <3>4, <3>5 DEF IInv, Safety
  <2> QED BY <1>4, <2>3, <2>4
<1> QED BY <1>2, <1>3, <1>4 DEF ps2_key_in, tty_send_key

\* A timer tick: the ring stays, and whoever loses the CPU loses its ticks.
LEMMA TimerInv ==
    ASSUME IInv, kernel = "running", sched_maybe_preempt,
           UNCHANGED <<ttyVars, user>>
    PROVE  IInv'
<1> USE NullNotTask DEF ttyVars
<1>1. Ring(rr) /\ current \in Queued(rr) /\ current \in Tasks /\ mem[current] = "live"
  BY RunningRing
<1>2. UNCHANGED <<rr, state, exit_status, pid, parent, children, sibling, mem,
                  kctx, next_pid, wstatus>>
  BY DEF sched_maybe_preempt
<1>3. RingOK' /\ PidsUnique' /\ StaleIsZombie' /\ PidsBelow'
  BY <1>2 DEF IInv, Safety, RingOK, PidsUnique, StaleIsZombie, PidsBelow
<1>4. ASSUME alive_ticks' \in [Tasks -> 0 .. PREEMPT_TICK_COUNT],
             current' \in Queued(rr), kernel' = "running",
             \A t \in Tasks \ {current'} : mem[t] = "live" => alive_ticks'[t] = 0
      PROVE  IInv'
  <2>1. TypeOK'
    BY <1>2, <1>4 DEF IInv, Safety, TypeOK, Queued
  <2>2. RunQueueExact' /\ SleeperHasWaker' /\ FreshSlice' /\ ReaderOK'
        /\ SwitchPanicOnlyWhenIdle'
    BY <1>2, <1>4 DEF IInv, Safety, RunQueueExact, SleeperHasWaker,
       FreshSlice, ReaderOK, SwitchPanicOnlyWhenIdle
  <2> QED BY <1>3, <2>1, <2>2 DEF IInv, Safety
<1>5. CASE /\ alive_ticks[current] < PREEMPT_TICK_COUNT
           /\ alive_ticks' = [alive_ticks EXCEPT ![current] = @ + 1]
           /\ UNCHANGED <<current, kernel>>
  <2>1. alive_ticks' \in [Tasks -> 0 .. PREEMPT_TICK_COUNT]
    BY <1>1, <1>5, SchedAssumption DEF IInv, Safety, TypeOK
  <2>2. \A t \in Tasks \ {current} : mem[t] = "live" => alive_ticks'[t] = 0
    BY <1>1, <1>5 DEF IInv, Safety, TypeOK, FreshSlice
  <2> QED BY <1>1, <1>4, <1>5, <2>1, <2>2
<1>6. CASE schedule
  <2>1. alive_ticks' = [alive_ticks EXCEPT ![current] = 0]
    BY <1>6 DEF schedule
  <2>2. alive_ticks' \in [Tasks -> 0 .. PREEMPT_TICK_COUNT]
    BY <1>1, <2>1, SchedAssumption DEF IInv, Safety, TypeOK
  <2>3. \A t \in Tasks : mem[t] = "live" => alive_ticks'[t] = 0
    BY <1>1, <2>1 DEF IInv, Safety, TypeOK, FreshSlice
  <2>4. CASE rr.next[current] = current
    BY <1>1, <1>4, <1>6, <2>2, <2>3, <2>4 DEF schedule
  <2>5. CASE rr.next[current] # current
    <3> DEFINE n == rr.next[current]
    <3>1. n \in Queued(rr) /\ n \in Tasks
      BY <1>1 DEF Queued, Ring, Links, Linked
    <3>2. pid[current] # pid[n]
      BY <1>1, <2>5, <3>1 DEF IInv, Safety, RunQueueExact, PidsUnique
    <3>3. current' = n /\ kernel' = "running"
      BY <1>6, <2>5, <3>2 DEF schedule, switch_to
    <3> QED BY <1>4, <2>2, <2>3, <3>1, <3>3
  <2> QED BY <2>4, <2>5
<1> QED BY <1>5, <1>6 DEF sched_maybe_preempt

(***************************************************************************)
(* The theorems.                                                           *)
(***************************************************************************)
\* Every step of the kernel keeps the inductive invariant.
LEMMA NextInv == IInv /\ [Next]_vars => IInv'
<1> SUFFICES ASSUME IInv, [Next]_vars PROVE IInv'
  OBVIOUS
<1>0. user \in [Tasks -> Programs] /\ current \in Tasks
  BY DEF IInv, Safety, TypeOK
<1>1. CASE sys_fork
  <2>1. kernel = "running" /\ next_pid # PidBound /\ UNCHANGED ttyVars
    BY <1>1 DEF sys_fork, Calls, UserMode
  <2>2. CASE panic("heap_exhausted") /\ UNCHANGED user
    BY <1>0, <2>1, <2>2, PanicInv DEF Halts
  <2>3. ASSUME NEW new \in Allocatable, NEW lost \in SUBSET Stale,
               sched_fork(new, lost),
               user' = [user EXCEPT ![new] = ForkChild(user[current]),
                                    ![current] = AfterFork(@)]
        PROVE  IInv'
    <3>1. user' \in [Tasks -> Programs]
      BY <1>0, <2>3 DEF Allocatable, ForkChild, AfterFork, Programs
    <3> QED BY <2>1, <2>3, <3>1, ForkInv
  <2> QED BY <1>1, <2>2, <2>3 DEF sys_fork
<1>2. CASE sys_exec
  <2>1. kernel = "running" /\ UNCHANGED ttyVars
    BY <1>2 DEF sys_exec, Calls, UserMode
  <2>2. CASE panic("no_such_path") /\ UNCHANGED user
    BY <1>0, <2>1, <2>2, PanicInv DEF Halts
  <2>3. ASSUME NEW lost \in SUBSET Stale, sched_exec(lost),
               user' = [user EXCEPT ![current] = AfterExec(@)]
        PROVE  IInv'
    <3>1. user' \in [Tasks -> Programs]
      BY <1>0, <2>3 DEF AfterExec, Programs
    <3> QED BY <2>1, <2>3, <3>1, ExecInv
  <2> QED BY <1>2, <2>2, <2>3 DEF sys_exec
<1>3. CASE sys_wait
  <2>1. user' \in [Tasks -> Programs]
    BY <1>0, <1>3 DEF sys_wait, AfterWait, Programs
  <2> QED BY <1>3, <2>1, WaitInv DEF sys_wait, Calls, UserMode
<1>4. CASE sys_exit
  <2>1. PICK status \in Statuses : do_exit(current, status)
    BY <1>4, SchedAssumption DEF sys_exit
  <2> QED BY <1>0, <1>4, <2>1, ExitInv DEF sys_exit, Calls, UserMode
<1>5. CASE sys_read
  <2>1. user' \in [Tasks -> Programs]
    BY <1>0, <1>5 DEF sys_read, AfterRead, Programs
  <2> QED BY <1>5, <2>1, ReadInv DEF sys_read, Calls, UserMode
<1>6. CASE user_fault
  BY <1>0, <1>6, PanicInv DEF user_fault, Halts
<1>7. CASE resume_do_wait
  BY <1>0, <1>7, WaitInv DEF resume_do_wait
<1>8. CASE resume_stdin_read
  BY <1>8, ReadReturnInv DEF resume_stdin_read
<1>9. CASE timer_interrupt
  BY <1>9, TimerInv DEF timer_interrupt, UserMode
<1>10. CASE keyboard_interrupt
  BY <1>10, KeyInv DEF keyboard_interrupt, UserMode
<1>11. CASE UNCHANGED vars
  <2> USE <1>11 DEF vars, schedVars, ttyVars
  <2>1. TypeOK'
    BY DEF IInv, Safety, TypeOK
  <2>2. RingOK' /\ RunQueueExact' /\ SleeperHasWaker' /\ FreshSlice'
        /\ PidsUnique' /\ SwitchPanicOnlyWhenIdle'
    BY DEF IInv, Safety, RingOK, RunQueueExact, SleeperHasWaker, FreshSlice,
           PidsUnique, SwitchPanicOnlyWhenIdle
  <2>3. StaleIsZombie' /\ ReaderOK' /\ PidsBelow'
    BY DEF IInv, StaleIsZombie, ReaderOK, PidsBelow
  <2> QED BY <2>1, <2>2, <2>3 DEF IInv, Safety
<1> QED BY <1>1, <1>2, <1>3, <1>4, <1>5, <1>6, <1>7, <1>8, <1>9, <1>10, <1>11
        DEF Next, Syscall, Resume, halted

\* The inductive invariant holds in every reachable state.
LEMMA Invariance == Spec => []IInv
BY InitInv, NextInv, PTL DEF Spec

\* The variables keep their types; in particular the terminal counts at most
\* one character more than the buffer holds.
THEOREM TypeCorrect == Spec => []TypeOK
<1>1. IInv => TypeOK
  BY DEF IInv, Safety
<1> QED BY <1>1, Invariance, PTL

\* next and prev always link the queued tasks into one ring.
THEOREM RingCorrect == Spec => []RingOK
<1>1. IInv => RingOK
  BY DEF IInv, Safety
<1> QED BY <1>1, Invariance, PTL

\* The ring holds exactly the tasks that can use the CPU.
THEOREM RunQueueCorrect == Spec => []RunQueueExact
<1>1. IInv => RunQueueExact
  BY DEF IInv, Safety
<1> QED BY <1>1, Invariance, PTL

\* No task is asleep without somebody who can wake or free it.
THEOREM SleepersCorrect == Spec => []SleeperHasWaker
<1>1. IInv => SleeperHasWaker
  BY DEF IInv, Safety
<1> QED BY <1>1, Invariance, PTL

\* A task starts its time slice with no ticks counted.
THEOREM SlicesCorrect == Spec => []FreshSlice
<1>1. IInv => FreshSlice
  BY DEF IInv, Safety
<1> QED BY <1>1, Invariance, PTL

\* Pids identify tasks as long as the counter has not wrapped.
THEOREM PidsCorrect == Spec => []PidsUnique
<1>1. IInv => PidsUnique
  BY DEF IInv, Safety
<1> QED BY <1>1, Invariance, PTL

\* The panic of switch_to means that no task is runnable.
THEOREM SwitchCorrect == Spec => []SwitchPanicOnlyWhenIdle
<1>1. IInv => SwitchPanicOnlyWhenIdle
  BY DEF IInv, Safety
<1> QED BY <1>1, Invariance, PTL

-----------------------------------------------------------------------------
(***************************************************************************)
(* The shipped programs.  ShellInv, the inductive invariant: there are     *)
(* init, its shell and, from the fork to the end of the wait that reaps it,*)
(* one command of the shell.                                               *)
(***************************************************************************)
\* A slot whose task is not there any more
Gone(t) == mem[t] # "live"

\* init never sleeps, so there is always a task to switch to.
InitRuns ==
    /\ mem[1] = "live" /\ state[1] = "TASK_RUNNING" /\ kctx[1] = "user"
    /\ 1 \in Queued(rr) /\ waiting_task # 1
    /\ user[1] \in {"init_fork", "init_spin"}

NoShellYet == waiting_task = NULL /\ \A t \in Tasks \ {1} : mem[t] = "free"

\* The shell has a command to wait for, or is asleep in wait.
HasCommand(s) == user[s] = "sh_wait" \/ kctx[s] = "do_wait"

\* The shell's place in its loop, and what the terminal knows of it
ShellOK(s) ==
    /\ mem[s] = "live" /\ children[s] \notin {1, s}
    /\ user[s] \in {"init_exec", "sh_read", "sh_fork", "sh_wait"}
    /\ kctx[s] \in {"user", "do_wait", "stdin_read"}
    /\ kctx[s] = "do_wait" => user[s] = "sh_read"
    /\ kctx[s] = "stdin_read" => user[s] = "sh_fork" /\ (waiting_task = s \/ bufi > 0)
    /\ waiting_task \in {NULL, s}
    /\ waiting_task = s => kctx[s] = "stdin_read"
    /\ state[s] \in {"TASK_RUNNING", "TASK_WAITING"}
    /\ state[s] = "TASK_WAITING" => kctx[s] = "do_wait"

\* The shell's only command: it is in the tree and, once it has exited, found.
CommandOK(s, c) ==
    /\ c \in Tasks /\ mem[c] = "live" /\ parent[c] = s
    /\ user[c] \in {"sh_exec", "cmd_exit"}
    /\ state[c] \in {"TASK_RUNNING", "TASK_ZOMBIE"}
    /\ state[c] = "TASK_RUNNING" => kctx[c] = "user"
    /\ state[c] = "TASK_ZOMBIE" => state[s] = "TASK_RUNNING"
    /\ \A t \in Tasks \ {1, s, c} : Gone(t)

\* What stands behind the newest child in the sibling list: a pointer read from
\* overwritten memory is possible only if there is room for a fourth task.
SiblingOK(s) ==
    children[s] # NULL =>
        sibling[children[s]] \in IF NTasks > 3 THEN {NULL, WILD} ELSE {NULL}

\* A wait that follows a wild pointer stops the kernel with the program gone on.
Shell(s) ==
    /\ ShellOK(s) /\ SiblingOK(s)
    /\ \A t \in Tasks \ {1, s} : mem[t] = "live" => kctx[t] # "stdin_read"
    /\ kernel # "undefined" =>
          IF HasCommand(s) THEN CommandOK(s, children[s])
          ELSE \A t \in Tasks \ {1, s} : Gone(t)

\* What the kernel may stop for
ShellHalts ==
    {"running", "no_such_path", "tty_overflow"}
    \cup (IF NTasks < 3 THEN {"heap_exhausted"} ELSE {})
    \cup (IF NTasks > 3 THEN {"undefined"} ELSE {})

ShellInv ==
    /\ InitRuns
    /\ kernel \in ShellHalts
    /\ user[1] = "init_fork" => NoShellYet
    /\ user[1] = "init_spin" => \E s \in Tasks \ {1} : Shell(s)

(***************************************************************************)
(* Allocation and the scan of the children.                                *)
(***************************************************************************)
\* Every non-empty set of natural numbers has a least element.
LEMMA LeastElement ==
    ASSUME NEW T \in SUBSET Nat, T # {}
    PROVE  \E x \in T : \A y \in T : y >= x
<1> DEFINE R == {ss \in Nat \X Nat : ss[1] < ss[2]}
<1>1. IsWellFoundedOn(R, Nat)
  BY NatLessThanWellFounded DEF OpToRel
<1>2. \A x, y \in Nat : x < y => <<x, y>> \in R
  OBVIOUS
<1> HIDE DEF R
<1>3. PICK x \in T : \A y \in T : ~ (<<y, x>> \in R)
  BY <1>1, WFMin
<1>4. \A y \in T : y >= x
  <2> TAKE y \in T
  <2>1. x \in Nat /\ y \in Nat /\ ~ (y < x)
    BY <1>2, <1>3
  <2> QED BY <2>1
<1> QED BY <1>4

\* fork finds a slot as long as one of three tasks is not live.
LEMMA SlotAvailable ==
    ASSUME NEW s \in Tasks, \A t \in Tasks \ {1, s} : Gone(t), NTasks >= 3
    PROVE  Allocatable # {}
<1>1. PICK x \in Tasks \ {1, s} : TRUE
  <2>1. 2 \in Tasks /\ 3 \in Tasks
    BY SchedAssumption DEF Tasks
  <2> QED BY <2>1
<1>2. CASE Stale = {}
  BY <1>1, <1>2 DEF Allocatable, Gone
<1>3. CASE Stale # {}
  <2>1. Stale \in SUBSET Nat /\ Stale \subseteq Tasks
    BY SchedAssumption DEF Stale, Tasks
  <2>2. PICK y \in Stale : \A r \in Stale : r >= y
    BY <1>3, <2>1, LeastElement
  <2>3. mem[y] # "live" /\ y \in Tasks
    BY <2>2 DEF Stale
  <2> QED BY <2>2, <2>3 DEF Allocatable
<1> QED BY <1>2, <1>3

\* The loop of do_wait stops at a first child that has exited.
LEMMA ScanZombie ==
    ASSUME NEW c \in Tasks, mem[c] = "live", state[c] = "TASK_ZOMBIE"
    PROVE  Scan(c) = {c}
<1>1. ~PassedOver(c)
  BY DEF PassedOver
<1>2. Visited(c) = {c}
  <2>1. c \in Pointers /\ {c} \in SUBSET Pointers
    BY DEF Pointers
  <2>2. \A x \in {c} : PassedOver(x) => sibling[x] \in {c}
    BY <1>1
  <2>3. \A x \in Visited(c) : x \in {c}
    BY <2>1, <2>2 DEF Visited
  <2>4. c \in Visited(c)
    BY <2>1 DEF Visited
  <2> QED BY <2>3, <2>4
<1> QED BY <1>1, <1>2 DEF Scan

\* Behind a first child that has not exited it meets what its sibling is.
LEMMA ScanRunning ==
    ASSUME NEW c \in Tasks, mem[c] = "live", state[c] # "TASK_ZOMBIE",
           sibling[c] \in {NULL, WILD}
    PROVE  Scan(c) = {sibling[c]}
<1> DEFINE y == sibling[c]
<1>1. PassedOver(c) /\ ~PassedOver(y) /\ y \notin Tasks /\ y \in Pointers /\ c \in Pointers
  BY SchedAssumption DEF PassedOver, NULL, WILD, Tasks, Pointers
<1> HIDE DEF y
<1>2. Visited(c) = {c, y}
  <2>1. {c, y} \in SUBSET Pointers
    BY <1>1
  <2>2. \A x \in {c, y} : PassedOver(x) => sibling[x] \in {c, y}
    BY <1>1 DEF y
  <2>3. \A x \in Visited(c) : x \in {c, y}
    BY <2>1, <2>2 DEF Visited
  <2>4. c \in Visited(c) /\ y \in Visited(c)
    BY <1>1 DEF Visited, y
  <2> QED BY <2>3, <2>4
<1>3. {x \in Visited(c) : ~PassedOver(x)} = {y}
  BY <1>1, <1>2
<1> QED BY <1>1, <1>3 DEF Scan, y

(***************************************************************************)
(* One lemma per handler.                                                  *)
(***************************************************************************)
\* Whoever runs is init, its shell or the shell's command.
LEMMA WhoRuns ==
    ASSUME IInv, ShellInv, kernel = "running", current # 1
    PROVE  /\ user[1] = "init_spin" /\ kctx[1] = "user"
           /\ \E s \in Tasks \ {1} :
                /\ Shell(s)
                /\ \/ current = s /\ state[s] = "TASK_RUNNING"
                   \/ /\ HasCommand(s) /\ current = children[s] /\ current # s
                      /\ kctx[current] = "user" /\ state[current] = "TASK_RUNNING"
<1>1. current \in Tasks /\ mem[current] = "live" /\ state[current] = "TASK_RUNNING"
  BY RunningRing
<1>2. user[1] = "init_spin" /\ kctx[1] = "user"
  BY <1>1 DEF ShellInv, InitRuns, NoShellYet
<1>3. PICK s \in Tasks \ {1} : Shell(s)
  BY <1>2 DEF ShellInv
<1>4. CASE current = s
  BY <1>1, <1>2, <1>3, <1>4
<1>5. CASE current # s
  <2>1. HasCommand(s) /\ CommandOK(s, children[s]) /\ current = children[s]
    BY <1>1, <1>3, <1>5 DEF Shell, CommandOK, Gone
  <2> QED BY <1>1, <1>2, <1>3, <1>5, <2>1 DEF CommandOK
<1> QED BY <1>4, <1>5

\* As init stays in the ring, a task that goes to sleep finds another one.
LEMMA SleepRuns ==
    ASSUME IInv, kernel = "running", 1 \in Queued(rr), current # 1,
           NEW l, Ring(l), Queued(rr) \subseteq Queued(l),
           \A t \in Queued(l) : mem[t] = "live",
           schedule_sleep(l)
    PROVE  kernel' = "running" /\ 1 \in Queued(rr')
<1>1. current \in Queued(l)
  BY RunningRing
<1>2. /\ Queued(rr') = Queued(l) \ {current}
      /\ kernel' \in {"running", "same_process"}
      /\ kernel' = "same_process" => Queued(rr') = {}
  BY <1>1, SleepStep
<1> QED BY <1>2

\* A panic changes nothing but the kernel's state.
LEMMA ShellPanic ==
    ASSUME ShellInv, kernel = "running", NEW why \in ShellHalts \ {"undefined"}, panic(why),
           UNCHANGED <<ttyVars, user>>
    PROVE  ShellInv'
<1> USE DEF panic, ttyVars
<1>1. InitRuns' /\ kernel' \in ShellHalts
  BY DEF ShellInv, InitRuns
<1>2. user'[1] = "init_fork" => NoShellYet'
  BY DEF ShellInv, NoShellYet
<1>3. ASSUME NEW s \in Tasks \ {1}, Shell(s)
      PROVE  Shell(s)'
  BY <1>3 DEF Shell, ShellOK, SiblingOK, HasCommand, CommandOK, Gone
<1>4. user'[1] = "init_spin" => \E s \in Tasks \ {1} : Shell(s)'
  BY <1>3 DEF ShellInv
<1> QED BY <1>1, <1>2, <1>4 DEF ShellInv, ShellHalts

\* fork, by init and by the shell.
LEMMA ShellFork ==
    ASSUME IInv, ShellInv, sys_fork
    PROVE  ShellInv'
<1> USE NullNotTask DEF ttyVars
<1>1. /\ kernel = "running" /\ kctx[current] = "user" /\ UNCHANGED ttyVars
      /\ user[current] \in {"init_fork", "sh_fork", "any"}
      /\ 1 \in Tasks /\ current \in Tasks
  BY SchedAssumption DEF sys_fork, Calls, UserMode, IInv, Safety, TypeOK, Tasks
<1>2. PICK s \in Tasks :
         /\ current \in {1, s}
         /\ \A t \in Tasks \ {1, s} : Gone(t)
         /\ current = 1 => NoShellYet /\ s = 1 /\ user[1] = "init_fork"
         /\ current # 1 => Shell(s) /\ user[s] = "sh_fork" /\ user[1] = "init_spin"
  <2>1. CASE current = 1
    BY <1>1, <2>1 DEF ShellInv, InitRuns, NoShellYet, Gone
  <2>2. CASE current # 1
    <3>1. PICK s \in Tasks \ {1} :
             /\ Shell(s)
             /\ \/ current = s /\ state[s] = "TASK_RUNNING"
                \/ HasCommand(s) /\ current = children[s] /\ current # s
      BY <1>1, <2>2, WhoRuns
    <3>2. current = s
      BY <1>1, <3>1 DEF Shell, CommandOK
    <3>3. ~HasCommand(s) /\ user[s] = "sh_fork"
      BY <1>1, <3>1, <3>2 DEF Shell, ShellOK, HasCommand
    <3> QED BY <1>1, <2>2, <3>1, <3>2, <3>3, WhoRuns DEF Shell
  <2> QED BY <2>1, <2>2
<1>3. CASE Allocatable = {} /\ panic("heap_exhausted") /\ UNCHANGED user
  <2>1. NTasks < 3
    BY <1>2, <1>3, SlotAvailable, SchedAssumption
  <2> QED BY <1>1, <1>3, <2>1, ShellPanic DEF ShellHalts
<1>4. ASSUME NEW new \in Allocatable, NEW lost \in SUBSET Stale,
             sched_fork(new, lost),
             user' = [user EXCEPT ![new] = ForkChild(user[current]),
                                  ![current] = AfterFork(@)]
      PROVE  ShellInv'
  <2>1. /\ new \in Tasks /\ mem[new] # "live" /\ new # current /\ new # 1
    BY <1>1, <1>4, RunningRing DEF Allocatable, ShellInv, InitRuns
  <2>2. /\ rr' = sched_rr_insert_proc(rr, current, new)
        /\ mem' = [Overwrite(mem, lost) EXCEPT ![new] = "live"]
        /\ state' = [state EXCEPT ![new] = "TASK_RUNNING"]
        /\ kctx' = [kctx EXCEPT ![new] = "user"]
        /\ parent' = [parent EXCEPT ![new] = current]
        /\ children' = [children EXCEPT ![new] = NULL, ![current] = new]
        /\ UNCHANGED <<current, kernel>>
    BY <1>4 DEF sched_fork, do_fork, tree_insert_proc
  <2>3. \A t \in Tasks : mem'[t] = IF t = new THEN "live"
                                   ELSE IF t \in lost THEN "free" ELSE mem[t]
    BY <2>1, <2>2 DEF Overwrite
  <2>4. \A t \in lost : mem[t] = "stale"
    BY <1>4 DEF Stale
  <2>5. Queued(rr') = Queued(rr) \cup {new}
    <3>1. new \in Tasks \ Queued(rr)
      BY <1>1, <2>1 DEF IInv, Safety, RunQueueExact
    <3> QED BY <1>1, <2>2, <3>1, RunningRing, InsertRing
  <2>6. /\ user'[new] = ForkChild(user[current])
        /\ user'[current] = AfterFork(user[current])
        /\ \A t \in Tasks \ {new, current} : user'[t] = user[t]
    BY <1>1, <1>4, <2>1 DEF IInv, Safety, TypeOK
  <2>7. /\ InitRuns' /\ kernel' \in ShellHalts
        /\ waiting_task' # 1
    BY <1>1, <1>2, <2>1, <2>2, <2>3, <2>4, <2>5, <2>6
       DEF ShellInv, InitRuns, ForkChild, AfterFork, IInv, Safety, TypeOK
  <2>8. CASE current = 1
    <3>1. Shell(new)'
      BY <1>1, <1>2, <2>1, <2>2, <2>3, <2>4, <2>6, <2>8
         DEF Shell, ShellOK, SiblingOK, HasCommand, Gone, NoShellYet, ForkChild,
             IInv, Safety, TypeOK
    <3>2. user'[1] = "init_spin"
      BY <1>2, <2>6, <2>8 DEF AfterFork
    <3> QED BY <2>1, <2>7, <3>1, <3>2 DEF ShellInv
  <2>9. CASE current # 1
    <3>0. /\ current = s /\ s \in Tasks \ {1} /\ Shell(s) /\ user[s] = "sh_fork"
          /\ user'[1] = "init_spin" /\ new # s
      BY <1>1, <1>2, <2>1, <2>6, <2>9 DEF ShellInv, InitRuns
    <3>1. user'[s] = "sh_wait" /\ user'[new] = "sh_exec"
      BY <2>6, <3>0 DEF AfterFork, ForkChild
    <3>2. children'[s] = new /\ parent'[new] = s /\ state'[new] = "TASK_RUNNING"
          /\ kctx'[new] = "user" /\ kctx'[s] = kctx[s] /\ state'[s] = state[s]
      BY <2>1, <2>2, <3>0 DEF IInv, Safety, TypeOK
    <3>3. ShellOK(s)'
      BY <1>1, <2>1, <2>3, <2>4, <3>0, <3>1, <3>2 DEF Shell, ShellOK
    <3>4. CommandOK(s, new)'
      BY <1>2, <2>1, <2>3, <2>4, <3>0, <3>1, <3>2 DEF CommandOK, Gone
    <3>5. sibling'[new] \in IF NTasks > 3 THEN {NULL, WILD} ELSE {NULL}
      <4> DEFINE c == children[s]
      <4>1. PICK x \in IF c = NULL THEN {NULL} ELSE SiblingOf(c, new, mem') :
               sibling' = [sibling EXCEPT ![new] = x]
        BY <1>4, <3>0 DEF sched_fork, tree_insert_proc
      <4>2. sibling'[new] = x
        BY <2>1, <4>1 DEF IInv, Safety, TypeOK
      <4>3. CASE c = NULL \/ c = new
        BY <4>1, <4>2, <4>3 DEF SiblingOf
      <4>4. CASE c # NULL /\ c # new /\ mem'[c] = "free"
        <5>1. c \in Tasks /\ c # 1 /\ c # s
          BY <3>0, <4>4 DEF Shell, ShellOK, IInv, Safety, TypeOK
        <5>2. NTasks > 3
          BY <2>1, <3>0, <4>4, <5>1, SchedAssumption DEF Tasks
        <5> QED BY <4>1, <4>2, <4>4, <5>2 DEF SiblingOf
      <4>5. CASE c # NULL /\ c # new /\ mem'[c] # "free"
        BY <3>0, <4>1, <4>2, <4>5 DEF SiblingOf, Shell, SiblingOK
      <4> QED BY <4>3, <4>4, <4>5
    <3>6. Shell(s)'
      BY <1>2, <2>1, <2>2, <2>3, <2>4, <3>0, <3>1, <3>2, <3>3, <3>4, <3>5
         DEF Shell, SiblingOK, HasCommand, Gone
    <3> QED BY <2>7, <3>0, <3>6 DEF ShellInv
  <2> QED BY <2>8, <2>9
<1> QED BY <1>3, <1>4 DEF sys_fork

\* exec, by the child of init and by the shell's command.
LEMMA ShellExec ==
    ASSUME IInv, ShellInv, sys_exec
    PROVE  ShellInv'
<1> USE NullNotTask DEF ttyVars
<1>1. /\ kernel = "running" /\ kctx[current] = "user" /\ UNCHANGED ttyVars
      /\ user[current] \in {"init_exec", "sh_exec", "any"} /\ current \in Tasks
  BY DEF sys_exec, Calls, UserMode, IInv, Safety, TypeOK
<1>2. current # 1
  BY <1>1 DEF ShellInv, InitRuns
<1>3. PICK s \in Tasks \ {1} :
         /\ Shell(s) /\ user[1] = "init_spin"
         /\ \/ current = s
            \/ HasCommand(s) /\ current = children[s] /\ current # s
  BY <1>1, <1>2, WhoRuns
<1>4. CASE panic("no_such_path") /\ UNCHANGED user
  BY <1>1, <1>4, ShellPanic DEF ShellHalts
<1>5. ASSUME NEW lost \in SUBSET Stale, sched_exec(lost),
             user' = [user EXCEPT ![current] = AfterExec(@)]
      PROVE  ShellInv'
  <2>1. UNCHANGED <<current, rr, state, parent, children, sibling, kctx, kernel>>
    BY <1>5 DEF sched_exec
  <2>2. /\ \A t \in Tasks : mem[t] = "live" <=> mem'[t] = "live"
    BY <1>5 DEF sched_exec, Overwrite, Stale
  <2>3. /\ user'[current] = AfterExec(user[current])
        /\ \A t \in Tasks \ {current} : user'[t] = user[t]
    BY <1>1, <1>5 DEF IInv, Safety, TypeOK
  <2>4. 1 \in Tasks /\ user'[1] = user[1] /\ InitRuns' /\ kernel' \in ShellHalts
    BY <1>1, <1>2, <2>1, <2>2, <2>3, SchedAssumption DEF ShellInv, InitRuns, Tasks
  <2>5. CASE current = s
    <3>1. user[s] = "init_exec" /\ user'[s] = "sh_read"
      BY <1>1, <1>3, <2>3, <2>5 DEF Shell, ShellOK, AfterExec
    <3>2. ~HasCommand(s) /\ ~HasCommand(s)'
      BY <1>1, <2>1, <2>5, <3>1 DEF HasCommand
    <3>3. ShellOK(s)' /\ SiblingOK(s)'
      BY <1>1, <1>3, <2>1, <2>2, <2>5, <3>1 DEF Shell, ShellOK, SiblingOK
    <3>4. Shell(s)'
      BY <1>1, <1>3, <2>1, <2>2, <3>2, <3>3 DEF Shell, Gone
    <3> QED BY <1>3, <2>4, <3>4 DEF ShellInv
  <2>6. CASE HasCommand(s) /\ current = children[s] /\ current # s
    <3>1. CommandOK(s, current)
      BY <1>1, <1>3, <2>6 DEF Shell
    <3>2. user'[current] = "cmd_exit" /\ user'[s] = user[s]
      BY <1>1, <2>3, <2>6, <3>1 DEF CommandOK, AfterExec
    <3>3. HasCommand(s)' /\ CommandOK(s, current)'
      BY <1>1, <2>1, <2>2, <2>6, <3>1, <3>2 DEF HasCommand, CommandOK, Gone
    <3>4. ShellOK(s)' /\ SiblingOK(s)'
      BY <1>1, <1>3, <2>1, <2>2, <2>6, <3>2 DEF Shell, ShellOK, SiblingOK
    <3>5. Shell(s)'
      BY <1>1, <1>3, <2>1, <2>2, <2>6, <3>3, <3>4 DEF Shell
    <3> QED BY <1>3, <2>4, <3>5 DEF ShellInv
  <2> QED BY <1>3, <2>5, <2>6
<1> QED BY <1>4, <1>5 DEF sys_exec

\* The loop of do_wait, entered from the shell or when it is woken.
LEMMA ShellWait ==
    ASSUME IInv, ShellInv, kernel = "running", current # 1,
           NEW s \in Tasks \ {1}, Shell(s), current = s, HasCommand(s),
           kctx[s] # "stdin_read", do_wait(s), UNCHANGED ttyVars,
           user'[s] = "sh_read", \A t \in Tasks \ {s} : user'[t] = user[t]
    PROVE  ShellInv'
<1> USE NullNotTask DEF ttyVars
<1> DEFINE c == children[s]
<1>0. 1 \in Tasks /\ s \in Tasks
  BY SchedAssumption DEF Tasks
<1>1. /\ CommandOK(s, c) /\ c # s /\ c # 1 /\ c \in Tasks
      /\ mem[s] = "live" /\ state[s] = "TASK_RUNNING" /\ waiting_task # s
      /\ user[1] = "init_spin"
  BY RunningRing, WhoRuns DEF Shell, ShellOK, CommandOK
<1>2. sibling[c] \in {NULL, WILD} /\ (NTasks <= 3 => sibling[c] = NULL)
  BY <1>1, SchedAssumption DEF Shell, SiblingOK
<1>3. NULL \notin Tasks /\ WILD \notin Tasks /\ WILD # NULL
  BY SchedAssumption DEF WILD, NULL, Tasks
<1>4. CASE state[c] = "TASK_ZOMBIE"
  <2>1. Scan(c) = {c}
    BY <1>1, <1>4, ScanZombie DEF CommandOK
  <2>2. /\ mem' = [mem EXCEPT ![c] = "stale"]
        /\ kctx' = [kctx EXCEPT ![s] = "user"]
        /\ UNCHANGED <<current, rr, state, parent, children, sibling, kernel>>
    BY <1>1, <1>3, <1>4, <2>1 DEF do_wait, task_free, CommandOK
  <2>3. /\ \A t \in Tasks \ {c} : mem'[t] = mem[t]
        /\ mem'[c] # "live" /\ kctx'[s] = "user"
        /\ \A t \in Tasks \ {s} : kctx'[t] = kctx[t]
    BY <1>0, <1>1, <2>2 DEF IInv, Safety, TypeOK
  <2>4. InitRuns' /\ kernel' \in ShellHalts /\ user'[1] = "init_spin"
    BY <1>0, <1>1, <2>2, <2>3 DEF ShellInv, InitRuns
  <2>5. ShellOK(s)' /\ SiblingOK(s)' /\ ~HasCommand(s)'
    BY <1>0, <1>1, <2>2, <2>3 DEF Shell, ShellOK, SiblingOK, HasCommand
  <2>6. \A t \in Tasks \ {1, s} : Gone(t)'
    BY <1>1, <2>3 DEF CommandOK, Gone
  <2>7. Shell(s)'
    BY <2>5, <2>6 DEF Shell, Gone
  <2> QED BY <2>4, <2>7 DEF ShellInv
<1>5. CASE state[c] # "TASK_ZOMBIE"
  <2>1. Scan(c) = {sibling[c]}
    BY <1>1, <1>2, <1>5, ScanRunning DEF CommandOK
  <2>2. CASE sibling[c] = NULL
    <3>1. /\ state' = [state EXCEPT ![s] = "TASK_WAITING"]
          /\ kctx' = [kctx EXCEPT ![s] = "do_wait"]
          /\ schedule_sleep(rr)
          /\ UNCHANGED <<parent, children, sibling, mem>>
      BY <1>3, <2>1, <2>2 DEF do_wait
    <3>2. kernel' = "running" /\ 1 \in Queued(rr')
      <4>1. Ring(rr) /\ \A t \in Queued(rr) : mem[t] = "live"
        BY RunningRing DEF IInv, Safety, RunQueueExact, Queued
      <4> QED BY <3>1, <4>1, SleepRuns DEF ShellInv, InitRuns
    <3>3. /\ state'[s] = "TASK_WAITING" /\ kctx'[s] = "do_wait"
          /\ \A t \in Tasks \ {s} : kctx'[t] = kctx[t] /\ state'[t] = state[t]
      BY <1>0, <3>1 DEF IInv, Safety, TypeOK
    <3>4. InitRuns' /\ kernel' \in ShellHalts /\ user'[1] = "init_spin"
      BY <1>0, <1>1, <3>1, <3>2, <3>3 DEF ShellInv, InitRuns, ShellHalts
    <3>5. ShellOK(s)' /\ SiblingOK(s)' /\ HasCommand(s)'
      BY <1>0, <1>1, <3>1, <3>3 DEF Shell, ShellOK, SiblingOK, HasCommand
    <3>6. CommandOK(s, c)'
      BY <1>1, <1>5, <3>1, <3>3 DEF CommandOK, Gone
    <3>7. Shell(s)'
      BY <3>1, <3>3, <3>5, <3>6 DEF Shell
    <3> QED BY <3>4, <3>7 DEF ShellInv
  <2>3. CASE sibling[c] = WILD
    <3>1. panic("undefined")
      BY <1>3, <2>1, <2>3 DEF do_wait
    <3>2. kernel' = "undefined" /\ kernel' \in ShellHalts
      BY <1>2, <1>3, <2>3, <3>1, SchedAssumption DEF panic, ShellHalts
    <3>3. InitRuns' /\ user'[1] = "init_spin"
      BY <1>0, <1>1, <3>1 DEF panic, ShellInv, InitRuns
    <3>4. ShellOK(s)' /\ SiblingOK(s)'
      BY <1>0, <1>1, <3>1 DEF panic, Shell, ShellOK, SiblingOK, HasCommand
    <3>5. Shell(s)'
      BY <3>1, <3>2, <3>4 DEF panic, Shell
    <3> QED BY <3>2, <3>3, <3>5 DEF ShellInv
  <2> QED BY <1>2, <2>2, <2>3
<1> QED BY <1>4, <1>5

\* The command exits and wakes the shell if that sleeps in wait.
LEMMA ShellExit ==
    ASSUME IInv, ShellInv, sys_exit
    PROVE  ShellInv'
<1> USE NullNotTask DEF ttyVars
<1>0. 1 \in Tasks
  BY SchedAssumption DEF Tasks
<1>1. PICK c \in Tasks :
         /\ c = current /\ kernel = "running" /\ kctx[c] = "user"
         /\ UNCHANGED <<ttyVars, user>>
         /\ user[c] \in {"cmd_exit", "any"}
         /\ \E status : do_exit(c, status)
  BY DEF sys_exit, Calls, UserMode, IInv, Safety, TypeOK
<1>2. c # 1
  BY <1>1 DEF ShellInv, InitRuns
<1>3. PICK s \in Tasks \ {1} :
         /\ Shell(s) /\ user[1] = "init_spin" /\ HasCommand(s) /\ CommandOK(s, c)
         /\ c = children[s] /\ c # s
  BY <1>1, <1>2, WhoRuns DEF Shell, ShellOK
<1>4. /\ parent[c] = s /\ mem[s] = "live" /\ state[s] \in {"TASK_RUNNING", "TASK_WAITING"}
      /\ s \in Tasks /\ waiting_task # c
  BY <1>1, <1>3, RunningRing DEF Shell, ShellOK, CommandOK
<1> DEFINE wakes == state[s] = "TASK_WAITING"
           l == IF wakes THEN sched_rr_insert_proc(rr, c, s) ELSE rr
<1>5. /\ schedule_sleep(l)
      /\ kctx' = [kctx EXCEPT ![c] = "do_exit"]
      /\ UNCHANGED <<parent, children, sibling, mem>>
      /\ state' = IF wakes THEN [state EXCEPT ![c] = "TASK_ZOMBIE", ![s] = "TASK_RUNNING"]
                  ELSE [state EXCEPT ![c] = "TASK_ZOMBIE"]
  <2>1. [state EXCEPT ![c] = "TASK_ZOMBIE"][s] = state[s]
    BY <1>1, <1>3, <1>4 DEF IInv, Safety, TypeOK
  <2> QED BY <1>1, <1>4, <2>1 DEF do_exit
<1>6. Ring(l) /\ Queued(rr) \subseteq Queued(l) /\ \A t \in Queued(l) : mem[t] = "live"
  <2>1. Ring(rr) /\ c \in Queued(rr) /\ \A t \in Queued(rr) : mem[t] = "live"
    BY <1>1, RunningRing DEF IInv, Safety, RunQueueExact, Queued
  <2>2. wakes => s \in Tasks \ Queued(rr)
    BY <1>1, <1>4 DEF IInv, Safety, RunQueueExact
  <2>3. CASE wakes
    <3>1. Ring(l) /\ Queued(l) = Queued(rr) \cup {s}
      BY <2>1, <2>2, <2>3, InsertRing
    <3> QED BY <1>4, <2>1, <3>1
  <2> QED BY <2>1, <2>3
<1> HIDE DEF l
<1>7. kernel' = "running" /\ 1 \in Queued(rr')
  BY <1>1, <1>2, <1>5, <1>6, SleepRuns DEF ShellInv, InitRuns
<1>8. /\ state'[c] = "TASK_ZOMBIE" /\ state'[s] = "TASK_RUNNING" /\ state'[1] = state[1]
      /\ \A t \in Tasks \ {c} : kctx'[t] = kctx[t]
      /\ kctx'[c] = "do_exit"
  BY <1>0, <1>1, <1>2, <1>3, <1>4, <1>5 DEF IInv, Safety, TypeOK
<1>9. InitRuns' /\ kernel' \in ShellHalts /\ user'[1] = "init_spin"
  BY <1>0, <1>1, <1>2, <1>3, <1>5, <1>7, <1>8 DEF ShellInv, InitRuns, ShellHalts
<1>10. ShellOK(s)' /\ SiblingOK(s)' /\ HasCommand(s)'
  BY <1>1, <1>3, <1>4, <1>5, <1>8 DEF Shell, ShellOK, SiblingOK, HasCommand
<1>11. CommandOK(s, c)'
  BY <1>1, <1>3, <1>4, <1>5, <1>8 DEF CommandOK, Gone
<1>12. Shell(s)'
  BY <1>1, <1>3, <1>5, <1>8, <1>10, <1>11 DEF Shell
<1> QED BY <1>3, <1>9, <1>12 DEF ShellInv

\* The shell asks for a line and sleeps; the terminal has no other reader.
LEMMA ShellRead ==
    ASSUME IInv, ShellInv, sys_read
    PROVE  ShellInv'
<1> USE NullNotTask DEF ttyVars
<1>0. 1 \in Tasks
  BY SchedAssumption DEF Tasks
<1>1. /\ kernel = "running" /\ kctx[current] = "user" /\ stdin_read(current)
      /\ user' = [user EXCEPT ![current] = AfterRead(@)]
      /\ user[current] \in {"sh_read", "any"} /\ current \in Tasks
  BY DEF sys_read, Calls, UserMode, IInv, Safety, TypeOK
<1>2. current # 1
  BY <1>1 DEF ShellInv, InitRuns
<1>3. PICK s \in Tasks \ {1} : Shell(s) /\ user[1] = "init_spin" /\ current = s
  BY <1>1, <1>2, WhoRuns DEF Shell, CommandOK
<1>4. /\ user[s] = "sh_read" /\ ~HasCommand(s) /\ waiting_task = NULL
      /\ mem[s] = "live" /\ state[s] = "TASK_RUNNING"
  BY <1>1, <1>3, RunningRing DEF Shell, ShellOK, HasCommand
<1>5. /\ waiting_task' = s /\ schedule_sleep(rr)
      /\ kctx' = [kctx EXCEPT ![s] = "stdin_read"]
      /\ UNCHANGED <<state, parent, children, sibling, mem, bufi>>
  BY <1>1, <1>3, <1>4 DEF stdin_read
<1>6. kernel' = "running" /\ 1 \in Queued(rr')
  <2>1. Ring(rr) /\ \A t \in Queued(rr) : mem[t] = "live"
    BY <1>1, RunningRing DEF IInv, Safety, RunQueueExact, Queued
  <2> QED BY <1>1, <1>2, <1>5, <2>1, SleepRuns DEF ShellInv, InitRuns
<1>7. /\ kctx'[s] = "stdin_read" /\ user'[s] = "sh_fork"
      /\ \A t \in Tasks \ {s} : kctx'[t] = kctx[t] /\ user'[t] = user[t]
  BY <1>1, <1>3, <1>4, <1>5 DEF IInv, Safety, TypeOK, AfterRead
<1>8. InitRuns' /\ kernel' \in ShellHalts /\ user'[1] = "init_spin"
  BY <1>0, <1>3, <1>5, <1>6, <1>7 DEF ShellInv, InitRuns, ShellHalts
<1>9. ShellOK(s)' /\ SiblingOK(s)' /\ ~HasCommand(s)'
  BY <1>3, <1>4, <1>5, <1>7 DEF Shell, ShellOK, SiblingOK, HasCommand
<1>10. Shell(s)'
  BY <1>1, <1>3, <1>4, <1>5, <1>7, <1>9 DEF Shell, Gone
<1> QED BY <1>3, <1>8, <1>10 DEF ShellInv

\* The shell, woken by Enter, takes the line and empties the buffer.
LEMMA ShellReadReturn ==
    ASSUME IInv, ShellInv, resume_stdin_read
    PROVE  ShellInv'
<1> USE NullNotTask DEF ttyVars
<1>0. 1 \in Tasks
  BY SchedAssumption DEF Tasks
<1>1. /\ kernel = "running" /\ kctx[current] = "stdin_read" /\ current \in Tasks
      /\ kctx' = [kctx EXCEPT ![current] = "user"]
      /\ UNCHANGED <<rr, state, parent, children, sibling, mem, kernel, waiting_task, user>>
  BY DEF resume_stdin_read, stdin_read_return, IInv, Safety, TypeOK
<1>2. current # 1 /\ waiting_task # current
  BY <1>1, RunningRing DEF ShellInv, InitRuns
<1>3. PICK s \in Tasks \ {1} : Shell(s) /\ user[1] = "init_spin" /\ current = s
  BY <1>1, <1>2, WhoRuns DEF Shell, CommandOK
<1>4. /\ user[s] = "sh_fork" /\ ~HasCommand(s)
      /\ mem[s] = "live" /\ state[s] = "TASK_RUNNING"
  BY <1>1, <1>3, RunningRing DEF Shell, ShellOK, HasCommand
<1>5. kctx'[s] = "user" /\ \A t \in Tasks \ {s} : kctx'[t] = kctx[t]
  BY <1>1, <1>3 DEF IInv, Safety, TypeOK
<1>6. InitRuns' /\ kernel' \in ShellHalts /\ user'[1] = "init_spin"
  BY <1>0, <1>1, <1>3, <1>5 DEF ShellInv, InitRuns
<1>7. ShellOK(s)' /\ SiblingOK(s)' /\ ~HasCommand(s)'
  BY <1>1, <1>2, <1>3, <1>4, <1>5 DEF Shell, ShellOK, SiblingOK, HasCommand
<1>8. Shell(s)'
  BY <1>1, <1>3, <1>4, <1>5, <1>7 DEF Shell, Gone
<1> QED BY <1>3, <1>6, <1>8 DEF ShellInv

\* A step that leaves the tasks, the programs and the reader alone, and does
\* not stop the kernel.
LEMMA ShellFrame ==
    ASSUME ShellInv, kernel = "running", kernel' = kernel,
           UNCHANGED <<mem, state, kctx, parent, children, sibling, user>>,
           1 \in Queued(rr'),
           \/ waiting_task' = waiting_task /\ bufi' >= bufi
           \/ waiting_task' = NULL /\ bufi' > 0,
           NULL # 1, bufi \in Nat, bufi' \in Nat
    PROVE  ShellInv'
<1>1. InitRuns' /\ kernel' \in ShellHalts
  BY DEF ShellInv, InitRuns
<1>2. user'[1] = "init_fork" => NoShellYet'
  BY DEF ShellInv, NoShellYet
<1>3. ASSUME NEW s \in Tasks \ {1}, Shell(s)
      PROVE  Shell(s)'
  <2>1. ShellOK(s)' /\ SiblingOK(s)'
    BY <1>3, NullNotTask DEF Shell, ShellOK, SiblingOK
  <2> QED BY <1>3, <2>1 DEF Shell, HasCommand, CommandOK, Gone
<1>4. user'[1] = "init_spin" => \E s \in Tasks \ {1} : Shell(s)'
  BY <1>3 DEF ShellInv
<1> QED BY <1>1, <1>2, <1>4 DEF ShellInv

\* A key fills the buffer and, if it is Enter, wakes the shell with a line.
LEMMA ShellKey ==
    ASSUME IInv, ShellInv, keyboard_interrupt
    PROVE  ShellInv'
<1>1. PICK data \in Scancodes : ps2_key_in(data) /\ UNCHANGED user /\ kernel = "running"
  BY DEF keyboard_interrupt, UserMode
<1>2. bufi \in Nat /\ NULL # 1 /\ 1 \in Queued(rr) /\ waiting_task \in Tasks \cup {NULL}
  BY TtyAssumption DEF IInv, Safety, TypeOK, NULL, ShellInv, InitRuns
<1>3. CASE UNCHANGED <<schedVars, bufi, waiting_task>>
  BY <1>1, <1>2, <1>3, ShellFrame DEF schedVars
<1>4. CASE panic("tty_overflow") /\ UNCHANGED <<ttyVars>>
  BY <1>1, <1>4, ShellPanic DEF ShellHalts
<1>5. CASE /\ bufi' = bufi + 1
           /\ \/ UNCHANGED <<rr, waiting_task>>
              \/ /\ waiting_task # NULL /\ waiting_task' = NULL
                 /\ rr' = sched_rr_insert_proc(rr, current, waiting_task)
           /\ UNCHANGED <<state, parent, children, sibling, mem, kctx, kernel>>
  <2>1. 1 \in Queued(rr')
    <3>1. CASE waiting_task # NULL /\ rr' = sched_rr_insert_proc(rr, current, waiting_task)
      <4>1. waiting_task \in Tasks \ Queued(rr)
        BY <1>1, <1>2, <3>1 DEF IInv, Safety, RunQueueExact
      <4>2. Queued(rr') = Queued(rr) \cup {waiting_task}
        BY <1>1, <3>1, <4>1, RunningRing, InsertRing
      <4> QED BY <1>2, <4>2
    <3> QED BY <1>2, <1>5, <3>1
  <2>2. bufi' \in Nat /\ bufi' > 0 /\ bufi' >= bufi
    BY <1>2, <1>5
  <2> QED BY <1>1, <1>2, <1>5, <2>1, <2>2, ShellFrame
<1> QED BY <1>1, <1>3, <1>4, <1>5 DEF ps2_key_in, tty_send_key, ttyVars

\* The timer may move the CPU to another task of the ring.
LEMMA ShellTimer ==
    ASSUME IInv, IInv', ShellInv, timer_interrupt
    PROVE  ShellInv'
<1>1. /\ kernel = "running" /\ UNCHANGED <<rr, state, parent, children, sibling, mem, kctx>>
      /\ kernel' \in {kernel, "same_process"} /\ UNCHANGED <<ttyVars, user>>
  BY DEF timer_interrupt, UserMode, sched_maybe_preempt, schedule, switch_to
<1>2. 1 \in Queued(rr') /\ NULL # 1 /\ bufi \in Nat
  BY <1>1, TtyAssumption DEF ShellInv, InitRuns, NULL, IInv, Safety, TypeOK
<1>3. kernel' = kernel
  BY <1>1, <1>2 DEF IInv, Safety, SwitchPanicOnlyWhenIdle
<1> QED BY <1>1, <1>2, <1>3, ShellFrame DEF ttyVars

\* The caller of do_wait is the shell, which has a command.
LEMMA WaiterIsShell ==
    ASSUME IInv, ShellInv, sys_wait \/ resume_do_wait
    PROVE  /\ kernel = "running" /\ current # 1 /\ do_wait(current) /\ UNCHANGED ttyVars
           /\ kctx[current] \in {"user", "do_wait"}
           /\ \E s \in Tasks \ {1} :
                /\ Shell(s) /\ current = s /\ HasCommand(s)
                /\ user'[s] = "sh_read" /\ \A t \in Tasks \ {s} : user'[t] = user[t]
<1>1. CASE sys_wait
  <2>1. /\ kernel = "running" /\ kctx[current] = "user" /\ current \in Tasks
        /\ user[current] \in {"sh_wait", "any"} /\ do_wait(current) /\ UNCHANGED ttyVars
        /\ user' = [user EXCEPT ![current] = AfterWait(@)]
    BY <1>1 DEF sys_wait, Calls, UserMode, IInv, Safety, TypeOK
  <2>2. current # 1
    BY <2>1 DEF ShellInv, InitRuns
  <2>3. PICK s \in Tasks \ {1} : Shell(s) /\ current = s
    BY <2>1, <2>2, WhoRuns DEF Shell, CommandOK
  <2>4. HasCommand(s) /\ user[s] = "sh_wait"
    BY <2>1, <2>3 DEF Shell, ShellOK, HasCommand
  <2>5. user'[s] = "sh_read" /\ \A t \in Tasks \ {s} : user'[t] = user[t]
    BY <2>1, <2>3, <2>4 DEF AfterWait, IInv, Safety, TypeOK
  <2> QED BY <2>1, <2>2, <2>3, <2>4, <2>5
<1>2. CASE resume_do_wait
  <2>1. /\ kernel = "running" /\ kctx[current] = "do_wait" /\ current \in Tasks
        /\ do_wait(current) /\ UNCHANGED ttyVars /\ UNCHANGED user
    BY <1>2 DEF resume_do_wait, IInv, Safety, TypeOK
  <2>2. current # 1
    BY <2>1 DEF ShellInv, InitRuns
  <2>3. PICK s \in Tasks \ {1} : Shell(s) /\ current = s
    BY <2>1, <2>2, WhoRuns DEF Shell, CommandOK
  <2>4. HasCommand(s) /\ user[s] = "sh_read"
    BY <2>1, <2>3 DEF Shell, ShellOK, HasCommand
  <2> QED BY <2>1, <2>2, <2>3, <2>4
<1> QED BY <1>1, <1>2

\* wait frees the shell's command, and that only after it has exited.
LEMMA ShellReaps ==
    ASSUME IInv, ShellInv, sys_wait \/ resume_do_wait,
           NEW t \in Tasks, mem[t] = "live", mem'[t] # "live"
    PROVE  /\ state[t] = "TASK_ZOMBIE" /\ parent[t] = current
           /\ kctx[current] \in {"user", "do_wait"}
<1>1. PICK s \in Tasks \ {1} : Shell(s) /\ current = s /\ HasCommand(s)
  BY WaiterIsShell
<1>2. kernel = "running" /\ do_wait(s) /\ kctx[current] \in {"user", "do_wait"}
  BY <1>1, WaiterIsShell
<1> DEFINE c == children[s]
<1>3. CommandOK(s, c) /\ sibling[c] \in {NULL, WILD} /\ c \in Tasks
  BY <1>1, <1>2, NullNotTask, SchedAssumption DEF Shell, SiblingOK, CommandOK
<1>4. PICK child \in Scan(c) : child \in Tasks /\ mem' = [mem EXCEPT ![child] = "stale"]
  BY <1>2 DEF do_wait, task_free, panic
<1>5. CASE state[c] = "TASK_ZOMBIE"
  <2>1. child = c
    BY <1>3, <1>4, <1>5, ScanZombie DEF CommandOK
  <2> QED BY <1>1, <1>2, <1>3, <1>4, <1>5, <2>1 DEF CommandOK, IInv, Safety, TypeOK
<1>6. CASE state[c] # "TASK_ZOMBIE"
  <2>1. Scan(c) = {sibling[c]}
    BY <1>3, <1>6, ScanRunning DEF CommandOK
  <2> QED BY <1>3, <1>4, <2>1, NullNotTask, SchedAssumption DEF WILD, Tasks
<1> QED BY <1>5, <1>6

\* The shipped programs start in the invariant.
LEMMA ShellInit ==
    ASSUME FirstProgram = "init_fork", Init
    PROVE  ShellInv
<1>1. 1 \in Tasks /\ NULL # 1
  BY SchedAssumption DEF Tasks, NULL
<1>2. InitRuns /\ kernel = "running"
  BY <1>1 DEF Init, SchedInit, TtyInit, Only, InitRuns, Queued, NULL
<1>3. NoShellYet /\ user[1] = "init_fork"
  BY <1>1 DEF Init, SchedInit, TtyInit, Only, NoShellYet
<1> QED BY <1>2, <1>3 DEF ShellInv, ShellHalts

\* Every step preserves it.
LEMMA ShellNext == IInv /\ ShellInv /\ [Next]_vars => ShellInv'
<1> SUFFICES ASSUME IInv, ShellInv, [Next]_vars PROVE ShellInv'
  OBVIOUS
<1>1. CASE sys_wait \/ resume_do_wait
  <2>1. PICK s \in Tasks \ {1} :
           /\ Shell(s) /\ current = s /\ HasCommand(s)
           /\ user'[s] = "sh_read" /\ \A t \in Tasks \ {s} : user'[t] = user[t]
    BY <1>1, WaiterIsShell
  <2> QED BY <1>1, <2>1, WaiterIsShell, ShellWait
<1>2. CASE sys_fork
  BY <1>2, ShellFork
<1>3. CASE sys_exec
  BY <1>3, ShellExec
<1>4. CASE sys_exit
  BY <1>4, ShellExit
<1>5. CASE sys_read
  BY <1>5, ShellRead
<1>6. CASE resume_stdin_read
  BY <1>6, ShellReadReturn
<1>7. CASE keyboard_interrupt
  BY <1>7, ShellKey
<1>8. CASE timer_interrupt
  <2>1. IInv'
    BY NextInv
  <2> QED BY <1>8, <2>1, ShellTimer
<1>9. CASE user_fault
  <2>1. kernel = "running" /\ current = 1
    <3>1. kernel = "running" /\ user[current] = "any"
      BY <1>9 DEF user_fault, UserMode
    <3>2. ASSUME current # 1 PROVE FALSE
      BY <3>1, <3>2, WhoRuns DEF Shell, ShellOK, CommandOK
    <3> QED BY <3>1, <3>2
  <2> QED BY <1>9, <2>1 DEF user_fault, ShellInv, InitRuns
<1>10. CASE UNCHANGED vars
  <2> USE <1>10 DEF vars, schedVars, ttyVars
  <2>1. InitRuns' /\ kernel' \in ShellHalts
    BY DEF ShellInv, InitRuns
  <2>2. user'[1] = "init_fork" => NoShellYet'
    BY DEF ShellInv, NoShellYet
  <2>3. ASSUME NEW s \in Tasks \ {1}, Shell(s) PROVE Shell(s)'
    BY <2>3 DEF Shell, ShellOK, SiblingOK, HasCommand, CommandOK, Gone
  <2> QED BY <2>1, <2>2, <2>3 DEF ShellInv
<1> QED
  BY <1>1, <1>2, <1>3, <1>4, <1>5, <1>6, <1>7, <1>8, <1>9, <1>10
     DEF Next, Syscall, Resume, halted

\* The invariant holds throughout every run of the shipped programs.
LEMMA ShellInvariance ==
    ASSUME FirstProgram = "init_fork"
    PROVE  Spec => [](IInv /\ ShellInv)
<1>1. Init => IInv /\ ShellInv
  BY InitInv, ShellInit
<1>2. IInv /\ ShellInv /\ [Next]_vars => (IInv /\ ShellInv)'
  BY NextInv, ShellNext
<1> QED BY <1>1, <1>2, PTL DEF Spec

(***************************************************************************)
(* What the shipped programs can rely on.                                  *)
(***************************************************************************)
\* wait never goes to sleep over an exited child: under /init and /sh the loop
\* of do_wait finds the command although its list of children is damaged.
THEOREM WaitersCorrect ==
    ASSUME FirstProgram = "init_fork"
    PROVE  Spec => []WaiterHasNoZombie
<1>1. IInv /\ ShellInv => WaiterHasNoZombie
  <2> SUFFICES ASSUME IInv, ShellInv, kernel = "running", NEW t \in Tasks, NEW c \in Tasks,
                      mem[t] = "live", state[t] = "TASK_WAITING",
                      mem[c] = "live", state[c] = "TASK_ZOMBIE", parent[c] = t
               PROVE  FALSE
    BY DEF WaiterHasNoZombie
  <2>1. t # 1 /\ c # 1
    BY DEF ShellInv, InitRuns
  <2>2. PICK s \in Tasks \ {1} : Shell(s)
    BY <2>1 DEF ShellInv, InitRuns, NoShellYet
  <2> QED BY <2>1, <2>2 DEF Shell, ShellOK, CommandOK, Gone
<1> QED BY <1>1, ShellInvariance, PTL

\* Between Enter and the moment the shell gets the CPU nobody takes its line.
THEOREM ReadersCorrect ==
    ASSUME FirstProgram = "init_fork"
    PROVE  Spec => []ReaderHasLine
<1>1. IInv /\ ShellInv => ReaderHasLine
  <2> SUFFICES ASSUME IInv, ShellInv, NEW t \in Tasks, mem[t] = "live",
                      kctx[t] = "stdin_read", waiting_task # t
               PROVE  bufi > 0
    BY DEF ReaderHasLine
  <2>1. t # 1
    BY DEF ShellInv, InitRuns
  <2>2. PICK s \in Tasks \ {1} : Shell(s)
    BY <2>1 DEF ShellInv, InitRuns, NoShellYet
  <2> QED BY <2>1, <2>2 DEF Shell, ShellOK
<1> QED BY <1>1, ShellInvariance, PTL

\* wait frees only an exited child of its caller.
THEOREM ReapingCorrect ==
    ASSUME FirstProgram = "init_fork"
    PROVE  Spec => OwnZombieReaped
<1> DEFINE Reaped(t) == mem[t] = "live" /\ mem'[t] # "live" =>
                           /\ state[t] = "TASK_ZOMBIE" /\ parent[t] = current
                           /\ kctx[current] \in {"user", "do_wait"}
<1>1. IInv /\ ShellInv /\ [Next]_vars => [\A t \in Tasks : Reaped(t)]_vars
  <2> SUFFICES ASSUME IInv, ShellInv, Next, NEW t \in Tasks, mem[t] = "live", mem'[t] # "live"
               PROVE  /\ state[t] = "TASK_ZOMBIE" /\ parent[t] = current
                      /\ kctx[current] \in {"user", "do_wait"}
    OBVIOUS
  <2>1. \A lost \in SUBSET Stale : t \notin lost
    BY DEF Stale
  <2>2. ~sys_fork /\ ~sys_exec
    BY <2>1 DEF sys_fork, sys_exec, panic, sched_fork, sched_exec, Overwrite
  <2>3. ~sys_exit /\ ~sys_read /\ ~resume_stdin_read
    BY DEF sys_exit, do_exit, sys_read, stdin_read, resume_stdin_read, stdin_read_return, panic
  <2>4. ~keyboard_interrupt /\ ~timer_interrupt /\ ~user_fault /\ ~halted
    BY DEF keyboard_interrupt, ps2_key_in, tty_send_key, timer_interrupt, sched_maybe_preempt,
           user_fault, halted, panic, schedVars, vars
  <2>5. sys_wait \/ resume_do_wait
    BY <2>2, <2>3, <2>4 DEF Next, Syscall, Resume
  <2> QED BY <2>5, ShellReaps
<1> QED BY <1>1, ShellInvariance, PTL DEF Spec, OwnZombieReaped

\* With room for three tasks the kernel stops only for a command that does not
\* exist or for too much input.
THEOREM HaltsCorrect ==
    ASSUME FirstProgram = "init_fork", NTasks = 3
    PROVE  Spec => []OnlyUserErrorsHalt
<1>1. IInv /\ ShellInv => OnlyUserErrorsHalt
  BY DEF ShellInv, ShellHalts, OnlyUserErrorsHalt
<1> QED BY <1>1, ShellInvariance, PTL

\* With less room fork may find none, with more a freed slot may be overwritten
\* while the list of children still leads through it; init alone keeps the
\* panic of a last task that goes to sleep away, and one reader the terminal's.
THEOREM HaltsBounded ==
    ASSUME FirstProgram = "init_fork"
    PROVE  Spec => [](kernel \in ShellHalts)
<1>1. IInv /\ ShellInv => kernel \in ShellHalts
  BY DEF ShellInv
<1> QED BY <1>1, ShellInvariance, PTL
=============================================================================
