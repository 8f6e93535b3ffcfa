------------------------------ MODULE RunQueue ------------------------------
(***************************************************************************)
(* What the scheduler promises, without pointers: a queue whose head has   *)
(* the CPU.  A time slice that ends moves the head to the end; a task that *)
(* is created or woken comes second, right behind the head; a task that    *)
(* sleeps or exits leaves, having woken at most one other.  The empty      *)
(* queue stands for a stopped kernel.                                      *)
(***************************************************************************)
EXTENDS Naturals, Sequences

CONSTANT NTasks

VARIABLE queue

Tasks == 1 .. NTasks

InQueue(q) == {q[i] : i \in DOMAIN q}

InsertSecond(q, t) == <<Head(q), t>> \o Tail(q)

Init == \E t \in Tasks : queue = <<t>>

Rotate == queue' = Append(Tail(queue), Head(queue))

Enter == \E t \in Tasks \ InQueue(queue) : queue' = InsertSecond(queue, t)

Leave == queue' = Tail(queue)

LeaveFor == \E t \in Tasks \ InQueue(queue) :
               queue' = Tail(InsertSecond(queue, t))

Stop == queue' = <<>>

Next == queue # <<>> /\ (Rotate \/ Enter \/ Leave \/ LeaveFor \/ Stop)

Spec == Init /\ [][Next]_queue
=============================================================================
