-------------------------------- MODULE Heap --------------------------------
(***************************************************************************)
(* What kmalloc promises its callers: every pointer it returns owns as     *)
(* many bytes as were asked for, inside the heap, shared with no other     *)
(* allocation that has not been freed.                                     *)
(***************************************************************************)
EXTENDS Naturals

CONSTANTS Lo, Hi, Sizes

VARIABLE live      \* the allocations: pointer |-> bytes asked for

Apart(p, n, q, m) == p + n <= q \/ q + m <= p

Init == DOMAIN live = {}

Alloc(n) ==
    \E p \in Lo .. Hi :
       /\ n > 0 /\ p + n <= Hi
       /\ \A q \in DOMAIN live : Apart(p, n, q, live[q])
       /\ live' = [q \in DOMAIN live \cup {p} |-> IF q = p THEN n ELSE live[q]]

Free(p) == live' = [q \in DOMAIN live \ {p} |-> live[q]]

Next == (\E n \in Sizes : Alloc(n)) \/ (\E p \in DOMAIN live : Free(p))

Spec == Init /\ [][Next]_live
=============================================================================
