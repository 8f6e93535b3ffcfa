------------------------------ MODULE Kmalloc ------------------------------
(***************************************************************************)
(* The kernel heap: mm/kmalloc.c on top of sbrk (mm/vmm.c).  A block is a  *)
(* header of HDR bytes followed by size bytes; the headers form a doubly   *)
(* linked list.  block maps the address of each header of the list to its  *)
(* contents; a header that free merges into its neighbour leaves the list. *)
(* What kmalloc hands out is the address behind the header.                *)
(***************************************************************************)
EXTENDS Integers

CONSTANTS
    HDR,               \* sizeof(struct block)
    INIT_HEAP_SIZE,
    KERNEL_BRK_START,
    KERNEL_BRK_END,    \* KERNEL_BRK_START + KERNEL_BRK_PAGES * PAGE_SIZE
    Sizes              \* bound: sizes the callers ask for

ASSUME KmallocAssumption ==
    /\ HDR \in Nat \ {0}
    /\ KERNEL_BRK_START \in Nat \ {0}
    /\ INIT_HEAP_SIZE \in Nat /\ HDR < INIT_HEAP_SIZE
    /\ KERNEL_BRK_END \in Nat
    /\ KERNEL_BRK_START + INIT_HEAP_SIZE < KERNEL_BRK_END
    /\ Sizes \subseteq Nat

NULL == 0
heap_base == KERNEL_BRK_START

VARIABLES
    block,        \* header address |-> struct block
    kernel_brk,
    asked,        \* history: header of an allocation |-> bytes asked for
    status        \* "running", or the panic that stopped the kernel

vars == <<block, kernel_brk, asked, status>>

Block == [size : Nat \ {0}, in_use : {0, 1}, next : Nat, prev : Nat]

\* Mutant: the new header is put inside the bytes that were asked for.
split_block_no_header(bl, size, v) ==
    IF bl[v].size - size <= HDR THEN bl
    ELSE LET nb == v + size IN
         [b \in DOMAIN bl \cup {nb} |->
            IF b = nb THEN [size |-> bl[v].size - size, in_use |-> 0,
                            next |-> bl[v].next, prev |-> v]
            ELSE IF b = v THEN [bl[v] EXCEPT !.size = size, !.next = nb]
            ELSE IF b = bl[v].next THEN [bl[b] EXCEPT !.prev = nb]
            ELSE bl[b]]

\* Cuts the victim v down to size when another block fits behind it.
split_block(bl, size, v) ==
    IF bl[v].size - size <= HDR THEN bl
    ELSE LET nb == v + HDR + size IN
         [b \in DOMAIN bl \cup {nb} |->
            IF b = nb THEN [size |-> bl[v].size - size - HDR, in_use |-> 0,
                            next |-> bl[v].next, prev |-> v]
            ELSE IF b = v THEN [bl[v] EXCEPT !.size = size, !.next = nb]
            ELSE IF b = bl[v].next THEN [bl[b] EXCEPT !.prev = nb]
            ELSE bl[b]]

\* Mutant: the header of the split-off block is not accounted for.
Fits_no_header(b, size) ==
    block[b].in_use = 0 /\ block[b].size >= size

Fits(b, size) ==
    /\ block[b].in_use = 0
    /\ block[b].size = size \/ block[b].size >= size + HDR

\* The loop over the list: the first block that fits, or NULL
Search(size) ==
    LET from[c \in DOMAIN block \cup {NULL}] ==
            IF c = NULL \/ Fits(c, size) THEN c ELSE from[block[c].next]
    IN  from[heap_base]

\* A block at the old break, behind last
AppendBlock(last, size) ==
    [b \in DOMAIN block \cup {kernel_brk} |->
       IF b = kernel_brk
       THEN [size |-> size, in_use |-> 1, next |-> NULL, prev |-> last]
       ELSE IF b = last THEN [block[b] EXCEPT !.next = kernel_brk]
       ELSE block[b]]

Record(b, size) ==
    asked' = [x \in DOMAIN asked \cup {b} |-> IF x = b THEN size ELSE asked[x]]

kmalloc_take(size) ==
    \E target \in DOMAIN block :
       /\ target = Search(size) /\ Fits(target, size)
       /\ block' = [split_block(block, size, target) EXCEPT ![target].in_use = 1]
       /\ Record(target, size)
       /\ UNCHANGED <<kernel_brk, status>>

\* The loop has run to the end of the list.  sbrk moves the break before it
\* compares it with the limit.
kmalloc_grow(size) ==
    /\ Search(size) = NULL
    /\ kernel_brk' = kernel_brk + HDR + size
    /\ \/ /\ kernel_brk' >= KERNEL_BRK_END
          /\ status' = "heap_exhausted"
          /\ UNCHANGED <<block, asked>>
       \/ /\ kernel_brk' < KERNEL_BRK_END
          /\ \E last \in DOMAIN block :
                block[last].next = NULL /\ block' = AppendBlock(last, size)
          /\ Record(kernel_brk, size)
          /\ UNCHANGED status

kmalloc(size) ==
    \/ size = 0 /\ status' = "size_zero" /\ UNCHANGED <<block, kernel_brk, asked>>
    \/ size # 0 /\ (kmalloc_take(size) \/ kmalloc_grow(size))

\* Mutant: the list skips from b to whatever follows the merged block, but
\* the size of the merged header is not added.
Absorb_no_header(bl, b, victim) ==
    [x \in DOMAIN bl \ {victim} |->
       IF x = b THEN [bl[b] EXCEPT !.size = @ + bl[victim].size,
                                   !.next = bl[victim].next]
       ELSE IF x = bl[victim].next THEN [bl[x] EXCEPT !.prev = b]
       ELSE bl[x]]

\* b grows over the block behind it, whose header leaves the list.
Absorb(bl, b, victim) ==
    [x \in DOMAIN bl \ {victim} |->
       IF x = b THEN [bl[b] EXCEPT !.size = @ + bl[victim].size + HDR,
                                   !.next = bl[victim].next]
       ELSE IF x = bl[victim].next THEN [bl[x] EXCEPT !.prev = b]
       ELSE bl[x]]

IsFree(bl, b) == b # NULL /\ bl[b].in_use = 0

\* Mutant: no merge with the block in front.
CoalesceBack_never(bl, b) == [heap |-> bl, at |-> b]

CoalesceBack(bl, b) ==
    IF IsFree(bl, bl[b].prev)
    THEN [heap |-> Absorb(bl, bl[b].prev, b), at |-> bl[b].prev]
    ELSE [heap |-> bl, at |-> b]

CoalesceForward(bl, b) ==
    IF IsFree(bl, bl[b].next) THEN Absorb(bl, b, bl[b].next) ELSE bl

\* Callers free what kmalloc gave them, once.
free(b) ==
    LET back == CoalesceBack([block EXCEPT ![b].in_use = 0], b)
    IN  /\ block' = CoalesceForward(back.heap, back.at)
        /\ asked' = [x \in DOMAIN asked \ {b} |-> asked[x]]
        /\ UNCHANGED <<kernel_brk, status>>

\* kmalloc_init
Init ==
    /\ block = [b \in {heap_base} |->
                  [size |-> INIT_HEAP_SIZE - HDR, in_use |-> 0,
                   next |-> NULL, prev |-> NULL]]
    /\ kernel_brk = KERNEL_BRK_START + INIT_HEAP_SIZE
    /\ asked = [b \in {} |-> 0]
    /\ status = "running"

Next == \/ /\ status = "running"
           /\ \/ \E size \in Sizes : kmalloc(size)
              \/ \E b \in DOMAIN asked : free(b)
        \/ status # "running" /\ UNCHANGED vars

Spec == Init /\ [][Next]_vars

-----------------------------------------------------------------------------
EndOf(bl, b) == b + HDR + bl[b].size

Heaps(bl) ==
    /\ DOMAIN bl \subseteq Nat /\ NULL \notin DOMAIN bl
    /\ heap_base \in DOMAIN bl
    /\ bl \in [DOMAIN bl -> Block]

\* The type of every variable; no block is empty.
TypeOK ==
    /\ Heaps(block)
    /\ kernel_brk \in Nat
    /\ DOMAIN asked \subseteq DOMAIN block
    /\ asked \in [DOMAIN asked -> Sizes \ {0}]
    /\ status \in {"running", "heap_exhausted", "size_zero"}

\* next and prev undo each other, and each block ends where its successor
\* begins, the last one at the break
Chained(bl, brk) ==
    \A b \in DOMAIN bl :
       /\ bl[b].next = NULL => EndOf(bl, b) = brk
       /\ bl[b].next # NULL => /\ bl[b].next \in DOMAIN bl
                               /\ bl[b].next = EndOf(bl, b)
                               /\ bl[bl[b].next].prev = b
       /\ bl[b].prev = NULL <=> b = heap_base
       /\ bl[b].prev # NULL => /\ bl[b].prev \in DOMAIN bl
                               /\ bl[bl[b].prev].next = b

\* No byte lies in two blocks or outside the heap.
Disjoint(bl, brk) ==
    \A b \in DOMAIN bl :
       /\ heap_base <= b /\ EndOf(bl, b) <= brk
       /\ \A c \in DOMAIN bl : b < c => EndOf(bl, b) <= c

\* The list and the memory agree, after every split, sbrk and merge: the
\* blocks follow each other without gap or overlap from the heap's start to
\* the break, and the links run through them in that order.
HeapTiled ==
    status = "running" =>
       /\ kernel_brk < KERNEL_BRK_END
       /\ Chained(block, kernel_brk) /\ Disjoint(block, kernel_brk)

\* free leaves no two free blocks side by side, whatever the order of frees.
NoAdjacentFree ==
    \A b \in DOMAIN block :
       block[b].in_use = 0 /\ block[b].next # NULL =>
          block[block[b].next].in_use = 1

\* Exactly the allocations are in use, each has the bytes that were asked for,
\* and the rounding of split_block wastes nothing or one header.
NoWaste ==
    /\ \A b \in DOMAIN block : block[b].in_use = 1 <=> b \in DOMAIN asked
    /\ \A b \in DOMAIN asked : block[b].size - asked[b] \in {0, HDR}

\* Once everything is freed the heap is one free block again: no sequence of
\* kmalloc and free fragments it for good.
NoFragmentsLeft ==
    status = "running" /\ DOMAIN asked = {} => DOMAIN block = {heap_base}

Abstract == INSTANCE Heap
               WITH Lo <- KERNEL_BRK_START, Hi <- KERNEL_BRK_END,
                    live <- [p \in {b + HDR : b \in DOMAIN asked} |->
                               asked[p - HDR]]

\* kmalloc and free implement the heap as its callers see it.
ImplementsHeap == Abstract!Spec
=============================================================================
