---------------------------- MODULE KmallocProof ----------------------------
(***************************************************************************)
(* Proofs about the kernel heap for every header size, heap size and set   *)
(* of requested sizes: the list stays well formed, nothing is wasted or    *)
(* left fragmented, and kmalloc implements the heap its callers see.       *)
(***************************************************************************)
EXTENDS Kmalloc, TLAPS

WellFormed(bl, brk) ==
    Heaps(bl) /\ brk \in Nat /\ Chained(bl, brk) /\ Disjoint(bl, brk)

\* What the links and sizes of one block say, with their types.
LEMMA BlockFacts ==
    ASSUME NEW bl, NEW brk, WellFormed(bl, brk), NEW b \in DOMAIN bl
    PROVE  /\ b \in Nat /\ b # NULL /\ heap_base <= b
           /\ bl[b] \in Block
           /\ bl[b].size \in Nat \ {0} /\ bl[b].in_use \in {0, 1}
           /\ bl[b].next \in Nat /\ bl[b].prev \in Nat
           /\ EndOf(bl, b) = b + HDR + bl[b].size /\ EndOf(bl, b) <= brk
           /\ bl[b].next = NULL => EndOf(bl, b) = brk
           /\ bl[b].next # NULL => /\ bl[b].next \in DOMAIN bl
                                   /\ bl[b].next = EndOf(bl, b)
                                   /\ bl[bl[b].next].prev = b
           /\ bl[b].prev = NULL <=> b = heap_base
           /\ bl[b].prev # NULL => /\ bl[b].prev \in DOMAIN bl
                                   /\ bl[bl[b].prev].next = b
BY DEF WellFormed, Heaps, Chained, Disjoint, Block, EndOf

\* s is bl with v cut down to size: unchanged, or with a free block behind v.
IsSplit(bl, s, v, size) ==
    LET nb == v + HDR + size IN
    \/ s = bl /\ bl[v].size - size \in {0, HDR}
    \/ /\ nb \notin DOMAIN bl
       /\ DOMAIN s = DOMAIN bl \cup {nb}
       /\ s[v].size = size /\ s[v].in_use = bl[v].in_use /\ s[v].next = nb
       /\ s[nb].in_use = 0 /\ s[nb].next = bl[v].next
       /\ \A b \in DOMAIN bl \ {v} :
             /\ s[b].size = bl[b].size /\ s[b].next = bl[b].next
             /\ s[b].in_use = bl[b].in_use

\* split_block keeps the heap well formed when the victim is large enough for
\* the request and another header, or fits it exactly.
LEMMA SplitWellFormed ==
    ASSUME NEW bl, NEW brk, WellFormed(bl, brk),
           NEW v \in DOMAIN bl, NEW size \in Nat \ {0},
           bl[v].size = size \/ bl[v].size >= size + HDR
    PROVE  /\ WellFormed(split_block(bl, size, v), brk)
           /\ IsSplit(bl, split_block(bl, size, v), v, size)
<1> DEFINE s  == split_block(bl, size, v)
           nb == v + HDR + size
           n  == bl[v].next
<1>0. HDR \in Nat /\ HDR > 0
  BY KmallocAssumption
<1>1. \A b \in DOMAIN bl :
         /\ b \in Nat /\ b # NULL /\ heap_base <= b
         /\ bl[b] \in Block
         /\ bl[b].size \in Nat \ {0} /\ bl[b].in_use \in {0, 1}
         /\ bl[b].next \in Nat /\ bl[b].prev \in Nat
         /\ EndOf(bl, b) = b + HDR + bl[b].size /\ EndOf(bl, b) <= brk
         /\ bl[b].next = NULL => EndOf(bl, b) = brk
         /\ bl[b].next # NULL => /\ bl[b].next \in DOMAIN bl
                                 /\ bl[b].next = EndOf(bl, b)
                                 /\ bl[bl[b].next].prev = b
         /\ bl[b].prev = NULL <=> b = heap_base
         /\ bl[b].prev # NULL => /\ bl[b].prev \in DOMAIN bl
                                 /\ bl[bl[b].prev].next = b
  BY BlockFacts
<1>2. CASE bl[v].size - size <= HDR
  BY <1>0, <1>1, <1>2 DEF split_block, IsSplit
<1>3. CASE ~(bl[v].size - size <= HDR)
  <2>1. nb \in Nat /\ v < nb /\ nb + HDR < EndOf(bl, v) /\ nb # NULL
    BY <1>0, <1>1, <1>3 DEF NULL
  <2>2. \A x, y \in DOMAIN bl : x < y => EndOf(bl, x) <= y
    BY DEF WellFormed, Disjoint
  <2>3. nb \notin DOMAIN bl
    BY <1>0, <1>1, <2>1, <2>2
  <2>4. s = [b \in DOMAIN bl \cup {nb} |->
               IF b = nb THEN [size |-> bl[v].size - size - HDR, in_use |-> 0,
                               next |-> n, prev |-> v]
               ELSE IF b = v THEN [bl[v] EXCEPT !.size = size, !.next = nb]
               ELSE IF b = n THEN [bl[b] EXCEPT !.prev = nb]
               ELSE bl[b]]
    BY <1>3 DEF split_block
  <2>5. n \in Nat /\ n # v /\ (n # NULL => n \in DOMAIN bl /\ n = EndOf(bl, v))
    BY <1>0, <1>1
  <2>6. EndOf(bl, v) = nb + HDR + (bl[v].size - size - HDR)
        /\ bl[v].size - size - HDR \in Nat \ {0} /\ EndOf(bl, v) \in Nat
    BY <1>0, <1>1, <1>3
  <2> HIDE DEF s, nb, n
  <2>7. DOMAIN s = DOMAIN bl \cup {nb}
    BY <2>4
  <2>8. /\ s[nb].size = bl[v].size - size - HDR /\ s[nb].in_use = 0
        /\ s[nb].next = n /\ s[nb].prev = v /\ s[nb] \in Block
    BY <1>1, <2>4, <2>5, <2>6 DEF Block
  <2>9. /\ s[v].size = size /\ s[v].in_use = bl[v].in_use
        /\ s[v].next = nb /\ s[v].prev = bl[v].prev /\ s[v] \in Block
    <3>1. s[v] = [bl[v] EXCEPT !.size = size, !.next = nb]
      BY <2>3, <2>4
    <3>2. bl[v] \in Block /\ nb \in Nat
      BY <1>1, <2>1
    <3>3. s[v] \in Block
      BY <3>1, <3>2 DEF Block
    <3> QED BY <3>1, <3>2, <3>3 DEF Block
  <2>10. ASSUME NEW b \in DOMAIN bl \ {v}
         PROVE  /\ s[b].size = bl[b].size /\ s[b].next = bl[b].next
                /\ s[b].in_use = bl[b].in_use /\ s[b] \in Block
                /\ s[b].prev = IF b = n THEN nb ELSE bl[b].prev
    <3>1. s[b] = IF b = n THEN [bl[b] EXCEPT !.prev = nb] ELSE bl[b]
      BY <2>3, <2>4
    <3> QED BY <1>1, <2>1, <3>1 DEF Block
  <2>11. Heaps(s)
    <3>1. s \in [DOMAIN s -> Block]
      BY <2>4, <2>7, <2>8, <2>9, <2>10
    <3> QED BY <2>1, <2>7, <3>1 DEF WellFormed, Heaps
  <2>12. /\ EndOf(s, nb) = EndOf(bl, v) /\ EndOf(s, v) = nb
         /\ \A b \in DOMAIN bl \ {v} : EndOf(s, b) = EndOf(bl, b)
    BY <2>6, <2>8, <2>9, <2>10 DEF EndOf, nb
  <2>13. Chained(s, brk)
    <3> SUFFICES ASSUME NEW b \in DOMAIN s
                 PROVE  /\ s[b].next = NULL => EndOf(s, b) = brk
                        /\ s[b].next # NULL => /\ s[b].next \in DOMAIN s
                                               /\ s[b].next = EndOf(s, b)
                                               /\ s[s[b].next].prev = b
                        /\ s[b].prev = NULL <=> b = heap_base
                        /\ s[b].prev # NULL => /\ s[b].prev \in DOMAIN s
                                               /\ s[s[b].prev].next = b
      BY DEF Chained
    <3>0. heap_base \in DOMAIN bl
      BY DEF WellFormed, Heaps
    <3>1. CASE b = nb
      <4>1. s[b].next = n /\ s[b].prev = v /\ EndOf(s, b) = EndOf(bl, v)
        BY <2>8, <2>12, <3>1
      <4>2. n # NULL => n \in DOMAIN bl \ {v} /\ s[n].prev = nb
        BY <2>5, <2>10
      <4>3. n = NULL => EndOf(bl, v) = brk
        BY <1>1 DEF n
      <4> QED BY <1>1, <2>3, <2>5, <2>7, <2>9, <3>0, <3>1, <4>1, <4>2, <4>3
    <3>2. CASE b = v
      <4>1. s[b].next = nb /\ s[b].prev = bl[v].prev /\ EndOf(s, b) = nb
        BY <2>9, <2>12, <3>2
      <4>2. bl[v].prev # NULL => /\ bl[v].prev \in DOMAIN bl \ {v}
                                 /\ s[bl[v].prev].next = v
        BY <1>1, <2>5, <2>10 DEF n
      <4> QED BY <1>1, <2>1, <2>7, <2>8, <3>2, <4>1, <4>2
    <3>3. CASE b \in DOMAIN bl \ {v}
      <4>1. /\ s[b].next = bl[b].next /\ EndOf(s, b) = EndOf(bl, b)
            /\ s[b].prev = IF b = n THEN nb ELSE bl[b].prev
        BY <2>10, <2>12, <3>3
      <4>2. bl[b].next # NULL => bl[b].next \in DOMAIN bl /\ bl[b].next # n
                                 /\ s[bl[b].next].prev = b
        BY <1>1, <2>5, <2>9, <2>10, <3>3 DEF n
      <4>3. bl[b].prev # NULL /\ b # n => bl[b].prev \in DOMAIN bl \ {v}
                                          /\ s[bl[b].prev].next = b
        BY <1>1, <2>10, <3>3 DEF n
      <4>4. b = n => bl[b].prev = v
        BY <1>1, <3>3 DEF n
      <4> QED BY <1>1, <2>1, <2>7, <2>8, <3>3, <4>1, <4>2, <4>3, <4>4
    <3> QED BY <2>7, <3>1, <3>2, <3>3
  <2>14. Disjoint(s, brk)
    <3>0. heap_base \in Nat
      BY KmallocAssumption DEF heap_base
    <3>1. ASSUME NEW b \in DOMAIN s
          PROVE  heap_base <= b /\ EndOf(s, b) <= brk
      <4>1. CASE b = nb
        BY <1>1, <2>1, <2>12, <3>0, <4>1
      <4>2. CASE b = v
        BY <1>0, <1>1, <2>1, <2>6, <2>12, <4>2 DEF WellFormed
      <4>3. CASE b \in DOMAIN bl \ {v}
        BY <1>1, <2>12, <4>3
      <4> QED BY <2>7, <4>1, <4>2, <4>3
    <3>2. ASSUME NEW b \in DOMAIN s, NEW c \in DOMAIN s, b < c
          PROVE  EndOf(s, b) <= c
      <4>1. CASE b = nb
        <5>1. c \in DOMAIN bl /\ v < c
          BY <1>1, <2>1, <2>7, <3>2, <4>1
        <5> QED BY <2>2, <2>12, <4>1, <5>1
      <4>2. CASE b = v /\ c = nb
        BY <2>1, <2>12, <4>2
      <4>3. CASE b = v /\ c \in DOMAIN bl
        BY <1>0, <1>1, <2>1, <2>2, <2>6, <2>12, <3>2, <4>3
      <4>4. CASE b \in DOMAIN bl \ {v} /\ c = nb
        <5>1. b < v
          BY <1>0, <1>1, <2>1, <2>2, <2>6, <3>2, <4>4
        <5>2. EndOf(bl, b) <= v /\ EndOf(bl, b) \in Nat
          BY <1>0, <1>1, <2>2, <4>4, <5>1
        <5> QED BY <1>1, <2>1, <2>12, <4>4, <5>2
      <4>5. CASE b \in DOMAIN bl \ {v} /\ c \in DOMAIN bl
        BY <2>2, <2>12, <3>2, <4>5
      <4> QED BY <2>7, <4>1, <4>2, <4>3, <4>4, <4>5
    <3> QED BY <3>1, <3>2 DEF Disjoint
  <2>15. WellFormed(s, brk)
    BY <2>11, <2>13, <2>14 DEF WellFormed
  <2> QED BY <2>3, <2>7, <2>8, <2>9, <2>10, <2>15 DEF s, nb, n, IsSplit
<1> QED BY <1>2, <1>3

\* s is bl after b has absorbed its successor.
IsAbsorbed(bl, s, b) ==
    LET n == bl[b].next IN
    /\ n \in DOMAIN bl /\ n # b
    /\ DOMAIN s = DOMAIN bl \ {n}
    /\ s[b].next = bl[n].next /\ s[b].in_use = bl[b].in_use
    /\ \A x \in DOMAIN bl \ {b, n} :
          /\ s[x].size = bl[x].size /\ s[x].next = bl[x].next
          /\ s[x].in_use = bl[x].in_use

\* A block may absorb its successor: both merges of free are of this form.
LEMMA AbsorbWellFormed ==
    ASSUME NEW bl, NEW brk, WellFormed(bl, brk),
           NEW b \in DOMAIN bl, bl[b].next # NULL
    PROVE  /\ WellFormed(Absorb(bl, b, bl[b].next), brk)
           /\ IsAbsorbed(bl, Absorb(bl, b, bl[b].next), b)
<1> DEFINE n == bl[b].next
           m == bl[n].next
           s == Absorb(bl, b, n)
<1>0. HDR \in Nat /\ HDR > 0
  BY KmallocAssumption
<1>1. \A x \in DOMAIN bl :
         /\ x \in Nat /\ x # NULL /\ heap_base <= x
         /\ bl[x] \in Block
         /\ bl[x].size \in Nat \ {0} /\ bl[x].in_use \in {0, 1}
         /\ bl[x].next \in Nat /\ bl[x].prev \in Nat
         /\ EndOf(bl, x) = x + HDR + bl[x].size /\ EndOf(bl, x) <= brk
         /\ bl[x].next = NULL => EndOf(bl, x) = brk
         /\ bl[x].next # NULL => /\ bl[x].next \in DOMAIN bl
                                 /\ bl[x].next = EndOf(bl, x)
                                 /\ bl[bl[x].next].prev = x
         /\ bl[x].prev = NULL <=> x = heap_base
         /\ bl[x].prev # NULL => /\ bl[x].prev \in DOMAIN bl
                                 /\ bl[bl[x].prev].next = x
  BY BlockFacts
<1>2. \A x, y \in DOMAIN bl : x < y => EndOf(bl, x) <= y
  BY DEF WellFormed, Disjoint
<1>3. /\ n \in DOMAIN bl /\ n # b /\ n # heap_base
      /\ n = EndOf(bl, b) /\ bl[n].prev = b
  BY <1>0, <1>1
<1>4. m # NULL => m \in DOMAIN bl /\ m # n /\ m # b /\ bl[m].prev = n
  BY <1>0, <1>1, <1>3
<1>5. s = [x \in DOMAIN bl \ {n} |->
             IF x = b THEN [bl[b] EXCEPT !.size = @ + bl[n].size + HDR, !.next = m]
             ELSE IF x = m THEN [bl[x] EXCEPT !.prev = b]
             ELSE bl[x]]
  BY DEF Absorb
<1>6. DOMAIN s = DOMAIN bl \ {n}
  BY <1>5
<1>7. m \in Nat /\ bl[b].size + bl[n].size + HDR \in Nat \ {0}
  BY <1>0, <1>1, <1>3
<1>8. n = NULL => FALSE
  BY <1>1, <1>3
<1> HIDE DEF s, n, m
<1>9. /\ s[b].size = bl[b].size + bl[n].size + HDR /\ s[b].next = m
      /\ s[b].in_use = bl[b].in_use /\ s[b].prev = bl[b].prev /\ s[b] \in Block
  <2>1. s[b] = [bl[b] EXCEPT !.size = @ + bl[n].size + HDR, !.next = m]
    BY <1>3, <1>5
  <2>2. bl[b] \in Block
    BY <1>1
  <2>3. s[b] \in Block
    BY <1>7, <2>1, <2>2 DEF Block
  <2> QED BY <2>1, <2>2, <2>3 DEF Block
<1>10. ASSUME NEW x \in DOMAIN bl \ {b, n}
       PROVE  /\ s[x].size = bl[x].size /\ s[x].next = bl[x].next
              /\ s[x].in_use = bl[x].in_use /\ s[x] \in Block
              /\ s[x].prev = IF x = m THEN b ELSE bl[x].prev
  <2>1. s[x] = IF x = m THEN [bl[x] EXCEPT !.prev = b] ELSE bl[x]
    BY <1>5
  <2> QED BY <1>1, <2>1 DEF Block
<1>11. Heaps(s)
  <2>1. s \in [DOMAIN s -> Block]
    BY <1>5, <1>6, <1>9, <1>10
  <2> QED BY <1>3, <1>6, <2>1 DEF WellFormed, Heaps
<1>12. /\ EndOf(s, b) = EndOf(bl, n)
       /\ \A x \in DOMAIN bl \ {b, n} : EndOf(s, x) = EndOf(bl, x)
  BY <1>0, <1>1, <1>3, <1>9, <1>10 DEF EndOf
<1>13. Chained(s, brk)
  <2> SUFFICES ASSUME NEW x \in DOMAIN s
                 PROVE  /\ s[x].next = NULL => EndOf(s, x) = brk
                        /\ s[x].next # NULL => /\ s[x].next \in DOMAIN s
                                               /\ s[x].next = EndOf(s, x)
                                               /\ s[s[x].next].prev = x
                        /\ s[x].prev = NULL <=> x = heap_base
                        /\ s[x].prev # NULL => /\ s[x].prev \in DOMAIN s
                                               /\ s[s[x].prev].next = x
    BY DEF Chained
  <2>1. CASE x = b
    <3>1. m = NULL => EndOf(bl, n) = brk
      BY <1>1, <1>3 DEF m
    <3>2. m # NULL => m = EndOf(bl, n) /\ s[m].prev = b /\ m \in DOMAIN s
      BY <1>1, <1>3, <1>4, <1>6, <1>10 DEF m
    <3>3. bl[b].prev # NULL => /\ bl[b].prev \in DOMAIN bl \ {b, n}
                               /\ s[bl[b].prev].next = b
      BY <1>0, <1>1, <1>3, <1>4, <1>10 DEF m, n
    <3> QED BY <1>1, <1>6, <1>9, <1>12, <2>1, <3>1, <3>2, <3>3
  <2>2. CASE x \in DOMAIN bl \ {b, n}
    <3>1. /\ s[x].next = bl[x].next /\ EndOf(s, x) = EndOf(bl, x)
          /\ s[x].prev = IF x = m THEN b ELSE bl[x].prev
      BY <1>10, <1>12, <2>2
    <3>2. bl[x].next # NULL => /\ bl[x].next \in DOMAIN bl \ {n}
                               /\ bl[x].next # m
                               /\ s[bl[x].next].prev = x
      BY <1>1, <1>3, <1>4, <1>9, <1>10, <2>2
    <3>3. bl[x].prev # NULL /\ x # m => /\ bl[x].prev \in DOMAIN bl \ {b, n}
                                        /\ s[bl[x].prev].next = x
      BY <1>1, <1>3, <1>10, <2>2 DEF n, m
    <3>4. x = m => b \in DOMAIN s /\ s[b].next = x /\ x # heap_base /\ b # NULL
      BY <1>1, <1>3, <1>4, <1>6, <1>9, <2>2
    <3> QED BY <1>1, <1>6, <2>2, <3>1, <3>2, <3>3, <3>4
  <2> QED BY <1>6, <2>1, <2>2
<1>14. Disjoint(s, brk)
  <2>1. ASSUME NEW x \in DOMAIN s
        PROVE  heap_base <= x /\ EndOf(s, x) <= brk
    BY <1>1, <1>3, <1>6, <1>12
  <2>2. ASSUME NEW x \in DOMAIN s, NEW y \in DOMAIN s, x < y
        PROVE  EndOf(s, x) <= y
    <3>1. CASE x = b
      <4>1. n < y
        BY <1>0, <1>1, <1>2, <1>3, <1>6, <2>2, <3>1
      <4> QED BY <1>2, <1>3, <1>6, <1>12, <3>1, <4>1
    <3>2. CASE x # b
      BY <1>2, <1>6, <1>12, <2>2, <3>2
    <3> QED BY <3>1, <3>2
  <2> QED BY <2>1, <2>2 DEF Disjoint
<1>15. WellFormed(s, brk)
  BY <1>11, <1>13, <1>14 DEF WellFormed
<1> QED BY <1>3, <1>6, <1>9, <1>10, <1>15 DEF s, n, m, IsAbsorbed

\* sbrk puts a block behind the last one.
LEMMA AppendWellFormed ==
    ASSUME WellFormed(block, kernel_brk), NEW size \in Nat \ {0},
           NEW last \in DOMAIN block, block[last].next = NULL
    PROVE  LET s == AppendBlock(last, size)
           IN  /\ WellFormed(s, kernel_brk + HDR + size)
               /\ kernel_brk \notin DOMAIN block
               /\ DOMAIN s = DOMAIN block \cup {kernel_brk}
               /\ s[kernel_brk].size = size /\ s[kernel_brk].in_use = 1
               /\ s[kernel_brk].next = NULL /\ s[last].next = kernel_brk
               /\ \A x \in DOMAIN block : /\ s[x].size = block[x].size
                                          /\ s[x].in_use = block[x].in_use
                                          /\ x # last => s[x].next = block[x].next
<1> DEFINE s == AppendBlock(last, size)
           k == kernel_brk
           top == kernel_brk + HDR + size
<1>0. HDR \in Nat /\ HDR > 0
  BY KmallocAssumption
<1>1. \A x \in DOMAIN block :
         /\ x \in Nat /\ x # NULL /\ heap_base <= x
         /\ block[x] \in Block
         /\ block[x].size \in Nat \ {0} /\ block[x].in_use \in {0, 1}
         /\ block[x].next \in Nat /\ block[x].prev \in Nat
         /\ EndOf(block, x) = x + HDR + block[x].size /\ EndOf(block, x) <= kernel_brk
         /\ block[x].next = NULL => EndOf(block, x) = kernel_brk
         /\ block[x].next # NULL => /\ block[x].next \in DOMAIN block
                                 /\ block[x].next = EndOf(block, x)
                                 /\ block[block[x].next].prev = x
         /\ block[x].prev = NULL <=> x = heap_base
         /\ block[x].prev # NULL => /\ block[x].prev \in DOMAIN block
                                 /\ block[block[x].prev].next = x
  BY BlockFacts
<1>2. \A x, y \in DOMAIN block : x < y => EndOf(block, x) <= y
  BY DEF WellFormed, Disjoint
<1>3. k \in Nat /\ heap_base \in DOMAIN block /\ k # NULL
  <2>1. k \in Nat /\ heap_base \in DOMAIN block
    BY DEF WellFormed, Heaps
  <2> QED BY <1>0, <1>1, <2>1 DEF NULL
<1>4. \A x \in DOMAIN block : x < k /\ (x # last => block[x].next # NULL)
  BY <1>0, <1>1, <1>2, <1>3
<1>5. k \notin DOMAIN block
  BY <1>3, <1>4
<1>6. s = [x \in DOMAIN block \cup {k} |->
             IF x = k THEN [size |-> size, in_use |-> 1, next |-> NULL, prev |-> last]
             ELSE IF x = last THEN [block[x] EXCEPT !.next = k]
             ELSE block[x]]
  BY DEF AppendBlock
<1> HIDE DEF s
<1>7. DOMAIN s = DOMAIN block \cup {k}
  BY <1>6
<1>8. /\ s[k].size = size /\ s[k].in_use = 1 /\ s[k].next = NULL
      /\ s[k].prev = last /\ s[k] \in Block
  BY <1>1, <1>6 DEF Block, NULL
<1>9. ASSUME NEW x \in DOMAIN block
      PROVE  /\ s[x].size = block[x].size /\ s[x].in_use = block[x].in_use
             /\ s[x].prev = block[x].prev /\ s[x] \in Block
             /\ s[x].next = IF x = last THEN k ELSE block[x].next
  <2>1. s[x] = IF x = last THEN [block[x] EXCEPT !.next = k] ELSE block[x]
    BY <1>5, <1>6
  <2> QED BY <1>1, <1>3, <2>1 DEF Block
<1>10. Heaps(s)
  <2>1. s \in [DOMAIN s -> Block]
    BY <1>6, <1>7, <1>8, <1>9
  <2> QED BY <1>3, <1>7, <2>1 DEF WellFormed, Heaps
<1>11. EndOf(s, k) = top /\ \A x \in DOMAIN block : EndOf(s, x) = EndOf(block, x)
  BY <1>8, <1>9 DEF EndOf
<1>12. top \in Nat /\ k < top
  BY <1>0, <1>3
<1>13. Chained(s, top)
  <2> SUFFICES ASSUME NEW x \in DOMAIN s
                 PROVE  /\ s[x].next = NULL => EndOf(s, x) = top
                        /\ s[x].next # NULL => /\ s[x].next \in DOMAIN s
                                               /\ s[x].next = EndOf(s, x)
                                               /\ s[s[x].next].prev = x
                        /\ s[x].prev = NULL <=> x = heap_base
                        /\ s[x].prev # NULL => /\ s[x].prev \in DOMAIN s
                                               /\ s[s[x].prev].next = x
    BY DEF Chained
  <2>1. CASE x = k
    BY <1>1, <1>3, <1>5, <1>7, <1>8, <1>9, <1>11, <2>1
  <2>2. CASE x \in DOMAIN block
    <3>1. /\ s[x].next = IF x = last THEN k ELSE block[x].next
          /\ s[x].prev = block[x].prev /\ EndOf(s, x) = EndOf(block, x)
      BY <1>9, <1>11, <2>2
    <3>2. block[x].next # NULL => /\ block[x].next \in DOMAIN block
                                  /\ s[block[x].next].prev = x
      BY <1>1, <1>9, <2>2
    <3>3. block[x].prev # NULL => /\ block[x].prev \in DOMAIN block
                                  /\ s[block[x].prev].next = x
      BY <1>1, <1>3, <1>9, <2>2
    <3>4. x = last => EndOf(block, x) = k /\ s[k].prev = x
      BY <1>1, <1>8
    <3> QED BY <1>1, <1>3, <1>4, <1>7, <2>2, <3>1, <3>2, <3>3, <3>4
  <2> QED BY <1>7, <2>1, <2>2
<1>14. Disjoint(s, top)
  <2>1. ASSUME NEW x \in DOMAIN s
        PROVE  heap_base <= x /\ EndOf(s, x) <= top
    BY <1>0, <1>1, <1>3, <1>7, <1>11, <1>12
  <2>2. ASSUME NEW x \in DOMAIN s, NEW y \in DOMAIN s, x < y
        PROVE  EndOf(s, x) <= y
    BY <1>0, <1>1, <1>2, <1>3, <1>4, <1>7, <1>11, <2>2
  <2> QED BY <2>1, <2>2 DEF Disjoint
<1>15. WellFormed(s, top)
  BY <1>10, <1>12, <1>13, <1>14 DEF WellFormed
<1> QED BY <1>5, <1>7, <1>8, <1>9, <1>15 DEF s

\* Marking a block used or free does not touch the list.
LEMMA MarkWellFormed ==
    ASSUME NEW bl, NEW brk, WellFormed(bl, brk),
           NEW b \in DOMAIN bl, NEW u \in {0, 1}
    PROVE  LET s == [bl EXCEPT ![b].in_use = u]
           IN  /\ WellFormed(s, brk)
               /\ DOMAIN s = DOMAIN bl /\ s[b].in_use = u
               /\ \A x \in DOMAIN bl : /\ s[x].size = bl[x].size
                                       /\ s[x].next = bl[x].next
                                       /\ s[x].prev = bl[x].prev
                                       /\ x # b => s[x].in_use = bl[x].in_use
<1> DEFINE s == [bl EXCEPT ![b].in_use = u]
<1>1. DOMAIN s = DOMAIN bl /\ bl \in [DOMAIN bl -> Block]
  BY DEF WellFormed, Heaps
<1>2. ASSUME NEW x \in DOMAIN bl
      PROVE  /\ s[x] \in Block /\ s[x].size = bl[x].size
             /\ s[x].next = bl[x].next /\ s[x].prev = bl[x].prev
             /\ s[x].in_use = IF x = b THEN u ELSE bl[x].in_use
  <2>1. s[x] = IF x = b THEN [bl[x] EXCEPT !.in_use = u] ELSE bl[x]
    BY <1>1
  <2> QED BY <1>1, <2>1 DEF Block
<1>3. s \in [DOMAIN s -> Block]
  BY <1>1, <1>2
<1> HIDE DEF s
<1>4. Heaps(s)
  BY <1>1, <1>3 DEF WellFormed, Heaps
<1>5. \A x \in DOMAIN bl : EndOf(s, x) = EndOf(bl, x)
  BY <1>2 DEF EndOf
<1>6. Chained(s, brk)
  BY <1>1, <1>2, <1>5 DEF WellFormed, Chained
<1>7. Disjoint(s, brk)
  BY <1>1, <1>5 DEF WellFormed, Disjoint
<1> QED BY <1>1, <1>2, <1>4, <1>6, <1>7 DEF WellFormed, s

(***************************************************************************)
(* The inductive invariant.                                                *)
(***************************************************************************)
IInv == TypeOK /\ HeapTiled /\ NoAdjacentFree /\ NoWaste

\* While the kernel runs the invariant gives a well-formed heap.
LEMMA RunningHeap ==
    ASSUME IInv, status = "running"
    PROVE  WellFormed(block, kernel_brk) /\ kernel_brk < KERNEL_BRK_END
BY DEF IInv, TypeOK, HeapTiled, WellFormed

\* kmalloc from a free block: the invariant is kept, and the block recorded
\* was nobody's.
LEMMA TakeInv ==
    ASSUME IInv, status = "running", NEW size \in Sizes \ {0}, kmalloc_take(size)
    PROVE  /\ IInv' /\ status' = "running"
           /\ \E t \in DOMAIN block' \ DOMAIN asked : Record(t, size)
<1>0. size \in Nat \ {0} /\ HDR \in Nat /\ HDR > 0
  BY KmallocAssumption
<1>1. WellFormed(block, kernel_brk) /\ kernel_brk < KERNEL_BRK_END
  BY RunningHeap
<1>2. PICK t \in DOMAIN block :
         /\ Fits(t, size)
         /\ block' = [split_block(block, size, t) EXCEPT ![t].in_use = 1]
         /\ Record(t, size)
         /\ UNCHANGED <<kernel_brk, status>>
  BY DEF kmalloc_take
<1> DEFINE s  == split_block(block, size, t)
           nb == t + HDR + size
<1>3. block[t].in_use = 0 /\ (block[t].size = size \/ block[t].size >= size + HDR)
  BY <1>2 DEF Fits
<1>4. /\ WellFormed(s, kernel_brk)
      /\ \/ s = block /\ block[t].size - size \in {0, HDR}
         \/ /\ nb \notin DOMAIN block
            /\ DOMAIN s = DOMAIN block \cup {nb}
            /\ s[t].size = size /\ s[t].in_use = block[t].in_use
            /\ s[t].next = nb
            /\ s[nb].in_use = 0 /\ s[nb].next = block[t].next
            /\ \A b \in DOMAIN block \ {t} :
                  /\ s[b].size = block[b].size /\ s[b].next = block[b].next
                  /\ s[b].in_use = block[b].in_use
  <2>1. WellFormed(s, kernel_brk) /\ IsSplit(block, s, t, size)
    BY <1>0, <1>1, <1>3, SplitWellFormed
  <2> QED BY <2>1 DEF IsSplit
<1>5. t \notin DOMAIN asked
  BY <1>3 DEF IInv, NoWaste
<1> HIDE DEF s, nb
<1>6. t \in DOMAIN s
  BY <1>4
<1>7. /\ WellFormed(block', kernel_brk) /\ DOMAIN block' = DOMAIN s
      /\ block'[t].in_use = 1
      /\ \A x \in DOMAIN s : /\ block'[x].size = s[x].size
                             /\ block'[x].next = s[x].next
                             /\ x # t => block'[x].in_use = s[x].in_use
  <2>1. block' = [s EXCEPT ![t].in_use = 1]
    BY <1>2 DEF s
  <2> QED BY <1>4, <1>6, <2>1, MarkWellFormed
<1>8. /\ DOMAIN asked' = DOMAIN asked \cup {t}
      /\ asked' \in [DOMAIN asked' -> Sizes \ {0}]
      /\ asked'[t] = size /\ \A x \in DOMAIN asked : asked'[x] = asked[x]
  BY <1>2, <1>5 DEF Record, IInv, TypeOK
<1>9. DOMAIN block \subseteq DOMAIN block'
  BY <1>4, <1>7
<1>10. TypeOK'
  BY <1>2, <1>7, <1>8, <1>9 DEF IInv, TypeOK, WellFormed
<1>11. HeapTiled'
  BY <1>1, <1>2, <1>7 DEF HeapTiled, WellFormed
<1>12. NoAdjacentFree'
  <2> SUFFICES ASSUME NEW b \in DOMAIN block', block'[b].in_use = 0,
                      block'[b].next # NULL
               PROVE  block'[block'[b].next].in_use = 1
    BY DEF NoAdjacentFree
  <2>1. b # t /\ b \in DOMAIN s
    BY <1>7
  <2>2. \A x \in DOMAIN block : block[x].next # NULL => block[x].next \in DOMAIN block
    BY <1>1, BlockFacts
  <2>3. CASE s = block
    BY <1>7, <2>1, <2>2, <2>3 DEF IInv, NoAdjacentFree
  <2>4. CASE s # block
    <3>1. CASE b = nb
      <4>1. /\ block'[b].next = block[t].next /\ block[t].next # NULL
            /\ block[t].next # t
        BY <1>0, <1>1, <1>4, <1>7, <2>1, <2>4, <3>1, BlockFacts
      <4>2. block[block[t].next].in_use = 1
        BY <1>3, <4>1 DEF IInv, NoAdjacentFree
      <4> QED BY <1>4, <1>7, <2>2, <2>4, <4>1, <4>2
    <3>2. CASE b # nb
      <4>1. b \in DOMAIN block /\ block'[b].next = block[b].next /\ block[b].in_use = 0
        BY <1>4, <1>7, <2>1, <2>4, <3>2
      <4>2. block[block[b].next].in_use = 1
        BY <4>1 DEF IInv, NoAdjacentFree
      <4> QED BY <1>4, <1>7, <2>2, <2>4, <4>1, <4>2
    <3> QED BY <3>1, <3>2
  <2> QED BY <2>3, <2>4
<1>13. NoWaste'
  <2>1. ASSUME NEW b \in DOMAIN block'
        PROVE  block'[b].in_use = 1 <=> b \in DOMAIN asked'
    BY <1>4, <1>7, <1>8 DEF IInv, TypeOK, NoWaste
  <2>2. ASSUME NEW b \in DOMAIN asked'
        PROVE  block'[b].size - asked'[b] \in {0, HDR}
    <3>1. CASE b = t
      BY <1>0, <1>4, <1>7, <1>8, <3>1
    <3>2. CASE b # t
      BY <1>4, <1>7, <1>8, <3>2 DEF IInv, TypeOK, NoWaste
    <3> QED BY <3>1, <3>2
  <2> QED BY <2>1, <2>2 DEF NoWaste
<1> QED BY <1>2, <1>5, <1>9, <1>10, <1>11, <1>12, <1>13 DEF IInv

\* kmalloc from sbrk: the invariant is kept, and either the kernel has stopped
\* or the new block was nobody's.
LEMMA GrowInv ==
    ASSUME IInv, status = "running", NEW size \in Sizes \ {0}, kmalloc_grow(size)
    PROVE  /\ IInv'
           /\ \/ UNCHANGED asked
              \/ /\ status' = "running"
                 /\ \E t \in DOMAIN block' \ DOMAIN asked : Record(t, size)
<1>0. size \in Nat \ {0} /\ HDR \in Nat /\ HDR > 0
  BY KmallocAssumption
<1>1. WellFormed(block, kernel_brk) /\ kernel_brk < KERNEL_BRK_END
  BY RunningHeap
<1>2. kernel_brk' = kernel_brk + HDR + size /\ kernel_brk' \in Nat
  BY <1>0 DEF kmalloc_grow, IInv, TypeOK
<1>3. CASE status' = "heap_exhausted" /\ UNCHANGED <<block, asked>>
  BY <1>2, <1>3 DEF IInv, TypeOK, HeapTiled, NoAdjacentFree, NoWaste
<1>4. ASSUME kernel_brk' < KERNEL_BRK_END,
             NEW last \in DOMAIN block, block[last].next = NULL,
             block' = AppendBlock(last, size),
             Record(kernel_brk, size), UNCHANGED status
      PROVE  IInv' /\ \E t \in DOMAIN block' \ DOMAIN asked : Record(t, size)
  <2> DEFINE k == kernel_brk
  <2>1. /\ WellFormed(block', kernel_brk') /\ k \notin DOMAIN block
        /\ DOMAIN block' = DOMAIN block \cup {k}
        /\ block'[k].size = size /\ block'[k].in_use = 1
        /\ block'[k].next = NULL /\ block'[last].next = k
        /\ \A x \in DOMAIN block : /\ block'[x].size = block[x].size
                                   /\ block'[x].in_use = block[x].in_use
                                   /\ x # last => block'[x].next = block[x].next
    <3> DEFINE s == AppendBlock(last, size)
    <3>1. /\ WellFormed(s, k + HDR + size) /\ k \notin DOMAIN block
          /\ DOMAIN s = DOMAIN block \cup {k}
          /\ s[k].size = size /\ s[k].in_use = 1
          /\ s[k].next = NULL /\ s[last].next = k
          /\ \A x \in DOMAIN block : /\ s[x].size = block[x].size
                                     /\ s[x].in_use = block[x].in_use
                                     /\ x # last => s[x].next = block[x].next
      BY <1>0, <1>1, <1>4, AppendWellFormed, Zenon
    <3> HIDE DEF s
    <3>2. block' = s /\ kernel_brk' = k + HDR + size
      BY <1>2, <1>4 DEF s
    <3> QED BY <3>1, <3>2
  <2>2. /\ DOMAIN asked' = DOMAIN asked \cup {k}
        /\ asked' \in [DOMAIN asked' -> Sizes \ {0}]
        /\ asked'[k] = size /\ \A x \in DOMAIN asked : x # k => asked'[x] = asked[x]
    BY <1>4 DEF Record, IInv, TypeOK
  <2>3. k \notin DOMAIN asked
    BY <2>1 DEF IInv, TypeOK
  <2>4. TypeOK'
    BY <1>2, <1>4, <2>1, <2>2 DEF IInv, TypeOK, WellFormed
  <2>5. HeapTiled'
    BY <1>4, <2>1 DEF HeapTiled, WellFormed
  <2>6. NoAdjacentFree'
    <3> SUFFICES ASSUME NEW b \in DOMAIN block', block'[b].in_use = 0,
                        block'[b].next # NULL
                 PROVE  block'[block'[b].next].in_use = 1
      BY DEF NoAdjacentFree
    <3>1. CASE b = last
      BY <2>1, <3>1
    <3>2. CASE b # last
      <4>1. b \in DOMAIN block /\ block[b].next \in DOMAIN block
        BY <1>1, <2>1, <3>2, BlockFacts
      <4> QED BY <2>1, <3>2, <4>1 DEF IInv, NoAdjacentFree
    <3> QED BY <3>1, <3>2
  <2>7. NoWaste'
    <3>1. ASSUME NEW b \in DOMAIN block'
          PROVE  block'[b].in_use = 1 <=> b \in DOMAIN asked'
      BY <2>1, <2>2, <2>3 DEF IInv, TypeOK, NoWaste
    <3>2. ASSUME NEW b \in DOMAIN asked'
          PROVE  block'[b].size - asked'[b] \in {0, HDR}
      <4>1. CASE b = k
        BY <1>0, <2>1, <2>2, <4>1
      <4>2. CASE b # k
        BY <2>1, <2>2, <2>3, <4>2 DEF IInv, TypeOK, NoWaste
      <4> QED BY <4>1, <4>2
    <3> QED BY <3>1, <3>2 DEF NoWaste
  <2> QED BY <1>4, <2>1, <2>3, <2>4, <2>5, <2>6, <2>7 DEF IInv
<1> QED BY <1>3, <1>4 DEF kmalloc_grow

\* After a free, s is what is left of the heap: the freed block and perhaps
\* its neighbours have become free space at a, all else is as it was.
IsFreed(bl, s, b, a) ==
    /\ a \in DOMAIN s /\ s[a].in_use = 0
    /\ DOMAIN s \subseteq DOMAIN bl
    /\ \A x \in DOMAIN bl : bl[x].in_use = 1 /\ x # b =>
          x \in DOMAIN s /\ s[x].in_use = 1 /\ s[x].size = bl[x].size
    /\ \A x \in DOMAIN s : s[x].in_use = 1 => bl[x].in_use = 1 /\ x # b

\* No free block other than a has a free successor.
FreeOnlyAt(s, a) ==
    \A x \in DOMAIN s :
       x # a /\ s[x].in_use = 0 /\ s[x].next # NULL => s[s[x].next].in_use = 1

\* The merge with the block in front: only the freed space may still have a
\* free successor.
LEMMA BackOK ==
    ASSUME IInv, status = "running", NEW b \in DOMAIN asked
    PROVE  LET back == CoalesceBack([block EXCEPT ![b].in_use = 0], b)
           IN  /\ WellFormed(back.heap, kernel_brk)
               /\ IsFreed(block, back.heap, b, back.at)
               /\ FreeOnlyAt(back.heap, back.at)
<1> DEFINE f == [block EXCEPT ![b].in_use = 0]
           p == block[b].prev
<1>0. b \in DOMAIN block /\ block[b].in_use = 1
  BY DEF IInv, TypeOK, NoWaste
<1>1. WellFormed(block, kernel_brk)
  BY RunningHeap
<1>2. \A x \in DOMAIN block :
         /\ block[x].in_use \in {0, 1} /\ x # NULL
         /\ block[x].next # NULL => /\ block[x].next \in DOMAIN block
                                    /\ block[block[x].next].prev = x
         /\ block[x].prev # NULL => /\ block[x].prev \in DOMAIN block
                                    /\ block[block[x].prev].next = x
  BY <1>1, BlockFacts
<1>3. /\ WellFormed(f, kernel_brk) /\ DOMAIN f = DOMAIN block
      /\ f[b].in_use = 0
      /\ \A x \in DOMAIN block : /\ f[x].size = block[x].size
                                 /\ f[x].next = block[x].next
                                 /\ f[x].prev = block[x].prev
                                 /\ x # b => f[x].in_use = block[x].in_use
  BY <1>0, <1>1, MarkWellFormed
<1>4. \A x \in DOMAIN block : block[x].in_use = 0 /\ block[x].next # NULL =>
                                 block[block[x].next].in_use = 1
  BY DEF IInv, NoAdjacentFree
<1> HIDE DEF f
<1>5. CASE ~IsFree(f, f[b].prev)
  <2>1. CoalesceBack(f, b) = [heap |-> f, at |-> b]
    BY <1>5 DEF CoalesceBack
  <2>2. IsFreed(block, f, b, b)
    BY <1>0, <1>2, <1>3 DEF IsFreed
  <2>3. FreeOnlyAt(f, b)
    <3> SUFFICES ASSUME NEW x \in DOMAIN f, x # b, f[x].in_use = 0, f[x].next # NULL
                 PROVE  f[f[x].next].in_use = 1
      BY DEF FreeOnlyAt
    <3>1. x \in DOMAIN block /\ block[x].in_use = 0 /\ f[x].next = block[x].next
      BY <1>3
    <3>2. f[x].next # b
      BY <1>0, <1>2, <1>3, <1>5, <3>1 DEF IsFree
    <3> QED BY <1>2, <1>3, <1>4, <3>1, <3>2
  <2>4. CoalesceBack(f, b).heap = f /\ CoalesceBack(f, b).at = b
    BY <2>1
  <2> QED BY <1>3, <2>2, <2>3, <2>4 DEF f
<1>6. CASE IsFree(f, f[b].prev)
  <2>1. /\ p # NULL /\ f[b].prev = p /\ f[p].in_use = 0
        /\ p \in DOMAIN f /\ f[p].next = b /\ b # NULL
    BY <1>0, <1>2, <1>3, <1>6 DEF IsFree
  <2> DEFINE s == Absorb(f, p, b)
  <2>2. CoalesceBack(f, b) = [heap |-> s, at |-> p]
    BY <1>6, <2>1 DEF CoalesceBack
  <2>3. /\ WellFormed(s, kernel_brk) /\ b # p
        /\ DOMAIN s = DOMAIN f \ {b}
        /\ s[p].in_use = f[p].in_use
        /\ \A x \in DOMAIN f \ {p, b} :
              /\ s[x].size = f[x].size /\ s[x].next = f[x].next
              /\ s[x].in_use = f[x].in_use
    <3>1. /\ WellFormed(Absorb(f, p, f[p].next), kernel_brk)
          /\ IsAbsorbed(f, Absorb(f, p, f[p].next), p)
      BY <1>3, <2>1, AbsorbWellFormed
    <3>2. WellFormed(s, kernel_brk) /\ IsAbsorbed(f, s, p)
      BY <2>1, <3>1
    <3> HIDE DEF s
    <3> QED BY <2>1, <3>2 DEF IsAbsorbed
  <2> HIDE DEF s
  <2>4. IsFreed(block, s, b, p)
    BY <1>0, <1>2, <1>3, <2>1, <2>3 DEF IsFreed
  <2>5. FreeOnlyAt(s, p)
    <3> SUFFICES ASSUME NEW x \in DOMAIN s, x # p, s[x].in_use = 0, s[x].next # NULL
                 PROVE  s[s[x].next].in_use = 1
      BY DEF FreeOnlyAt
    <3>1. /\ x \in DOMAIN block /\ x # b /\ block[x].in_use = 0
          /\ s[x].next = block[x].next
      BY <1>3, <2>3
    <3>2. /\ block[x].next \in DOMAIN block /\ block[x].next # b
          /\ block[block[x].next].in_use = 1
      BY <1>2, <1>4, <3>1
    <3>3. block[x].next # p
      BY <1>3, <2>1, <2>3, <3>2
    <3> QED BY <1>3, <2>3, <3>1, <3>2, <3>3
  <2>6. CoalesceBack(f, b).heap = s /\ CoalesceBack(f, b).at = p
    BY <2>2
  <2> QED BY <2>3, <2>4, <2>5, <2>6 DEF f
<1> QED BY <1>5, <1>6

\* free keeps the invariant and removes the one allocation.
LEMMA FreeInv ==
    ASSUME IInv, status = "running", NEW b \in DOMAIN asked, free(b)
    PROVE  IInv' /\ asked' = [x \in DOMAIN asked \ {b} |-> asked[x]]
<1> DEFINE back == CoalesceBack([block EXCEPT ![b].in_use = 0], b)
           h == back.heap
           a == back.at
           n == h[a].next
<1>0. /\ block' = CoalesceForward(h, a)
      /\ asked' = [x \in DOMAIN asked \ {b} |-> asked[x]]
      /\ UNCHANGED <<kernel_brk, status>>
  BY DEF free
<1>1. WellFormed(h, kernel_brk) /\ IsFreed(block, h, b, a) /\ FreeOnlyAt(h, a)
  BY BackOK
<1> HIDE DEF h, a, back
<1>2. \A x \in DOMAIN h :
         /\ x # NULL /\ h[x].in_use \in {0, 1} /\ h[x].next # x
         /\ h[x].next # NULL => /\ h[x].next \in DOMAIN h
                                /\ h[h[x].next].prev = x
  <2> SUFFICES ASSUME NEW x \in DOMAIN h
               PROVE  /\ x # NULL /\ h[x].in_use \in {0, 1} /\ h[x].next # x
                      /\ h[x].next # NULL => /\ h[x].next \in DOMAIN h
                                             /\ h[h[x].next].prev = x
    OBVIOUS
  <2>1. HDR \in Nat
    BY KmallocAssumption
  <2> QED BY <1>1, <2>1, BlockFacts
<1>3. /\ WellFormed(block', kernel_brk) /\ IsFreed(block, block', b, a)
      /\ \A x \in DOMAIN block' :
            block'[x].in_use = 0 /\ block'[x].next # NULL =>
               block'[block'[x].next].in_use = 1
  <2>1. CASE ~IsFree(h, n)
    <3>1. block' = h
      BY <1>0, <2>1 DEF CoalesceForward
    <3>2. \A x \in DOMAIN h : h[x].in_use = 0 /\ h[x].next # NULL =>
                                 h[h[x].next].in_use = 1
      BY <1>1, <1>2, <2>1 DEF IsFree, FreeOnlyAt, IsFreed
    <3> QED BY <1>1, <3>1, <3>2
  <2>2. CASE IsFree(h, n)
    <3> DEFINE s == Absorb(h, a, n)
    <3>1. block' = s
      BY <1>0, <2>2 DEF CoalesceForward
    <3>2. n # NULL /\ h[n].in_use = 0 /\ a \in DOMAIN h /\ h[a].in_use = 0
      BY <1>1, <2>2 DEF IsFree, IsFreed
    <3>3. /\ WellFormed(s, kernel_brk) /\ n \in DOMAIN h /\ n # a
          /\ DOMAIN s = DOMAIN h \ {n}
          /\ s[a].next = h[n].next /\ s[a].in_use = h[a].in_use
          /\ \A x \in DOMAIN h \ {a, n} :
                /\ s[x].size = h[x].size /\ s[x].next = h[x].next
                /\ s[x].in_use = h[x].in_use
      <4>1. WellFormed(s, kernel_brk) /\ IsAbsorbed(h, s, a)
        BY <1>1, <3>2, AbsorbWellFormed
      <4> HIDE DEF s
      <4> QED BY <4>1 DEF IsAbsorbed
    <3> HIDE DEF s, n
    <3>4. IsFreed(block, s, b, a)
      BY <1>1, <3>2, <3>3 DEF IsFreed
    <3>5. ASSUME NEW x \in DOMAIN s, s[x].in_use = 0, s[x].next # NULL
          PROVE  s[s[x].next].in_use = 1
      <4>1. CASE x = a
        <5>1. /\ h[n].next \in DOMAIN h /\ h[n].next # n
              /\ h[h[n].next].in_use = 1
          BY <1>1, <1>2, <3>2, <3>3, <3>5, <4>1 DEF FreeOnlyAt
        <5> QED BY <3>2, <3>3, <4>1, <5>1
      <4>2. CASE x # a
        <5>1. /\ x \in DOMAIN h \ {a, n} /\ s[x].next = h[x].next
              /\ h[x].next \in DOMAIN h /\ h[h[x].next].in_use = 1
          BY <1>1, <1>2, <3>3, <3>5, <4>2 DEF FreeOnlyAt
        <5> QED BY <3>2, <3>3, <5>1
      <4> QED BY <4>1, <4>2
    <3> QED BY <3>1, <3>3, <3>4, <3>5
  <2> QED BY <2>1, <2>2
<1>4. DOMAIN asked' = DOMAIN asked \ {b} /\ \A x \in DOMAIN asked' : asked'[x] = asked[x]
  BY <1>0
<1>5. \A x \in DOMAIN block : block[x].in_use = 1 <=> x \in DOMAIN asked
  BY DEF IInv, NoWaste
<1>6. TypeOK'
  <2>1. asked' \in [DOMAIN asked' -> Sizes \ {0}] /\ kernel_brk' \in Nat
    BY <1>0, <1>4 DEF IInv, TypeOK
  <2>2. DOMAIN asked' \subseteq DOMAIN block'
    BY <1>3, <1>4, <1>5 DEF IInv, TypeOK, IsFreed
  <2> QED BY <1>0, <1>3, <2>1, <2>2 DEF IInv, TypeOK, WellFormed
<1>7. HeapTiled'
  BY <1>0, <1>3, RunningHeap DEF HeapTiled, WellFormed
<1>8. NoAdjacentFree'
  BY <1>3 DEF NoAdjacentFree
<1>9. NoWaste'
  <2>1. ASSUME NEW x \in DOMAIN block'
        PROVE  block'[x].in_use = 1 <=> x \in DOMAIN asked'
    BY <1>3, <1>4, <1>5 DEF IsFreed
  <2>2. ASSUME NEW x \in DOMAIN asked'
        PROVE  block'[x].size - asked'[x] \in {0, HDR}
    <3>1. block'[x].size = block[x].size /\ asked'[x] = asked[x] /\ x \in DOMAIN asked
      BY <1>3, <1>4, <1>5 DEF IsFreed, IInv, TypeOK
    <3> QED BY <3>1 DEF IInv, NoWaste
  <2> QED BY <2>1, <2>2 DEF NoWaste
<1> QED BY <1>0, <1>6, <1>7, <1>8, <1>9 DEF IInv

\* kmalloc_init sets up one free block between the heap's start and the break.
LEMMA InitInv == Init => IInv
<1> SUFFICES ASSUME Init PROVE IInv
  OBVIOUS
<1>0. /\ HDR \in Nat \ {0} /\ KERNEL_BRK_START \in Nat \ {0}
      /\ INIT_HEAP_SIZE \in Nat /\ HDR < INIT_HEAP_SIZE /\ KERNEL_BRK_END \in Nat
      /\ KERNEL_BRK_START + INIT_HEAP_SIZE < KERNEL_BRK_END
  BY KmallocAssumption
<1>1. /\ DOMAIN block = {heap_base} /\ heap_base = KERNEL_BRK_START
      /\ kernel_brk = KERNEL_BRK_START + INIT_HEAP_SIZE
      /\ DOMAIN asked = {} /\ status = "running"
  BY DEF Init, heap_base
<1>2. /\ block[heap_base] \in Block
      /\ block[heap_base].size = INIT_HEAP_SIZE - HDR
      /\ block[heap_base].in_use = 0
      /\ block[heap_base].next = NULL /\ block[heap_base].prev = NULL
  BY <1>0 DEF Init, Block, NULL
<1>3. EndOf(block, heap_base) = kernel_brk /\ kernel_brk \in Nat
  BY <1>0, <1>1, <1>2 DEF EndOf
<1>4. TypeOK
  <2>1. Heaps(block)
    <3>1. block \in [DOMAIN block -> Block]
      BY <1>1, <1>2 DEF Init
    <3> QED BY <1>0, <1>1, <3>1 DEF Heaps, NULL
  <2>2. asked \in [DOMAIN asked -> Sizes \ {0}]
    BY <1>1 DEF Init
  <2> QED BY <1>1, <1>3, <2>1, <2>2 DEF TypeOK
<1>5. HeapTiled
  <2>1. Chained(block, kernel_brk)
    BY <1>1, <1>2, <1>3 DEF Chained
  <2>2. Disjoint(block, kernel_brk)
    BY <1>0, <1>1, <1>3 DEF Disjoint
  <2> QED BY <1>0, <1>1, <2>1, <2>2 DEF HeapTiled
<1>6. NoAdjacentFree /\ NoWaste
  BY <1>1, <1>2 DEF NoAdjacentFree, NoWaste
<1> QED BY <1>4, <1>5, <1>6 DEF IInv

\* Every call of kmalloc and free keeps the heap well formed, whatever the
\* request and whichever allocation is freed.
LEMMA NextInv == IInv /\ [Next]_vars => IInv'
<1> SUFFICES ASSUME IInv, [Next]_vars PROVE IInv'
  OBVIOUS
<1>1. CASE UNCHANGED vars
  BY <1>1 DEF vars, IInv, TypeOK, HeapTiled, NoAdjacentFree, NoWaste
<1>2. ASSUME status = "running", NEW size \in Sizes, kmalloc(size)
      PROVE  IInv'
  <2>1. CASE size = 0 /\ status' = "size_zero" /\ UNCHANGED <<block, kernel_brk, asked>>
    BY <2>1 DEF IInv, TypeOK, HeapTiled, NoAdjacentFree, NoWaste
  <2>2. CASE size # 0 /\ kmalloc_take(size)
    BY <1>2, <2>2, TakeInv
  <2>3. CASE size # 0 /\ kmalloc_grow(size)
    BY <1>2, <2>3, GrowInv
  <2> QED BY <1>2, <2>1, <2>2, <2>3 DEF kmalloc
<1>3. ASSUME status = "running", NEW b \in DOMAIN asked, free(b)
      PROVE  IInv'
  BY <1>3, FreeInv
<1> QED BY <1>1, <1>2, <1>3 DEF Next

\* The inductive invariant holds in every reachable state.
LEMMA Invariance == Spec => []IInv
BY InitInv, NextInv, PTL DEF Spec

(***************************************************************************)
(* What follows.                                                           *)
(***************************************************************************)
\* Every variable keeps its type and no block is ever empty, for every header
\* size, heap size and set of request sizes.
THEOREM TypeCorrect == Spec => []TypeOK
<1>1. IInv => TypeOK
  BY DEF IInv
<1> QED BY <1>1, Invariance, PTL

\* While the kernel runs the blocks tile the heap and the list runs through
\* them in address order: no sequence of split_block, sbrk and the two merges
\* of free makes blocks overlap, leaves a gap or breaks a link.
THEOREM TilingCorrect == Spec => []HeapTiled
<1>1. IInv => HeapTiled
  BY DEF IInv
<1> QED BY <1>1, Invariance, PTL

\* free never leaves two free blocks side by side.
THEOREM CoalescingCorrect == Spec => []NoAdjacentFree
<1>1. IInv => NoAdjacentFree
  BY DEF IInv
<1> QED BY <1>1, Invariance, PTL

\* A block is in use exactly while a caller owns it, and is at most one header
\* larger than what the caller asked for.
THEOREM WasteCorrect == Spec => []NoWaste
<1>1. IInv => NoWaste
  BY DEF IInv
<1> QED BY <1>1, Invariance, PTL

\* Once every allocation is freed the heap is one block again, whatever the
\* order of the calls.
THEOREM FragmentationCorrect == Spec => []NoFragmentsLeft
<1>1. IInv => NoFragmentsLeft
  <2> SUFFICES ASSUME IInv, status = "running", DOMAIN asked = {}
               PROVE  DOMAIN block = {heap_base}
    BY DEF NoFragmentsLeft
  <2>0. HDR \in Nat
    BY KmallocAssumption
  <2>1. WellFormed(block, kernel_brk) /\ heap_base \in DOMAIN block
    BY RunningHeap DEF WellFormed, Heaps
  <2>2. \A b \in DOMAIN block : block[b].in_use # 1
    BY DEF IInv, NoWaste
  <2>3. block[heap_base].in_use = 0
    BY <2>1, <2>2, BlockFacts
  <2>4. block[heap_base].next = NULL
    BY <2>1, <2>2, <2>3, BlockFacts DEF IInv, NoAdjacentFree
  <2>5. EndOf(block, heap_base) = kernel_brk
    BY <2>1, <2>4, BlockFacts
  <2>6. ASSUME NEW b \in DOMAIN block, b # heap_base
        PROVE  FALSE
    <3>1. /\ b \in Nat /\ heap_base \in Nat /\ kernel_brk \in Nat /\ heap_base <= b
          /\ block[b].size \in Nat \ {0}
          /\ b + HDR + block[b].size <= kernel_brk
      BY <2>1, BlockFacts DEF WellFormed
    <3>2. EndOf(block, heap_base) <= b
      BY <2>1, <2>6, <3>1 DEF WellFormed, Disjoint
    <3> QED BY <2>0, <2>5, <3>1, <3>2
  <2> QED BY <2>1, <2>6
<1> QED BY <1>1, Invariance, PTL

Live == [p \in {b + HDR : b \in DOMAIN asked} |-> asked[p - HDR]]

\* A recorded allocation is a step of the abstract heap: the bytes behind the
\* new header lie inside the heap and apart from every other allocation.
LEMMA AllocRefined ==
    ASSUME IInv, IInv', status' = "running", NEW size \in Sizes \ {0},
           NEW t \in DOMAIN block' \ DOMAIN asked, Record(t, size)
    PROVE  Abstract!Alloc(size)
<1> DEFINE p == t + HDR
<1>0. /\ HDR \in Nat /\ KERNEL_BRK_START \in Nat /\ KERNEL_BRK_END \in Nat
      /\ size \in Nat /\ size > 0
  BY KmallocAssumption
<1>1. WellFormed(block', kernel_brk') /\ kernel_brk' < KERNEL_BRK_END
  BY DEF IInv, TypeOK, HeapTiled, WellFormed
<1>2. /\ DOMAIN asked' = DOMAIN asked \cup {t} /\ asked'[t] = size
      /\ \A c \in DOMAIN asked : asked'[c] = asked[c]
  BY DEF Record
<1>3. ASSUME NEW c \in DOMAIN asked'
      PROVE  /\ c \in DOMAIN block' /\ c \in Nat /\ asked'[c] \in Nat
             /\ EndOf(block', c) \in Nat /\ c + HDR + asked'[c] <= EndOf(block', c)
  <2>1. /\ c \in DOMAIN block' /\ block'[c].size - asked'[c] \in {0, HDR}
        /\ asked'[c] \in Sizes
    BY DEF IInv, TypeOK, NoWaste
  <2>2. asked'[c] \in Nat
    BY <2>1, KmallocAssumption
  <2>3. /\ c \in Nat /\ block'[c].size \in Nat
        /\ EndOf(block', c) = c + HDR + block'[c].size
    BY <1>1, <2>1, BlockFacts
  <2> QED BY <1>0, <2>1, <2>2, <2>3
<1>4. t \in DOMAIN block' /\ t \in Nat /\ heap_base <= t
      /\ EndOf(block', t) <= kernel_brk' /\ kernel_brk' \in Nat
  BY <1>1, BlockFacts DEF WellFormed
<1>5. p \in KERNEL_BRK_START .. KERNEL_BRK_END /\ p + size <= KERNEL_BRK_END
  BY <1>0, <1>1, <1>2, <1>3, <1>4 DEF heap_base
<1>6. DOMAIN Live = {b + HDR : b \in DOMAIN asked}
  BY DEF Live
<1>7. \A q \in DOMAIN Live : Abstract!Apart(p, size, q, Live[q])
  <2> SUFFICES ASSUME NEW c \in DOMAIN asked
               PROVE  Abstract!Apart(p, size, c + HDR, Live[c + HDR])
    BY <1>6
  <2>1. /\ c \in DOMAIN asked' /\ c # t /\ c \in Nat
        /\ c \in DOMAIN block' /\ EndOf(block', c) \in Nat
        /\ c + HDR + asked[c] <= EndOf(block', c) /\ asked[c] \in Nat
    BY <1>2, <1>3
  <2>2. Live[c + HDR] = asked[c]
    <3>1. (c + HDR) - HDR = c
      BY <1>0, <2>1
    <3> QED BY <3>1 DEF Live
  <2>3. c < t => EndOf(block', c) <= t
    BY <1>1, <1>4, <2>1 DEF WellFormed, Disjoint
  <2>4. t < c => EndOf(block', t) <= c
    BY <1>1, <1>4, <2>1 DEF WellFormed, Disjoint
  <2>5. t + HDR + size <= EndOf(block', t) /\ EndOf(block', t) \in Nat
    BY <1>2, <1>3
  <2> QED BY <1>0, <1>4, <2>1, <2>2, <2>3, <2>4, <2>5 DEF Abstract!Apart
<1>8. Live' = [q \in DOMAIN Live \cup {p} |-> IF q = p THEN size ELSE Live[q]]
  <2>1. Live' = [q \in {b + HDR : b \in DOMAIN asked'} |-> asked'[q - HDR]]
    BY DEF Live
  <2>2. {b + HDR : b \in DOMAIN asked'} = DOMAIN Live \cup {p}
    BY <1>2, <1>6
  <2>3. ASSUME NEW q \in {b + HDR : b \in DOMAIN asked'}
        PROVE  asked'[q - HDR] = IF q = p THEN size ELSE Live[q]
    <3>1. PICK c \in DOMAIN asked' : q = c + HDR
      OBVIOUS
    <3>2. c \in Nat /\ q - HDR = c
      BY <1>0, <1>3, <3>1
    <3>3. q = p <=> c = t
      BY <1>0, <1>4, <3>1, <3>2
    <3>4. c # t => Live[q] = asked[c]
      BY <1>2, <3>1, <3>2 DEF Live
    <3> QED BY <1>2, <3>2, <3>3, <3>4
  <2> QED BY <2>1, <2>2, <2>3
<1> QED BY <1>0, <1>5, <1>7, <1>8 DEF Abstract!Alloc, Live

\* free is a step of the abstract heap: the allocation, and no other, is gone.
LEMMA FreeRefined ==
    ASSUME IInv, NEW b \in DOMAIN asked,
           asked' = [x \in DOMAIN asked \ {b} |-> asked[x]]
    PROVE  \E p \in DOMAIN Live : Abstract!Free(p)
<1> DEFINE p == b + HDR
<1>0. HDR \in Nat /\ \A c \in DOMAIN asked : c \in Nat
  BY KmallocAssumption DEF IInv, TypeOK, Heaps
<1>1. DOMAIN Live = {c + HDR : c \in DOMAIN asked}
  BY DEF Live
<1>2. DOMAIN asked' = DOMAIN asked \ {b}
  OBVIOUS
<1>3. Live' = [q \in DOMAIN Live \ {p} |-> Live[q]]
  <2>1. Live' = [q \in {c + HDR : c \in DOMAIN asked'} |-> asked'[q - HDR]]
    BY DEF Live
  <2>2. {c + HDR : c \in DOMAIN asked'} = DOMAIN Live \ {p}
    BY <1>0, <1>1, <1>2
  <2>3. ASSUME NEW q \in {c + HDR : c \in DOMAIN asked'}
        PROVE  asked'[q - HDR] = Live[q]
    <3>1. PICK c \in DOMAIN asked' : q = c + HDR
      OBVIOUS
    <3>2. q - HDR = c
      BY <1>0, <1>2, <3>1
    <3> QED BY <1>2, <3>1, <3>2 DEF Live
  <2> QED BY <2>1, <2>2, <2>3
<1>4. p \in DOMAIN Live
  BY <1>1
<1> QED BY <1>3, <1>4 DEF Abstract!Free, Live

\* kmalloc and free implement the heap as its callers see it: allocations
\* never overlap, never leave the heap and have the bytes that were asked for.
THEOREM HeapRefined == Spec => ImplementsHeap
<1>1. Init => Abstract!Init
  BY DEF Init, Abstract!Init
<1>2. IInv /\ IInv' /\ [Next]_vars => [Abstract!Next]_Live
  <2> SUFFICES ASSUME IInv, IInv', [Next]_vars
               PROVE  Abstract!Next \/ Live' = Live
    OBVIOUS
  <2>0. asked' = asked => Live' = Live
    BY DEF Live
  <2>1. ASSUME NEW size \in Sizes \ {0}, status' = "running",
               \E t \in DOMAIN block' \ DOMAIN asked : Record(t, size)
        PROVE  Abstract!Next
    BY <2>1, AllocRefined DEF Abstract!Next
  <2>2. CASE UNCHANGED vars
    BY <2>0, <2>2 DEF vars
  <2>3. ASSUME status = "running", NEW size \in Sizes, kmalloc(size)
        PROVE  Abstract!Next \/ Live' = Live
    <3>1. CASE size = 0 /\ UNCHANGED asked
      BY <2>0, <3>1
    <3>2. CASE size # 0 /\ kmalloc_take(size)
      BY <2>1, <2>3, <3>2, TakeInv
    <3>3. CASE size # 0 /\ kmalloc_grow(size)
      BY <2>0, <2>1, <2>3, <3>3, GrowInv
    <3> QED BY <2>3, <3>1, <3>2, <3>3 DEF kmalloc
  <2>4. ASSUME status = "running", NEW b \in DOMAIN asked, free(b)
        PROVE  Abstract!Next
    <3>1. \E p \in DOMAIN Live : Abstract!Free(p)
      BY <2>4, FreeInv, FreeRefined
    <3> QED BY <3>1 DEF Abstract!Next, Live
  <2> QED BY <2>2, <2>3, <2>4 DEF Next
<1> QED BY <1>1, <1>2, Invariance, PTL DEF Spec, ImplementsHeap, Abstract!Spec, Live
=============================================================================
