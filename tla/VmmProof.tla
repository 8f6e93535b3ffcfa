------------------------------ MODULE VmmProof ------------------------------
(***************************************************************************)
(* Proofs about Vmm, for any depth and width of the page tables, any       *)
(* number of frames and tasks, any kernel areas and any programs.          *)
(***************************************************************************)
EXTENDS Vmm, FiniteSetTheorems, WellFoundedInduction, TLAPS

(***************************************************************************)
(* Arithmetic and induction.                                               *)
(***************************************************************************)
\* A nonempty set of naturals has a least element.
LEMMA LeastIn ==
    ASSUME NEW T \in SUBSET Nat, T # {}
    PROVE  Min(T) \in T /\ \A y \in T : Min(T) <= y
<1> DEFINE R == {ss \in Nat \X Nat : ss[1] < ss[2]}
<1>1. IsWellFoundedOn(R, Nat)
  BY NatLessThanWellFounded DEF OpToRel
<1>2. \A x, y \in Nat : x < y => <<x, y>> \in R
  OBVIOUS
<1> HIDE DEF R
<1>3. PICK x \in T : \A y \in T : ~ (<<y, x>> \in R)
  BY <1>1, WFMin
<1>4. \A y \in T : x <= y
  <2> TAKE y \in T
  <2>1. x \in Nat /\ y \in Nat /\ ~ (y < x)
    BY <1>2, <1>3
  <2> QED BY <2>1
<1> QED BY <1>4 DEF Min

\* Induction up to n, over a set in place of a predicate.
LEMMA Upto ==
    ASSUME NEW n \in Nat, NEW P, 0 \in P, \A i \in 1 .. n : i - 1 \in P => i \in P
    PROVE  \A i \in 0 .. n : i \in P
<1> DEFINE T == {i \in 0 .. n : i \notin P}
<1>1. SUFFICES ASSUME T # {} PROVE FALSE
  OBVIOUS
<1>2. PICK i \in T : \A y \in T : i <= y
  <2>1. T \in SUBSET Nat
    OBVIOUS
  <2> QED BY <1>1, <2>1, LeastIn
<1>3. i # 0 /\ i \in 1 .. n /\ i - 1 \notin T /\ i - 1 \in 0 .. n
  BY <1>2
<1> QED BY <1>2, <1>3

\* Quotient and remainder of natural numbers
LEMMA DivMod ==
    ASSUME NEW a \in Nat, NEW b \in Nat \ {0}
    PROVE  a \div b \in Nat /\ a % b \in 0 .. b - 1 /\ a % b = a - b * (a \div b)
<1>1. a \div b \in Nat /\ a % b \in 0 .. b - 1
  OBVIOUS
<1>2. a % b = a - b * (a \div b)
  OBVIOUS
<1> QED BY <1>1, <1>2

\* They are determined by the number.
LEMMA DivIs ==
    ASSUME NEW a \in Nat, NEW b \in Nat \ {0}, NEW q \in Nat, NEW r \in 0 .. b - 1, a = b * q + r
    PROVE  a \div b = q /\ a % b = r
OBVIOUS

\* A number below b * c has a quotient below c.
LEMMA DivBelow ==
    ASSUME NEW a \in Nat, NEW b \in Nat \ {0}, NEW c \in Nat, a < b * c
    PROVE  a \div b < c
<1>1. PICK q, r : q = a \div b /\ r = a % b
  OBVIOUS
<1>2. q \in Nat /\ r \in 0 .. b - 1 /\ r = a - b * q
  BY <1>1, DivMod
<1>3. b * q \in Nat /\ b * c \in Nat /\ b * q <= a
  BY <1>2
<1>4. ~ (c <= q)
  <2>1. SUFFICES ASSUME c <= q PROVE FALSE
    OBVIOUS
  <2>2. b * c <= b * q
    BY <1>2, <2>1
  <2> QED BY <1>3, <2>2
<1> QED BY <1>1, <1>2, <1>4

(***************************************************************************)
(* Loops.  Pass is one pass of each loop of the model; p are its           *)
(* parameters.  A function that does the passes one after the other always *)
(* exists, so each loop's function is what its recursion says.             *)
(***************************************************************************)
\* One pass of each loop
Pass(loop, p, x, i) ==
    CASE loop = "Shifted"       -> x \div FAN
      [] loop = "Span"          -> FAN * x
      [] loop = "Path"          -> p[1].table[x][NDX(p[2], LEVELS - i + 1)].frame
      [] loop = "WithTables"    -> ensure_table(x, p[1], LEVELS - i + 1, p[2])
      [] loop = "WithoutTables" -> drop_table(x, p[1], i)
      [] loop = "AnonPages"     -> anon_page(x, Page(p[1], i), p[1])
      [] loop = "SharedPages"   -> share_page(x, Page(p[1], i), p[1])
      [] loop = "FreedPages"    -> free_page(x, Page(p[1], i))
      [] loop = "UnsharedPages" -> vmm_unmap_page(x, Page(p[1], i))
      [] loop = "WithAreas"     -> mm_share_vma(x, KernelAreas[i])
      [] loop = "WithoutAreas"  -> mm_free_vma(x, p[1].areas[i])
      [] loop = "copy_from_mm"  -> copy_page(x, p[1], Page(p[2], i))
      [] loop = "Duplicated"    -> dupe_vma(x, p[1].p4, p[1].areas[i])
      [] loop = "copy_from_buf" -> put_page(x, Page(p[1], i))
      [] loop = "WithSegments"  -> map_segment(x, p[1][i])
      [] loop = "kernel_area"   -> kernel_page(x, Page(p[1], i), p[1])
      [] loop = "kernel_areas"  -> kernel_area(x, KernelAreas[i])[KernelAreas[i].pages]
      [] OTHER                  -> Below(x)

\* h[i] is what the loop has after i passes from x.
IsLoop(h, loop, p, x, n) ==
    /\ DOMAIN h = 0 .. n /\ h = [i \in DOMAIN h |-> h[i]]
    /\ h[0] = x
    /\ \A i \in 1 .. n : h[i] = Pass(loop, p, h[i - 1], i)

\* There is a function for any number of passes.
LEMMA LoopExists ==
    ASSUME NEW loop, NEW p, NEW x, NEW n \in Nat
    PROVE  \E h : IsLoop(h, loop, p, x, n)
<1> DEFINE T == {m \in Nat : ~\E h : IsLoop(h, loop, p, x, m)}
<1>1. SUFFICES ASSUME T # {} PROVE FALSE
  OBVIOUS
<1>2. PICK m \in T : \A y \in T : m <= y
  BY <1>1, LeastIn
<1>3. CASE m = 0
  <2> DEFINE h == [i \in 0 .. 0 |-> x]
  <2>1. IsLoop(h, loop, p, x, 0)
    BY DEF IsLoop
  <2> QED BY <1>3, <2>1
<1>4. CASE m # 0
  <2>1. m - 1 \in Nat /\ m - 1 \notin T /\ m \in Nat
    BY <1>2, <1>4
  <2>2. PICK g : IsLoop(g, loop, p, x, m - 1)
    BY <2>1
  <2> DEFINE h == [i \in 0 .. m |-> IF i = m THEN Pass(loop, p, g[m - 1], m) ELSE g[i]]
  <2>3. ASSUME NEW i \in 1 .. m
        PROVE  h[i] = Pass(loop, p, h[i - 1], i)
    <3>1. CASE i = m
      BY <1>4, <2>1, <3>1
    <3>2. CASE i # m
      <4>1. i \in 1 .. m - 1 /\ h[i] = g[i] /\ h[i - 1] = g[i - 1]
        BY <2>1, <3>2
      <4> QED BY <2>2, <4>1 DEF IsLoop
    <3> QED BY <3>1, <3>2
  <2>4. h[0] = x
    BY <1>4, <2>1, <2>2 DEF IsLoop
  <2>5. IsLoop(h, loop, p, x, m)
    BY <2>3, <2>4 DEF IsLoop
  <2> QED BY <2>5
<1> QED BY <1>3, <1>4

\* An address is shifted by one index at a time.
LEMMA ShiftedIs ==
    ASSUME NEW virt,
           LEVELS \in Nat
    PROVE  /\ Shifted(virt)[0] = virt
           /\ \A i \in 1 .. LEVELS :
                 Shifted(virt)[i] = Shifted(virt)[i - 1] \div FAN
<1>1. \A x, i : Pass("Shifted", <<>>, x, i) = x \div FAN
  BY DEF Pass
<1>2. \E h : h = [i \in 0 .. LEVELS |->
             IF i = 0 THEN virt
             ELSE h[i - 1] \div FAN]
  <2>1. PICK h : IsLoop(h, "Shifted", <<>>, virt, LEVELS)
    BY LoopExists
  <2>2. h = [i \in 0 .. LEVELS |->
             IF i = 0 THEN virt
             ELSE h[i - 1] \div FAN]
    BY <1>1, <2>1 DEF IsLoop
  <2> QED BY <2>2, Zenon
<1> DEFINE h == Shifted(virt)
<1>3. h = [i \in 0 .. LEVELS |->
             IF i = 0 THEN virt
             ELSE h[i - 1] \div FAN]
  BY <1>2, Zenon DEF Shifted
<1> HIDE DEF h
<1>4. \A i \in 0 .. LEVELS :
         h[i] = IF i = 0 THEN virt
                ELSE h[i - 1] \div FAN
  BY <1>3, Zenon
<1> QED BY <1>4 DEF h

\* Each level covers FAN times what the one below covers.
LEMMA SpanIs ==
    ASSUME LEVELS \in Nat
    PROVE  /\ Span[0] = 1
           /\ \A i \in 1 .. LEVELS :
                 Span[i] = FAN * Span[i - 1]
<1>1. \A x, i : Pass("Span", <<>>, x, i) = FAN * x
  BY DEF Pass
<1>2. \E h : h = [i \in 0 .. LEVELS |->
             IF i = 0 THEN 1
             ELSE FAN * h[i - 1]]
  <2>1. PICK h : IsLoop(h, "Span", <<>>, 1, LEVELS)
    BY LoopExists
  <2>2. h = [i \in 0 .. LEVELS |->
             IF i = 0 THEN 1
             ELSE FAN * h[i - 1]]
    BY <1>1, <2>1 DEF IsLoop
  <2> QED BY <2>2, Zenon
<1> DEFINE h == Span
<1>3. h = [i \in 0 .. LEVELS |->
             IF i = 0 THEN 1
             ELSE FAN * h[i - 1]]
  BY <1>2, Zenon DEF Span
<1> HIDE DEF h
<1>4. \A i \in 0 .. LEVELS :
         h[i] = IF i = 0 THEN 1
                ELSE FAN * h[i - 1]
  BY <1>3, Zenon
<1> QED BY <1>4 DEF h

\* The walk of get_entry goes from a table into the entry's table.
LEMMA PathIs ==
    ASSUME NEW m, NEW virt,
           LEVELS - 1 \in Nat
    PROVE  /\ Path(m, virt)[0] = m.p4
           /\ \A i \in 1 .. LEVELS - 1 :
                 Path(m, virt)[i] = m.table[Path(m, virt)[i - 1]][NDX(virt, LEVELS - i + 1)].frame
<1>1. \A x, i : Pass("Path", <<m, virt>>, x, i) = m.table[x][NDX(virt, LEVELS - i + 1)].frame
  BY DEF Pass
<1>2. \E h : h = [i \in 0 .. LEVELS - 1 |->
             IF i = 0 THEN m.p4
             ELSE m.table[h[i - 1]][NDX(virt, LEVELS - i + 1)].frame]
  <2>1. PICK h : IsLoop(h, "Path", <<m, virt>>, m.p4, LEVELS - 1)
    BY LoopExists
  <2>2. h = [i \in 0 .. LEVELS - 1 |->
             IF i = 0 THEN m.p4
             ELSE m.table[h[i - 1]][NDX(virt, LEVELS - i + 1)].frame]
    BY <1>1, <2>1 DEF IsLoop
  <2> QED BY <2>2, Zenon
<1> DEFINE h == Path(m, virt)
<1>3. h = [i \in 0 .. LEVELS - 1 |->
             IF i = 0 THEN m.p4
             ELSE m.table[h[i - 1]][NDX(virt, LEVELS - i + 1)].frame]
  BY <1>2, Zenon DEF Path
<1> HIDE DEF h
<1>4. \A i \in 0 .. LEVELS - 1 :
         h[i] = IF i = 0 THEN m.p4
                ELSE m.table[h[i - 1]][NDX(virt, LEVELS - i + 1)].frame
  BY <1>3, Zenon
<1> QED BY <1>4 DEF h

\* vmm_map_page ensures the tables from the top down.
LEMMA WithTablesIs ==
    ASSUME NEW m, NEW virt, NEW a,
           LEVELS - 1 \in Nat
    PROVE  /\ WithTables(m, virt, a)[0] = ensure_p4(m)
           /\ \A i \in 1 .. LEVELS - 1 :
                 WithTables(m, virt, a)[i] = ensure_table(WithTables(m, virt, a)[i - 1], virt, LEVELS - i + 1, a)
<1>1. \A x, i : Pass("WithTables", <<virt, a>>, x, i) = ensure_table(x, virt, LEVELS - i + 1, a)
  BY DEF Pass
<1>2. \E h : h = [i \in 0 .. LEVELS - 1 |->
             IF i = 0 THEN ensure_p4(m)
             ELSE ensure_table(h[i - 1], virt, LEVELS - i + 1, a)]
  <2>1. PICK h : IsLoop(h, "WithTables", <<virt, a>>, ensure_p4(m), LEVELS - 1)
    BY LoopExists
  <2>2. h = [i \in 0 .. LEVELS - 1 |->
             IF i = 0 THEN ensure_p4(m)
             ELSE ensure_table(h[i - 1], virt, LEVELS - i + 1, a)]
    BY <1>1, <2>1 DEF IsLoop
  <2> QED BY <2>2, Zenon
<1> DEFINE h == WithTables(m, virt, a)
<1>3. h = [i \in 0 .. LEVELS - 1 |->
             IF i = 0 THEN ensure_p4(m)
             ELSE ensure_table(h[i - 1], virt, LEVELS - i + 1, a)]
  BY <1>2, Zenon DEF WithTables
<1> HIDE DEF h
<1>4. \A i \in 0 .. LEVELS - 1 :
         h[i] = IF i = 0 THEN ensure_p4(m)
                ELSE ensure_table(h[i - 1], virt, LEVELS - i + 1, a)
  BY <1>3, Zenon
<1> QED BY <1>4 DEF h

\* vmm_unmap_page clears the page's entry, then drops tables from the bottom
\* up.
LEMMA WithoutTablesIs ==
    ASSUME NEW m, NEW virt,
           LEVELS \in Nat
    PROVE  /\ WithoutTables(m, virt)[0] = set_entry(m, virt, 1, Zero)
           /\ \A i \in 1 .. LEVELS :
                 WithoutTables(m, virt)[i] = drop_table(WithoutTables(m, virt)[i - 1], virt, i)
<1>1. \A x, i : Pass("WithoutTables", <<virt>>, x, i) = drop_table(x, virt, i)
  BY DEF Pass
<1>2. \E h : h = [i \in 0 .. LEVELS |->
             IF i = 0 THEN set_entry(m, virt, 1, Zero)
             ELSE drop_table(h[i - 1], virt, i)]
  <2>1. PICK h : IsLoop(h, "WithoutTables", <<virt>>, set_entry(m, virt, 1, Zero), LEVELS)
    BY LoopExists
  <2>2. h = [i \in 0 .. LEVELS |->
             IF i = 0 THEN set_entry(m, virt, 1, Zero)
             ELSE drop_table(h[i - 1], virt, i)]
    BY <1>1, <2>1 DEF IsLoop
  <2> QED BY <2>2, Zenon
<1> DEFINE h == WithoutTables(m, virt)
<1>3. h = [i \in 0 .. LEVELS |->
             IF i = 0 THEN set_entry(m, virt, 1, Zero)
             ELSE drop_table(h[i - 1], virt, i)]
  BY <1>2, Zenon DEF WithoutTables
<1> HIDE DEF h
<1>4. \A i \in 0 .. LEVELS :
         h[i] = IF i = 0 THEN set_entry(m, virt, 1, Zero)
                ELSE drop_table(h[i - 1], virt, i)
  BY <1>3, Zenon
<1> QED BY <1>4 DEF h

\* anon_mmap maps one page after the other.
LEMMA AnonPagesIs ==
    ASSUME NEW m, NEW a,
           a.pages \in Nat
    PROVE  /\ AnonPages(m, a)[0] = m
           /\ \A i \in 1 .. a.pages :
                 AnonPages(m, a)[i] = anon_page(AnonPages(m, a)[i - 1], Page(a, i), a)
<1>1. \A x, i : Pass("AnonPages", <<a>>, x, i) = anon_page(x, Page(a, i), a)
  BY DEF Pass
<1>2. \E h : h = [i \in 0 .. a.pages |->
             IF i = 0 THEN m
             ELSE anon_page(h[i - 1], Page(a, i), a)]
  <2>1. PICK h : IsLoop(h, "AnonPages", <<a>>, m, a.pages)
    BY LoopExists
  <2>2. h = [i \in 0 .. a.pages |->
             IF i = 0 THEN m
             ELSE anon_page(h[i - 1], Page(a, i), a)]
    BY <1>1, <2>1 DEF IsLoop
  <2> QED BY <2>2, Zenon
<1> DEFINE h == AnonPages(m, a)
<1>3. h = [i \in 0 .. a.pages |->
             IF i = 0 THEN m
             ELSE anon_page(h[i - 1], Page(a, i), a)]
  BY <1>2, Zenon DEF AnonPages
<1> HIDE DEF h
<1>4. \A i \in 0 .. a.pages :
         h[i] = IF i = 0 THEN m
                ELSE anon_page(h[i - 1], Page(a, i), a)
  BY <1>3, Zenon
<1> QED BY <1>4 DEF h

\* mm_share_vma shares one page after the other.
LEMMA SharedPagesIs ==
    ASSUME NEW m, NEW a,
           a.pages \in Nat
    PROVE  /\ SharedPages(m, a)[0] = m
           /\ \A i \in 1 .. a.pages :
                 SharedPages(m, a)[i] = share_page(SharedPages(m, a)[i - 1], Page(a, i), a)
<1>1. \A x, i : Pass("SharedPages", <<a>>, x, i) = share_page(x, Page(a, i), a)
  BY DEF Pass
<1>2. \E h : h = [i \in 0 .. a.pages |->
             IF i = 0 THEN m
             ELSE share_page(h[i - 1], Page(a, i), a)]
  <2>1. PICK h : IsLoop(h, "SharedPages", <<a>>, m, a.pages)
    BY LoopExists
  <2>2. h = [i \in 0 .. a.pages |->
             IF i = 0 THEN m
             ELSE share_page(h[i - 1], Page(a, i), a)]
    BY <1>1, <2>1 DEF IsLoop
  <2> QED BY <2>2, Zenon
<1> DEFINE h == SharedPages(m, a)
<1>3. h = [i \in 0 .. a.pages |->
             IF i = 0 THEN m
             ELSE share_page(h[i - 1], Page(a, i), a)]
  BY <1>2, Zenon DEF SharedPages
<1> HIDE DEF h
<1>4. \A i \in 0 .. a.pages :
         h[i] = IF i = 0 THEN m
                ELSE share_page(h[i - 1], Page(a, i), a)
  BY <1>3, Zenon
<1> QED BY <1>4 DEF h

\* mm_free_reg_vma frees one page after the other.
LEMMA FreedPagesIs ==
    ASSUME NEW m, NEW a,
           a.pages \in Nat
    PROVE  /\ FreedPages(m, a)[0] = m
           /\ \A i \in 1 .. a.pages :
                 FreedPages(m, a)[i] = free_page(FreedPages(m, a)[i - 1], Page(a, i))
<1>1. \A x, i : Pass("FreedPages", <<a>>, x, i) = free_page(x, Page(a, i))
  BY DEF Pass
<1>2. \E h : h = [i \in 0 .. a.pages |->
             IF i = 0 THEN m
             ELSE free_page(h[i - 1], Page(a, i))]
  <2>1. PICK h : IsLoop(h, "FreedPages", <<a>>, m, a.pages)
    BY LoopExists
  <2>2. h = [i \in 0 .. a.pages |->
             IF i = 0 THEN m
             ELSE free_page(h[i - 1], Page(a, i))]
    BY <1>1, <2>1 DEF IsLoop
  <2> QED BY <2>2, Zenon
<1> DEFINE h == FreedPages(m, a)
<1>3. h = [i \in 0 .. a.pages |->
             IF i = 0 THEN m
             ELSE free_page(h[i - 1], Page(a, i))]
  BY <1>2, Zenon DEF FreedPages
<1> HIDE DEF h
<1>4. \A i \in 0 .. a.pages :
         h[i] = IF i = 0 THEN m
                ELSE free_page(h[i - 1], Page(a, i))
  BY <1>3, Zenon
<1> QED BY <1>4 DEF h

\* mm_unshare_vma unmaps one page after the other.
LEMMA UnsharedPagesIs ==
    ASSUME NEW m, NEW a,
           a.pages \in Nat
    PROVE  /\ UnsharedPages(m, a)[0] = m
           /\ \A i \in 1 .. a.pages :
                 UnsharedPages(m, a)[i] = vmm_unmap_page(UnsharedPages(m, a)[i - 1], Page(a, i))
<1>1. \A x, i : Pass("UnsharedPages", <<a>>, x, i) = vmm_unmap_page(x, Page(a, i))
  BY DEF Pass
<1>2. \E h : h = [i \in 0 .. a.pages |->
             IF i = 0 THEN m
             ELSE vmm_unmap_page(h[i - 1], Page(a, i))]
  <2>1. PICK h : IsLoop(h, "UnsharedPages", <<a>>, m, a.pages)
    BY LoopExists
  <2>2. h = [i \in 0 .. a.pages |->
             IF i = 0 THEN m
             ELSE vmm_unmap_page(h[i - 1], Page(a, i))]
    BY <1>1, <2>1 DEF IsLoop
  <2> QED BY <2>2, Zenon
<1> DEFINE h == UnsharedPages(m, a)
<1>3. h = [i \in 0 .. a.pages |->
             IF i = 0 THEN m
             ELSE vmm_unmap_page(h[i - 1], Page(a, i))]
  BY <1>2, Zenon DEF UnsharedPages
<1> HIDE DEF h
<1>4. \A i \in 0 .. a.pages :
         h[i] = IF i = 0 THEN m
                ELSE vmm_unmap_page(h[i - 1], Page(a, i))
  BY <1>3, Zenon
<1> QED BY <1>4 DEF h

\* mm_init shares one kernel area after the other.
LEMMA WithAreasIs ==
    ASSUME NEW m,
           Len(KernelAreas) \in Nat
    PROVE  /\ WithAreas(m)[0] = [m EXCEPT !.p4 = NONE, !.areas = <<>>]
           /\ \A i \in 1 .. Len(KernelAreas) :
                 WithAreas(m)[i] = mm_share_vma(WithAreas(m)[i - 1], KernelAreas[i])
<1>1. \A x, i : Pass("WithAreas", <<>>, x, i) = mm_share_vma(x, KernelAreas[i])
  BY DEF Pass
<1>2. \E h : h = [i \in 0 .. Len(KernelAreas) |->
             IF i = 0 THEN [m EXCEPT !.p4 = NONE, !.areas = <<>>]
             ELSE mm_share_vma(h[i - 1], KernelAreas[i])]
  <2>1. PICK h : IsLoop(h, "WithAreas", <<>>, [m EXCEPT !.p4 = NONE, !.areas = <<>>], Len(KernelAreas))
    BY LoopExists
  <2>2. h = [i \in 0 .. Len(KernelAreas) |->
             IF i = 0 THEN [m EXCEPT !.p4 = NONE, !.areas = <<>>]
             ELSE mm_share_vma(h[i - 1], KernelAreas[i])]
    BY <1>1, <2>1 DEF IsLoop
  <2> QED BY <2>2, Zenon
<1> DEFINE h == WithAreas(m)
<1>3. h = [i \in 0 .. Len(KernelAreas) |->
             IF i = 0 THEN [m EXCEPT !.p4 = NONE, !.areas = <<>>]
             ELSE mm_share_vma(h[i - 1], KernelAreas[i])]
  BY <1>2, Zenon DEF WithAreas
<1> HIDE DEF h
<1>4. \A i \in 0 .. Len(KernelAreas) :
         h[i] = IF i = 0 THEN [m EXCEPT !.p4 = NONE, !.areas = <<>>]
                ELSE mm_share_vma(h[i - 1], KernelAreas[i])
  BY <1>3, Zenon
<1> QED BY <1>4 DEF h

\* mm_free frees one area after the other.
LEMMA WithoutAreasIs ==
    ASSUME NEW m, NEW mm,
           Len(mm.areas) \in Nat
    PROVE  /\ WithoutAreas(m, mm)[0] = [m EXCEPT !.p4 = mm.p4]
           /\ \A i \in 1 .. Len(mm.areas) :
                 WithoutAreas(m, mm)[i] = mm_free_vma(WithoutAreas(m, mm)[i - 1], mm.areas[i])
<1>1. \A x, i : Pass("WithoutAreas", <<mm>>, x, i) = mm_free_vma(x, mm.areas[i])
  BY DEF Pass
<1>2. \E h : h = [i \in 0 .. Len(mm.areas) |->
             IF i = 0 THEN [m EXCEPT !.p4 = mm.p4]
             ELSE mm_free_vma(h[i - 1], mm.areas[i])]
  <2>1. PICK h : IsLoop(h, "WithoutAreas", <<mm>>, [m EXCEPT !.p4 = mm.p4], Len(mm.areas))
    BY LoopExists
  <2>2. h = [i \in 0 .. Len(mm.areas) |->
             IF i = 0 THEN [m EXCEPT !.p4 = mm.p4]
             ELSE mm_free_vma(h[i - 1], mm.areas[i])]
    BY <1>1, <2>1 DEF IsLoop
  <2> QED BY <2>2, Zenon
<1> DEFINE h == WithoutAreas(m, mm)
<1>3. h = [i \in 0 .. Len(mm.areas) |->
             IF i = 0 THEN [m EXCEPT !.p4 = mm.p4]
             ELSE mm_free_vma(h[i - 1], mm.areas[i])]
  BY <1>2, Zenon DEF WithoutAreas
<1> HIDE DEF h
<1>4. \A i \in 0 .. Len(mm.areas) :
         h[i] = IF i = 0 THEN [m EXCEPT !.p4 = mm.p4]
                ELSE mm_free_vma(h[i - 1], mm.areas[i])
  BY <1>3, Zenon
<1> QED BY <1>4 DEF h

\* mm_copy_from_mm copies one page after the other.
LEMMA CopyFromMmIs ==
    ASSUME NEW m, NEW src, NEW a,
           a.pages \in Nat
    PROVE  /\ mm_copy_from_mm(m, src, a)[0] = m
           /\ \A i \in 1 .. a.pages :
                 mm_copy_from_mm(m, src, a)[i] = copy_page(mm_copy_from_mm(m, src, a)[i - 1], src, Page(a, i))
<1>1. \A x, i : Pass("copy_from_mm", <<src, a>>, x, i) = copy_page(x, src, Page(a, i))
  BY DEF Pass
<1>2. \E h : h = [i \in 0 .. a.pages |->
             IF i = 0 THEN m
             ELSE copy_page(h[i - 1], src, Page(a, i))]
  <2>1. PICK h : IsLoop(h, "copy_from_mm", <<src, a>>, m, a.pages)
    BY LoopExists
  <2>2. h = [i \in 0 .. a.pages |->
             IF i = 0 THEN m
             ELSE copy_page(h[i - 1], src, Page(a, i))]
    BY <1>1, <2>1 DEF IsLoop
  <2> QED BY <2>2, Zenon
<1> DEFINE h == mm_copy_from_mm(m, src, a)
<1>3. h = [i \in 0 .. a.pages |->
             IF i = 0 THEN m
             ELSE copy_page(h[i - 1], src, Page(a, i))]
  BY <1>2, Zenon DEF mm_copy_from_mm
<1> HIDE DEF h
<1>4. \A i \in 0 .. a.pages :
         h[i] = IF i = 0 THEN m
                ELSE copy_page(h[i - 1], src, Page(a, i))
  BY <1>3, Zenon
<1> QED BY <1>4 DEF h

\* mm_dupe duplicates one area after the other.
LEMMA DuplicatedIs ==
    ASSUME NEW m, NEW mm,
           Len(mm.areas) \in Nat
    PROVE  /\ Duplicated(m, mm)[0] = mm_init(m)
           /\ \A i \in 1 .. Len(mm.areas) :
                 Duplicated(m, mm)[i] = dupe_vma(Duplicated(m, mm)[i - 1], mm.p4, mm.areas[i])
<1>1. \A x, i : Pass("Duplicated", <<mm>>, x, i) = dupe_vma(x, mm.p4, mm.areas[i])
  BY DEF Pass
<1>2. \E h : h = [i \in 0 .. Len(mm.areas) |->
             IF i = 0 THEN mm_init(m)
             ELSE dupe_vma(h[i - 1], mm.p4, mm.areas[i])]
  <2>1. PICK h : IsLoop(h, "Duplicated", <<mm>>, mm_init(m), Len(mm.areas))
    BY LoopExists
  <2>2. h = [i \in 0 .. Len(mm.areas) |->
             IF i = 0 THEN mm_init(m)
             ELSE dupe_vma(h[i - 1], mm.p4, mm.areas[i])]
    BY <1>1, <2>1 DEF IsLoop
  <2> QED BY <2>2, Zenon
<1> DEFINE h == Duplicated(m, mm)
<1>3. h = [i \in 0 .. Len(mm.areas) |->
             IF i = 0 THEN mm_init(m)
             ELSE dupe_vma(h[i - 1], mm.p4, mm.areas[i])]
  BY <1>2, Zenon DEF Duplicated
<1> HIDE DEF h
<1>4. \A i \in 0 .. Len(mm.areas) :
         h[i] = IF i = 0 THEN mm_init(m)
                ELSE dupe_vma(h[i - 1], mm.p4, mm.areas[i])
  BY <1>3, Zenon
<1> QED BY <1>4 DEF h

\* mm_copy_from_buf fills one page after the other.
LEMMA CopyFromBufIs ==
    ASSUME NEW m, NEW s,
           s.filepages \in Nat
    PROVE  /\ mm_copy_from_buf(m, s)[0] = m
           /\ \A i \in 1 .. s.filepages :
                 mm_copy_from_buf(m, s)[i] = put_page(mm_copy_from_buf(m, s)[i - 1], Page(s, i))
<1>1. \A x, i : Pass("copy_from_buf", <<s>>, x, i) = put_page(x, Page(s, i))
  BY DEF Pass
<1>2. \E h : h = [i \in 0 .. s.filepages |->
             IF i = 0 THEN m
             ELSE put_page(h[i - 1], Page(s, i))]
  <2>1. PICK h : IsLoop(h, "copy_from_buf", <<s>>, m, s.filepages)
    BY LoopExists
  <2>2. h = [i \in 0 .. s.filepages |->
             IF i = 0 THEN m
             ELSE put_page(h[i - 1], Page(s, i))]
    BY <1>1, <2>1 DEF IsLoop
  <2> QED BY <2>2, Zenon
<1> DEFINE h == mm_copy_from_buf(m, s)
<1>3. h = [i \in 0 .. s.filepages |->
             IF i = 0 THEN m
             ELSE put_page(h[i - 1], Page(s, i))]
  BY <1>2, Zenon DEF mm_copy_from_buf
<1> HIDE DEF h
<1>4. \A i \in 0 .. s.filepages :
         h[i] = IF i = 0 THEN m
                ELSE put_page(h[i - 1], Page(s, i))
  BY <1>3, Zenon
<1> QED BY <1>4 DEF h

\* exec_elf maps one segment after the other.
LEMMA WithSegmentsIs ==
    ASSUME NEW m, NEW image,
           Len(image) \in Nat
    PROVE  /\ WithSegments(m, image)[0] = mm_init(m)
           /\ \A i \in 1 .. Len(image) :
                 WithSegments(m, image)[i] = map_segment(WithSegments(m, image)[i - 1], image[i])
<1>1. \A x, i : Pass("WithSegments", <<image>>, x, i) = map_segment(x, image[i])
  BY DEF Pass
<1>2. \E h : h = [i \in 0 .. Len(image) |->
             IF i = 0 THEN mm_init(m)
             ELSE map_segment(h[i - 1], image[i])]
  <2>1. PICK h : IsLoop(h, "WithSegments", <<image>>, mm_init(m), Len(image))
    BY LoopExists
  <2>2. h = [i \in 0 .. Len(image) |->
             IF i = 0 THEN mm_init(m)
             ELSE map_segment(h[i - 1], image[i])]
    BY <1>1, <2>1 DEF IsLoop
  <2> QED BY <2>2, Zenon
<1> DEFINE h == WithSegments(m, image)
<1>3. h = [i \in 0 .. Len(image) |->
             IF i = 0 THEN mm_init(m)
             ELSE map_segment(h[i - 1], image[i])]
  BY <1>2, Zenon DEF WithSegments
<1> HIDE DEF h
<1>4. \A i \in 0 .. Len(image) :
         h[i] = IF i = 0 THEN mm_init(m)
                ELSE map_segment(h[i - 1], image[i])
  BY <1>3, Zenon
<1> QED BY <1>4 DEF h

\* The boot code maps one page of an area after the other.
LEMMA KernelAreaIs ==
    ASSUME NEW m, NEW a,
           a.pages \in Nat
    PROVE  /\ kernel_area(m, a)[0] = m
           /\ \A i \in 1 .. a.pages :
                 kernel_area(m, a)[i] = kernel_page(kernel_area(m, a)[i - 1], Page(a, i), a)
<1>1. \A x, i : Pass("kernel_area", <<a>>, x, i) = kernel_page(x, Page(a, i), a)
  BY DEF Pass
<1>2. \E h : h = [i \in 0 .. a.pages |->
             IF i = 0 THEN m
             ELSE kernel_page(h[i - 1], Page(a, i), a)]
  <2>1. PICK h : IsLoop(h, "kernel_area", <<a>>, m, a.pages)
    BY LoopExists
  <2>2. h = [i \in 0 .. a.pages |->
             IF i = 0 THEN m
             ELSE kernel_page(h[i - 1], Page(a, i), a)]
    BY <1>1, <2>1 DEF IsLoop
  <2> QED BY <2>2, Zenon
<1> DEFINE h == kernel_area(m, a)
<1>3. h = [i \in 0 .. a.pages |->
             IF i = 0 THEN m
             ELSE kernel_page(h[i - 1], Page(a, i), a)]
  BY <1>2, Zenon DEF kernel_area
<1> HIDE DEF h
<1>4. \A i \in 0 .. a.pages :
         h[i] = IF i = 0 THEN m
                ELSE kernel_page(h[i - 1], Page(a, i), a)
  BY <1>3, Zenon
<1> QED BY <1>4 DEF h

\* The boot code maps one area after the other.
LEMMA KernelAreasIs ==
    ASSUME Len(KernelAreas) \in Nat
    PROVE  /\ kernel_areas[0] = Blank
           /\ \A i \in 1 .. Len(KernelAreas) :
                 kernel_areas[i] = kernel_area(kernel_areas[i - 1], KernelAreas[i])[KernelAreas[i].pages]
<1>1. \A x, i : Pass("kernel_areas", <<>>, x, i) = kernel_area(x, KernelAreas[i])[KernelAreas[i].pages]
  BY DEF Pass
<1>2. \E h : h = [i \in 0 .. Len(KernelAreas) |->
             IF i = 0 THEN Blank
             ELSE kernel_area(h[i - 1], KernelAreas[i])[KernelAreas[i].pages]]
  <2>1. PICK h : IsLoop(h, "kernel_areas", <<>>, Blank, Len(KernelAreas))
    BY LoopExists
  <2>2. h = [i \in 0 .. Len(KernelAreas) |->
             IF i = 0 THEN Blank
             ELSE kernel_area(h[i - 1], KernelAreas[i])[KernelAreas[i].pages]]
    BY <1>1, <2>1 DEF IsLoop
  <2> QED BY <2>2, Zenon
<1> DEFINE h == kernel_areas
<1>3. h = [i \in 0 .. Len(KernelAreas) |->
             IF i = 0 THEN Blank
             ELSE kernel_area(h[i - 1], KernelAreas[i])[KernelAreas[i].pages]]
  BY <1>2, Zenon DEF kernel_areas
<1> HIDE DEF h
<1>4. \A i \in 0 .. Len(KernelAreas) :
         h[i] = IF i = 0 THEN Blank
                ELSE kernel_area(h[i - 1], KernelAreas[i])[KernelAreas[i].pages]
  BY <1>3, Zenon
<1> QED BY <1>4 DEF h

\* The tables of a level are those that the tables above point to.
LEMMA TablesAtIs ==
    ASSUME NEW p4,
           LEVELS - 1 \in Nat
    PROVE  /\ TablesAt(p4)[0] = {p4}
           /\ \A i \in 1 .. LEVELS - 1 :
                 TablesAt(p4)[i] = Below(TablesAt(p4)[i - 1])
<1>1. \A x, i : Pass("TablesAt", <<>>, x, i) = Below(x)
  BY DEF Pass
<1>2. \E h : h = [i \in 0 .. LEVELS - 1 |->
             IF i = 0 THEN {p4}
             ELSE Below(h[i - 1])]
  <2>1. PICK h : IsLoop(h, "TablesAt", <<>>, {p4}, LEVELS - 1)
    BY LoopExists
  <2>2. h = [i \in 0 .. LEVELS - 1 |->
             IF i = 0 THEN {p4}
             ELSE Below(h[i - 1])]
    BY <1>1, <2>1 DEF IsLoop
  <2> QED BY <2>2, Zenon
<1> DEFINE h == TablesAt(p4)
<1>3. h = [i \in 0 .. LEVELS - 1 |->
             IF i = 0 THEN {p4}
             ELSE Below(h[i - 1])]
  BY <1>2, Zenon DEF TablesAt
<1> HIDE DEF h
<1>4. \A i \in 0 .. LEVELS - 1 :
         h[i] = IF i = 0 THEN {p4}
                ELSE Below(h[i - 1])
  BY <1>3, Zenon
<1> QED BY <1>4 DEF h

(***************************************************************************)
(* Nodes.  A node is a place in an address space: the space (by the frame  *)
(* of its top table), a level and the part of an address that is used up   *)
(* above.  Level 0 are the pages.                                          *)
(***************************************************************************)
\* The part of the address v that is used up above level l
Key(v, l) == Shifted(v)[l]

\* The node on the way to v at level l of the space r
At(r, v, l) == <<r, l, Key(v, l)>>

\* The top of the space r; the parts of a node
Root(r)   == <<r, LEVELS, 0>>
Space(x)  == x[1]
Level(x)  == x[2]
\* The node above, and the index under which it holds x
Parent(x) == <<x[1], x[2] + 1, x[3] \div FAN>>
Slot(x)   == x[3] % FAN

\* All nodes there can be
Nodes == {At(r, v, l) : r \in Frames, v \in Pages, l \in 0 .. LEVELS}

\* The flags of the areas under a node
Flags(x) ==
    CHOOSE g : \E a \in AllAreas : \E v \in PagesOf(a) :
                  x = At(x[1], v, x[2]) /\ g = [write |-> a.write, user |-> a.user]

\* What the assumptions say of LEVELS and FAN
LEMMA Sizes ==
    /\ LEVELS \in Nat /\ LEVELS >= 2 /\ LEVELS - 1 \in Nat
    /\ FAN \in Nat \ {0} /\ FAN \in Nat /\ FAN >= 2
  BY VmmAssumption

\* A page's key is its number.
LEMMA KeyZero == ASSUME NEW v PROVE Key(v, 0) = v
  BY Sizes, ShiftedIs DEF Key

\* A key loses its lowest index on the way up.
LEMMA KeyUp ==
    ASSUME NEW v, NEW l \in 1 .. LEVELS
    PROVE  Key(v, l) = Key(v, l - 1) \div FAN
  BY Sizes, ShiftedIs DEF Key

\* Keys are natural numbers.
LEMMA KeyType ==
    ASSUME NEW v \in Nat, NEW l \in 0 .. LEVELS
    PROVE  Key(v, l) \in Nat
<1> DEFINE P == {i \in 0 .. LEVELS : Key(v, i) \in Nat}
<1>1. 0 \in P
  BY Sizes, KeyZero
<1>2. ASSUME NEW i \in 1 .. LEVELS, i - 1 \in P PROVE i \in P
  <2>1. Key(v, i - 1) \in Nat
    BY <1>2
  <2>2. Key(v, i - 1) \div FAN \in Nat
    BY <2>1, Sizes, DivMod
  <2> QED BY <2>2, KeyUp
<1> HIDE DEF P
<1>3. \A i \in 0 .. LEVELS : i \in P
  BY <1>1, <1>2, Sizes, Upto
<1> QED BY <1>3 DEF P

\* So are the spans.
LEMMA SpanType == ASSUME NEW l \in 0 .. LEVELS PROVE Span[l] \in Nat
<1> DEFINE P == {i \in 0 .. LEVELS : Span[i] \in Nat}
<1>1. 0 \in P
  BY Sizes, SpanIs
<1>2. ASSUME NEW i \in 1 .. LEVELS, i - 1 \in P PROVE i \in P
  <2>1. Span[i - 1] \in Nat /\ Span[i] = FAN * Span[i - 1]
    BY <1>2, Sizes, SpanIs
  <2> QED BY <2>1, Sizes
<1> HIDE DEF P
<1>3. \A i \in 0 .. LEVELS : i \in P
  BY <1>1, <1>2, Sizes, Upto
<1> QED BY <1>3 DEF P

\* Pages are natural numbers.
LEMMA PagesNat == Pages \subseteq Nat
  BY SpanType, Sizes DEF Pages

\* The last shift leaves nothing of an address.
LEMMA KeyTop == ASSUME NEW v \in Pages PROVE Key(v, LEVELS) = 0
<1> DEFINE P == {i \in 0 .. LEVELS : Key(v, i) < Span[LEVELS - i]}
<1>0. v \in Nat
  BY PagesNat
<1>1. 0 \in P
  BY Sizes, KeyZero, SpanType DEF Pages
<1>2. ASSUME NEW i \in 1 .. LEVELS, i - 1 \in P PROVE i \in P
  <2>1. Key(v, i - 1) \in Nat /\ Key(v, i - 1) < Span[LEVELS - i + 1]
    <3>1. LEVELS - (i - 1) = LEVELS - i + 1
      BY Sizes
    <3> QED BY <1>0, <1>2, <3>1, KeyType
  <2>2. LEVELS - i + 1 \in 1 .. LEVELS /\ LEVELS - i + 1 - 1 = LEVELS - i /\ LEVELS - i \in 0 .. LEVELS
    BY Sizes
  <2>3. Span[LEVELS - i + 1] = FAN * Span[LEVELS - i]
    <3>1. Span[LEVELS - i + 1] = FAN * Span[LEVELS - i + 1 - 1]
      BY <2>2, Sizes, SpanIs
    <3> QED BY <2>2, <3>1
  <2>4. Span[LEVELS - i] \in Nat
    BY <2>2, SpanType
  <2>5. Key(v, i - 1) < FAN * Span[LEVELS - i]
    BY <2>1, <2>3
  <2>6. Key(v, i - 1) \div FAN < Span[LEVELS - i]
    BY <2>1, <2>4, <2>5, Sizes, DivBelow
  <2> QED BY <2>6, KeyUp
<1> HIDE DEF P
<1>3. \A i \in 0 .. LEVELS : i \in P
  BY <1>1, <1>2, Sizes, Upto
<1>4. Key(v, LEVELS) < Span[LEVELS - LEVELS] /\ LEVELS - LEVELS = 0 /\ Span[0] = 1
  BY <1>3, Sizes, SpanIs DEF P
<1> QED BY <1>0, <1>4, KeyType, Sizes

\* Addresses that agree above some level agree above every higher one.
LEMMA KeySame ==
    ASSUME NEW v, NEW w, NEW l \in 0 .. LEVELS, Key(v, l) = Key(w, l), NEW k \in l .. LEVELS
    PROVE  Key(v, k) = Key(w, k)
<1> DEFINE P == {i \in 0 .. LEVELS - l : Key(v, l + i) = Key(w, l + i)}
<1>1. 0 \in P /\ LEVELS - l \in Nat
  BY Sizes
<1>2. ASSUME NEW i \in 1 .. LEVELS - l, i - 1 \in P PROVE i \in P
  <2>1. l + i \in 1 .. LEVELS /\ l + i - 1 = l + (i - 1)
    BY Sizes
  <2> QED BY <1>2, <2>1, KeyUp
<1> HIDE DEF P
<1>3. \A i \in 0 .. LEVELS - l : i \in P
  BY <1>1, <1>2, Upto
<1>4. k - l \in 0 .. LEVELS - l /\ l + (k - l) = k
  BY Sizes
<1> QED BY <1>3, <1>4 DEF P

\* The parts of a node
LEMMA AtFields ==
    ASSUME NEW r, NEW v, NEW l
    PROVE  Space(At(r, v, l)) = r /\ Level(At(r, v, l)) = l
  BY DEF At, Space, Level

\* The node above that on the way to v is the next on the way to v.
LEMMA AtParent ==
    ASSUME NEW r, NEW v \in Pages, NEW l \in 0 .. LEVELS - 1
    PROVE  /\ Parent(At(r, v, l)) = At(r, v, l + 1)
           /\ Slot(At(r, v, l)) = NDX(v, l + 1) /\ Slot(At(r, v, l)) \in Indices
<1>1. l + 1 \in 1 .. LEVELS /\ l + 1 - 1 = l /\ l \in 0 .. LEVELS
  BY Sizes
<1>2. Key(v, l + 1) = Key(v, l) \div FAN
  BY <1>1, KeyUp
<1>3. Key(v, l) \in Nat
  BY <1>1, PagesNat, KeyType
<1>4. Key(v, l) % FAN \in Indices
  BY <1>3, Sizes, DivMod DEF Indices
<1>5. NDX(v, l + 1) = Key(v, l) % FAN
  BY <1>1 DEF NDX, Key
<1> QED BY <1>2, <1>4, <1>5 DEF At, Parent, Slot

\* At the top every way starts from the same node.
LEMMA AtTop == ASSUME NEW r, NEW v \in Pages PROVE At(r, v, LEVELS) = Root(r)
  BY KeyTop DEF At, Root

\* Pages differ in their space or their number.
LEMMA AtPage ==
    ASSUME NEW r, NEW v, NEW q, NEW w, At(r, v, 0) = At(q, w, 0)
    PROVE  r = q /\ v = w
  BY KeyZero DEF At

\* Ways that have met stay together.
LEMMA AtSame ==
    ASSUME NEW r, NEW v, NEW w, NEW l \in 0 .. LEVELS, At(r, v, l) = At(r, w, l),
           NEW k \in l .. LEVELS
    PROVE  At(r, v, k) = At(r, w, k)
  BY KeySame DEF At

\* Every place on a way is a node.
LEMMA AtNode ==
    ASSUME NEW r \in Frames, NEW v \in Pages, NEW l \in 0 .. LEVELS
    PROVE  At(r, v, l) \in Nodes
  BY DEF Nodes

\* Every node is a place on a way, and its parent too unless it is at the top.
LEMMA NodeAt ==
    ASSUME NEW x \in Nodes
    PROVE  /\ Level(x) \in 0 .. LEVELS /\ Space(x) \in Frames
           /\ \E v \in Pages : x = At(Space(x), v, Level(x))
           /\ Level(x) = LEVELS => x = Root(Space(x))
           /\ Level(x) < LEVELS => /\ Parent(x) \in Nodes /\ Slot(x) \in Indices
                                   /\ Level(Parent(x)) = Level(x) + 1
                                   /\ Space(Parent(x)) = Space(x)
<1>1. PICK r \in Frames, v \in Pages, l \in 0 .. LEVELS : x = At(r, v, l)
  BY DEF Nodes
<1>2. Space(x) = r /\ Level(x) = l
  BY <1>1, AtFields
<1>3. l = LEVELS => x = Root(r)
  BY <1>1, AtTop
<1>4. ASSUME l < LEVELS
      PROVE  /\ Parent(x) \in Nodes /\ Slot(x) \in Indices
             /\ Level(Parent(x)) = l + 1 /\ Space(Parent(x)) = r
  <2>1. l \in 0 .. LEVELS - 1 /\ l + 1 \in 0 .. LEVELS
    BY <1>4, Sizes
  <2>2. Parent(x) = At(r, v, l + 1) /\ Slot(x) \in Indices
    BY <1>1, <2>1, AtParent
  <2> QED BY <2>1, <2>2, AtNode, AtFields
<1> QED BY <1>1, <1>2, <1>3, <1>4

\* A node is known by its parent and its slot.
LEMMA SlotSame ==
    ASSUME NEW x \in Nodes, NEW y \in Nodes, Parent(x) = Parent(y), Slot(x) = Slot(y)
    PROVE  x = y
<1>1. PICK r \in Frames, v \in Pages, l \in 0 .. LEVELS : x = At(r, v, l)
  BY DEF Nodes
<1>2. PICK q \in Frames, w \in Pages, k \in 0 .. LEVELS : y = At(q, w, k)
  BY DEF Nodes
<1>3. PICK a, b : a = Key(v, l) /\ b = Key(w, k)
  OBVIOUS
<1>4. a \in Nat /\ b \in Nat
  BY <1>3, KeyType, PagesNat
<1>5. x = <<r, l, a>> /\ y = <<q, k, b>>
  BY <1>1, <1>2, <1>3 DEF At
<1>6. r = q /\ l + 1 = k + 1 /\ a \div FAN = b \div FAN /\ a % FAN = b % FAN
  BY <1>5 DEF Parent, Slot
<1>7. a % FAN = a - FAN * (a \div FAN) /\ b % FAN = b - FAN * (b \div FAN) /\ a \div FAN \in Nat
  BY <1>4, Sizes, DivMod
<1>8. PICK q1 : q1 = FAN * (a \div FAN) /\ q1 \in Int
  BY <1>7, Sizes
<1>9. a % FAN = a - q1 /\ a % FAN = b - q1
  BY <1>6, <1>7, <1>8
<1>10. a = b /\ l = k
  BY <1>4, <1>6, <1>8, <1>9
<1> QED BY <1>5, <1>6, <1>10

\* An area's flags are those of the nodes on the way to its pages: by the
\* layout, areas under one node agree in them.
LEMMA FlagsAre ==
    ASSUME NEW r, NEW a \in AllAreas, NEW v \in PagesOf(a), NEW l \in 0 .. LEVELS - 1
    PROVE  Flags(At(r, v, l)) = [write |-> a.write, user |-> a.user]
<1> DEFINE g == [write |-> a.write, user |-> a.user]
<1>1. ASSUME NEW b \in AllAreas, NEW w \in PagesOf(b), At(r, v, l) = At(r, w, l)
      PROVE  b.write = a.write /\ b.user = a.user
  <2>1. l \in 0 .. LEVELS /\ LEVELS - 1 \in l .. LEVELS
    BY Sizes
  <2>2. Key(v, l) = Key(w, l)
    BY <1>1 DEF At
  <2>3. Key(v, LEVELS - 1) = Key(w, LEVELS - 1)
    BY <2>1, <2>2, KeySame
  <2>4. NDX(v, LEVELS) = NDX(w, LEVELS)
    BY <2>3 DEF NDX, Key
  <2>5. \A c, b2 \in AllAreas : \A v2 \in PagesOf(c), w2 \in PagesOf(b2) :
           NDX(v2, LEVELS) = NDX(w2, LEVELS) => c.write = b2.write /\ c.user = b2.user
    BY LayoutAssumption
  <2> QED BY <2>4, <2>5
<1> DEFINE x == At(r, v, l)
<1>2. x[1] = r /\ x[2] = l
  BY DEF At
<1>3. \E b \in AllAreas : \E w \in PagesOf(b) :
         x = At(x[1], w, x[2]) /\ g = [write |-> b.write, user |-> b.user]
  BY <1>2
<1>4. ASSUME NEW h, \E b \in AllAreas : \E w \in PagesOf(b) :
         x = At(x[1], w, x[2]) /\ h = [write |-> b.write, user |-> b.user]
      PROVE h = g
  BY <1>1, <1>2, <1>4
<1> HIDE DEF x, g
<1>5. Flags(x) = g
  BY <1>3, <1>4 DEF Flags
<1> QED BY <1>5 DEF x, g

(***************************************************************************)
(* The forest of page tables.  N gives the frame of every node there is: a *)
(* table, or what a page is mapped to.  C gives the content of the pages   *)
(* whose frames belong to the space; other pages are mapped to frames of   *)
(* somebody else.  pend are the frames handed out that are not yet, or no  *)
(* longer, in a table.                                                     *)
(***************************************************************************)
\* The frame of x belongs to the space: tables do, and the pages with
\* contents.
Own(x, C) == Level(x) # 0 \/ x \in DOMAIN C

\* Every node has its parent.
Shape(N, C) ==
    /\ DOMAIN N \subseteq Nodes
    /\ DOMAIN C \subseteq DOMAIN N /\ \A x \in DOMAIN C : Level(x) = 0
    /\ \A x \in DOMAIN N : Level(x) < LEVELS => Parent(x) \in DOMAIN N

\* Every frame handed out is that of one node.
Ledger(used, pend, N, C) ==
    /\ used \subseteq Frames /\ pend \subseteq used
    /\ \A x \in DOMAIN N : Own(x, C) => N[x] \in used \ pend
    /\ \A x, y \in DOMAIN N : Own(x, C) /\ Own(y, C) /\ N[x] = N[y] => x = y
    /\ \A f \in used \ pend : \E x \in DOMAIN N : Own(x, C) /\ N[x] = f
    /\ \A x \in DOMAIN N : Level(x) = LEVELS => N[x] = Space(x)

\* The entries of the tables are those of the nodes, and no others are present.
Tables(t, N) ==
    /\ DOMAIN t = Frames /\ \A f \in Frames : DOMAIN t[f] = Indices
    /\ \A y \in DOMAIN N : Level(y) < LEVELS =>
          t[N[Parent(y)]][Slot(y)] = Entry(N[y], Flags(y))
    /\ \A x \in DOMAIN N : \A i \in Indices : Level(x) # 0 /\ t[N[x]][i].present =>
          \E y \in DOMAIN N : Level(y) < LEVELS /\ Parent(y) = x /\ Slot(y) = i

\* The space's own pages hold what C says.
Contents(d, N, C) == DOMAIN d = Frames /\ \A x \in DOMAIN C : d[N[x]] = C[x]

\* The fields of a machine
Fields == {"table", "data", "used", "p4", "areas", "cr3", "refcnt", "harm", "oom"}

\* The machine's memory is the forest N with contents C.
Tree(m, N, C, pend) ==
    /\ DOMAIN m = Fields
    /\ Shape(N, C) /\ Ledger(m.used, pend, N, C) /\ Tables(m.table, N) /\ Contents(m.data, N, C)

\* The function N with x mapped to f, and N without x
Plus(N, x, f) == [y \in DOMAIN N \cup {x} |-> IF y = x THEN f ELSE N[y]]
Minus(N, x)   == [y \in DOMAIN N \ {x} |-> N[y]]

\* What Plus is
LEMMA PlusIs ==
    ASSUME NEW N, NEW x, NEW f
    PROVE  /\ DOMAIN Plus(N, x, f) = DOMAIN N \cup {x}
           /\ Plus(N, x, f)[x] = f
           /\ \A y \in DOMAIN N : y # x => Plus(N, x, f)[y] = N[y]
  BY DEF Plus

\* What Plus is for a new node
LEMMA PlusNew ==
    ASSUME NEW N, NEW x, NEW f, x \notin DOMAIN N
    PROVE  /\ DOMAIN Plus(N, x, f) = DOMAIN N \cup {x}
           /\ Plus(N, x, f)[x] = f
           /\ \A y \in DOMAIN N : Plus(N, x, f)[y] = N[y]
  BY DEF Plus

\* What Minus is
LEMMA MinusIs ==
    ASSUME NEW N, NEW x
    PROVE  /\ DOMAIN Minus(N, x) = DOMAIN N \ {x}
           /\ \A y \in DOMAIN N : y # x => Minus(N, x)[y] = N[y]
  BY DEF Minus

\* A parent is another node, and a table.
LEMMA ParentOther ==
    ASSUME NEW x \in Nodes, Level(x) < LEVELS
    PROVE  Parent(x) # x /\ Level(Parent(x)) # 0
  BY NodeAt

\* What one write to a table changes
LEMMA EntrySet ==
    ASSUME NEW t, DOMAIN t = Frames, \A f \in Frames : DOMAIN t[f] = Indices,
           NEW g \in Frames, NEW i \in Indices, NEW e,
           NEW u, u = [t EXCEPT ![g][i] = e]
    PROVE  /\ DOMAIN u = Frames /\ \A f \in Frames : DOMAIN u[f] = Indices
           /\ u[g][i] = e
           /\ \A f \in Frames : f # g => u[f] = t[f]
           /\ \A f \in Frames, j \in Indices : f # g \/ j # i => u[f][j] = t[f][j]
  OBVIOUS

\* Writing an entry into a table adds the node; a new table is empty.
LEMMA EnterTable ==
    ASSUME NEW N, NEW C, NEW used, NEW pend, NEW t, NEW f, NEW y \in Nodes \ DOMAIN N,
           Shape(N, C), Ledger(used, pend, N, C), Tables(t, N),
           Level(y) < LEVELS, Parent(y) \in DOMAIN N,
           Level(y) # 0 => f \in pend /\ \A i \in Indices : ~t[f][i].present
    PROVE  Tables([t EXCEPT ![N[Parent(y)]][Slot(y)] = Entry(f, Flags(y))], Plus(N, y, f))
<1>1. PICK g : g = N[Parent(y)]
  OBVIOUS
<1>2. PICK u : u = [t EXCEPT ![g][Slot(y)] = Entry(f, Flags(y))]
  OBVIOUS
<1>3. PICK M : M = Plus(N, y, f)
  OBVIOUS
<1>4. DOMAIN M = DOMAIN N \cup {y} /\ M[y] = f /\ \A x \in DOMAIN N : M[x] = N[x]
  BY <1>3 DEF Plus
<1>5. y \in Nodes /\ Slot(y) \in Indices /\ Parent(y) # y /\ Level(Parent(y)) # 0
  BY ParentOther, NodeAt
<1>6. g \in used \ pend /\ g \in Frames
  BY <1>1, <1>5 DEF Ledger, Own
<1>7. /\ DOMAIN u = Frames /\ \A h \in Frames : DOMAIN u[h] = Indices
      /\ u[g][Slot(y)] = Entry(f, Flags(y))
      /\ \A h \in Frames, j \in Indices : h # g \/ j # Slot(y) => u[h][j] = t[h][j]
  <2>1. DOMAIN t = Frames /\ \A h \in Frames : DOMAIN t[h] = Indices
    BY DEF Tables
  <2> QED BY <1>2, <1>5, <1>6, <2>1, EntrySet
<1>8. ASSUME NEW z \in DOMAIN M, Level(z) < LEVELS
      PROVE  u[M[Parent(z)]][Slot(z)] = Entry(M[z], Flags(z))
  <2>1. CASE z = y
    BY <1>1, <1>4, <1>7, <2>1
  <2>2. CASE z # y
    <3>1. z \in DOMAIN N /\ z \in Nodes /\ Parent(z) \in DOMAIN N /\ M[z] = N[z]
      BY <1>4, <1>8, <2>2 DEF Shape
    <3>2. M[Parent(z)] = N[Parent(z)] /\ Level(Parent(z)) # 0 /\ Slot(z) \in Indices
      BY <1>4, <1>8, <3>1, ParentOther, NodeAt
    <3>3. N[Parent(z)] \in Frames
      BY <3>1, <3>2 DEF Ledger, Own
    <3>4. N[Parent(z)] # g \/ Slot(z) # Slot(y)
      <4>1. N[Parent(z)] = g => Parent(z) = Parent(y)
        BY <1>1, <1>5, <3>1, <3>2 DEF Ledger, Own
      <4> QED BY <1>5, <2>2, <3>1, <4>1, SlotSame
    <3>5. t[N[Parent(z)]][Slot(z)] = Entry(N[z], Flags(z))
      BY <1>8, <3>1 DEF Tables
    <3> QED BY <1>7, <3>1, <3>2, <3>3, <3>4, <3>5
  <2> QED BY <2>1, <2>2
<1>9. ASSUME NEW x \in DOMAIN M, NEW i \in Indices, Level(x) # 0, u[M[x]][i].present
      PROVE  \E z \in DOMAIN M : Level(z) < LEVELS /\ Parent(z) = x /\ Slot(z) = i
  <2>1. CASE x = y
    <3>1. M[x] = f /\ f \in pend /\ ~t[f][i].present
      BY <1>4, <1>9, <2>1
    <3>2. f # g /\ f \in Frames
      BY <1>6, <3>1 DEF Ledger
    <3> QED BY <1>7, <1>9, <3>1, <3>2
  <2>2. CASE x # y
    <3>1. x \in DOMAIN N /\ M[x] = N[x] /\ N[x] \in Frames
      BY <1>4, <1>9, <2>2 DEF Ledger, Own
    <3>2. CASE N[x] = g /\ i = Slot(y)
      <4>1. x = Parent(y)
        BY <1>1, <1>5, <1>9, <3>1, <3>2 DEF Ledger, Own
      <4> QED BY <1>4, <3>2, <4>1
    <3>3. CASE N[x] # g \/ i # Slot(y)
      <4>1. t[N[x]][i].present
        BY <1>7, <1>9, <3>1, <3>3
      <4>2. \E z \in DOMAIN N : Level(z) < LEVELS /\ Parent(z) = x /\ Slot(z) = i
        BY <1>9, <3>1, <4>1 DEF Tables
      <4> QED BY <1>4, <4>2
    <3> QED BY <3>2, <3>3
  <2> QED BY <2>1, <2>2
<1>10. Tables(u, M)
  BY <1>7, <1>8, <1>9 DEF Tables
<1> QED BY <1>1, <1>2, <1>3, <1>10

\* Clearing an entry removes a node without nodes below.
LEMMA ClearTable ==
    ASSUME NEW N, NEW C, NEW used, NEW pend, NEW t, NEW y \in DOMAIN N,
           Shape(N, C), Ledger(used, pend, N, C), Tables(t, N),
           Level(y) < LEVELS,
           \A z \in DOMAIN N : Level(z) < LEVELS => Parent(z) # y
    PROVE  Tables([t EXCEPT ![N[Parent(y)]][Slot(y)] = Zero], Minus(N, y))
<1>1. PICK g : g = N[Parent(y)]
  OBVIOUS
<1>2. PICK u : u = [t EXCEPT ![g][Slot(y)] = Zero]
  OBVIOUS
<1>3. PICK M : M = Minus(N, y)
  OBVIOUS
<1>4. DOMAIN M = DOMAIN N \ {y} /\ \A x \in DOMAIN N : x # y => M[x] = N[x]
  BY <1>3, MinusIs
<1>5. /\ y \in Nodes /\ Slot(y) \in Indices /\ Parent(y) # y /\ Level(Parent(y)) # 0
      /\ Parent(y) \in DOMAIN N
  BY ParentOther, NodeAt DEF Shape
<1>6. g \in Frames
  BY <1>1, <1>5 DEF Ledger, Own
<1>7. /\ DOMAIN u = Frames /\ \A h \in Frames : DOMAIN u[h] = Indices
      /\ u[g][Slot(y)] = Zero
      /\ \A h \in Frames, j \in Indices : h # g \/ j # Slot(y) => u[h][j] = t[h][j]
  <2>1. DOMAIN t = Frames /\ \A h \in Frames : DOMAIN t[h] = Indices
    BY DEF Tables
  <2> QED BY <1>2, <1>5, <1>6, <2>1, EntrySet
<1>8. ASSUME NEW z \in DOMAIN M, Level(z) < LEVELS
      PROVE  u[M[Parent(z)]][Slot(z)] = Entry(M[z], Flags(z))
  <2>1. z \in DOMAIN N /\ z \in Nodes /\ z # y /\ Parent(z) \in DOMAIN N /\ M[z] = N[z]
    BY <1>4, <1>8 DEF Shape
  <2>2. Parent(z) # y
    BY <1>8, <2>1
  <2>3. M[Parent(z)] = N[Parent(z)] /\ Level(Parent(z)) # 0 /\ Slot(z) \in Indices
    BY <1>4, <1>8, <2>1, <2>2, ParentOther, NodeAt
  <2>4. N[Parent(z)] \in Frames
    BY <2>1, <2>3 DEF Ledger, Own
  <2>5. N[Parent(z)] # g \/ Slot(z) # Slot(y)
    <3>1. N[Parent(z)] = g => Parent(z) = Parent(y)
      BY <1>1, <1>5, <2>1, <2>3 DEF Ledger, Own
    <3> QED BY <1>5, <2>1, <3>1, SlotSame
  <2>6. t[N[Parent(z)]][Slot(z)] = Entry(N[z], Flags(z))
    BY <1>8, <2>1 DEF Tables
  <2> QED BY <1>7, <2>1, <2>3, <2>4, <2>5, <2>6
<1>9. ASSUME NEW x \in DOMAIN M, NEW i \in Indices, Level(x) # 0, u[M[x]][i].present
      PROVE  \E z \in DOMAIN M : Level(z) < LEVELS /\ Parent(z) = x /\ Slot(z) = i
  <2>1. x \in DOMAIN N /\ M[x] = N[x] /\ N[x] \in Frames
    BY <1>4, <1>9 DEF Ledger, Own
  <2>2. N[x] # g \/ i # Slot(y)
    BY <1>7, <1>9, <2>1 DEF Zero
  <2>3. t[N[x]][i].present
    BY <1>7, <1>9, <2>1, <2>2
  <2>4. PICK z \in DOMAIN N : Level(z) < LEVELS /\ Parent(z) = x /\ Slot(z) = i
    BY <1>9, <2>1, <2>3 DEF Tables
  <2>5. z # y
    <3>1. SUFFICES ASSUME z = y PROVE FALSE
      OBVIOUS
    <3> QED BY <1>1, <2>2, <2>4, <3>1
  <2> QED BY <1>4, <2>4, <2>5
<1>10. Tables(u, M)
  BY <1>7, <1>8, <1>9 DEF Tables
<1> QED BY <1>1, <1>2, <1>3, <1>10

\* A frame handed out is pending.
LEMMA LedgerAlloc ==
    ASSUME NEW N, NEW C, NEW used, NEW pend, Ledger(used, pend, N, C), NEW f \in Frames \ used
    PROVE  Ledger(used \cup {f}, pend \cup {f}, N, C)
  BY DEF Ledger

\* A pending frame can be given back.
LEMMA LedgerFree ==
    ASSUME NEW N, NEW C, NEW used, NEW pend, Ledger(used, pend, N, C), NEW f \in pend
    PROVE  Ledger(used \ {f}, pend \ {f}, N, C)
  BY DEF Ledger

\* C2 is C, or C with one page more
LEMMA LedgerEnter ==
    ASSUME NEW N, NEW C, NEW C2, NEW used, NEW pend, Ledger(used, pend, N, C),
           NEW y, y \notin DOMAIN N, NEW f \in pend, Own(y, C2),
           \A x \in DOMAIN N : Own(x, C2) <=> Own(x, C),
           Level(y) = LEVELS => f = Space(y)
    PROVE  Ledger(used, pend \ {f}, Plus(N, y, f), C2)
<1>1. PICK M : M = Plus(N, y, f)
  OBVIOUS
<1>2. DOMAIN M = DOMAIN N \cup {y} /\ M[y] = f /\ \A x \in DOMAIN N : M[x] = N[x]
  BY <1>1 DEF Plus
<1>3. \A x \in DOMAIN M : Own(x, C2) => M[x] \in used \ (pend \ {f})
  BY <1>2 DEF Ledger
<1>4. \A x, z \in DOMAIN M : Own(x, C2) /\ Own(z, C2) /\ M[x] = M[z] => x = z
  BY <1>2 DEF Ledger
<1>5. \A g \in used \ (pend \ {f}) : \E x \in DOMAIN M : Own(x, C2) /\ M[x] = g
  BY <1>2 DEF Ledger
<1>6. \A x \in DOMAIN M : Level(x) = LEVELS => M[x] = Space(x)
  BY <1>2 DEF Ledger
<1> QED BY <1>1, <1>3, <1>4, <1>5, <1>6 DEF Ledger

\* Mapping somebody else's frame changes no ownership.
LEMMA LedgerShare ==
    ASSUME NEW N, NEW C, NEW used, NEW pend, Ledger(used, pend, N, C),
           NEW y, y \notin DOMAIN N, NEW f, ~Own(y, C)
    PROVE  Ledger(used, pend, Plus(N, y, f), C)
<1>1. PICK M : M = Plus(N, y, f)
  OBVIOUS
<1>2. DOMAIN M = DOMAIN N \cup {y} /\ M[y] = f /\ \A x \in DOMAIN N : M[x] = N[x]
  BY <1>1 DEF Plus
<1>3. Level(y) # LEVELS
  BY Sizes DEF Own
<1>4. \A x \in DOMAIN M : Own(x, C) => M[x] \in used \ pend
  BY <1>2 DEF Ledger
<1>5. \A x, z \in DOMAIN M : Own(x, C) /\ Own(z, C) /\ M[x] = M[z] => x = z
  BY <1>2 DEF Ledger
<1>6. \A g \in used \ pend : \E x \in DOMAIN M : Own(x, C) /\ M[x] = g
  BY <1>2 DEF Ledger
<1>7. \A x \in DOMAIN M : Level(x) = LEVELS => M[x] = Space(x)
  BY <1>2, <1>3 DEF Ledger
<1> QED BY <1>1, <1>4, <1>5, <1>6, <1>7 DEF Ledger

\* The frame of a node that leaves is pending.
LEMMA LedgerLeave ==
    ASSUME NEW N, NEW C, NEW C2, NEW used, NEW pend, Ledger(used, pend, N, C),
           NEW y \in DOMAIN N, Own(y, C),
           \A x \in DOMAIN N : x # y => (Own(x, C2) <=> Own(x, C))
    PROVE  Ledger(used, pend \cup {N[y]}, Minus(N, y), C2)
<1>1. PICK M : M = Minus(N, y)
  OBVIOUS
<1>2. DOMAIN M = DOMAIN N \ {y} /\ \A x \in DOMAIN N : x # y => M[x] = N[x]
  BY <1>1, MinusIs
<1>3. \A x \in DOMAIN M : Own(x, C2) => M[x] \in used \ (pend \cup {N[y]})
  BY <1>2 DEF Ledger
<1>4. \A x, z \in DOMAIN M : Own(x, C2) /\ Own(z, C2) /\ M[x] = M[z] => x = z
  BY <1>2 DEF Ledger
<1>5. \A g \in used \ (pend \cup {N[y]}) : \E x \in DOMAIN M : Own(x, C2) /\ M[x] = g
  BY <1>2 DEF Ledger
<1>6. \A x \in DOMAIN M : Level(x) = LEVELS => M[x] = Space(x)
  BY <1>2 DEF Ledger
<1>7. N[y] \in used
  BY DEF Ledger
<1>8. used \subseteq Frames /\ pend \cup {N[y]} \subseteq used
  BY <1>7 DEF Ledger
<1> QED BY <1>1, <1>3, <1>4, <1>5, <1>6, <1>8 DEF Ledger

\* Unmapping somebody else's frame changes no ownership.
LEMMA LedgerUnshare ==
    ASSUME NEW N, NEW C, NEW used, NEW pend, Ledger(used, pend, N, C),
           NEW y \in DOMAIN N, ~Own(y, C)
    PROVE  Ledger(used, pend, Minus(N, y), C)
<1>1. PICK M : M = Minus(N, y)
  OBVIOUS
<1>2. DOMAIN M = DOMAIN N \ {y} /\ \A x \in DOMAIN N : x # y => M[x] = N[x]
  BY <1>1, MinusIs
<1>3. \A x \in DOMAIN M : Own(x, C) => M[x] \in used \ pend
  BY <1>2 DEF Ledger
<1>4. \A x, z \in DOMAIN M : Own(x, C) /\ Own(z, C) /\ M[x] = M[z] => x = z
  BY <1>2 DEF Ledger
<1>5. \A g \in used \ pend : \E x \in DOMAIN M : Own(x, C) /\ M[x] = g
  BY <1>2 DEF Ledger
<1>6. \A x \in DOMAIN M : Level(x) = LEVELS => M[x] = Space(x)
  BY <1>2 DEF Ledger
<1> QED BY <1>1, <1>3, <1>4, <1>5, <1>6 DEF Ledger

\* The fields of a machine that paging leaves alone
Same(m, n) == n.areas = m.areas /\ n.cr3 = m.cr3 /\ n.refcnt = m.refcnt /\ n.harm = m.harm

(***************************************************************************)
(* What the operations do to the fields of a machine.                      *)
(***************************************************************************)
\* NextFree is a free frame, if there is one.
LEMMA NextFreeIs ==
    ASSUME NEW m, ~(Frames \subseteq m.used)
    PROVE  NextFree(m) \in Frames /\ NextFree(m) \notin m.used
<1> DEFINE T == Frames \ m.used
<1>1. T \in SUBSET Nat /\ T # {}
  BY VmmAssumption DEF Frames
<1>2. Min(T) \in T
  BY <1>1, LeastIn
<1> QED BY <1>2 DEF NextFree

\* pmm_alloc hands out a frame, which it clears.
LEMMA AllocIs ==
    ASSUME NEW m, DOMAIN m = Fields, ~(Frames \subseteq m.used),
           NEW f, f = NextFree(m), NEW n, n = pmm_alloc(m)
    PROVE  /\ DOMAIN n = Fields /\ Same(m, n) /\ n.oom = m.oom /\ n.p4 = m.p4
           /\ n.used = m.used \cup {f}
           /\ n.table = [m.table EXCEPT ![f] = [i \in Indices |-> Zero]]
           /\ n.data = [m.data EXCEPT ![f] = "zero"]
  BY DEF pmm_alloc, Fields, Same

\* Without free frames it fails, for good.
LEMMA AllocOom ==
    ASSUME NEW m, DOMAIN m = Fields, Frames \subseteq m.used \/ m.oom
    PROVE  pmm_alloc(m).oom /\ DOMAIN pmm_alloc(m) = Fields
  BY DEF pmm_alloc, Fields

\* pmm_free gives a frame back; that does no harm unless the frame is loaded.
LEMMA FreeIs ==
    ASSUME NEW m, DOMAIN m = Fields, NEW f, NEW n, n = pmm_free(m, f)
    PROVE  /\ DOMAIN n = Fields /\ n.used = m.used \ {f} /\ n.table = m.table
           /\ n.data = m.data /\ n.p4 = m.p4 /\ n.oom = m.oom
           /\ n.areas = m.areas /\ n.cr3 = m.cr3 /\ n.refcnt = m.refcnt
           /\ f # m.cr3 => n.harm = m.harm
  BY DEF pmm_free, Fields

\* set_entry writes into one table.
LEMMA SetEntryIs ==
    ASSUME NEW m, DOMAIN m = Fields, NEW v, NEW l, NEW e, NEW n, n = set_entry(m, v, l, e)
    PROVE  /\ DOMAIN n = Fields /\ Same(m, n) /\ n.oom = m.oom /\ n.p4 = m.p4
           /\ n.used = m.used /\ n.data = m.data
           /\ n.table = [m.table EXCEPT ![TableAt(m, v, l)][NDX(v, l)] = e]
<1> PICK g, i : g = TableAt(m, v, l) /\ i = NDX(v, l)
  OBVIOUS
<1>1. n = [m EXCEPT !.table[g][i] = e]
  BY DEF set_entry
<1> QED BY <1>1 DEF Fields, Same

\* It changes nothing else, whatever the table.
LEMMA SetEntryKeeps ==
    ASSUME NEW m, DOMAIN m = Fields, NEW v, NEW l, NEW e
    PROVE  /\ Same(m, set_entry(m, v, l, e)) /\ DOMAIN set_entry(m, v, l, e) = Fields
           /\ set_entry(m, v, l, e).oom = m.oom /\ set_entry(m, v, l, e).p4 = m.p4
           /\ set_entry(m, v, l, e).used = m.used /\ set_entry(m, v, l, e).data = m.data
<1> PICK g, i, n : g = TableAt(m, v, l) /\ i = NDX(v, l) /\ n = set_entry(m, v, l, e)
  OBVIOUS
<1>1. n = [m EXCEPT !.table[g][i] = e]
  BY DEF set_entry
<1>2. Same(m, n) /\ DOMAIN n = Fields /\ n.oom = m.oom /\ n.p4 = m.p4 /\ n.used = m.used /\ n.data = m.data
  BY <1>1 DEF Fields, Same
<1> QED BY <1>2

(***************************************************************************)
(* Finding a table.                                                        *)
(***************************************************************************)
\* With a node there are all those above it.
LEMMA UpIn ==
    ASSUME NEW N, NEW C, Shape(N, C), NEW r, NEW v \in Pages, NEW l \in 0 .. LEVELS,
           At(r, v, l) \in DOMAIN N, NEW k \in l .. LEVELS
    PROVE  At(r, v, k) \in DOMAIN N
<1> DEFINE P == {i \in 0 .. LEVELS - l : At(r, v, l + i) \in DOMAIN N}
<1>1. 0 \in P /\ LEVELS - l \in Nat
  BY Sizes
<1>2. ASSUME NEW i \in 1 .. LEVELS - l, i - 1 \in P PROVE i \in P
  <2>1. l + (i - 1) \in 0 .. LEVELS - 1 /\ l + (i - 1) + 1 = l + i
    BY Sizes
  <2>2. At(r, v, l + (i - 1)) \in DOMAIN N
    BY <1>2
  <2>3. Level(At(r, v, l + (i - 1))) < LEVELS
    BY <2>1, AtFields, Sizes
  <2>4. Parent(At(r, v, l + (i - 1))) \in DOMAIN N
    BY <2>2, <2>3 DEF Shape
  <2>5. Parent(At(r, v, l + (i - 1))) = At(r, v, l + (i - 1) + 1)
    BY <2>1, AtParent
  <2> QED BY <2>1, <2>4, <2>5
<1> HIDE DEF P
<1>3. \A i \in 0 .. LEVELS - l : i \in P
  BY <1>1, <1>2, Upto
<1>4. k - l \in 0 .. LEVELS - l /\ l + (k - l) = k
  BY Sizes
<1> QED BY <1>3, <1>4 DEF P

\* A space with a node has its top table.
LEMMA RootIn ==
    ASSUME NEW N, NEW C, Shape(N, C), NEW x \in DOMAIN N
    PROVE  Root(Space(x)) \in DOMAIN N
<1>1. x \in Nodes
  BY DEF Shape
<1>2. PICK v \in Pages : x = At(Space(x), v, Level(x))
  BY <1>1, NodeAt
<1>3. Level(x) \in 0 .. LEVELS /\ LEVELS \in Level(x) .. LEVELS
  BY <1>1, NodeAt, Sizes
<1>4. At(Space(x), v, LEVELS) \in DOMAIN N
  BY <1>2, <1>3, UpIn
<1> QED BY <1>4, AtTop

\* The walk down finds the table's frame.
LEMMA TableAtIs ==
    ASSUME NEW m, NEW N, NEW C, NEW used, NEW pend,
           Shape(N, C), Ledger(used, pend, N, C), Tables(m.table, N),
           NEW v \in Pages, NEW l \in 1 .. LEVELS, At(m.p4, v, l) \in DOMAIN N
    PROVE  TableAt(m, v, l) = N[At(m.p4, v, l)]
<1> PICK r : r = m.p4
  OBVIOUS
<1> DEFINE P == {d \in 0 .. LEVELS - 1 : At(r, v, LEVELS - d) \in DOMAIN N =>
                    Path(m, v)[d] = N[At(r, v, LEVELS - d)]}
<1>1. 0 \in P
  <2>1. Path(m, v)[0] = r
    BY PathIs, Sizes
  <2>2. ASSUME At(r, v, LEVELS) \in DOMAIN N PROVE N[At(r, v, LEVELS)] = r
    BY <2>2, AtFields DEF Ledger
  <2>3. LEVELS - 0 = LEVELS /\ 0 \in 0 .. LEVELS - 1
    BY Sizes
  <2> QED BY <2>1, <2>2, <2>3
<1>2. ASSUME NEW d \in 1 .. LEVELS - 1, d - 1 \in P PROVE d \in P
  <2>1. PICK k : k = LEVELS - d
    OBVIOUS
  <2>2. k \in 0 .. LEVELS - 1 /\ k + 1 = LEVELS - (d - 1) /\ k + 1 = LEVELS - d + 1 /\ d \in 0 .. LEVELS - 1
    BY <2>1, Sizes
  <2>3. Path(m, v)[d] = m.table[Path(m, v)[d - 1]][NDX(v, k + 1)].frame
    BY <2>2, PathIs, Sizes
  <2>4. SUFFICES ASSUME At(r, v, k) \in DOMAIN N PROVE Path(m, v)[d] = N[At(r, v, k)]
    BY <2>1, <2>2
  <2>5. Level(At(r, v, k)) < LEVELS
    BY <2>2, AtFields, Sizes
  <2>6. Parent(At(r, v, k)) = At(r, v, k + 1) /\ Slot(At(r, v, k)) = NDX(v, k + 1)
    BY <2>2, AtParent
  <2>7. At(r, v, k + 1) \in DOMAIN N
    BY <2>4, <2>5, <2>6 DEF Shape
  <2>8. Path(m, v)[d - 1] = N[At(r, v, k + 1)]
    BY <1>2, <2>2, <2>7
  <2>9. m.table[N[At(r, v, k + 1)]][NDX(v, k + 1)] = Entry(N[At(r, v, k)], Flags(At(r, v, k)))
    BY <2>4, <2>5, <2>6 DEF Tables
  <2> QED BY <2>3, <2>8, <2>9 DEF Entry
<1> HIDE DEF P
<1>3. \A d \in 0 .. LEVELS - 1 : d \in P
  BY <1>1, <1>2, Upto, Sizes
<1>4. LEVELS - l \in 0 .. LEVELS - 1 /\ LEVELS - (LEVELS - l) = l
  BY Sizes
<1>5. Path(m, v)[LEVELS - l] = N[At(r, v, l)]
  BY <1>3, <1>4 DEF P
<1> QED BY <1>5 DEF TableAt

\* get_entry finds the node below, if there is one.
LEMMA EntryAt ==
    ASSUME NEW m, NEW N, NEW C, NEW used, NEW pend,
           Shape(N, C), Ledger(used, pend, N, C), Tables(m.table, N),
           NEW v \in Pages, NEW l \in 1 .. LEVELS, At(m.p4, v, l) \in DOMAIN N
    PROVE  /\ get_entry(m, v, l).present <=> At(m.p4, v, l - 1) \in DOMAIN N
           /\ At(m.p4, v, l - 1) \in DOMAIN N =>
                 get_entry(m, v, l) = Entry(N[At(m.p4, v, l - 1)], Flags(At(m.p4, v, l - 1)))
<1> PICK r, x, y : r = m.p4 /\ x = At(r, v, l) /\ y = At(r, v, l - 1)
  OBVIOUS
<1>1. get_entry(m, v, l) = m.table[N[x]][NDX(v, l)]
  BY TableAtIs DEF get_entry
<1>2. l - 1 \in 0 .. LEVELS - 1 /\ l - 1 + 1 = l /\ l \in 0 .. LEVELS /\ l - 1 \in 0 .. LEVELS
  BY Sizes
<1>3. Parent(y) = x /\ Slot(y) = NDX(v, l) /\ Slot(y) \in Indices
  BY <1>2, AtParent
<1>4. Level(y) < LEVELS /\ Level(x) # 0
  BY <1>2, AtFields, Sizes
<1>5. y \in Nodes
  <2>1. Space(x) = r /\ x \in Nodes
    BY AtFields DEF Shape
  <2> QED BY <1>2, <2>1, NodeAt, AtNode
<1>6. y \in DOMAIN N => m.table[N[x]][NDX(v, l)] = Entry(N[y], Flags(y))
  BY <1>3, <1>4 DEF Tables
<1>7. ASSUME m.table[N[x]][NDX(v, l)].present PROVE y \in DOMAIN N
  <2>1. PICK z \in DOMAIN N : Level(z) < LEVELS /\ Parent(z) = x /\ Slot(z) = NDX(v, l)
    BY <1>3, <1>4, <1>7 DEF Tables
  <2>2. z \in Nodes
    BY <2>1 DEF Shape
  <2> QED BY <1>3, <1>5, <2>1, <2>2, SlotSame
<1>8. Entry(N[y], Flags(y)).present
  BY DEF Entry
<1> QED BY <1>1, <1>6, <1>7, <1>8

(***************************************************************************)
(* One change of the forest at a time.                                     *)
(***************************************************************************)
\* pmm_alloc on the forest: a new frame is pending, belongs to no node and is
\* empty.
LEMMA AllocTree ==
    ASSUME NEW m, NEW N, NEW C, NEW pend, Tree(m, N, C, pend), ~(Frames \subseteq m.used),
           NEW f, f = NextFree(m), NEW n, n = pmm_alloc(m)
    PROVE  /\ Tree(n, N, C, pend \cup {f})
           /\ f \in Frames \ m.used /\ f \notin pend
           /\ \A i \in Indices : ~n.table[f][i].present
           /\ n.data[f] = "zero" /\ \A g \in m.used : n.data[g] = m.data[g]
           /\ n.used = m.used \cup {f}
           /\ \A x \in DOMAIN N : Space(x) # f
<1>1. f \in Frames /\ f \notin m.used
  BY NextFreeIs
<1>2. /\ DOMAIN n = Fields /\ n.used = m.used \cup {f}
      /\ n.table = [m.table EXCEPT ![f] = [i \in Indices |-> Zero]]
      /\ n.data = [m.data EXCEPT ![f] = "zero"]
  BY AllocIs DEF Tree
<1>3. Shape(N, C) /\ Ledger(m.used, pend, N, C) /\ Tables(m.table, N) /\ Contents(m.data, N, C)
  BY DEF Tree
<1>4. Ledger(n.used, pend \cup {f}, N, C)
  BY <1>1, <1>2, <1>3, LedgerAlloc
<1>5. /\ DOMAIN n.table = Frames /\ \A g \in Frames : DOMAIN n.table[g] = Indices
      /\ \A g \in Frames : g # f => n.table[g] = m.table[g]
      /\ \A i \in Indices : n.table[f][i] = Zero
  <2>1. DOMAIN m.table = Frames /\ \A g \in Frames : DOMAIN m.table[g] = Indices
    BY <1>3 DEF Tables
  <2> QED BY <1>1, <1>2, <2>1
<1>6. ASSUME NEW x \in DOMAIN N, Own(x, C) PROVE N[x] \in Frames /\ N[x] # f
  BY <1>1, <1>3, <1>6 DEF Ledger
<1>7. Tables(n.table, N)
  <2>1. ASSUME NEW y \in DOMAIN N, Level(y) < LEVELS
        PROVE  n.table[N[Parent(y)]][Slot(y)] = Entry(N[y], Flags(y))
    <3>1. Parent(y) \in DOMAIN N /\ y \in Nodes
      BY <1>3, <2>1 DEF Shape
    <3>2. Own(Parent(y), C)
      BY <2>1, <3>1, ParentOther DEF Own
    <3>3. n.table[N[Parent(y)]] = m.table[N[Parent(y)]]
      BY <1>5, <1>6, <3>1, <3>2
    <3> QED BY <1>3, <2>1, <3>3 DEF Tables
  <2>2. ASSUME NEW x \in DOMAIN N, NEW i \in Indices, Level(x) # 0, n.table[N[x]][i].present
        PROVE  \E y \in DOMAIN N : Level(y) < LEVELS /\ Parent(y) = x /\ Slot(y) = i
    <3>1. n.table[N[x]] = m.table[N[x]]
      BY <1>5, <1>6, <2>2 DEF Own
    <3> QED BY <1>3, <2>2, <3>1 DEF Tables
  <2> QED BY <1>5, <2>1, <2>2 DEF Tables
<1>8. DOMAIN n.data = Frames /\ n.data[f] = "zero" /\ \A g \in Frames : g # f => n.data[g] = m.data[g]
  <2>1. DOMAIN m.data = Frames
    BY <1>3 DEF Contents
  <2> QED BY <1>1, <1>2, <2>1
<1>9. Contents(n.data, N, C)
  <2>1. ASSUME NEW x \in DOMAIN C PROVE n.data[N[x]] = C[x]
    <3>1. x \in DOMAIN N /\ Own(x, C)
      BY <1>3 DEF Shape, Own
    <3>2. N[x] \in Frames /\ N[x] # f
      BY <1>6, <3>1
    <3> QED BY <1>3, <1>8, <3>2 DEF Contents
  <2> QED BY <1>8, <2>1 DEF Contents
<1>10. \A x \in DOMAIN N : Space(x) # f
  <2>1. SUFFICES ASSUME NEW x \in DOMAIN N, Space(x) = f PROVE FALSE
    OBVIOUS
  <2>2. Root(f) \in DOMAIN N
    BY <1>3, <2>1, RootIn
  <2>3. Level(Root(f)) = LEVELS /\ Space(Root(f)) = f
    BY DEF Root, Level, Space
  <2>4. N[Root(f)] = f
    BY <1>3, <2>2, <2>3 DEF Ledger
  <2>5. Own(Root(f), C)
    BY <2>3, Sizes DEF Own
  <2> QED BY <1>6, <2>2, <2>4, <2>5
<1>11. f \notin pend /\ \A g \in m.used : g \in Frames /\ g # f
  BY <1>1, <1>3 DEF Ledger
<1>12. Tree(n, N, C, pend \cup {f})
  BY <1>2, <1>3, <1>4, <1>7, <1>9 DEF Tree
<1>13. \A i \in Indices : ~n.table[f][i].present
  BY <1>5 DEF Zero
<1> QED BY <1>1, <1>2, <1>8, <1>10, <1>11, <1>12, <1>13

\* A frame becomes the table of an address space.
LEMMA EnterRoot ==
    ASSUME NEW m, NEW N, NEW C, NEW pend, Tree(m, N, C, pend), NEW f \in pend,
           \A i \in Indices : ~m.table[f][i].present,
           \A x \in DOMAIN N : Space(x) # f, NEW v \in Pages
    PROVE  Tree([m EXCEPT !.p4 = f], Plus(N, At(f, v, LEVELS), f), C, pend \ {f})
<1> PICK y, M, n : y = At(f, v, LEVELS) /\ M = Plus(N, y, f) /\ n = [m EXCEPT !.p4 = f]
  OBVIOUS
<1>1. /\ DOMAIN m = Fields /\ Shape(N, C) /\ Ledger(m.used, pend, N, C)
      /\ Tables(m.table, N) /\ Contents(m.data, N, C)
  BY DEF Tree
<1>2. DOMAIN n = Fields /\ n.used = m.used /\ n.table = m.table /\ n.data = m.data
  BY <1>1 DEF Fields
<1>3. Level(y) = LEVELS /\ Space(y) = f /\ LEVELS # 0 /\ LEVELS \in 0 .. LEVELS
  BY AtFields, Sizes
<1>4. y \notin DOMAIN N
  BY <1>3
<1>5. y \in Nodes
  <2>1. f \in Frames
    BY <1>1 DEF Ledger
  <2> QED BY <1>3, <2>1, AtNode
<1>6. DOMAIN M = DOMAIN N \cup {y} /\ M[y] = f /\ \A x \in DOMAIN N : M[x] = N[x]
  BY <1>4 DEF Plus
<1>7. Shape(M, C)
  <2>1. \A x \in DOMAIN M : Level(x) < LEVELS => Parent(x) \in DOMAIN M
    BY <1>1, <1>3, <1>6, Sizes DEF Shape
  <2> QED BY <1>1, <1>5, <1>6, <2>1 DEF Shape
<1>8. Ledger(m.used, pend \ {f}, M, C)
  <2>1. Own(y, C)
    BY <1>3 DEF Own
  <2> QED BY <1>1, <1>3, <1>4, <2>1, LedgerEnter
<1>9. Tables(m.table, M)
  <2>1. ASSUME NEW z \in DOMAIN M, Level(z) < LEVELS
        PROVE  m.table[M[Parent(z)]][Slot(z)] = Entry(M[z], Flags(z))
    <3>1. z \in DOMAIN N
      BY <1>3, <1>6, <2>1, Sizes
    <3>2. Parent(z) \in DOMAIN N
      BY <1>1, <2>1, <3>1 DEF Shape
    <3> QED BY <1>1, <1>6, <2>1, <3>1, <3>2 DEF Tables
  <2>2. ASSUME NEW x \in DOMAIN M, NEW i \in Indices, Level(x) # 0, m.table[M[x]][i].present
        PROVE  \E z \in DOMAIN M : Level(z) < LEVELS /\ Parent(z) = x /\ Slot(z) = i
    <3>1. x \in DOMAIN N /\ M[x] = N[x]
      BY <1>6, <2>2
    <3>2. \E z \in DOMAIN N : Level(z) < LEVELS /\ Parent(z) = x /\ Slot(z) = i
      BY <1>1, <2>2, <3>1 DEF Tables
    <3> QED BY <1>6, <3>2
  <2> QED BY <1>1, <2>1, <2>2 DEF Tables
<1>10. Contents(m.data, M, C)
  BY <1>1, <1>6 DEF Contents, Shape
<1> QED BY <1>2, <1>7, <1>8, <1>9, <1>10 DEF Tree

\* An entry leads to a new node: a table, a page with a frame of its own or a page
\* that is mapped to somebody else's frame.
LEMMA EnterNode ==
    ASSUME NEW m, NEW N, NEW C, NEW pend, Tree(m, N, C, pend),
           NEW a \in AllAreas, NEW v \in PagesOf(a), NEW l \in 0 .. LEVELS - 1,
           At(m.p4, v, l + 1) \in DOMAIN N, At(m.p4, v, l) \notin DOMAIN N,
           NEW f, NEW C2, NEW pend2,
           \/ /\ l # 0 /\ f \in pend /\ \A i \in Indices : ~m.table[f][i].present
              /\ C2 = C /\ pend2 = pend \ {f}
           \/ l = 0 /\ f \in pend /\ C2 = Plus(C, At(m.p4, v, l), m.data[f]) /\ pend2 = pend \ {f}
           \/ l = 0 /\ C2 = C /\ pend2 = pend
    PROVE  Tree(set_entry(m, v, l + 1, Entry(f, a)), Plus(N, At(m.p4, v, l), f), C2, pend2)
<1> PICK r : r = m.p4
  OBVIOUS
<1> PICK y, M : y = At(r, v, l) /\ M = Plus(N, y, f)
  OBVIOUS
<1> PICK n : n = set_entry(m, v, l + 1, Entry(f, a))
  OBVIOUS
<1>1. /\ DOMAIN m = Fields /\ Shape(N, C) /\ Ledger(m.used, pend, N, C)
      /\ Tables(m.table, N) /\ Contents(m.data, N, C)
  BY DEF Tree
<1>2. v \in Pages /\ l + 1 \in 1 .. LEVELS /\ l \in 0 .. LEVELS
  BY Sizes, LayoutAssumption
<1>3. Parent(y) = At(r, v, l + 1) /\ Slot(y) = NDX(v, l + 1)
  BY <1>2, AtParent
<1>4. TableAt(m, v, l + 1) = N[Parent(y)]
  BY <1>1, <1>2, <1>3, TableAtIs
<1>5. Entry(f, a) = Entry(f, Flags(y))
  <2>1. Flags(y) = [write |-> a.write, user |-> a.user]
    BY FlagsAre
  <2> QED BY <2>1 DEF Entry
<1>6. /\ DOMAIN n = Fields /\ n.used = m.used /\ n.data = m.data
      /\ n.table = [m.table EXCEPT ![N[Parent(y)]][Slot(y)] = Entry(f, Flags(y))]
  BY <1>1, <1>3, <1>4, <1>5, SetEntryIs
<1>7. Level(y) = l /\ Level(y) < LEVELS /\ Space(y) = r
  BY AtFields, Sizes
<1>8. y \in Nodes
  <2>1. Space(Parent(y)) = r /\ Parent(y) \in Nodes
    BY <1>1, <1>3, AtFields DEF Shape
  <2> QED BY <1>2, <2>1, NodeAt, AtNode
<1>9. DOMAIN M = DOMAIN N \cup {y} /\ M[y] = f /\ \A x \in DOMAIN N : M[x] = N[x]
  BY DEF Plus
<1>10. Tables(n.table, M)
  <2>1. y \in Nodes \ DOMAIN N /\ Parent(y) \in DOMAIN N
    BY <1>3, <1>8
  <2>2. Level(y) # 0 => f \in pend /\ \A i \in Indices : ~m.table[f][i].present
    BY <1>7
  <2>3. Tables([m.table EXCEPT ![N[Parent(y)]][Slot(y)] = Entry(f, Flags(y))], Plus(N, y, f))
    BY <1>1, <1>7, <2>1, <2>2, EnterTable
  <2> QED BY <1>6, <2>3
<1>11. CASE l # 0
  <2>1. f \in pend /\ C2 = C /\ pend2 = pend \ {f}
    BY <1>11
  <2>2. Shape(M, C)
    BY <1>1, <1>3, <1>8, <1>9 DEF Shape
  <2>3. Ledger(m.used, pend2, M, C)
    <3>1. Own(y, C) /\ Level(y) # LEVELS
      BY <1>7, <1>11, Sizes DEF Own
    <3> QED BY <1>1, <2>1, <3>1, LedgerEnter
  <2>4. Contents(m.data, M, C)
    BY <1>1, <1>9 DEF Contents, Shape
  <2> QED BY <1>6, <1>10, <2>1, <2>2, <2>3, <2>4 DEF Tree
<1>12. CASE l = 0 /\ f \in pend /\ C2 = Plus(C, y, m.data[f]) /\ pend2 = pend \ {f}
  <2>1. y \notin DOMAIN C
    BY <1>1 DEF Shape
  <2>2. DOMAIN C2 = DOMAIN C \cup {y} /\ C2[y] = m.data[f] /\ \A x \in DOMAIN C : C2[x] = C[x]
    BY <1>12, <2>1 DEF Plus
  <2>3. Shape(M, C2)
    BY <1>1, <1>3, <1>7, <1>8, <1>9, <1>12, <2>2 DEF Shape
  <2>4. Ledger(m.used, pend2, M, C2)
    <3>1. Own(y, C2) /\ Level(y) # LEVELS /\ \A x \in DOMAIN N : Own(x, C2) <=> Own(x, C)
      BY <1>7, <1>12, <2>2, Sizes DEF Own
    <3> QED BY <1>1, <1>12, <3>1, LedgerEnter
  <2>5. Contents(m.data, M, C2)
    <3>1. \A x \in DOMAIN C : x \in DOMAIN N
      BY <1>1 DEF Shape
    <3> QED BY <1>1, <1>9, <2>2, <3>1 DEF Contents
  <2> QED BY <1>6, <1>10, <2>3, <2>4, <2>5 DEF Tree
<1>13. CASE l = 0 /\ C2 = C /\ pend2 = pend
  <2>1. y \notin DOMAIN C
    BY <1>1 DEF Shape
  <2>2. Shape(M, C)
    BY <1>1, <1>3, <1>8, <1>9 DEF Shape
  <2>3. Ledger(m.used, pend, M, C)
    <3>1. ~Own(y, C)
      BY <1>7, <1>13, <2>1 DEF Own
    <3> QED BY <1>1, <3>1, LedgerShare
  <2>4. Contents(m.data, M, C)
    BY <1>1, <1>9 DEF Contents, Shape
  <2> QED BY <1>6, <1>10, <1>13, <2>2, <2>3, <2>4 DEF Tree
<1> QED BY <1>11, <1>12, <1>13

\* An entry is cleared.
LEMMA LeaveNode ==
    ASSUME NEW m, NEW N, NEW C, NEW pend, Tree(m, N, C, pend),
           NEW v \in Pages, NEW l \in 0 .. LEVELS - 1, At(m.p4, v, l) \in DOMAIN N,
           \A z \in DOMAIN N : Level(z) < LEVELS => Parent(z) # At(m.p4, v, l),
           NEW C2, DOMAIN C2 = DOMAIN C \ {At(m.p4, v, l)}, \A x \in DOMAIN C2 : C2[x] = C[x],
           NEW pend2,
           pend2 = IF Own(At(m.p4, v, l), C) THEN pend \cup {N[At(m.p4, v, l)]} ELSE pend
    PROVE  Tree(set_entry(m, v, l + 1, Zero), Minus(N, At(m.p4, v, l)), C2, pend2)
<1> PICK r : r = m.p4
  OBVIOUS
<1> PICK y, M : y = At(r, v, l) /\ M = Minus(N, y)
  OBVIOUS
<1> PICK n : n = set_entry(m, v, l + 1, Zero)
  OBVIOUS
<1>1. /\ DOMAIN m = Fields /\ Shape(N, C) /\ Ledger(m.used, pend, N, C)
      /\ Tables(m.table, N) /\ Contents(m.data, N, C)
  BY DEF Tree
<1>2. l + 1 \in 1 .. LEVELS /\ l \in 0 .. LEVELS
  BY Sizes
<1>3. Parent(y) = At(r, v, l + 1) /\ Slot(y) = NDX(v, l + 1)
  BY <1>2, AtParent
<1>4. Level(y) = l /\ Level(y) < LEVELS /\ y \in Nodes
  BY <1>1, AtFields, Sizes DEF Shape
<1>5. Parent(y) \in DOMAIN N
  BY <1>1, <1>4 DEF Shape
<1>6. TableAt(m, v, l + 1) = N[Parent(y)]
  BY <1>1, <1>2, <1>3, <1>5, TableAtIs
<1>7. /\ DOMAIN n = Fields /\ n.used = m.used /\ n.data = m.data
      /\ n.table = [m.table EXCEPT ![N[Parent(y)]][Slot(y)] = Zero]
  BY <1>1, <1>3, <1>6, SetEntryIs
<1>8. DOMAIN M = DOMAIN N \ {y} /\ \A x \in DOMAIN N : x # y => M[x] = N[x]
  BY DEF Minus
<1>9. Tables(n.table, M)
  <2>1. Tables([m.table EXCEPT ![N[Parent(y)]][Slot(y)] = Zero], Minus(N, y))
    BY <1>1, <1>4, ClearTable
  <2> QED BY <1>7, <2>1
<1>10. Shape(M, C2)
  <2>1. \A x \in DOMAIN M : Level(x) < LEVELS => Parent(x) \in DOMAIN M
    BY <1>1, <1>8 DEF Shape
  <2> QED BY <1>1, <1>8, <2>1 DEF Shape
<1>11. Contents(m.data, M, C2)
  <2>1. \A x \in DOMAIN C2 : x \in DOMAIN C /\ x \in DOMAIN N /\ x # y
    BY <1>1 DEF Shape
  <2> QED BY <1>1, <1>8, <2>1 DEF Contents
<1>12. Ledger(m.used, pend2, M, C2)
  <2>1. \A x \in DOMAIN N : x # y => (Own(x, C2) <=> Own(x, C))
    BY DEF Own
  <2>2. CASE Own(y, C)
    BY <1>1, <2>1, <2>2, LedgerLeave
  <2>3. CASE ~Own(y, C)
    <3>1. Ledger(m.used, pend, M, C)
      BY <1>1, <2>3, LedgerUnshare
    <3>2. \A x \in DOMAIN M : Own(x, C2) <=> Own(x, C)
      BY <1>8, <2>1
    <3>3. Ledger(m.used, pend, M, C2)
      BY <3>1, <3>2 DEF Ledger
    <3> QED BY <2>3, <3>3
  <2> QED BY <2>2, <2>3
<1> QED BY <1>7, <1>9, <1>10, <1>11, <1>12 DEF Tree

\* A frame that is in no table is given back.
LEMMA FreeTree ==
    ASSUME NEW m, NEW N, NEW C, NEW pend, Tree(m, N, C, pend), NEW f \in pend
    PROVE  Tree(pmm_free(m, f), N, C, pend \ {f})
<1> PICK n : n = pmm_free(m, f)
  OBVIOUS
<1>1. DOMAIN n = Fields /\ n.used = m.used \ {f} /\ n.table = m.table /\ n.data = m.data
  BY FreeIs DEF Tree
<1> QED BY <1>1, LedgerFree DEF Tree

\* The top table is left.
LEMMA LeaveRoot ==
    ASSUME NEW m, NEW N, NEW C, NEW pend, Tree(m, N, C, pend),
           NEW v \in Pages, At(m.p4, v, LEVELS) \in DOMAIN N,
           \A z \in DOMAIN N : Level(z) < LEVELS => Parent(z) # At(m.p4, v, LEVELS)
    PROVE  Tree(m, Minus(N, At(m.p4, v, LEVELS)), C, pend \cup {m.p4})
<1> PICK r : r = m.p4
  OBVIOUS
<1> PICK y, M : y = At(r, v, LEVELS) /\ M = Minus(N, y)
  OBVIOUS
<1>1. /\ DOMAIN m = Fields /\ Shape(N, C) /\ Ledger(m.used, pend, N, C)
      /\ Tables(m.table, N) /\ Contents(m.data, N, C)
  BY DEF Tree
<1>2. Level(y) = LEVELS /\ Space(y) = r /\ LEVELS # 0
  BY AtFields, Sizes
<1>3. N[y] = r /\ Own(y, C) /\ y \notin DOMAIN C
  BY <1>1, <1>2 DEF Ledger, Own, Shape
<1>4. DOMAIN M = DOMAIN N \ {y} /\ \A x \in DOMAIN N : x # y => M[x] = N[x]
  BY DEF Minus
<1>5. Ledger(m.used, pend \cup {r}, M, C)
  BY <1>1, <1>3, LedgerLeave
<1>6. Shape(M, C)
  BY <1>1, <1>3, <1>4 DEF Shape
<1>7. Contents(m.data, M, C)
  BY <1>1, <1>3, <1>4 DEF Contents, Shape
<1>8. Tables(m.table, M)
  <2>1. ASSUME NEW z \in DOMAIN M, Level(z) < LEVELS
        PROVE  m.table[M[Parent(z)]][Slot(z)] = Entry(M[z], Flags(z))
    <3>1. z \in DOMAIN N /\ Parent(z) \in DOMAIN N /\ Parent(z) # y
      BY <1>1, <1>4, <2>1 DEF Shape
    <3> QED BY <1>1, <1>4, <2>1, <3>1 DEF Tables
  <2>2. ASSUME NEW x \in DOMAIN M, NEW i \in Indices, Level(x) # 0, m.table[M[x]][i].present
        PROVE  \E z \in DOMAIN M : Level(z) < LEVELS /\ Parent(z) = x /\ Slot(z) = i
    <3>1. x \in DOMAIN N /\ M[x] = N[x]
      BY <1>4, <2>2
    <3>2. \E z \in DOMAIN N : Level(z) < LEVELS /\ Parent(z) = x /\ Slot(z) = i
      BY <1>1, <2>2, <3>1 DEF Tables
    <3> QED BY <1>2, <1>4, <3>2, Sizes
  <2> QED BY <1>1, <2>1, <2>2 DEF Tables
<1> QED BY <1>1, <1>5, <1>6, <1>7, <1>8 DEF Tree

(***************************************************************************)
(* Mapping and unmapping a page.  M gives what each mapped page is mapped  *)
(* to; the tables are those it needs.                                      *)
(***************************************************************************)
\* Below every table there is a page.
Needed(x, N) ==
    \E v \in Pages : At(Space(x), v, 0) \in DOMAIN N /\ x = At(Space(x), v, Level(x))

\* M are the pages among the nodes.
Leaves(M, N) ==
    /\ DOMAIN M = {x \in DOMAIN N : Level(x) = 0}
    /\ \A x \in DOMAIN M : M[x] = N[x]

\* The memory is a forest whose pages are M and whose tables are those that M
\* needs.
Good(m, M, C, pend) ==
    \E N : /\ Tree(m, N, C, pend) /\ Leaves(M, N)
           /\ \A x \in DOMAIN N : Level(x) # 0 => Needed(x, N)

\* The space r has a page.
HasSpace(M, r) == \E w \in Pages : At(r, w, 0) \in DOMAIN M

\* What the making of tables keeps of the machine m
Kept(m, n) ==
    /\ Same(m, n)
    /\ m.used \subseteq n.used /\ \A g \in m.used : n.data[g] = m.data[g]

\* The tables on the way to v down to a level are there, besides what was before.
Descended(n, m, N0, C, pend, v, l) ==
    /\ ~n.oom /\ Kept(m, n)
    /\ IF m.p4 = NONE THEN \A x \in DOMAIN N0 : Space(x) # n.p4 ELSE n.p4 = m.p4
    /\ \E N : /\ Tree(n, N, C, pend)
              /\ DOMAIN N = DOMAIN N0 \cup {At(n.p4, v, k) : k \in l .. LEVELS}
              /\ \A x \in DOMAIN N0 : N[x] = N0[x]

\* ensure_p4 starts the way down.
LEMMA DescendTop ==
    ASSUME NEW m, NEW N, NEW C, NEW pend, Tree(m, N, C, pend), ~m.oom,
           NEW v \in Pages, m.p4 = NONE \/ At(m.p4, v, LEVELS) \in DOMAIN N,
           ~ensure_p4(m).oom
    PROVE  Descended(ensure_p4(m), m, N, C, pend, v, LEVELS)
<1>0. LEVELS .. LEVELS = {LEVELS}
  BY Sizes
<1>1. CASE m.p4 # NONE
  <2>1. ensure_p4(m) = m
    BY <1>1 DEF ensure_p4
  <2>2. DOMAIN N = DOMAIN N \cup {At(m.p4, v, k) : k \in LEVELS .. LEVELS}
    BY <1>0, <1>1
  <2>3. Kept(m, m)
    BY DEF Kept, Same
  <2> QED BY <1>1, <2>1, <2>2, <2>3 DEF Descended
<1>2. CASE m.p4 = NONE
  <2>1. PICK f, n, q : f = NextFree(m) /\ n = pmm_alloc(m) /\ q = [n EXCEPT !.p4 = f]
    OBVIOUS
  <2>2. ~(Frames \subseteq m.used) /\ ensure_p4(m) = q
    BY <1>2, <2>1, AllocOom DEF ensure_p4, Tree
  <2>3. /\ Tree(n, N, C, pend \cup {f}) /\ f \notin pend
        /\ \A i \in Indices : ~n.table[f][i].present
        /\ \A g \in m.used : n.data[g] = m.data[g]
        /\ n.used = m.used \cup {f}
        /\ \A x \in DOMAIN N : Space(x) # f
    BY <2>1, <2>2, AllocTree
  <2>4. DOMAIN n = Fields /\ Same(m, n) /\ n.oom = m.oom
    BY <2>1, <2>2, AllocIs DEF Tree
  <2>5. Tree(q, Plus(N, At(f, v, LEVELS), f), C, (pend \cup {f}) \ {f})
    BY <2>1, <2>3, EnterRoot
  <2>6. (pend \cup {f}) \ {f} = pend
    BY <2>3
  <2>7. Tree(q, Plus(N, At(f, v, LEVELS), f), C, pend)
    BY <2>5, <2>6
  <2>8. q.p4 = f /\ ~q.oom /\ Kept(m, q)
    BY <2>1, <2>3, <2>4 DEF Kept, Same, Fields
  <2>9. At(f, v, LEVELS) \notin DOMAIN N
    BY <2>3, AtFields
  <2>10. PICK N2 : N2 = Plus(N, At(f, v, LEVELS), f)
    OBVIOUS
  <2>11. DOMAIN N2 = DOMAIN N \cup {At(f, v, k) : k \in LEVELS .. LEVELS}
         /\ \A x \in DOMAIN N : N2[x] = N[x]
    BY <1>0, <2>9, <2>10 DEF Plus
  <2>12. Tree(q, N2, C, pend)
    BY <2>7, <2>10
  <2>13. \E T : /\ Tree(q, T, C, pend)
                /\ DOMAIN T = DOMAIN N \cup {At(q.p4, v, k) : k \in LEVELS .. LEVELS}
                /\ \A x \in DOMAIN N : T[x] = N[x]
    <3>1. DOMAIN N2 = DOMAIN N \cup {At(q.p4, v, k) : k \in LEVELS .. LEVELS}
      BY <2>8, <2>11
    <3> QED BY <2>11, <2>12, <3>1, Zenon
  <2>14. \A x \in DOMAIN N : Space(x) # q.p4
    BY <2>3, <2>8
  <2> QED BY <1>2, <2>2, <2>8, <2>13, <2>14, Zenon DEF Descended
<1> QED BY <1>1, <1>2

\* ensure_table goes down by one level.
LEMMA DescendStep ==
    ASSUME NEW n, NEW m, NEW N0, NEW C, NEW pend, NEW a \in AllAreas, NEW v \in PagesOf(a),
           NEW l \in 2 .. LEVELS, Descended(n, m, N0, C, pend, v, l),
           ~ensure_table(n, v, l, a).oom
    PROVE  Descended(ensure_table(n, v, l, a), m, N0, C, pend, v, l - 1)
<1>0. /\ v \in Pages /\ l \in 1 .. LEVELS /\ l - 1 \in 0 .. LEVELS - 1 /\ l - 1 + 1 = l
      /\ l - 1 \in Nat /\ l - 1 # 0
      /\ (l - 1) .. LEVELS = (l .. LEVELS) \cup {l - 1} /\ l \in l .. LEVELS
  BY Sizes, LayoutAssumption
<1>1. /\ ~n.oom /\ Kept(m, n)
      /\ IF m.p4 = NONE THEN \A x \in DOMAIN N0 : Space(x) # n.p4 ELSE n.p4 = m.p4
  BY DEF Descended
<1>2. PICK N : /\ Tree(n, N, C, pend)
               /\ DOMAIN N = DOMAIN N0 \cup {At(n.p4, v, k) : k \in l .. LEVELS}
               /\ \A x \in DOMAIN N0 : N[x] = N0[x]
  BY DEF Descended
<1>3. PICK r, y : r = n.p4 /\ y = At(r, v, l - 1)
  OBVIOUS
<1>4. At(r, v, l) \in DOMAIN N
  BY <1>0, <1>2, <1>3
<1>5. get_entry(n, v, l).present <=> y \in DOMAIN N
  <2>1. Shape(N, C) /\ Ledger(n.used, pend, N, C) /\ Tables(n.table, N)
    BY <1>2 DEF Tree
  <2> QED BY <1>0, <1>3, <1>4, <2>1, EntryAt
<1>6. CASE get_entry(n, v, l).present
  <2>1. ensure_table(n, v, l, a) = n
    BY <1>6 DEF ensure_table
  <2>2. DOMAIN N = DOMAIN N0 \cup {At(n.p4, v, k) : k \in (l - 1) .. LEVELS}
    BY <1>0, <1>2, <1>3, <1>5, <1>6
  <2> QED BY <1>1, <1>2, <2>1, <2>2 DEF Descended
<1>7. CASE ~get_entry(n, v, l).present
  <2>1. PICK f, p : f = NextFree(n) /\ p = pmm_alloc(n)
    OBVIOUS
  <2>2. PICK q : q = set_entry(p, v, l, Entry(f, a))
    OBVIOUS
  <2>3. ~(Frames \subseteq n.used) /\ ensure_table(n, v, l, a) = q
    BY <1>1, <1>2, <1>7, <2>1, <2>2, AllocOom DEF ensure_table, Tree
  <2>4. /\ Tree(p, N, C, pend \cup {f}) /\ f \notin pend
        /\ \A i \in Indices : ~p.table[f][i].present
        /\ \A g \in n.used : p.data[g] = n.data[g]
        /\ p.used = n.used \cup {f}
    BY <1>2, <2>1, <2>3, AllocTree
  <2>5. DOMAIN p = Fields /\ Same(n, p) /\ p.oom = n.oom /\ p.p4 = r
    BY <1>2, <1>3, <2>1, <2>3, AllocIs DEF Tree
  <2>6. Tree(q, Plus(N, y, f), C, (pend \cup {f}) \ {f})
    <3>1. y \notin DOMAIN N /\ f \in pend \cup {f}
      BY <1>5, <1>7
    <3>2. PICK pend2 : pend2 = (pend \cup {f}) \ {f}
      OBVIOUS
    <3>3. PICK k : k = l - 1 /\ k \in 0 .. LEVELS - 1 /\ k + 1 = l /\ k # 0
      BY <1>0
    <3>4. Tree(set_entry(p, v, k + 1, Entry(f, a)), Plus(N, At(p.p4, v, k), f), C, pend2)
      BY <1>3, <1>4, <2>4, <2>5, <3>1, <3>2, <3>3, EnterNode
    <3> QED BY <1>3, <2>2, <2>5, <3>2, <3>3, <3>4
  <2>7. (pend \cup {f}) \ {f} = pend
    BY <2>4
  <2>8. Tree(q, Plus(N, y, f), C, pend)
    BY <2>6, <2>7
  <2>9. Same(p, q) /\ q.oom = p.oom /\ q.p4 = r /\ q.used = p.used /\ q.data = p.data
    BY <2>2, <2>5, SetEntryKeeps
  <2>10. ~q.oom /\ Kept(m, q)
    <3>1. Same(m, q) /\ ~q.oom
      BY <1>1, <2>5, <2>9 DEF Kept, Same
    <3>2. m.used \subseteq q.used
      BY <1>1, <2>4, <2>9 DEF Kept
    <3>3. ASSUME NEW g \in m.used PROVE q.data[g] = m.data[g]
      <4>1. g \in n.used /\ n.data[g] = m.data[g]
        BY <1>1 DEF Kept
      <4> QED BY <2>4, <2>9, <4>1
    <3> QED BY <3>1, <3>2, <3>3 DEF Kept
  <2>11. PICK N2 : N2 = Plus(N, y, f)
    OBVIOUS
  <2>12. DOMAIN N2 = DOMAIN N \cup {y} /\ \A x \in DOMAIN N : N2[x] = N[x]
    BY <1>5, <1>7, <2>11 DEF Plus
  <2>13. DOMAIN N2 = DOMAIN N0 \cup {At(q.p4, v, k) : k \in (l - 1) .. LEVELS}
    BY <1>0, <1>2, <1>3, <2>9, <2>12
  <2>14. \A x \in DOMAIN N0 : N2[x] = N0[x]
    BY <1>2, <2>12
  <2> QED BY <1>1, <1>3, <2>3, <2>8, <2>9, <2>10, <2>11, <2>13, <2>14 DEF Descended
<1> QED BY <1>6, <1>7

\* All tables on the way are there when the loop ends.
LEMMA Descend ==
    ASSUME NEW m, NEW N, NEW C, NEW pend, Tree(m, N, C, pend), ~m.oom,
           NEW a \in AllAreas, NEW v \in PagesOf(a),
           m.p4 = NONE \/ At(m.p4, v, LEVELS) \in DOMAIN N,
           NEW n, n = WithTables(m, v, a)[LEVELS - 1], ~n.oom
    PROVE  Descended(n, m, N, C, pend, v, 1)
<1> PICK h : h = WithTables(m, v, a)
  OBVIOUS
<1>0. v \in Pages
  BY LayoutAssumption
<1>1. /\ h[0] = ensure_p4(m)
      /\ \A i \in 1 .. LEVELS - 1 : h[i] = ensure_table(h[i - 1], v, LEVELS - i + 1, a)
  BY WithTablesIs, Sizes
<1> DEFINE P == {i \in 0 .. LEVELS - 1 : h[i].oom \/ Descended(h[i], m, N, C, pend, v, LEVELS - i)}
<1>2. 0 \in P
  <2>1. LEVELS - 0 = LEVELS /\ 0 \in 0 .. LEVELS - 1
    BY Sizes
  <2> QED BY <1>0, <1>1, <2>1, DescendTop
<1>3. ASSUME NEW i \in 1 .. LEVELS - 1, i - 1 \in P PROVE i \in P
  <2>1. PICK l, p : l = LEVELS - i + 1 /\ p = h[i - 1]
    OBVIOUS
  <2>2. l \in 2 .. LEVELS /\ l = LEVELS - (i - 1) /\ l - 1 = LEVELS - i /\ i \in 0 .. LEVELS - 1
    BY <2>1, Sizes
  <2>3. h[i] = ensure_table(p, v, l, a)
    BY <1>1, <2>1
  <2>4. CASE p.oom
    BY <2>2, <2>3, <2>4 DEF ensure_table
  <2>5. CASE ~p.oom
    <3>1. Descended(p, m, N, C, pend, v, l)
      BY <1>3, <2>1, <2>2, <2>5
    <3>2. ~h[i].oom => Descended(h[i], m, N, C, pend, v, l - 1)
      BY <2>2, <2>3, <3>1, DescendStep
    <3> QED BY <2>2, <3>2
  <2> QED BY <2>4, <2>5
<1> HIDE DEF P
<1>4. \A i \in 0 .. LEVELS - 1 : i \in P
  BY <1>2, <1>3, Upto, Sizes
<1>5. LEVELS - 1 \in 0 .. LEVELS - 1 /\ LEVELS - (LEVELS - 1) = 1
  BY Sizes
<1> QED BY <1>4, <1>5 DEF P

\* A page is mapped only if all its tables could be had.
LEMMA MapOom ==
    ASSUME NEW m, NEW a, NEW v, NEW f, ~vmm_map_page(m, v, f, a).oom
    PROVE  /\ ~WithTables(m, v, a)[LEVELS - 1].oom
           /\ vmm_map_page(m, v, f, a)
              = set_entry(WithTables(m, v, a)[LEVELS - 1], v, 1, Entry(f, a))
  BY DEF vmm_map_page, enter_page

\* The page is not mapped, and its space has pages or is yet to be made.
Ready(m, M, v) ==
    (m.p4 = NONE \/ HasSpace(M, m.p4)) /\ At(m.p4, v, 0) \notin DOMAIN M

\* A page is mapped, to a frame that becomes its own or to somebody else's.
Mapped(m, n, M, C, pend, v, f) ==
    /\ Kept(m, n)
    /\ IF m.p4 = NONE THEN \A x \in DOMAIN M : Space(x) # n.p4 ELSE n.p4 = m.p4
    /\ f \in pend => Good(n, Plus(M, At(n.p4, v, 0), f),
                          Plus(C, At(n.p4, v, 0), m.data[f]), pend \ {f})
    /\ Good(n, Plus(M, At(n.p4, v, 0), f), C, pend)

\* vmm_map_page adds one page to the forest.
LEMMA MapPage ==
    ASSUME NEW m, NEW M, NEW C, NEW pend, Good(m, M, C, pend), ~m.oom,
           NEW a \in AllAreas, NEW v \in PagesOf(a), Ready(m, M, v),
           NEW f, ~vmm_map_page(m, v, f, a).oom
    PROVE  Mapped(m, vmm_map_page(m, v, f, a), M, C, pend, v, f)
<1> PICK n : n = vmm_map_page(m, v, f, a)
  OBVIOUS
<1>0. v \in Pages
  BY LayoutAssumption
<1>1. PICK N0 : /\ Tree(m, N0, C, pend) /\ Leaves(M, N0)
                /\ \A x \in DOMAIN N0 : Level(x) # 0 => Needed(x, N0)
  BY DEF Good
<1>2. m.p4 = NONE \/ At(m.p4, v, LEVELS) \in DOMAIN N0
  <2>1. SUFFICES ASSUME HasSpace(M, m.p4) PROVE At(m.p4, v, LEVELS) \in DOMAIN N0
    BY DEF Ready
  <2>2. PICK w \in Pages : At(m.p4, w, 0) \in DOMAIN N0
    BY <1>1, <2>1 DEF HasSpace, Leaves
  <2>3. Shape(N0, C)
    BY <1>1 DEF Tree
  <2>4. At(m.p4, w, LEVELS) \in DOMAIN N0
    <3>1. 0 \in 0 .. LEVELS /\ LEVELS \in 0 .. LEVELS
      BY Sizes
    <3> QED BY <2>2, <2>3, <3>1, UpIn
  <2> QED BY <1>0, <2>4, AtTop
<1>3. PICK p : p = WithTables(m, v, a)[LEVELS - 1]
  OBVIOUS
<1>4. ~p.oom /\ n = set_entry(p, v, 1, Entry(f, a))
  BY <1>3, MapOom
<1>5. Descended(p, m, N0, C, pend, v, 1)
  BY <1>1, <1>2, <1>3, <1>4, Descend
<1>6. PICK N : /\ Tree(p, N, C, pend)
               /\ DOMAIN N = DOMAIN N0 \cup {At(p.p4, v, k) : k \in 1 .. LEVELS}
               /\ \A x \in DOMAIN N0 : N[x] = N0[x]
  BY <1>5 DEF Descended
<1>7. /\ Kept(m, p)
      /\ IF m.p4 = NONE THEN \A x \in DOMAIN N0 : Space(x) # p.p4 ELSE p.p4 = m.p4
  BY <1>5 DEF Descended
<1>8. PICK r, y : r = p.p4 /\ y = At(r, v, 0)
  OBVIOUS
<1>9. n.p4 = r /\ Same(p, n) /\ n.used = p.used /\ n.data = p.data
  <2>1. DOMAIN p = Fields
    BY <1>6 DEF Tree
  <2> QED BY <1>4, <1>8, <2>1, SetEntryKeeps
<1>10. Kept(m, n)
  BY <1>7, <1>9 DEF Kept, Same
<1>11. Level(y) = 0 /\ Space(y) = r /\ \A k \in 1 .. LEVELS : Level(At(r, v, k)) = k /\ Space(At(r, v, k)) = r
  BY <1>8, AtFields
<1>12. y \notin DOMAIN N0
  BY <1>1, <1>7, <1>8, <1>11 DEF Leaves, Ready
<1>13. y \notin DOMAIN N /\ At(r, v, 1) \in DOMAIN N
  BY <1>6, <1>8, <1>11, <1>12, Sizes
<1>14. /\ f \in pend => Tree(n, Plus(N, y, f), Plus(C, y, m.data[f]), pend \ {f})
       /\ Tree(n, Plus(N, y, f), C, pend)
  <2>1. 0 \in 0 .. LEVELS - 1 /\ 0 + 1 = 1
    BY Sizes
  <2>2. Tree(set_entry(p, v, 0 + 1, Entry(f, a)), Plus(N, At(p.p4, v, 0), f), C, pend)
    BY <1>6, <1>8, <1>13, <2>1, EnterNode
  <2>3. ASSUME f \in pend
        PROVE  Tree(n, Plus(N, y, f), Plus(C, y, m.data[f]), pend \ {f})
    <3>1. p.data[f] = m.data[f]
      <4>1. f \in m.used
        BY <1>1, <2>3 DEF Tree, Ledger
      <4> QED BY <1>7, <4>1 DEF Kept
    <3>2. PICK C2, pend2 : C2 = Plus(C, At(p.p4, v, 0), p.data[f]) /\ pend2 = pend \ {f}
      OBVIOUS
    <3>3. Tree(set_entry(p, v, 0 + 1, Entry(f, a)), Plus(N, At(p.p4, v, 0), f), C2, pend2)
      BY <1>6, <1>8, <1>13, <2>1, <2>3, <3>2, EnterNode
    <3> QED BY <1>4, <1>8, <2>1, <3>1, <3>2, <3>3
  <2> QED BY <1>4, <1>8, <2>1, <2>2, <2>3
<1>15. PICK N2 : N2 = Plus(N, y, f)
  OBVIOUS
<1>16. DOMAIN N2 = DOMAIN N \cup {y} /\ N2[y] = f /\ \A x \in DOMAIN N : N2[x] = N[x]
  BY <1>13, <1>15 DEF Plus
<1>17. Leaves(Plus(M, y, f), N2)
  <2>1. PICK M2 : M2 = Plus(M, y, f)
    OBVIOUS
  <2>2. y \notin DOMAIN M /\ \A x \in DOMAIN M : x \in DOMAIN N0 /\ M[x] = N0[x]
    BY <1>1, <1>12 DEF Leaves
  <2>3. DOMAIN M2 = DOMAIN M \cup {y} /\ M2[y] = f /\ \A x \in DOMAIN M : M2[x] = M[x]
    BY <2>1, <2>2 DEF Plus
  <2>4. \A x \in DOMAIN M2 : M2[x] = N2[x]
    BY <1>6, <1>16, <2>2, <2>3
  <2>5. DOMAIN M2 = {x \in DOMAIN N2 : Level(x) = 0}
    <3>1. \A k \in 1 .. LEVELS : Level(At(r, v, k)) # 0
      BY <1>11
    <3>2. DOMAIN M = {x \in DOMAIN N0 : Level(x) = 0}
      BY <1>1 DEF Leaves
    <3>3. \A x : x \in DOMAIN N2 /\ Level(x) = 0 <=> x = y \/ (x \in DOMAIN N0 /\ Level(x) = 0)
      BY <1>6, <1>8, <1>11, <1>16, <3>1
    <3> QED BY <2>3, <3>2, <3>3
  <2> QED BY <2>1, <2>4, <2>5 DEF Leaves
<1>18. ASSUME NEW x \in DOMAIN N2, Level(x) # 0 PROVE Needed(x, N2)
  <2>1. CASE x \in DOMAIN N0
    BY <1>1, <1>6, <1>16, <1>18, <2>1 DEF Needed
  <2>2. CASE x \notin DOMAIN N0
    <3>1. PICK k \in 1 .. LEVELS : x = At(r, v, k)
      BY <1>6, <1>8, <1>11, <1>16, <1>18, <2>2
    <3> QED BY <1>0, <1>8, <1>11, <1>16, <3>1 DEF Needed
  <2> QED BY <2>1, <2>2
<1>19. IF m.p4 = NONE THEN \A x \in DOMAIN M : Space(x) # n.p4 ELSE n.p4 = m.p4
  BY <1>1, <1>7, <1>8, <1>9 DEF Leaves
<1>20. /\ f \in pend => Good(n, Plus(M, y, f), Plus(C, y, m.data[f]), pend \ {f})
       /\ Good(n, Plus(M, y, f), C, pend)
  BY <1>14, <1>15, <1>17, <1>18 DEF Good
<1> QED BY <1>8, <1>9, <1>10, <1>19, <1>20 DEF Mapped

\* The tables that are no longer needed are gone up to a level.
Climbed(n, m, M, C, pend, r, v, l) ==
    /\ Same(m, n) /\ n.data = m.data /\ n.oom = m.oom
    /\ \E N : /\ Tree(n, N, C, pend) /\ Leaves(M, N)
              /\ \A x \in DOMAIN N : Level(x) # 0 =>
                    Needed(x, N) \/ \E k \in (l + 1) .. LEVELS : x = At(r, v, k)
              /\ \A k \in (l + 1) .. LEVELS : At(r, v, k) \in DOMAIN N
              /\ n.p4 = IF l < LEVELS \/ At(r, v, LEVELS) \in DOMAIN N THEN r ELSE NONE

\* Only the tables, the data and the frames in use matter to the forest.
LEMMA TreeSame ==
    ASSUME NEW m, NEW n, NEW N, NEW C, NEW pend, Tree(m, N, C, pend), DOMAIN n = Fields,
           n.used = m.used, n.table = m.table, n.data = m.data
    PROVE  Tree(n, N, C, pend)
  BY DEF Tree

\* A table is empty if, and only if, there is no node below it.
LEMMA EmptyIs ==
    ASSUME NEW m, NEW N, NEW C, NEW pend, Tree(m, N, C, pend), NEW x \in DOMAIN N, Level(x) # 0
    PROVE  Empty(m, N[x]) <=> \A z \in DOMAIN N : Level(z) < LEVELS => Parent(z) # x
<1>1. /\ Shape(N, C) /\ Ledger(m.used, pend, N, C) /\ Tables(m.table, N)
  BY DEF Tree
<1>2. ASSUME Empty(m, N[x]), NEW z \in DOMAIN N, Level(z) < LEVELS, Parent(z) = x PROVE FALSE
  <2>1. m.table[N[x]][Slot(z)] = Entry(N[z], Flags(z))
    BY <1>1, <1>2 DEF Tables
  <2>2. Slot(z) \in Indices
    BY <1>1, <1>2, NodeAt DEF Shape
  <2> QED BY <1>2, <2>1, <2>2 DEF Empty, Entry
<1>3. ASSUME \A z \in DOMAIN N : Level(z) < LEVELS => Parent(z) # x,
             NEW i \in Indices, m.table[N[x]][i].present
      PROVE  FALSE
  BY <1>1, <1>3 DEF Tables
<1> QED BY <1>2, <1>3 DEF Empty

\* The top table of a space is no table of another one.
LEMMA LoadedKept ==
    ASSUME NEW N, NEW C, NEW used, NEW pend, NEW M, Shape(N, C), Ledger(used, pend, N, C),
           Leaves(M, N), NEW c, HasSpace(M, c), NEW x \in DOMAIN N, Level(x) # 0, Space(x) # c
    PROVE  N[x] # c
<1>1. PICK w \in Pages : At(c, w, 0) \in DOMAIN N
  BY DEF HasSpace, Leaves
<1>2. 0 \in 0 .. LEVELS /\ LEVELS \in 0 .. LEVELS /\ LEVELS # 0
  BY Sizes
<1>3. At(c, w, LEVELS) \in DOMAIN N
  BY <1>1, <1>2, UpIn
<1>4. Level(At(c, w, LEVELS)) = LEVELS /\ Space(At(c, w, LEVELS)) = c
  BY AtFields
<1> QED BY <1>2, <1>3, <1>4 DEF Ledger, Own

\* drop_table goes up by one level: it frees the table there if nothing needs
\* it.
LEMMA ClimbStep ==
    ASSUME NEW n, NEW m, NEW M, NEW C, NEW pend, NEW r \in Nat \ {0}, NEW v \in Pages,
           NEW l \in 1 .. LEVELS, Climbed(n, m, M, C, pend, r, v, l - 1),
           m.cr3 # r, HasSpace(M, m.cr3)
    PROVE  Climbed(drop_table(n, v, l), m, M, C, pend, r, v, l)
<1>0. /\ l - 1 + 1 = l /\ l \in l .. LEVELS /\ l - 1 < LEVELS /\ l - 1 \in 0 .. LEVELS - 1
      /\ (l + 1) .. LEVELS = (l .. LEVELS) \ {l} /\ l # 0 /\ l \in 0 .. LEVELS
  BY Sizes
<1>1. Same(m, n) /\ n.data = m.data /\ n.oom = m.oom
  BY DEF Climbed
<1>2. PICK N : /\ Tree(n, N, C, pend) /\ Leaves(M, N)
               /\ \A x \in DOMAIN N : Level(x) # 0 =>
                     Needed(x, N) \/ \E k \in l .. LEVELS : x = At(r, v, k)
               /\ \A k \in l .. LEVELS : At(r, v, k) \in DOMAIN N
               /\ n.p4 = r
  BY <1>0 DEF Climbed
<1>3. PICK y : y = At(r, v, l)
  OBVIOUS
<1>4. y \in DOMAIN N /\ Level(y) = l /\ Space(y) = r
  BY <1>0, <1>2, <1>3, AtFields
<1>5. /\ DOMAIN n = Fields /\ Shape(N, C) /\ Ledger(n.used, pend, N, C)
      /\ Tables(n.table, N) /\ Contents(n.data, N, C)
  BY <1>2 DEF Tree
<1>6. TableAt(n, v, l) = N[y]
  BY <1>2, <1>3, <1>4, <1>5, TableAtIs
<1>7. Empty(n, N[y]) <=> \A z \in DOMAIN N : Level(z) < LEVELS => Parent(z) # y
  BY <1>0, <1>2, <1>4, EmptyIs
<1>8. get_entry(n, v, l).present => ~Empty(n, N[y])
  <2>1. SUFFICES ASSUME get_entry(n, v, l).present PROVE ~Empty(n, N[y])
    OBVIOUS
  <2>2. At(r, v, l - 1) \in DOMAIN N
    BY <1>2, <1>3, <1>4, <1>5, <2>1, EntryAt
  <2>3. Parent(At(r, v, l - 1)) = y /\ Level(At(r, v, l - 1)) < LEVELS
    BY <1>0, <1>3, AtParent, AtFields
  <2> QED BY <1>7, <2>2, <2>3
<1>9. CASE ~Empty(n, N[y])
  <2>1. drop_table(n, v, l) = n
    BY <1>6, <1>9 DEF drop_table
  <2>2. PICK z \in DOMAIN N : Level(z) < LEVELS /\ Parent(z) = y
    BY <1>7, <1>9
  <2>3. z \in Nodes /\ Level(z) + 1 = l /\ Space(z) = r /\ Level(z) \in 0 .. LEVELS
    BY <1>4, <1>5, <2>2, NodeAt DEF Shape
  <2>4. \E w \in Pages : At(r, w, 0) \in DOMAIN N /\ z = At(r, w, Level(z))
    <3>1. CASE Level(z) = 0
      <4>1. PICK w \in Pages : z = At(Space(z), w, Level(z))
        BY <2>3, NodeAt
      <4> QED BY <2>2, <2>3, <3>1, <4>1
    <3>2. CASE Level(z) # 0
      <4>1. \A k \in l .. LEVELS : z # At(r, v, k)
        BY <2>3, AtFields, Sizes
      <4> QED BY <1>2, <2>3, <3>2, <4>1 DEF Needed
    <3> QED BY <3>1, <3>2
  <2>5. Needed(y, N)
    <3>1. PICK w \in Pages : At(r, w, 0) \in DOMAIN N /\ z = At(r, w, Level(z))
      BY <2>4
    <3>2. Level(z) \in 0 .. LEVELS - 1
      BY <2>2, <2>3, Sizes
    <3>3. Parent(z) = At(r, w, Level(z) + 1)
      BY <3>1, <3>2, AtParent
    <3> QED BY <1>4, <2>2, <2>3, <3>1, <3>3 DEF Needed
  <2>6. \A x \in DOMAIN N : Level(x) # 0 =>
           Needed(x, N) \/ \E k \in (l + 1) .. LEVELS : x = At(r, v, k)
    BY <1>0, <1>2, <1>3, <2>5
  <2>7. \A k \in (l + 1) .. LEVELS : At(r, v, k) \in DOMAIN N
    BY <1>0, <1>2
  <2>8. l < LEVELS \/ At(r, v, LEVELS) \in DOMAIN N
    BY <1>2, Sizes
  <2> QED BY <1>1, <1>2, <2>1, <2>6, <2>7, <2>8 DEF Climbed
<1>10. CASE Empty(n, N[y])
  <2>1. \A z \in DOMAIN N : Level(z) < LEVELS => Parent(z) # y
    BY <1>7, <1>10
  <2>2. PICK g, N2 : g = N[y] /\ N2 = Minus(N, y)
    OBVIOUS
  <2>3. DOMAIN N2 = DOMAIN N \ {y} /\ \A x \in DOMAIN N : x # y => N2[x] = N[x]
    BY <2>2 DEF Minus
  <2>4. g # n.cr3
    <3>1. n.cr3 = m.cr3
      BY <1>1 DEF Same
    <3>2. Space(y) # m.cr3
      BY <1>4
    <3> QED BY <1>0, <1>2, <1>4, <1>5, <2>2, <3>1, <3>2, LoadedKept
  <2>5. Own(y, C) /\ y \notin DOMAIN C /\ g \notin pend
    <3>1. Own(y, C)
      BY <1>0, <1>4 DEF Own
    <3>2. y \notin DOMAIN C
      BY <1>0, <1>4, <1>5 DEF Shape
    <3> QED BY <1>4, <1>5, <2>2, <3>1, <3>2 DEF Ledger
  <2>6. (pend \cup {g}) \ {g} = pend /\ g \in pend \cup {g}
    BY <2>5
  <2>7. PICK d : d = drop_table(n, v, l)
    OBVIOUS
  <2>8. Leaves(M, N2)
    BY <1>0, <1>2, <1>4, <2>3 DEF Leaves
  <2>9. \A x \in DOMAIN N2 : Level(x) # 0 =>
           Needed(x, N2) \/ \E k \in (l + 1) .. LEVELS : x = At(r, v, k)
    <3>1. SUFFICES ASSUME NEW x \in DOMAIN N2, Level(x) # 0
                   PROVE  Needed(x, N2) \/ \E k \in (l + 1) .. LEVELS : x = At(r, v, k)
      OBVIOUS
    <3>2. Needed(x, N) => Needed(x, N2)
      <4>1. \A w : At(Space(x), w, 0) # y
        BY <1>0, <1>4, AtFields
      <4> QED BY <2>3, <4>1 DEF Needed
    <3> QED BY <1>0, <1>2, <1>3, <2>3, <3>1, <3>2
  <2>10. \A k \in (l + 1) .. LEVELS : At(r, v, k) \in DOMAIN N2
    <3>1. \A k \in (l + 1) .. LEVELS : At(r, v, k) # y
      BY <1>0, <1>4, AtFields
    <3> QED BY <1>0, <1>2, <2>3, <3>1
  <2>11. CASE l < LEVELS
    <3>1. PICK p, q : p = pmm_free(n, g) /\ q = set_entry(n, v, l + 1, Zero)
      OBVIOUS
    <3>2. d = set_entry(p, v, l + 1, Zero)
      BY <1>6, <1>8, <1>10, <2>2, <2>7, <2>11, <3>1 DEF drop_table
    <3>3. l \in 0 .. LEVELS - 1 /\ l + 1 \in 1 .. LEVELS
      BY <2>11, Sizes
    <3>4. Tree(q, N2, C, pend \cup {g})
      <4>1. DOMAIN C = DOMAIN C \ {y}
        BY <2>5
      <4>2. PICK pend2 : pend2 = pend \cup {g}
        OBVIOUS
      <4>3. pend2 = IF Own(At(n.p4, v, l), C) THEN pend \cup {N[At(n.p4, v, l)]} ELSE pend
        BY <1>2, <1>3, <2>2, <2>5, <4>2
      <4>4. Tree(set_entry(n, v, l + 1, Zero), Minus(N, At(n.p4, v, l)), C, pend2)
        BY <1>2, <1>3, <1>4, <2>1, <3>3, <4>1, <4>3, LeaveNode
      <4> QED BY <1>2, <1>3, <2>2, <3>1, <4>2, <4>4
    <3>5. Tree(pmm_free(q, g), N2, C, pend)
      <4>1. Tree(pmm_free(q, g), N2, C, (pend \cup {g}) \ {g})
        BY <2>6, <3>4, FreeTree
      <4> QED BY <2>6, <4>1
    <3>6. /\ DOMAIN p = Fields /\ p.used = n.used \ {g} /\ p.table = n.table /\ p.data = n.data
          /\ p.p4 = r /\ p.oom = n.oom /\ Same(n, p)
      BY <1>2, <1>5, <2>4, <3>1, FreeIs DEF Same
    <3>7. TableAt(n, v, l + 1) = N[At(r, v, l + 1)] /\ TableAt(p, v, l + 1) = N[At(r, v, l + 1)]
      <4>1. At(r, v, l + 1) \in DOMAIN N
        <5>1. l + 1 \in (l + 1) .. LEVELS
          BY <3>3
        <5> QED BY <2>3, <2>10, <5>1
      <4>2. TableAt(n, v, l + 1) = N[At(r, v, l + 1)]
        BY <1>2, <1>5, <3>3, <4>1, TableAtIs
      <4>3. Tables(p.table, N)
        BY <1>5, <3>6
      <4>4. TableAt(p, v, l + 1) = N[At(r, v, l + 1)]
        BY <1>5, <3>3, <3>6, <4>1, <4>3, TableAtIs
      <4> QED BY <4>2, <4>4
    <3>8. /\ DOMAIN q = Fields /\ q.used = n.used /\ q.data = n.data
          /\ q.table = [n.table EXCEPT ![TableAt(n, v, l + 1)][NDX(v, l + 1)] = Zero]
      BY <1>5, <3>1, SetEntryIs
    <3>9. /\ DOMAIN d = Fields /\ d.used = p.used /\ d.data = p.data
          /\ d.table = [p.table EXCEPT ![TableAt(p, v, l + 1)][NDX(v, l + 1)] = Zero]
          /\ Same(p, d) /\ d.oom = p.oom /\ d.p4 = p.p4
      BY <3>2, <3>6, SetEntryIs
    <3>10. PICK s : s = pmm_free(q, g)
      OBVIOUS
    <3>11. DOMAIN s = Fields /\ s.used = q.used \ {g} /\ s.table = q.table /\ s.data = q.data
      BY <3>8, <3>10, FreeIs
    <3>12. d.used = s.used /\ d.table = s.table /\ d.data = s.data
      BY <3>6, <3>7, <3>8, <3>9, <3>11
    <3>13. Tree(d, N2, C, pend)
      BY <3>5, <3>9, <3>10, <3>12, TreeSame
    <3>14. Same(m, d) /\ d.data = m.data /\ d.oom = m.oom /\ d.p4 = r
      BY <1>1, <3>6, <3>9 DEF Same
    <3> QED BY <2>7, <2>8, <2>9, <2>10, <2>11, <3>13, <3>14 DEF Climbed
  <2>12. CASE l = LEVELS
    <3>1. PICK p : p = pmm_free(n, r)
      OBVIOUS
    <3>2. d = [p EXCEPT !.p4 = NONE]
      BY <1>2, <1>6, <1>8, <1>10, <2>2, <2>7, <2>12, <3>1 DEF drop_table
    <3>3. g = r
      BY <1>4, <1>5, <2>2, <2>12 DEF Ledger
    <3>4. Tree(n, N2, C, pend \cup {r})
      BY <1>2, <1>3, <1>4, <2>1, <2>2, <2>12, LeaveRoot
    <3>5. Tree(p, N2, C, pend)
      <4>1. Tree(p, N2, C, (pend \cup {r}) \ {r})
        BY <2>6, <3>1, <3>3, <3>4, FreeTree
      <4> QED BY <2>6, <3>3, <4>1
    <3>6. /\ DOMAIN p = Fields /\ p.used = n.used \ {r} /\ p.table = n.table /\ p.data = n.data
          /\ p.oom = n.oom /\ Same(n, p)
      BY <1>5, <2>4, <3>1, <3>3, FreeIs DEF Same
    <3>7. /\ DOMAIN d = Fields /\ d.used = p.used /\ d.table = p.table /\ d.data = p.data
          /\ d.oom = p.oom /\ Same(p, d) /\ d.p4 = NONE
      BY <3>2, <3>6 DEF Fields, Same
    <3>8. Tree(d, N2, C, pend)
      BY <3>5, <3>7, TreeSame
    <3>9. Same(m, d) /\ d.data = m.data /\ d.oom = m.oom
      BY <1>1, <3>6, <3>7 DEF Same
    <3>10. ~(l < LEVELS \/ At(r, v, LEVELS) \in DOMAIN N2)
      BY <1>3, <2>3, <2>12, Sizes
    <3> QED BY <2>7, <2>8, <2>9, <2>10, <3>7, <3>8, <3>9, <3>10 DEF Climbed
  <2> QED BY <2>11, <2>12, Sizes
<1> QED BY <1>9, <1>10

\* A page is unmapped.  Its frame, when it was its own, is left over.
LEMMA UnmapPage ==
    ASSUME NEW m, NEW M, NEW C, NEW pend, Good(m, M, C, pend),
           NEW v \in Pages, At(m.p4, v, 0) \in DOMAIN M, m.p4 # m.cr3, HasSpace(M, m.cr3),
           NEW C2, DOMAIN C2 = DOMAIN C \ {At(m.p4, v, 0)}, \A x \in DOMAIN C2 : C2[x] = C[x],
           NEW M2, M2 = Minus(M, At(m.p4, v, 0)),
           NEW pend2,
           pend2 = IF At(m.p4, v, 0) \in DOMAIN C THEN pend \cup {M[At(m.p4, v, 0)]} ELSE pend,
           NEW n, n = vmm_unmap_page(m, v)
    PROVE  /\ Good(n, M2, C2, pend2) /\ Same(m, n) /\ n.data = m.data /\ n.oom = m.oom
           /\ n.p4 = IF HasSpace(M2, m.p4) THEN m.p4 ELSE NONE
<1> PICK r, y : r = m.p4 /\ y = At(r, v, 0)
  OBVIOUS
<1>0. 0 \in 0 .. LEVELS - 1 /\ 0 + 1 = 1 /\ 0 \in 0 .. LEVELS /\ LEVELS \in 0 .. LEVELS /\ 0 < LEVELS
  BY Sizes
<1>1. PICK N : /\ Tree(m, N, C, pend) /\ Leaves(M, N)
               /\ \A x \in DOMAIN N : Level(x) # 0 => Needed(x, N)
  BY DEF Good
<1>2. y \in DOMAIN N /\ Level(y) = 0 /\ Space(y) = r /\ M[y] = N[y]
  BY <1>1, AtFields DEF Leaves
<1>3. DOMAIN m = Fields /\ Shape(N, C)
  BY <1>1 DEF Tree
<1>4. r \in Nat \ {0}
  BY <1>2, <1>3, NodeAt, VmmAssumption DEF Shape, Frames
<1>5. \A k \in 0 .. LEVELS : At(r, v, k) \in DOMAIN N
  BY <1>0, <1>2, <1>3, UpIn
<1>6. PICK h : h = WithoutTables(m, v)
  OBVIOUS
<1>7. h[0] = set_entry(m, v, 1, Zero) /\ \A i \in 1 .. LEVELS : h[i] = drop_table(h[i - 1], v, i)
  BY <1>6, WithoutTablesIs, Sizes
<1>8. HasSpace(M2, m.cr3)
  <2>1. PICK w \in Pages : At(m.cr3, w, 0) \in DOMAIN M
    BY DEF HasSpace
  <2>2. At(m.cr3, w, 0) # y
    BY AtPage
  <2>3. At(m.cr3, w, 0) \in DOMAIN M2
    BY <2>1, <2>2 DEF Minus
  <2> QED BY <2>3 DEF HasSpace
<1>9. Climbed(h[0], m, M2, C2, pend2, r, v, 0)
  <2>1. PICK N2 : N2 = Minus(N, y)
    OBVIOUS
  <2>2. DOMAIN N2 = DOMAIN N \ {y} /\ \A x \in DOMAIN N : x # y => N2[x] = N[x]
    BY <2>1 DEF Minus
  <2>3. \A z \in DOMAIN N : Level(z) < LEVELS => Parent(z) # y
    BY <1>2, <1>3, ParentOther DEF Shape
  <2>4. pend2 = IF Own(y, C) THEN pend \cup {N[y]} ELSE pend
    BY <1>2 DEF Own
  <2>5. Tree(set_entry(m, v, 0 + 1, Zero), Minus(N, At(m.p4, v, 0)), C2, pend2)
    BY <1>0, <1>1, <1>2, <2>3, <2>4, LeaveNode
  <2>6. Tree(h[0], N2, C2, pend2)
    BY <1>0, <1>7, <2>1, <2>5
  <2>7. Same(m, h[0]) /\ h[0].data = m.data /\ h[0].oom = m.oom /\ h[0].p4 = r
    BY <1>3, <1>7, SetEntryKeeps
  <2>8. Leaves(M2, N2)
    <3>1. DOMAIN M2 = DOMAIN M \ {y} /\ \A x \in DOMAIN M : x # y => M2[x] = M[x]
      BY DEF Minus
    <3> QED BY <1>1, <1>2, <2>2, <3>1 DEF Leaves
  <2>9. \A k \in (0 + 1) .. LEVELS : At(r, v, k) \in DOMAIN N2
    <3>1. \A k \in 1 .. LEVELS : At(r, v, k) # y /\ At(r, v, k) \in DOMAIN N
      BY <1>2, <1>5, AtFields
    <3> QED BY <1>0, <2>2, <3>1
  <2>10. ASSUME NEW x \in DOMAIN N2, Level(x) # 0
         PROVE  Needed(x, N2) \/ \E k \in (0 + 1) .. LEVELS : x = At(r, v, k)
    <3>1. x \in DOMAIN N /\ x \in Nodes /\ Needed(x, N)
      BY <1>1, <1>3, <2>2, <2>10 DEF Shape
    <3>2. PICK w \in Pages : At(Space(x), w, 0) \in DOMAIN N /\ x = At(Space(x), w, Level(x))
      BY <3>1 DEF Needed
    <3>3. CASE At(Space(x), w, 0) = y
      <4>1. Space(x) = r /\ w = v
        BY <3>3, AtPage
      <4>2. Level(x) \in 1 .. LEVELS
        BY <2>10, <3>1, NodeAt
      <4> QED BY <1>0, <3>2, <4>1, <4>2
    <3>4. CASE At(Space(x), w, 0) # y
      BY <2>2, <3>2, <3>4 DEF Needed
    <3> QED BY <3>3, <3>4
  <2> QED BY <1>0, <2>6, <2>7, <2>8, <2>9, <2>10 DEF Climbed
<1> DEFINE P == {i \in 0 .. LEVELS : Climbed(h[i], m, M2, C2, pend2, r, v, i)}
<1>10. 0 \in P
  BY <1>0, <1>9
<1>11. ASSUME NEW i \in 1 .. LEVELS, i - 1 \in P PROVE i \in P
  <2>1. Climbed(h[i - 1], m, M2, C2, pend2, r, v, i - 1) /\ i \in 0 .. LEVELS
    BY <1>11
  <2>2. Climbed(drop_table(h[i - 1], v, i), m, M2, C2, pend2, r, v, i)
    BY <1>4, <1>8, <2>1, ClimbStep
  <2> QED BY <1>7, <2>1, <2>2
<1> HIDE DEF P
<1>12. \A i \in 0 .. LEVELS : i \in P
  BY <1>10, <1>11, Upto, Sizes
<1>13. n = h[LEVELS]
  BY <1>6 DEF vmm_unmap_page
<1>14. Climbed(n, m, M2, C2, pend2, r, v, LEVELS)
  BY <1>0, <1>12, <1>13 DEF P
<1>15. PICK N3 : /\ Tree(n, N3, C2, pend2) /\ Leaves(M2, N3)
                 /\ \A x \in DOMAIN N3 : Level(x) # 0 =>
                       Needed(x, N3) \/ \E k \in (LEVELS + 1) .. LEVELS : x = At(r, v, k)
                 /\ n.p4 = IF LEVELS < LEVELS \/ At(r, v, LEVELS) \in DOMAIN N3 THEN r ELSE NONE
  BY <1>14 DEF Climbed
<1>16. (LEVELS + 1) .. LEVELS = {} /\ ~(LEVELS < LEVELS)
  BY Sizes
<1>17. Good(n, M2, C2, pend2)
  BY <1>15, <1>16 DEF Good
<1>18. At(r, v, LEVELS) \in DOMAIN N3 <=> HasSpace(M2, r)
  <2>1. ASSUME At(r, v, LEVELS) \in DOMAIN N3 PROVE HasSpace(M2, r)
    <3>1. Level(At(r, v, LEVELS)) # 0 /\ Space(At(r, v, LEVELS)) = r
      BY AtFields, Sizes
    <3>2. PICK w \in Pages : At(r, w, 0) \in DOMAIN N3
      BY <1>15, <1>16, <2>1, <3>1 DEF Needed
    <3>3. Level(At(r, w, 0)) = 0
      BY AtFields
    <3> QED BY <1>15, <3>2, <3>3 DEF HasSpace, Leaves
  <2>2. ASSUME HasSpace(M2, r) PROVE At(r, v, LEVELS) \in DOMAIN N3
    <3>1. PICK w \in Pages : At(r, w, 0) \in DOMAIN N3
      BY <1>15, <2>2 DEF HasSpace, Leaves
    <3>2. Shape(N3, C2)
      BY <1>15 DEF Tree
    <3>3. At(r, w, LEVELS) \in DOMAIN N3
      BY <1>0, <3>1, <3>2, UpIn
    <3> QED BY <3>3, AtTop
  <2> QED BY <2>1, <2>2
<1>19. Same(m, n) /\ n.data = m.data /\ n.oom = m.oom
  BY <1>14 DEF Climbed
<1> QED BY <1>15, <1>16, <1>17, <1>18, <1>19

(***************************************************************************)
(* What follows from Good, and what keeps it.                              *)
(***************************************************************************)
\* Own pages have frames in use, each its own and none of them a top table.
LEMMA GoodFacts ==
    ASSUME NEW m, NEW M, NEW C, NEW pend, Good(m, M, C, pend)
    PROVE  /\ DOMAIN m = Fields /\ m.used \subseteq Frames /\ pend \subseteq m.used
           /\ DOMAIN C \subseteq DOMAIN M
           /\ DOMAIN m.data = Frames
           /\ \A x \in DOMAIN M : x \in Nodes /\ Level(x) = 0 /\ Space(x) \in Frames
           /\ \A x \in DOMAIN C : M[x] \in m.used /\ M[x] \in Frames /\ M[x] \notin pend /\ m.data[M[x]] = C[x]
           /\ \A x, y \in DOMAIN C : M[x] = M[y] => x = y
           /\ \A c : HasSpace(M, c) => c \in m.used /\ \A x \in DOMAIN C : M[x] # c
<1>1. PICK N : /\ Tree(m, N, C, pend) /\ Leaves(M, N)
               /\ \A x \in DOMAIN N : Level(x) # 0 => Needed(x, N)
  BY DEF Good
<1>2. /\ DOMAIN m = Fields /\ Shape(N, C) /\ Ledger(m.used, pend, N, C) /\ Contents(m.data, N, C)
  BY <1>1 DEF Tree
<1>3. m.used \subseteq Frames /\ pend \subseteq m.used /\ DOMAIN m.data = Frames
  BY <1>2 DEF Ledger, Contents
<1>4. DOMAIN C \subseteq DOMAIN M /\ \A x \in DOMAIN M : x \in DOMAIN N /\ M[x] = N[x]
  BY <1>1, <1>2 DEF Shape, Leaves
<1>5. \A x \in DOMAIN M : x \in Nodes /\ Level(x) = 0 /\ Space(x) \in Frames
  BY <1>1, <1>2, NodeAt DEF Shape, Leaves
<1>6. \A x \in DOMAIN C : N[x] \in m.used /\ N[x] \notin pend /\ m.data[N[x]] = C[x]
  BY <1>2, <1>4 DEF Ledger, Contents, Own
<1>7. \A x, y \in DOMAIN C : N[x] = N[y] => x = y
  BY <1>2, <1>4 DEF Ledger, Own
<1>8. ASSUME NEW c, HasSpace(M, c) PROVE c \in m.used /\ \A x \in DOMAIN C : N[x] # c
  <2>1. PICK w \in Pages : At(c, w, 0) \in DOMAIN N
    BY <1>1, <1>8 DEF HasSpace, Leaves
  <2>2. 0 \in 0 .. LEVELS /\ LEVELS \in 0 .. LEVELS /\ LEVELS # 0
    BY Sizes
  <2>3. At(c, w, LEVELS) \in DOMAIN N
    BY <1>2, <2>1, <2>2, UpIn
  <2>4. Level(At(c, w, LEVELS)) = LEVELS /\ Space(At(c, w, LEVELS)) = c
    BY AtFields
  <2>5. N[At(c, w, LEVELS)] = c /\ Own(At(c, w, LEVELS), C)
    BY <1>2, <2>2, <2>3, <2>4 DEF Ledger, Own
  <2>6. \A x \in DOMAIN C : Own(x, C) /\ x \in DOMAIN N /\ Level(x) = 0
    BY <1>2 DEF Own, Shape
  <2>7. c \in m.used
    BY <1>2, <2>3, <2>5 DEF Ledger
  <2>8. \A x \in DOMAIN C : N[x] # c
    BY <1>2, <2>2, <2>3, <2>4, <2>5, <2>6 DEF Ledger
  <2> QED BY <2>7, <2>8
<1>9. \A x \in DOMAIN C : M[x] = N[x]
  BY <1>4
<1> QED BY <1>2, <1>3, <1>4, <1>5, <1>6, <1>7, <1>8, <1>9

\* Only the tables, the data and the frames in use matter.
LEMMA GoodSame ==
    ASSUME NEW m, NEW n, NEW M, NEW C, NEW pend, Good(m, M, C, pend), DOMAIN n = Fields,
           n.used = m.used, n.table = m.table, n.data = m.data
    PROVE  Good(n, M, C, pend)
  BY TreeSame DEF Good

\* phys_of in any of the spaces
LEMMA PhysIs ==
    ASSUME NEW m, NEW M, NEW C, NEW pend, Good(m, M, C, pend), NEW n, n.table = m.table,
           NEW v \in Pages, At(n.p4, v, 0) \in DOMAIN M
    PROVE  phys_of(n, v) = M[At(n.p4, v, 0)]
<1>1. PICK N : Tree(m, N, C, pend) /\ Leaves(M, N)
  BY DEF Good
<1>2. Shape(N, C) /\ Ledger(m.used, pend, N, C) /\ Tables(n.table, N)
  BY <1>1 DEF Tree
<1>3. At(n.p4, v, 0) \in DOMAIN N /\ M[At(n.p4, v, 0)] = N[At(n.p4, v, 0)]
  BY <1>1 DEF Leaves
<1>4. 1 \in 1 .. LEVELS /\ 1 \in 0 .. LEVELS /\ 0 \in 0 .. LEVELS /\ 1 - 1 = 0
  BY Sizes
<1>5. At(n.p4, v, 1) \in DOMAIN N
  BY <1>2, <1>3, <1>4, UpIn
<1>6. get_entry(n, v, 1) = Entry(N[At(n.p4, v, 0)], Flags(At(n.p4, v, 0)))
  <2>1. At(n.p4, v, 1 - 1) \in DOMAIN N
    BY <1>3, <1>4
  <2>2. get_entry(n, v, 1) = Entry(N[At(n.p4, v, 1 - 1)], Flags(At(n.p4, v, 1 - 1)))
    BY <1>2, <1>4, <1>5, <2>1, EntryAt
  <2> QED BY <1>4, <2>2
<1> QED BY <1>3, <1>6 DEF phys_of, Entry

\* A frame handed out is pending and zero.
LEMMA GoodAlloc ==
    ASSUME NEW m, NEW M, NEW C, NEW pend, Good(m, M, C, pend), ~(Frames \subseteq m.used),
           NEW f, f = NextFree(m), NEW n, n = pmm_alloc(m)
    PROVE  Good(n, M, C, pend \cup {f}) /\ n.data[f] = "zero" /\ f \notin pend
  BY AllocTree DEF Good

\* A pending frame can be given back.
LEMMA GoodFree ==
    ASSUME NEW m, NEW M, NEW C, NEW pend, Good(m, M, C, pend), NEW f \in pend
    PROVE  Good(pmm_free(m, f), M, C, pend \ {f})
  BY FreeTree DEF Good

\* A page with a frame of its own is written.
LEMMA GoodWrite ==
    ASSUME NEW m, NEW M, NEW C, NEW pend, Good(m, M, C, pend), NEW y \in DOMAIN C, NEW c,
           NEW n, DOMAIN n = Fields, n.used = m.used, n.table = m.table,
           n.data = [m.data EXCEPT ![M[y]] = c],
           NEW C2, DOMAIN C2 = DOMAIN C, C2[y] = c, \A x \in DOMAIN C : x # y => C2[x] = C[x]
    PROVE  Good(n, M, C2, pend)
<1>1. PICK N : /\ Tree(m, N, C, pend) /\ Leaves(M, N)
               /\ \A x \in DOMAIN N : Level(x) # 0 => Needed(x, N)
  BY DEF Good
<1>2. /\ DOMAIN m = Fields /\ Shape(N, C) /\ Ledger(m.used, pend, N, C)
      /\ Tables(m.table, N) /\ Contents(m.data, N, C)
  BY <1>1 DEF Tree
<1>3. M[y] = N[y] /\ y \in DOMAIN N
  BY <1>1, <1>2 DEF Leaves, Shape
<1>4. Shape(N, C2)
  BY <1>2 DEF Shape
<1>5. \A x : Own(x, C2) <=> Own(x, C)
  BY DEF Own
<1>6. Ledger(m.used, pend, N, C2)
  BY <1>2, <1>5 DEF Ledger
<1>7. Contents(n.data, N, C2)
  <2>1. DOMAIN m.data = Frames /\ N[y] \in Frames
    BY <1>2, <1>3 DEF Contents, Ledger, Own
  <2>2. DOMAIN n.data = Frames /\ n.data[N[y]] = c /\ \A g \in Frames : g # N[y] => n.data[g] = m.data[g]
    BY <1>3, <2>1
  <2>3. ASSUME NEW x \in DOMAIN C PROVE n.data[N[x]] = C2[x]
    <3>1. x \in DOMAIN N /\ Own(x, C) /\ Own(y, C)
      BY <1>2 DEF Shape, Own
    <3>2. N[x] \in Frames /\ (x # y => N[x] # N[y]) /\ m.data[N[x]] = C[x]
      BY <1>2, <1>3, <3>1 DEF Ledger, Contents
    <3> QED BY <2>2, <3>2
  <2> QED BY <2>2, <2>3 DEF Contents
<1>8. Tree(n, N, C2, pend)
  BY <1>2, <1>4, <1>6, <1>7 DEF Tree
<1> QED BY <1>1, <1>8 DEF Good

\* Writing to a space's own page changes that page and no other.
LEMMA GoodPut ==
    ASSUME NEW m, NEW M, NEW C, NEW pend, Good(m, M, C, pend), NEW y \in DOMAIN C, NEW c
    PROVE  Good([m EXCEPT !.data[M[y]] = c], M, [C EXCEPT ![y] = c], pend)
<1>1. PICK n, C2, g : n = [m EXCEPT !.data[g] = c] /\ C2 = [C EXCEPT ![y] = c] /\ g = M[y]
  OBVIOUS
<1>2. DOMAIN m = Fields
  BY GoodFacts
<1>3. DOMAIN n = Fields /\ n.used = m.used /\ n.table = m.table /\ n.data = [m.data EXCEPT ![g] = c]
  BY <1>1, <1>2 DEF Fields
<1>4. DOMAIN C2 = DOMAIN C /\ C2[y] = c /\ \A x \in DOMAIN C : x # y => C2[x] = C[x]
  BY <1>1
<1>5. n.data = [m.data EXCEPT ![M[y]] = c]
  BY <1>1, <1>3
<1>6. Good(n, M, C2, pend)
  BY <1>3, <1>4, <1>5, GoodWrite
<1> QED BY <1>1, <1>6

\* The machine at the start of the boot has nothing.
LEMMA GoodBlank ==
    ASSUME NEW M, NEW C, DOMAIN M = {}, DOMAIN C = {}
    PROVE  Good(Blank, M, C, {})
<1>1. /\ DOMAIN Blank = Fields /\ Blank.used = {} /\ Blank.table = [f \in Frames |-> [i \in Indices |-> Zero]]
      /\ Blank.data = [f \in Frames |-> "zero"]
  BY DEF Blank, Fields
<1>2. Shape(M, C) /\ Ledger(Blank.used, {}, M, C)
  BY <1>1 DEF Shape, Ledger
<1>3. Tables(Blank.table, M) /\ Contents(Blank.data, M, C)
  BY <1>1 DEF Tables, Contents
<1>4. Leaves(M, M)
  BY DEF Leaves
<1> QED BY <1>1, <1>2, <1>3, <1>4 DEF Good, Tree

(***************************************************************************)
(* A machine that has run out of frames stays so, and every operation      *)
(* keeps the fields of a machine.                                          *)
(***************************************************************************)
\* What every operation keeps
Keeps(m, n) == DOMAIN n = Fields /\ (m.oom => n.oom)

\* pmm_alloc
LEMMA KeepsAlloc == ASSUME NEW m, DOMAIN m = Fields PROVE Keeps(m, pmm_alloc(m))
  BY DEF Keeps, pmm_alloc, Fields

\* set_entry
LEMMA KeepsEntry ==
    ASSUME NEW m, DOMAIN m = Fields, NEW v, NEW l, NEW e PROVE Keeps(m, set_entry(m, v, l, e))
  BY SetEntryKeeps DEF Keeps

\* vmm_map_page
LEMMA KeepsMap ==
    ASSUME NEW m, DOMAIN m = Fields, NEW v, NEW f, NEW a
    PROVE  Keeps(m, vmm_map_page(m, v, f, a))
<1> PICK h : h = WithTables(m, v, a)
  OBVIOUS
<1>1. /\ h[0] = ensure_p4(m)
      /\ \A i \in 1 .. LEVELS - 1 : h[i] = ensure_table(h[i - 1], v, LEVELS - i + 1, a)
  BY WithTablesIs, Sizes
<1> DEFINE P == {i \in 0 .. LEVELS - 1 : Keeps(m, h[i])}
<1>2. 0 \in P
  <2>1. PICK n, f2 : n = pmm_alloc(m) /\ f2 = NextFree(m)
    OBVIOUS
  <2>2. Keeps(m, n)
    BY <2>1, KeepsAlloc
  <2>3. Keeps(m, m) /\ Keeps(m, [n EXCEPT !.p4 = f2])
    BY <2>2 DEF Keeps, Fields
  <2>4. ensure_p4(m) = m \/ ensure_p4(m) = n \/ ensure_p4(m) = [n EXCEPT !.p4 = f2]
    BY <2>1 DEF ensure_p4
  <2> QED BY <1>1, <2>2, <2>3, <2>4, Sizes
<1>3. ASSUME NEW i \in 1 .. LEVELS - 1, i - 1 \in P PROVE i \in P
  <2>1. PICK p, n, l, e : p = h[i - 1] /\ n = pmm_alloc(p) /\ l = LEVELS - i + 1 /\ e = Entry(NextFree(p), a)
    OBVIOUS
  <2>2. Keeps(m, p) /\ i \in 0 .. LEVELS - 1
    BY <1>3, <2>1
  <2>3. Keeps(p, n)
    BY <2>1, <2>2, KeepsAlloc DEF Keeps
  <2>4. Keeps(n, set_entry(n, v, l, e))
    BY <2>3, KeepsEntry DEF Keeps
  <2>5. h[i] = p \/ h[i] = n \/ h[i] = set_entry(n, v, l, e)
    BY <1>1, <2>1 DEF ensure_table
  <2> QED BY <2>2, <2>3, <2>4, <2>5 DEF Keeps
<1> HIDE DEF P
<1>4. \A i \in 0 .. LEVELS - 1 : i \in P
  BY <1>2, <1>3, Upto, Sizes
<1>5. Keeps(m, h[LEVELS - 1])
  BY <1>4, Sizes DEF P
<1>6. PICK n, e : n = h[LEVELS - 1] /\ e = Entry(f, a)
  OBVIOUS
<1>7. vmm_map_page(m, v, f, a) = n \/ vmm_map_page(m, v, f, a) = set_entry(n, v, 1, e)
  BY <1>6 DEF vmm_map_page, enter_page
<1>8. Keeps(n, set_entry(n, v, 1, e))
  BY <1>5, <1>6, KeepsEntry DEF Keeps
<1> QED BY <1>5, <1>6, <1>7, <1>8 DEF Keeps

\* A page of anon_mmap
LEMMA KeepsAnon ==
    ASSUME NEW m, DOMAIN m = Fields, NEW v, NEW a PROVE Keeps(m, anon_page(m, v, a))
<1> PICK n, f : n = pmm_alloc(m) /\ f = NextFree(m)
  OBVIOUS
<1>1. Keeps(m, n)
  BY KeepsAlloc
<1>2. Keeps(n, vmm_map_page(n, v, f, a))
  BY <1>1, KeepsMap DEF Keeps
<1>3. anon_page(m, v, a) = n \/ anon_page(m, v, a) = vmm_map_page(n, v, f, a)
  BY DEF anon_page
<1> QED BY <1>1, <1>2, <1>3 DEF Keeps

\* mm_insert_vma
LEMMA KeepsInsert ==
    ASSUME NEW m, DOMAIN m = Fields, NEW a PROVE Keeps(m, mm_insert_vma(m, a))
  BY DEF Keeps, mm_insert_vma, Fields

(***************************************************************************)
(* An address space under construction, beside the pages M0 and C0 of the  *)
(* others: S are the pages it shares and H is what its own pages hold.     *)
(***************************************************************************)
\* The pages M and C are M0 and C0 with those of the new space.
Built(m, M, C, M0, C0, S, H) ==
    /\ DOMAIN M = DOMAIN M0 \cup {At(m.p4, v, 0) : v \in DOMAIN S \cup DOMAIN H}
    /\ DOMAIN C = DOMAIN C0 \cup {At(m.p4, v, 0) : v \in DOMAIN H}
    /\ \A x \in DOMAIN M0 : M[x] = M0[x] /\ Space(x) # m.p4
    /\ \A x \in DOMAIN C0 : C[x] = C0[x]
    /\ \A v \in DOMAIN S : M[At(m.p4, v, 0)] = S[v]
    /\ \A v \in DOMAIN H : C[At(m.p4, v, 0)] = H[v]

\* A machine in the middle of the construction
Build(m, M0, C0, S, H) ==
    /\ ~m.oom
    /\ DOMAIN S \cup DOMAIN H \subseteq Pages /\ DOMAIN S \cap DOMAIN H = {}
    /\ DOMAIN C0 \subseteq DOMAIN M0
    /\ m.p4 = NONE <=> DOMAIN S \cup DOMAIN H = {}
    /\ \E M, C : Good(m, M, C, {}) /\ Built(m, M, C, M0, C0, S, H)

\* It starts without a top table.
LEMMA BuildStart ==
    ASSUME NEW m, NEW M0, NEW C0, Good(m, M0, C0, {}), NEW n, DOMAIN n = Fields,
           n.used = m.used, n.table = m.table, n.data = m.data, n.p4 = NONE, ~n.oom,
           NEW S, NEW H, DOMAIN S = {}, DOMAIN H = {}
    PROVE  Build(n, M0, C0, S, H)
<1>1. Good(n, M0, C0, {})
  BY GoodSame
<1>2. \A x \in DOMAIN M0 : Space(x) # n.p4
  BY GoodFacts, VmmAssumption DEF Frames, NONE
<1>3. DOMAIN C0 \subseteq DOMAIN M0
  BY GoodFacts
<1>4. Built(n, M0, C0, M0, C0, S, H)
  BY <1>2 DEF Built
<1> QED BY <1>1, <1>3, <1>4 DEF Build

\* S and H are functions of pages: only their values matter.
LEMMA BuildEqual ==
    ASSUME NEW m, NEW M0, NEW C0, NEW S, NEW H, Build(m, M0, C0, S, H),
           NEW S2, NEW H2, DOMAIN S2 = DOMAIN S, DOMAIN H2 = DOMAIN H,
           \A v \in DOMAIN S : S2[v] = S[v], \A v \in DOMAIN H : H2[v] = H[v]
    PROVE  Build(m, M0, C0, S2, H2)
<1>1. PICK M, C : Good(m, M, C, {}) /\ Built(m, M, C, M0, C0, S, H)
  BY DEF Build
<1>2. Built(m, M, C, M0, C0, S2, H2)
  BY <1>1 DEF Built
<1> QED BY <1>1, <1>2 DEF Build

\* Only the memory and the top table matter.
LEMMA BuildSame ==
    ASSUME NEW m, NEW M0, NEW C0, NEW S, NEW H, Build(m, M0, C0, S, H),
           NEW n, DOMAIN n = Fields, n.used = m.used, n.table = m.table, n.data = m.data,
           n.p4 = m.p4, n.oom = m.oom
    PROVE  Build(n, M0, C0, S, H)
<1>1. PICK M, C : Good(m, M, C, {}) /\ Built(m, M, C, M0, C0, S, H)
  BY DEF Build
<1>2. Good(n, M, C, {}) /\ Built(n, M, C, M0, C0, S, H)
  BY <1>1, GoodSame DEF Built
<1> QED BY <1>2 DEF Build

\* What a machine under construction is
LEMMA BuildType ==
    ASSUME NEW m, NEW M0, NEW C0, NEW S, NEW H, Build(m, M0, C0, S, H)
    PROVE  DOMAIN m = Fields /\ ~m.oom
  BY GoodFacts DEF Build

\* A page that is not there yet is ready to be mapped.
LEMMA BuildReady ==
    ASSUME NEW m, NEW M0, NEW C0, NEW S, NEW H, Build(m, M0, C0, S, H),
           NEW M, NEW C, Good(m, M, C, {}), Built(m, M, C, M0, C0, S, H),
           NEW v \in Pages, v \notin DOMAIN S \cup DOMAIN H
    PROVE  Ready(m, M, v)
<1>1. m.p4 = NONE \/ HasSpace(M, m.p4)
  <2>1. SUFFICES ASSUME m.p4 # NONE PROVE HasSpace(M, m.p4)
    OBVIOUS
  <2>2. PICK w : w \in DOMAIN S \cup DOMAIN H /\ w \in Pages
    BY <2>1 DEF Build
  <2> QED BY <2>2 DEF Built, HasSpace
<1>2. At(m.p4, v, 0) \notin DOMAIN M
  <2>1. At(m.p4, v, 0) \notin DOMAIN M0
    BY AtFields DEF Built
  <2>2. \A w \in DOMAIN S \cup DOMAIN H : At(m.p4, w, 0) # At(m.p4, v, 0)
    BY AtPage
  <2> QED BY <2>1, <2>2 DEF Built
<1> QED BY <1>1, <1>2 DEF Ready

\* Mapping a frame of somebody else adds a shared page.
LEMMA BuildShare ==
    ASSUME NEW m, NEW M0, NEW C0, NEW S, NEW H, Build(m, M0, C0, S, H),
           NEW a \in AllAreas, NEW v \in PagesOf(a), v \notin DOMAIN S \cup DOMAIN H,
           NEW f, NEW n, n = vmm_map_page(m, v, f, a), ~n.oom
    PROVE  Build(n, M0, C0, Plus(S, v, f), H) /\ Same(m, n)
<1>0. v \in Pages
  BY LayoutAssumption
<1>1. PICK M, C : Good(m, M, C, {}) /\ Built(m, M, C, M0, C0, S, H)
  BY DEF Build
<1>2. ~m.oom /\ Ready(m, M, v)
  BY <1>0, <1>1, BuildReady, BuildType
<1>3. PICK y, M2 : y = At(n.p4, v, 0) /\ M2 = Plus(M, y, f)
  OBVIOUS
<1>4. /\ Kept(m, n)
      /\ IF m.p4 = NONE THEN \A x \in DOMAIN M : Space(x) # n.p4 ELSE n.p4 = m.p4
      /\ Good(n, M2, C, {})
  <2>1. Mapped(m, n, M, C, {}, v, f)
    BY <1>1, <1>2, MapPage
  <2> QED BY <1>3, <2>1 DEF Mapped
<1>5. PICK S2 : S2 = Plus(S, v, f)
  OBVIOUS
<1>6. DOMAIN S2 = DOMAIN S \cup {v} /\ S2[v] = f /\ \A w \in DOMAIN S : S2[w] = S[w] /\ w # v
  BY <1>5 DEF Plus
<1>7. y \notin DOMAIN M
  BY <1>2, <1>3, <1>4, AtFields DEF Ready
<1>8. DOMAIN M2 = DOMAIN M \cup {y} /\ M2[y] = f /\ \A x \in DOMAIN M : M2[x] = M[x]
  BY <1>3, <1>7 DEF Plus
<1>9. \A w \in DOMAIN S \cup DOMAIN H : At(m.p4, w, 0) = At(n.p4, w, 0) /\ At(n.p4, w, 0) \in DOMAIN M
  <2>1. m.p4 = NONE => DOMAIN S \cup DOMAIN H = {}
    BY DEF Build
  <2> QED BY <1>1, <1>4, <2>1 DEF Built
<1>10. \A x \in DOMAIN M0 : x \in DOMAIN M /\ M[x] = M0[x] /\ Space(x) # n.p4
  BY <1>1, <1>4 DEF Built
<1>11. Built(n, M2, C, M0, C0, S2, H)
  <2>1. DOMAIN M2 = DOMAIN M0 \cup {At(n.p4, w, 0) : w \in DOMAIN S2 \cup DOMAIN H}
    <3>1. DOMAIN M = DOMAIN M0 \cup {At(m.p4, w, 0) : w \in DOMAIN S \cup DOMAIN H}
      BY <1>1 DEF Built
    <3>2. {At(m.p4, w, 0) : w \in DOMAIN S \cup DOMAIN H} = {At(n.p4, w, 0) : w \in DOMAIN S \cup DOMAIN H}
      BY <1>9
    <3> QED BY <1>3, <1>6, <1>8, <3>1, <3>2
  <2>2. DOMAIN C = DOMAIN C0 \cup {At(n.p4, w, 0) : w \in DOMAIN H}
    BY <1>1, <1>9 DEF Built
  <2>3. \A x \in DOMAIN M0 : M2[x] = M0[x] /\ Space(x) # n.p4
    BY <1>8, <1>10
  <2>4. \A w \in DOMAIN S2 : M2[At(n.p4, w, 0)] = S2[w]
    BY <1>1, <1>3, <1>6, <1>8, <1>9 DEF Built
  <2>5. \A w \in DOMAIN H : C[At(n.p4, w, 0)] = H[w]
    BY <1>1, <1>9 DEF Built
  <2>6. \A x \in DOMAIN C0 : C[x] = C0[x]
    BY <1>1 DEF Built
  <2> QED BY <2>1, <2>2, <2>3, <2>4, <2>5, <2>6 DEF Built
<1>12. n.p4 # NONE
  <2>1. y \in DOMAIN M2
    BY <1>8
  <2>2. Space(y) \in Frames
    BY <1>4, <2>1, GoodFacts
  <2> QED BY <1>3, <2>2, AtFields, VmmAssumption DEF Frames, NONE
<1>13. Build(n, M0, C0, S2, H)
  BY <1>0, <1>4, <1>6, <1>11, <1>12 DEF Build
<1> QED BY <1>4, <1>5, <1>13 DEF Kept

\* A page of anon_mmap adds an own page of zeroes.
LEMMA BuildAnon ==
    ASSUME NEW m, NEW M0, NEW C0, NEW S, NEW H, Build(m, M0, C0, S, H),
           NEW a \in AllAreas, NEW v \in PagesOf(a), v \notin DOMAIN S \cup DOMAIN H,
           NEW n, n = anon_page(m, v, a), ~n.oom
    PROVE  Build(n, M0, C0, S, Plus(H, v, "zero")) /\ Same(m, n)
<1>0. v \in Pages
  BY LayoutAssumption
<1>1. PICK M, C : Good(m, M, C, {}) /\ Built(m, M, C, M0, C0, S, H)
  BY DEF Build
<1>2. DOMAIN m = Fields /\ ~m.oom /\ Ready(m, M, v)
  BY <1>0, <1>1, BuildReady, BuildType
<1>a. PICK p, f : p = pmm_alloc(m) /\ f = NextFree(m)
  OBVIOUS
<1>b. n = vmm_map_page(p, v, f, a) /\ ~p.oom /\ ~(Frames \subseteq m.used)
  BY <1>2, <1>a, AllocOom DEF anon_page
<1>c. Good(p, M, C, {} \cup {f}) /\ p.data[f] = "zero"
  BY <1>1, <1>a, <1>b, GoodAlloc
<1>d. p.p4 = m.p4 /\ Same(m, p)
  BY <1>2, <1>a, <1>b, AllocIs
<1>e. PICK pend : pend = {f} /\ pend = {} \cup {f} /\ f \in pend /\ pend \ {f} = {}
  OBVIOUS
<1>3. PICK y, M2, C2 : y = At(n.p4, v, 0) /\ M2 = Plus(M, y, f) /\ C2 = Plus(C, y, "zero")
  OBVIOUS
<1>4. /\ Kept(p, n)
      /\ IF m.p4 = NONE THEN \A x \in DOMAIN M : Space(x) # n.p4 ELSE n.p4 = m.p4
      /\ Good(n, M2, C2, {})
  <2>1. Good(p, M, C, pend)
    BY <1>c, <1>e
  <2>2. Ready(p, M, v)
    BY <1>2, <1>d DEF Ready
  <2>3. Mapped(p, n, M, C, pend, v, f)
    BY <1>b, <2>1, <2>2, MapPage
  <2> QED BY <1>3, <1>c, <1>d, <1>e, <2>3 DEF Mapped
<1>5. PICK H2 : H2 = Plus(H, v, "zero")
  OBVIOUS
<1>6. DOMAIN H2 = DOMAIN H \cup {v} /\ H2[v] = "zero" /\ \A w \in DOMAIN H : H2[w] = H[w] /\ w # v
  BY <1>5 DEF Plus
<1>7. y \notin DOMAIN M
  BY <1>2, <1>3, <1>4, AtFields DEF Ready
<1>8. DOMAIN M2 = DOMAIN M \cup {y} /\ \A x \in DOMAIN M : M2[x] = M[x]
  BY <1>3, <1>7 DEF Plus
<1>f. DOMAIN C \subseteq DOMAIN M
  BY <1>1, GoodFacts
<1>g. DOMAIN C2 = DOMAIN C \cup {y} /\ C2[y] = "zero" /\ \A x \in DOMAIN C : C2[x] = C[x]
  BY <1>3, <1>7, <1>f DEF Plus
<1>9. \A w \in DOMAIN S \cup DOMAIN H : At(m.p4, w, 0) = At(n.p4, w, 0) /\ At(n.p4, w, 0) \in DOMAIN M
  <2>1. m.p4 = NONE => DOMAIN S \cup DOMAIN H = {}
    BY DEF Build
  <2> QED BY <1>1, <1>4, <2>1 DEF Built
<1>10. \A x \in DOMAIN M0 : x \in DOMAIN M /\ M[x] = M0[x] /\ Space(x) # n.p4
  BY <1>1, <1>4 DEF Built
<1>11. Built(n, M2, C2, M0, C0, S, H2)
  <2>1. DOMAIN M2 = DOMAIN M0 \cup {At(n.p4, w, 0) : w \in DOMAIN S \cup DOMAIN H2}
    <3>1. DOMAIN M = DOMAIN M0 \cup {At(m.p4, w, 0) : w \in DOMAIN S \cup DOMAIN H}
      BY <1>1 DEF Built
    <3>2. {At(m.p4, w, 0) : w \in DOMAIN S \cup DOMAIN H} = {At(n.p4, w, 0) : w \in DOMAIN S \cup DOMAIN H}
      BY <1>9
    <3> QED BY <1>3, <1>6, <1>8, <3>1, <3>2
  <2>2. DOMAIN C2 = DOMAIN C0 \cup {At(n.p4, w, 0) : w \in DOMAIN H2}
    <3>1. DOMAIN C = DOMAIN C0 \cup {At(m.p4, w, 0) : w \in DOMAIN H}
      BY <1>1 DEF Built
    <3>2. {At(m.p4, w, 0) : w \in DOMAIN H} = {At(n.p4, w, 0) : w \in DOMAIN H}
      BY <1>9
    <3> QED BY <1>3, <1>6, <1>g, <3>1, <3>2
  <2>3. \A x \in DOMAIN M0 : M2[x] = M0[x] /\ Space(x) # n.p4
    BY <1>8, <1>10
  <2>4. \A w \in DOMAIN S : M2[At(n.p4, w, 0)] = S[w]
    BY <1>1, <1>8, <1>9 DEF Built
  <2>5. \A w \in DOMAIN H2 : C2[At(n.p4, w, 0)] = H2[w]
    <3>1. \A w \in DOMAIN H : At(n.p4, w, 0) \in DOMAIN C /\ C[At(n.p4, w, 0)] = H[w]
      BY <1>1, <1>9 DEF Built
    <3> QED BY <1>3, <1>6, <1>g, <3>1
  <2>6. \A x \in DOMAIN C0 : C2[x] = C0[x]
    BY <1>1, <1>g DEF Built
  <2> QED BY <2>1, <2>2, <2>3, <2>4, <2>5, <2>6 DEF Built
<1>12. n.p4 # NONE
  <2>1. y \in DOMAIN M2
    BY <1>8
  <2>2. Space(y) \in Frames
    BY <1>4, <2>1, GoodFacts
  <2> QED BY <1>3, <2>2, AtFields, VmmAssumption DEF Frames, NONE
<1>13. Build(n, M0, C0, S, H2)
  BY <1>0, <1>4, <1>6, <1>11, <1>12 DEF Build
<1>14. Same(m, n)
  BY <1>4, <1>d DEF Kept, Same
<1> QED BY <1>5, <1>13, <1>14

\* A page of the space is written.
LEMMA BuildWrite ==
    ASSUME NEW m, NEW M0, NEW C0, NEW S, NEW H, Build(m, M0, C0, S, H),
           NEW v \in DOMAIN H, NEW c, NEW n, n = [m EXCEPT !.data[phys_of(m, v)] = c],
           NEW H2, DOMAIN H2 = DOMAIN H, H2[v] = c, \A w \in DOMAIN H : w # v => H2[w] = H[w]
    PROVE  Build(n, M0, C0, S, H2) /\ Same(m, n)
<1>1. PICK M, C : Good(m, M, C, {}) /\ Built(m, M, C, M0, C0, S, H)
  BY DEF Build
<1>2. PICK y, C2, g : y = At(m.p4, v, 0) /\ C2 = [C EXCEPT ![y] = c] /\ g = phys_of(m, v)
  OBVIOUS
<1>3. y \in DOMAIN C /\ v \in Pages /\ y \in DOMAIN M
  BY <1>1, <1>2 DEF Built, Build
<1>4. g = M[y]
  BY <1>1, <1>2, <1>3, PhysIs
<1>5. DOMAIN m = Fields /\ n = [m EXCEPT !.data[g] = c]
  BY <1>1, <1>2, GoodFacts
<1>6. /\ DOMAIN n = Fields /\ n.used = m.used /\ n.table = m.table /\ n.p4 = m.p4 /\ n.oom = m.oom
      /\ Same(m, n) /\ n.data = [m.data EXCEPT ![g] = c]
  BY <1>5 DEF Fields, Same
<1>7. DOMAIN C2 = DOMAIN C /\ C2[y] = c /\ \A x \in DOMAIN C : x # y => C2[x] = C[x]
  BY <1>2, <1>3
<1>8. Good(n, M, C2, {})
  <2>1. Good([m EXCEPT !.data[M[y]] = c], M, [C EXCEPT ![y] = c], {})
    BY <1>1, <1>3, GoodPut
  <2> QED BY <1>2, <1>4, <1>5, <2>1
<1>9. Built(n, M, C2, M0, C0, S, H2)
  <2>1. \A x \in DOMAIN C0 : C2[x] = C0[x]
    <3>1. \A x \in DOMAIN C0 : x \in DOMAIN C /\ x # y
      <4>1. \A x \in DOMAIN C0 : x \in DOMAIN C /\ x \in DOMAIN M0
        BY <1>1 DEF Built, Build
      <4>2. \A x \in DOMAIN M0 : x # y
        BY <1>1, <1>2, AtFields DEF Built
      <4> QED BY <4>1, <4>2
    <3> QED BY <1>1, <1>7, <3>1 DEF Built
  <2>2. \A w \in DOMAIN H : C2[At(m.p4, w, 0)] = H2[w]
    <3>1. \A w \in DOMAIN H : w # v => At(m.p4, w, 0) # y
      BY <1>2, <1>3, AtPage DEF Build
    <3>2. \A w \in DOMAIN H : At(m.p4, w, 0) \in DOMAIN C /\ C[At(m.p4, w, 0)] = H[w]
      BY <1>1 DEF Built
    <3> QED BY <1>2, <1>7, <3>1, <3>2
  <2> QED BY <1>1, <1>6, <1>7, <2>1, <2>2 DEF Built
<1> QED BY <1>6, <1>8, <1>9 DEF Build

\* The pages of the other spaces can still be found and read.
LEMMA BuildRead ==
    ASSUME NEW m, NEW M0, NEW C0, NEW S, NEW H, Build(m, M0, C0, S, H),
           NEW r, NEW v \in Pages, At(r, v, 0) \in DOMAIN M0
    PROVE  /\ phys_of([m EXCEPT !.p4 = r], v) = M0[At(r, v, 0)]
           /\ At(r, v, 0) \in DOMAIN C0 => m.data[M0[At(r, v, 0)]] = C0[At(r, v, 0)]
<1>1. PICK M, C : Good(m, M, C, {}) /\ Built(m, M, C, M0, C0, S, H)
  BY DEF Build
<1>2. PICK n : n = [m EXCEPT !.p4 = r]
  OBVIOUS
<1>3. DOMAIN m = Fields
  BY BuildType
<1>4. n.table = m.table /\ n.p4 = r
  BY <1>2, <1>3 DEF Fields
<1>5. At(r, v, 0) \in DOMAIN M /\ M[At(r, v, 0)] = M0[At(r, v, 0)]
  BY <1>1 DEF Built
<1>6. phys_of(n, v) = M[At(r, v, 0)]
  BY <1>1, <1>4, <1>5, PhysIs
<1>7. ASSUME At(r, v, 0) \in DOMAIN C0 PROVE m.data[M0[At(r, v, 0)]] = C0[At(r, v, 0)]
  <2>1. At(r, v, 0) \in DOMAIN C /\ C[At(r, v, 0)] = C0[At(r, v, 0)]
    BY <1>1, <1>7 DEF Built
  <2> QED BY <1>1, <1>5, <2>1, GoodFacts
<1> QED BY <1>2, <1>5, <1>6, <1>7

(***************************************************************************)
(* The layout of memory.                                                   *)
(***************************************************************************)
\* The pages of the kernel's areas
KPages == UNION {PagesOf(KernelAreas[i]) : i \in DOMAIN KernelAreas}

\* The kernel's areas are for the kernel alone.
LEMMA KernelArea ==
    ASSUME NEW i \in DOMAIN KernelAreas
    PROVE  /\ KernelAreas[i] \in AllAreas /\ ~IsReg(KernelAreas[i]) /\ ~KernelAreas[i].user
           /\ KernelAreas[i].start \in Nat /\ KernelAreas[i].pages \in Nat \ {0}
           /\ PagesOf(KernelAreas[i]) \subseteq KPages
<1> DEFINE R == [type : STRING \ {"VM_AREA_REG"}, start : Nat,
                 pages : Nat \ {0}, write : BOOLEAN, user : {FALSE}]
<1>0. KernelAreas \in Seq(R)
  BY LayoutAssumption
<1>1. KernelAreas[i] \in R
  <2> HIDE DEF R
  <2> QED BY <1>0
<1>2. KernelAreas[i] \in AllAreas
  BY DEF AllAreas, Range
<1>3. PagesOf(KernelAreas[i]) \subseteq KPages
  BY DEF KPages
<1> QED BY <1>1, <1>2, <1>3 DEF IsReg

\* The stack is a writable area of the program.
LEMMA StackArea ==
    /\ Stack \in AllAreas /\ IsReg(Stack) /\ Stack.user /\ Stack.write
    /\ Stack.start \in Nat /\ Stack.pages \in Nat
<1>1. Stack \in AllAreas
  BY DEF AllAreas
<1> QED BY <1>1, LayoutAssumption DEF Stack, UserArea, IsReg

\* A segment is an area of the program that is read-only, with no more file
\* than pages.
LEMMA SegArea ==
    ASSUME NEW image \in Images, NEW i \in DOMAIN image
    PROVE  /\ SegmentArea(image[i]) \in AllAreas
           /\ IsReg(SegmentArea(image[i]))
           /\ SegmentArea(image[i]).user
           /\ ~SegmentArea(image[i]).write
           /\ SegmentArea(image[i]).start \in Nat /\ SegmentArea(image[i]).pages \in Nat
           /\ SegmentArea(image[i]).start = image[i].start
           /\ SegmentArea(image[i]).pages = image[i].pages
           /\ image[i].start \in Nat
           /\ image[i].pages \in Nat /\ image[i].filepages \in Nat
           /\ image[i].filepages <= image[i].pages
<1> DEFINE R == [start : Nat, pages : Nat, filepages : Nat]
<1>1. image \in Seq(R) /\ image[i].filepages <= image[i].pages
  BY LayoutAssumption
<1>2. image[i] \in R
  <2> HIDE DEF R
  <2> QED BY <1>1
<1>3. SegmentArea(image[i]) \in AllAreas
  BY DEF AllAreas
<1> QED BY <1>1, <1>2, <1>3 DEF SegmentArea, UserArea, IsReg

\* Areas lie inside the address space; those for the program are the regular
\* ones.
LEMMA AreaType ==
    ASSUME NEW a \in AllAreas
    PROVE  /\ a.start \in Nat /\ a.pages \in Nat /\ PagesOf(a) \subseteq Pages
           /\ a.user <=> IsReg(a)
           /\ ~IsReg(a) => \E i \in DOMAIN KernelAreas : a = KernelAreas[i]
<1>1. CASE a \in Range(KernelAreas)
  <2>1. PICK i \in DOMAIN KernelAreas : a = KernelAreas[i]
    BY <1>1 DEF Range
  <2>2. PagesOf(a) \subseteq Pages
    BY LayoutAssumption
  <2> QED BY <2>1, <2>2, KernelArea
<1>2. CASE a = Stack
  <2>2. PagesOf(a) \subseteq Pages
    BY LayoutAssumption
  <2> QED BY <1>2, <2>2, StackArea
<1>3. CASE \E image \in Images : \E i \in DOMAIN image : a = SegmentArea(image[i])
  <2>0. PICK image \in Images : \E i \in DOMAIN image : a = SegmentArea(image[i])
    BY <1>3
  <2>1. PICK i \in DOMAIN image : a = SegmentArea(image[i])
    BY <2>0
  <2>2. PagesOf(a) \subseteq Pages
    BY LayoutAssumption
  <2> QED BY <2>1, <2>2, SegArea
<1> QED BY <1>1, <1>2, <1>3 DEF AllAreas

\* Areas with different flags share no page.
LEMMA AreasApart ==
    ASSUME NEW a \in AllAreas, NEW b \in AllAreas, a.write # b.write \/ a.user # b.user
    PROVE  PagesOf(a) \cap PagesOf(b) = {}
  BY LayoutAssumption

\* Regular areas are apart from the kernel's.
LEMMA UserApart ==
    ASSUME NEW a \in AllAreas, IsReg(a)
    PROVE  PagesOf(a) \cap KPages = {}
<1> SUFFICES ASSUME NEW i \in DOMAIN KernelAreas PROVE PagesOf(a) \cap PagesOf(KernelAreas[i]) = {}
  BY DEF KPages
<1>1. KernelAreas[i] \in AllAreas /\ ~KernelAreas[i].user /\ a.user
  BY KernelArea, AreaType
<1> QED BY <1>1, AreasApart

\* The kernel's pages lie inside the address space.
LEMMA KPagesIn == KPages \subseteq Pages
  BY KernelArea, AreaType DEF KPages

\* The pages of an area, one after the other
LEMMA PagesStep ==
    ASSUME NEW a, a.start \in Nat, a.pages \in Nat, NEW i \in 1 .. a.pages
    PROVE  /\ FirstPages(a, i) = FirstPages(a, i - 1) \cup {Page(a, i)}
           /\ Page(a, i) \notin FirstPages(a, i - 1) /\ Page(a, i) \in PagesOf(a)
           /\ FirstPages(a, i) \subseteq PagesOf(a)
  BY DEF FirstPages, Page, PagesOf

\* No pages to begin with
LEMMA NoPages == ASSUME NEW a, a.start \in Nat PROVE FirstPages(a, 0) = {}
  BY DEF FirstPages

\* The function f, and g on the set X besides
Over(f, X, g) == [v \in DOMAIN f \cup X |-> IF v \in DOMAIN f THEN f[v] ELSE g[v]]

\* What Over is
LEMMA OverIs ==
    ASSUME NEW f, NEW X, NEW g, X \cap DOMAIN f = {}
    PROVE  /\ DOMAIN Over(f, X, g) = DOMAIN f \cup X
           /\ \A v \in DOMAIN f : Over(f, X, g)[v] = f[v]
           /\ \A v \in X : Over(f, X, g)[v] = g[v]
  BY DEF Over

\* It grows by one element at a time.
LEMMA OverPlus ==
    ASSUME NEW f, NEW X, NEW g, NEW v, v \notin DOMAIN f, v \notin X, NEW Y, Y = X \cup {v}
    PROVE  /\ DOMAIN Over(f, Y, g) = DOMAIN Plus(Over(f, X, g), v, g[v])
           /\ \A w \in DOMAIN Plus(Over(f, X, g), v, g[v]) :
                 Over(f, Y, g)[w] = Plus(Over(f, X, g), v, g[v])[w]
  BY DEF Over, Plus

\* It starts as f.
LEMMA OverNone ==
    ASSUME NEW f, NEW g
    PROVE  DOMAIN Over(f, {}, g) = DOMAIN f /\ \A v \in DOMAIN f : Over(f, {}, g)[v] = f[v]
  BY DEF Over

(***************************************************************************)
(* Loops over the pages of an area.  A machine is out of frames or on its  *)
(* way; what an operation did is void when frames ran out.                 *)
(***************************************************************************)
\* A machine on its way, or out of frames
Going(m, M0, C0, S, H) == DOMAIN m = Fields /\ (m.oom \/ Build(m, M0, C0, S, H))

\* What an operation made of a machine
Did(m, n, M0, C0, S, H) ==
    Keeps(m, n) /\ (n.oom \/ (Build(n, M0, C0, S, H) /\ Same(m, n)))

\* The machine stays on its way.
LEMMA DidGoing ==
    ASSUME NEW m, NEW n, NEW M0, NEW C0, NEW S, NEW H, Did(m, n, M0, C0, S, H)
    PROVE  Going(n, M0, C0, S, H)
  BY DEF Did, Going, Keeps

\* A loop with no passes does nothing.
LEMMA DidNothing ==
    ASSUME NEW m, NEW M0, NEW C0, NEW S, NEW H, Going(m, M0, C0, S, H)
    PROVE  Did(m, m, M0, C0, S, H)
  BY DEF Did, Going, Keeps, Same

\* One operation after another
LEMMA DidThen ==
    ASSUME NEW m, NEW n, NEW p, NEW M0, NEW C0, NEW S, NEW H, NEW S2, NEW H2,
           Did(m, n, M0, C0, S, H), Did(n, p, M0, C0, S2, H2)
    PROVE  Did(m, p, M0, C0, S2, H2)
<1>1. Keeps(m, n) /\ Keeps(n, p) /\ Keeps(m, p)
  BY DEF Did, Keeps
<1>2. CASE p.oom
  BY <1>1, <1>2 DEF Did
<1>3. CASE ~p.oom
  <2>1. ~n.oom
    BY <1>1, <1>3 DEF Keeps
  <2>2. Same(m, n) /\ Same(n, p) /\ Build(p, M0, C0, S2, H2)
    BY <1>3, <2>1 DEF Did
  <2> QED BY <1>1, <2>2 DEF Did, Same
<1> QED BY <1>2, <1>3

\* Functions with the same values are as good.
LEMMA DidEqual ==
    ASSUME NEW m, NEW n, NEW M0, NEW C0, NEW S, NEW H, Did(m, n, M0, C0, S, H),
           NEW S2, NEW H2, DOMAIN S2 = DOMAIN S, DOMAIN H2 = DOMAIN H,
           \A v \in DOMAIN S : S2[v] = S[v], \A v \in DOMAIN H : H2[v] = H[v]
    PROVE  Did(m, n, M0, C0, S2, H2)
<1>1. ASSUME Build(n, M0, C0, S, H) PROVE Build(n, M0, C0, S2, H2)
  BY <1>1, BuildEqual
<1> QED BY <1>1 DEF Did

\* A page of anon_mmap
LEMMA AnonStep ==
    ASSUME NEW m, NEW M0, NEW C0, NEW S, NEW H, Going(m, M0, C0, S, H),
           NEW a \in AllAreas, NEW v \in PagesOf(a), v \notin DOMAIN S \cup DOMAIN H
    PROVE  Did(m, anon_page(m, v, a), M0, C0, S, Plus(H, v, "zero"))
<1> PICK n : n = anon_page(m, v, a)
  OBVIOUS
<1>1. Keeps(m, n)
  BY KeepsAnon DEF Going
<1>2. ASSUME ~n.oom PROVE Build(n, M0, C0, S, Plus(H, v, "zero")) /\ Same(m, n)
  <2>1. Build(m, M0, C0, S, H)
    BY <1>1, <1>2 DEF Keeps, Going
  <2> QED BY <1>2, <2>1, BuildAnon
<1> QED BY <1>1, <1>2 DEF Did

\* A page that is mapped to somebody else's frame
LEMMA MapStep ==
    ASSUME NEW m, NEW M0, NEW C0, NEW S, NEW H, Going(m, M0, C0, S, H),
           NEW a \in AllAreas, NEW v \in PagesOf(a), v \notin DOMAIN S \cup DOMAIN H, NEW f
    PROVE  Did(m, vmm_map_page(m, v, f, a), M0, C0, Plus(S, v, f), H)
<1> PICK n : n = vmm_map_page(m, v, f, a)
  OBVIOUS
<1>1. Keeps(m, n)
  BY KeepsMap DEF Going
<1>2. ASSUME ~n.oom PROVE Build(n, M0, C0, Plus(S, v, f), H) /\ Same(m, n)
  <2>1. Build(m, M0, C0, S, H)
    BY <1>1, <1>2 DEF Keeps, Going
  <2> QED BY <1>2, <2>1, BuildShare
<1> QED BY <1>1, <1>2 DEF Did

\* A page of the kernel is found where the kernel's own tables have it.
LEMMA ShareStep ==
    ASSUME NEW m, NEW M0, NEW C0, NEW S, NEW H, Going(m, M0, C0, S, H),
           NEW a \in AllAreas, NEW v \in PagesOf(a), v \notin DOMAIN S \cup DOMAIN H,
           At(kernel_p4, v, 0) \in DOMAIN M0
    PROVE  Did(m, share_page(m, v, a), M0, C0, Plus(S, v, M0[At(kernel_p4, v, 0)]), H)
<1> PICK n, f : n = share_page(m, v, a) /\ f = phys_of([m EXCEPT !.p4 = kernel_p4], v)
  OBVIOUS
<1>0. n = vmm_map_page(m, v, f, a)
  BY DEF share_page
<1>1. Did(m, n, M0, C0, Plus(S, v, f), H)
  BY <1>0, MapStep
<1>2. CASE n.oom
  BY <1>1, <1>2 DEF Did
<1>3. CASE ~n.oom
  <2>1. Build(m, M0, C0, S, H)
    BY <1>1, <1>3 DEF Did, Keeps, Going
  <2>2. v \in Pages
    BY AreaType
  <2>3. f = M0[At(kernel_p4, v, 0)]
    BY <2>1, <2>2, BuildRead
  <2> QED BY <1>1, <2>3
<1> QED BY <1>2, <1>3

\* anon_mmap adds the pages of its area, all zeroes.
LEMMA AnonArea ==
    ASSUME NEW m, NEW M0, NEW C0, NEW S, NEW H, Going(m, M0, C0, S, H),
           NEW a \in AllAreas, PagesOf(a) \cap (DOMAIN S \cup DOMAIN H) = {},
           NEW g, \A v \in PagesOf(a) : g[v] = "zero"
    PROVE  Did(m, AnonPages(m, a)[a.pages], M0, C0, S, Over(H, PagesOf(a), g))
<1> PICK h : h = AnonPages(m, a)
  OBVIOUS
<1>0. a.start \in Nat /\ a.pages \in Nat
  BY AreaType
<1>1. h[0] = m /\ \A i \in 1 .. a.pages : h[i] = anon_page(h[i - 1], Page(a, i), a)
  BY <1>0, AnonPagesIs
<1> DEFINE P == {i \in 0 .. a.pages : Did(m, h[i], M0, C0, S, Over(H, FirstPages(a, i), g))}
<1>2. 0 \in P
  <2>1. Did(m, h[0], M0, C0, S, H)
    BY <1>1, DidNothing
  <2>2. Did(m, h[0], M0, C0, S, Over(H, {}, g))
    BY <2>1, OverNone, DidEqual
  <2> QED BY <1>0, <2>2, NoPages
<1>3. ASSUME NEW i \in 1 .. a.pages, i - 1 \in P PROVE i \in P
  <2>1. PICK X, Y, v, p, F : /\ X = FirstPages(a, i - 1) /\ Y = FirstPages(a, i) /\ v = Page(a, i)
                             /\ p = h[i - 1] /\ F = Over(H, X, g)
    OBVIOUS
  <2>2. Y = X \cup {v} /\ v \notin X /\ v \in PagesOf(a) /\ Y \subseteq PagesOf(a)
    BY <1>0, <2>1, PagesStep
  <2>3. Did(m, p, M0, C0, S, F)
    BY <1>3, <2>1
  <2>4. Going(p, M0, C0, S, F)
    BY <2>3, DidGoing
  <2>5. DOMAIN F = DOMAIN H \cup X
    BY <2>1 DEF Over
  <2>6. v \notin DOMAIN S \cup DOMAIN F /\ v \notin DOMAIN H /\ g[v] = "zero"
    BY <2>2, <2>5
  <2>7. Did(p, anon_page(p, v, a), M0, C0, S, Plus(F, v, "zero"))
    BY <2>2, <2>4, <2>6, AnonStep
  <2>8. Did(m, h[i], M0, C0, S, Plus(F, v, g[v]))
    <3>1. h[i] = anon_page(p, v, a)
      BY <1>1, <2>1
    <3> QED BY <2>3, <2>6, <2>7, <3>1, DidThen
  <2>9. /\ DOMAIN Over(H, Y, g) = DOMAIN Plus(F, v, g[v])
        /\ \A w \in DOMAIN Plus(F, v, g[v]) : Over(H, Y, g)[w] = Plus(F, v, g[v])[w]
    BY <2>1, <2>2, <2>6, OverPlus
  <2>10. Did(m, h[i], M0, C0, S, Over(H, Y, g))
    BY <2>8, <2>9, DidEqual
  <2> QED BY <2>1, <2>10
<1> HIDE DEF P
<1>4. \A i \in 0 .. a.pages : i \in P
  BY <1>0, <1>2, <1>3, Upto
<1> QED BY <1>0, <1>4 DEF P, PagesOf

\* mm_share_vma adds the pages of its area, mapped as in the kernel's tables.
LEMMA ShareArea ==
    ASSUME NEW m, NEW M0, NEW C0, NEW S, NEW H, Going(m, M0, C0, S, H),
           NEW a \in AllAreas, PagesOf(a) \cap (DOMAIN S \cup DOMAIN H) = {},
           NEW g, \A v \in PagesOf(a) : At(kernel_p4, v, 0) \in DOMAIN M0 /\ g[v] = M0[At(kernel_p4, v, 0)]
    PROVE  Did(m, SharedPages(m, a)[a.pages], M0, C0, Over(S, PagesOf(a), g), H)
<1> PICK h : h = SharedPages(m, a)
  OBVIOUS
<1>0. a.start \in Nat /\ a.pages \in Nat
  BY AreaType
<1>1. h[0] = m /\ \A i \in 1 .. a.pages : h[i] = share_page(h[i - 1], Page(a, i), a)
  BY <1>0, SharedPagesIs
<1> DEFINE P == {i \in 0 .. a.pages : Did(m, h[i], M0, C0, Over(S, FirstPages(a, i), g), H)}
<1>2. 0 \in P
  <2>1. Did(m, h[0], M0, C0, S, H)
    BY <1>1, DidNothing
  <2>2. Did(m, h[0], M0, C0, Over(S, {}, g), H)
    BY <2>1, OverNone, DidEqual
  <2> QED BY <1>0, <2>2, NoPages
<1>3. ASSUME NEW i \in 1 .. a.pages, i - 1 \in P PROVE i \in P
  <2>1. PICK X, Y, v, p, F : /\ X = FirstPages(a, i - 1) /\ Y = FirstPages(a, i) /\ v = Page(a, i)
                             /\ p = h[i - 1] /\ F = Over(S, X, g)
    OBVIOUS
  <2>2. Y = X \cup {v} /\ v \notin X /\ v \in PagesOf(a) /\ Y \subseteq PagesOf(a)
    BY <1>0, <2>1, PagesStep
  <2>3. Did(m, p, M0, C0, F, H)
    BY <1>3, <2>1
  <2>4. Going(p, M0, C0, F, H)
    BY <2>3, DidGoing
  <2>5. DOMAIN F = DOMAIN S \cup X
    BY <2>1 DEF Over
  <2>6. v \notin DOMAIN F \cup DOMAIN H /\ v \notin DOMAIN S
    BY <2>2, <2>5
  <2>6a. At(kernel_p4, v, 0) \in DOMAIN M0 /\ g[v] = M0[At(kernel_p4, v, 0)]
    BY <2>2
  <2>7. Did(p, share_page(p, v, a), M0, C0, Plus(F, v, M0[At(kernel_p4, v, 0)]), H)
    BY <2>2, <2>4, <2>6, <2>6a, ShareStep
  <2>8. Did(m, h[i], M0, C0, Plus(F, v, g[v]), H)
    <3>1. h[i] = share_page(p, v, a)
      BY <1>1, <2>1
    <3>2. Did(p, h[i], M0, C0, Plus(F, v, g[v]), H)
      BY <2>6a, <2>7, <3>1
    <3> QED BY <2>3, <3>2, DidThen
  <2>9. /\ DOMAIN Over(S, Y, g) = DOMAIN Plus(F, v, g[v])
        /\ \A w \in DOMAIN Plus(F, v, g[v]) : Over(S, Y, g)[w] = Plus(F, v, g[v])[w]
    BY <2>1, <2>2, <2>6, OverPlus
  <2>10. Did(m, h[i], M0, C0, Over(S, Y, g), H)
    BY <2>8, <2>9, DidEqual
  <2> QED BY <2>1, <2>10
<1> HIDE DEF P
<1>4. \A i \in 0 .. a.pages : i \in P
  BY <1>0, <1>2, <1>3, Upto
<1> QED BY <1>0, <1>4 DEF P, PagesOf

(***************************************************************************)
(* Filling the pages of an area.                                           *)
(***************************************************************************)
\* The function f with g on the set X
Put(f, X, g) == [v \in DOMAIN f |-> IF v \in X THEN g[v] ELSE f[v]]

\* Only contents have changed.
Wrote(m, n, M0, C0, S, H) == Build(n, M0, C0, S, H) /\ Same(m, n) /\ n.p4 = m.p4

\* Functions with the same values are as good.
LEMMA WroteEqual ==
    ASSUME NEW m, NEW n, NEW M0, NEW C0, NEW S, NEW H, Wrote(m, n, M0, C0, S, H),
           NEW H2, DOMAIN H2 = DOMAIN H, \A v \in DOMAIN H : H2[v] = H[v]
    PROVE  Wrote(m, n, M0, C0, S, H2)
<1>1. Build(n, M0, C0, S, H)
  BY DEF Wrote
<1>2. Build(n, M0, C0, S, H2)
  BY <1>1, BuildEqual
<1> QED BY <1>2 DEF Wrote

\* Writing through the page's translation changes what that page holds.
LEMMA WriteStep ==
    ASSUME NEW m, NEW n, NEW M0, NEW C0, NEW S, NEW H, Wrote(m, n, M0, C0, S, H),
           NEW v \in DOMAIN H, NEW c
    PROVE  Wrote(m, [n EXCEPT !.data[phys_of(n, v)] = c], M0, C0, S, [H EXCEPT ![v] = c])
<1>1. PICK q, H2, f : q = [n EXCEPT !.data[f] = c] /\ H2 = [H EXCEPT ![v] = c] /\ f = phys_of(n, v)
  OBVIOUS
<1>2. DOMAIN H2 = DOMAIN H /\ H2[v] = c /\ \A w \in DOMAIN H : w # v => H2[w] = H[w]
  BY <1>1
<1>3. Build(n, M0, C0, S, H) /\ Same(m, n) /\ n.p4 = m.p4
  BY DEF Wrote
<1>4. Build(q, M0, C0, S, H2) /\ Same(n, q)
  <2>1. q = [n EXCEPT !.data[phys_of(n, v)] = c]
    BY <1>1
  <2> QED BY <1>2, <1>3, <2>1, BuildWrite
<1>5. DOMAIN n = Fields
  BY <1>3, BuildType
<1>6. q.p4 = n.p4
  BY <1>1, <1>5 DEF Fields
<1>7. Wrote(m, q, M0, C0, S, H2)
  BY <1>3, <1>4, <1>6 DEF Wrote, Same
<1> QED BY <1>1, <1>7

\* Put starts as f.
LEMMA PutNone ==
    ASSUME NEW f, NEW g
    PROVE  DOMAIN Put(f, {}, g) = DOMAIN f /\ \A v \in DOMAIN f : Put(f, {}, g)[v] = f[v]
  BY DEF Put

\* A loop with no passes writes nothing.
LEMMA WroteNothing ==
    ASSUME NEW m, NEW M0, NEW C0, NEW S, NEW H, Build(m, M0, C0, S, H), NEW g
    PROVE  Wrote(m, m, M0, C0, S, Put(H, {}, g))
<1>1. Build(m, M0, C0, S, Put(H, {}, g))
  BY PutNone, BuildEqual
<1> QED BY <1>1 DEF Wrote, Same

\* What fork copies
LEMMA CopyArea ==
    ASSUME NEW m, NEW M0, NEW C0, NEW S, NEW H, Build(m, M0, C0, S, H),
           NEW a \in AllAreas, PagesOf(a) \subseteq DOMAIN H, NEW src,
           NEW g, \A v \in PagesOf(a) : At(src, v, 0) \in DOMAIN C0 /\ g[v] = C0[At(src, v, 0)]
    PROVE  Wrote(m, mm_copy_from_mm(m, src, a)[a.pages], M0, C0, S, Put(H, PagesOf(a), g))
<1> PICK h : h = mm_copy_from_mm(m, src, a)
  OBVIOUS
<1>0. a.start \in Nat /\ a.pages \in Nat /\ PagesOf(a) \subseteq Pages /\ DOMAIN C0 \subseteq DOMAIN M0
  BY AreaType DEF Build
<1>1. h[0] = m /\ \A i \in 1 .. a.pages : h[i] = copy_page(h[i - 1], src, Page(a, i))
  BY <1>0, CopyFromMmIs
<1> DEFINE P == {i \in 0 .. a.pages : Wrote(m, h[i], M0, C0, S, Put(H, FirstPages(a, i), g))}
<1>2. 0 \in P
  <2>1. Wrote(m, m, M0, C0, S, Put(H, {}, g))
    BY WroteNothing
  <2>2. Wrote(m, h[0], M0, C0, S, Put(H, {}, g))
    BY <1>1, <2>1
  <2> QED BY <1>0, <2>2, NoPages
<1>3. ASSUME NEW i \in 1 .. a.pages, i - 1 \in P PROVE i \in P
  <2>1. PICK X, Y, v, p, F : /\ X = FirstPages(a, i - 1) /\ Y = FirstPages(a, i) /\ v = Page(a, i)
                             /\ p = h[i - 1] /\ F = Put(H, X, g)
    OBVIOUS
  <2>2. Y = X \cup {v} /\ v \in PagesOf(a)
    BY <1>0, <2>1, PagesStep
  <2>3. Wrote(m, p, M0, C0, S, F)
    BY <1>3, <2>1
  <2>4. v \in DOMAIN F /\ v \in DOMAIN H /\ v \in Pages
    BY <1>0, <2>1, <2>2 DEF Put
  <2>5. At(src, v, 0) \in DOMAIN C0 /\ g[v] = C0[At(src, v, 0)] /\ At(src, v, 0) \in DOMAIN M0
    BY <1>0, <2>2
  <2>6. p.data[phys_of([p EXCEPT !.p4 = src], v)] = g[v]
    <3>1. Build(p, M0, C0, S, F)
      BY <2>3 DEF Wrote
    <3>2. /\ phys_of([p EXCEPT !.p4 = src], v) = M0[At(src, v, 0)]
          /\ p.data[M0[At(src, v, 0)]] = C0[At(src, v, 0)]
      BY <2>4, <2>5, <3>1, BuildRead
    <3> QED BY <2>5, <3>2
  <2>7. h[i] = [p EXCEPT !.data[phys_of(p, v)] = g[v]]
    <3>1. h[i] = copy_page(p, src, v)
      BY <1>1, <2>1
    <3> QED BY <2>6, <3>1 DEF copy_page
  <2>8. Wrote(m, h[i], M0, C0, S, [F EXCEPT ![v] = g[v]])
    <3>1. Wrote(m, [p EXCEPT !.data[phys_of(p, v)] = g[v]], M0, C0, S, [F EXCEPT ![v] = g[v]])
      BY <2>3, <2>4, WriteStep
    <3> QED BY <2>7, <3>1
  <2>9. /\ DOMAIN Put(H, Y, g) = DOMAIN [F EXCEPT ![v] = g[v]]
        /\ \A w \in DOMAIN [F EXCEPT ![v] = g[v]] : Put(H, Y, g)[w] = [F EXCEPT ![v] = g[v]][w]
    <3>1. F = Put(H, X, g) /\ v \in DOMAIN H /\ Y = X \cup {v}
      BY <2>1, <2>2, <2>4
    <3> QED BY <3>1 DEF Put
  <2>10. Wrote(m, h[i], M0, C0, S, Put(H, Y, g))
    BY <2>8, <2>9, WroteEqual
  <2> QED BY <2>1, <2>10
<1> HIDE DEF P
<1>4. \A i \in 0 .. a.pages : i \in P
  BY <1>0, <1>2, <1>3, Upto
<1> QED BY <1>0, <1>4 DEF P, PagesOf

\* What exec copies from the file
LEMMA CopyBuf ==
    ASSUME NEW m, NEW M0, NEW C0, NEW S, NEW H, Build(m, M0, C0, S, H),
           NEW s, s.start \in Nat, s.filepages \in Nat, FirstPages(s, s.filepages) \subseteq DOMAIN H,
           NEW g, \A v \in FirstPages(s, s.filepages) : g[v] = Content(v)
    PROVE  Wrote(m, mm_copy_from_buf(m, s)[s.filepages], M0, C0, S,
                 Put(H, FirstPages(s, s.filepages), g))
<1> PICK h : h = mm_copy_from_buf(m, s)
  OBVIOUS
<1>1. h[0] = m /\ \A i \in 1 .. s.filepages : h[i] = put_page(h[i - 1], Page(s, i))
  BY CopyFromBufIs
<1> DEFINE P == {i \in 0 .. s.filepages : Wrote(m, h[i], M0, C0, S, Put(H, FirstPages(s, i), g))}
<1>2. 0 \in P
  <2>1. Wrote(m, m, M0, C0, S, Put(H, {}, g))
    BY WroteNothing
  <2>2. Wrote(m, h[0], M0, C0, S, Put(H, {}, g))
    BY <1>1, <2>1
  <2> QED BY <2>2, NoPages
<1>3. ASSUME NEW i \in 1 .. s.filepages, i - 1 \in P PROVE i \in P
  <2>1. PICK X, Y, v, p, F : /\ X = FirstPages(s, i - 1) /\ Y = FirstPages(s, i) /\ v = Page(s, i)
                             /\ p = h[i - 1] /\ F = Put(H, X, g)
    OBVIOUS
  <2>2. Y = X \cup {v} /\ v \in FirstPages(s, s.filepages)
    BY <2>1 DEF FirstPages, Page
  <2>3. Wrote(m, p, M0, C0, S, F)
    BY <1>3, <2>1
  <2>4. v \in DOMAIN F /\ v \in DOMAIN H
    BY <2>1, <2>2 DEF Put
  <2>7. h[i] = [p EXCEPT !.data[phys_of(p, v)] = g[v]]
    <3>1. h[i] = put_page(p, v) /\ g[v] = Content(v)
      BY <1>1, <2>1, <2>2
    <3> QED BY <3>1 DEF put_page
  <2>8. Wrote(m, h[i], M0, C0, S, [F EXCEPT ![v] = g[v]])
    <3>1. Wrote(m, [p EXCEPT !.data[phys_of(p, v)] = g[v]], M0, C0, S, [F EXCEPT ![v] = g[v]])
      BY <2>3, <2>4, WriteStep
    <3> QED BY <2>7, <3>1
  <2>9. /\ DOMAIN Put(H, Y, g) = DOMAIN [F EXCEPT ![v] = g[v]]
        /\ \A w \in DOMAIN [F EXCEPT ![v] = g[v]] : Put(H, Y, g)[w] = [F EXCEPT ![v] = g[v]][w]
    <3>1. F = Put(H, X, g) /\ v \in DOMAIN H /\ Y = X \cup {v}
      BY <2>1, <2>2, <2>4
    <3> QED BY <3>1 DEF Put
  <2>10. Wrote(m, h[i], M0, C0, S, Put(H, Y, g))
    BY <2>8, <2>9, WroteEqual
  <2> QED BY <2>1, <2>10
<1> HIDE DEF P
<1>4. \A i \in 0 .. s.filepages : i \in P
  BY <1>2, <1>3, Upto
<1> QED BY <1>4 DEF P

(***************************************************************************)
(* Adding an area to an address space.                                     *)
(***************************************************************************)
\* mm_insert_vma puts an area in front.
Prepend(a, list) == <<a>> \o list

\* A regular area with its pages was added.
Added(m, n, a, M0, C0, S, H) ==
    /\ Keeps(m, n)
    /\ n.oom \/ /\ Build(n, M0, C0, S, H)
                /\ n.areas = Prepend(a, m.areas)
                /\ n.cr3 = m.cr3 /\ n.refcnt = m.refcnt /\ n.harm = m.harm

\* The machine stays on its way.
LEMMA AddedGoing ==
    ASSUME NEW m, NEW n, NEW a, NEW M0, NEW C0, NEW S, NEW H, Added(m, n, a, M0, C0, S, H)
    PROVE  Going(n, M0, C0, S, H)
  BY DEF Added, Going, Keeps

\* Functions with the same values are as good.
LEMMA AddedEqual ==
    ASSUME NEW m, NEW n, NEW a, NEW M0, NEW C0, NEW S, NEW H, Added(m, n, a, M0, C0, S, H),
           NEW H2, DOMAIN H2 = DOMAIN H, \A v \in DOMAIN H : H2[v] = H[v]
    PROVE  Added(m, n, a, M0, C0, S, H2)
<1>1. ASSUME Build(n, M0, C0, S, H) PROVE Build(n, M0, C0, S, H2)
  BY <1>1, BuildEqual
<1> QED BY <1>1 DEF Added

\* What mm_insert_vma does
Inserted(m, n, a) ==
    /\ DOMAIN n = Fields /\ n.used = m.used /\ n.table = m.table /\ n.data = m.data
    /\ n.p4 = m.p4 /\ n.oom = m.oom /\ n.areas = Prepend(a, m.areas) /\ n.cr3 = m.cr3
    /\ n.refcnt = CountIn(m.refcnt, a) /\ n.harm = m.harm

\* It does so.
LEMMA Insert ==
    ASSUME NEW m, DOMAIN m = Fields, NEW a
    PROVE  Inserted(m, mm_insert_vma(m, a), a)
<1> PICK n, list, r : n = mm_insert_vma(m, a) /\ list = Prepend(a, m.areas) /\ r = CountIn(m.refcnt, a)
  OBVIOUS
<1>1. n = [m EXCEPT !.areas = list, !.refcnt = r]
  BY DEF mm_insert_vma, Prepend
<1> QED BY <1>1 DEF Fields, Inserted

\* anon_mmap adds a regular area of zeroes.
LEMMA AnonMmap ==
    ASSUME NEW m, NEW M0, NEW C0, NEW S, NEW H, Going(m, M0, C0, S, H),
           NEW a \in AllAreas, IsReg(a), PagesOf(a) \cap (DOMAIN S \cup DOMAIN H) = {},
           NEW g, \A v \in PagesOf(a) : g[v] = "zero"
    PROVE  Added(m, anon_mmap(m, a), a, M0, C0, S, Over(H, PagesOf(a), g))
<1> PICK p, n, F : p = AnonPages(m, a)[a.pages] /\ n = anon_mmap(m, a) /\ F = Over(H, PagesOf(a), g)
  OBVIOUS
<1>1. Did(m, p, M0, C0, S, F)
  BY AnonArea
<1>2. n = mm_insert_vma(p, a)
  BY DEF anon_mmap
<1>3. DOMAIN p = Fields
  BY <1>1 DEF Did, Keeps
<1>4. /\ DOMAIN n = Fields /\ n.used = p.used /\ n.table = p.table /\ n.data = p.data
      /\ n.p4 = p.p4 /\ n.oom = p.oom /\ n.areas = Prepend(a, p.areas) /\ n.cr3 = p.cr3
      /\ n.refcnt = p.refcnt /\ n.harm = p.harm
  <2>1. Inserted(p, n, a)
    BY <1>2, <1>3, Insert
  <2> QED BY <2>1 DEF Inserted, CountIn
<1>5. Keeps(m, n)
  BY <1>1, <1>4 DEF Did, Keeps
<1>6. ASSUME ~n.oom
      PROVE  /\ Build(n, M0, C0, S, F) /\ n.areas = Prepend(a, m.areas)
             /\ n.cr3 = m.cr3 /\ n.refcnt = m.refcnt /\ n.harm = m.harm
  <2>1. Build(p, M0, C0, S, F) /\ Same(m, p)
    BY <1>1, <1>4, <1>6 DEF Did
  <2>2. Build(n, M0, C0, S, F)
    BY <1>4, <2>1, BuildSame
  <2> QED BY <1>4, <2>1, <2>2 DEF Same
<1> QED BY <1>5, <1>6 DEF Added

\* An area is added, then filled.
LEMMA AddedWrote ==
    ASSUME NEW m, NEW p, NEW n, NEW a, NEW M0, NEW C0, NEW S, NEW H, NEW H2,
           Added(m, p, a, M0, C0, S, H), ~p.oom, Wrote(p, n, M0, C0, S, H2)
    PROVE  Added(m, n, a, M0, C0, S, H2)
<1>1. /\ Build(p, M0, C0, S, H) /\ p.areas = Prepend(a, m.areas)
      /\ p.cr3 = m.cr3 /\ p.refcnt = m.refcnt /\ p.harm = m.harm /\ Keeps(m, p)
  BY DEF Added
<1>2. Build(n, M0, C0, S, H2) /\ Same(p, n)
  BY DEF Wrote
<1>3. DOMAIN n = Fields /\ ~n.oom
  BY <1>2, BuildType
<1> QED BY <1>1, <1>2, <1>3 DEF Added, Same, Keeps

\* dupe_vma adds an area with what the other space holds there.
LEMMA DupeArea ==
    ASSUME NEW m, NEW M0, NEW C0, NEW S, NEW H, Going(m, M0, C0, S, H),
           NEW a \in AllAreas, IsReg(a), PagesOf(a) \cap (DOMAIN S \cup DOMAIN H) = {}, NEW src,
           NEW g, \A v \in PagesOf(a) : At(src, v, 0) \in DOMAIN C0 /\ g[v] = C0[At(src, v, 0)]
    PROVE  Added(m, dupe_vma(m, src, a), a, M0, C0, S, Over(H, PagesOf(a), g))
<1> PICK z, p, n, X : /\ z = [v \in PagesOf(a) |-> "zero"] /\ p = anon_mmap(m, a)
                      /\ n = dupe_vma(m, src, a) /\ X = PagesOf(a)
  OBVIOUS
<1>0. n = IF p.oom THEN p ELSE mm_copy_from_mm(p, src, a)[a.pages]
  BY DEF dupe_vma, fill_from_mm
<1>1. Added(m, p, a, M0, C0, S, Over(H, X, z))
  BY AnonMmap
<1>2. CASE p.oom
  BY <1>0, <1>1, <1>2 DEF Added
<1>3. CASE ~p.oom
  <2>1. PICK F : F = Over(H, X, z)
    OBVIOUS
  <2>2. DOMAIN F = DOMAIN H \cup X /\ \A v \in DOMAIN H : F[v] = H[v]
    BY <2>1 DEF Over
  <2>3. Build(p, M0, C0, S, F)
    BY <1>1, <1>3, <2>1 DEF Added
  <2>4. Wrote(p, n, M0, C0, S, Put(F, X, g))
    <3>1. PagesOf(a) \subseteq DOMAIN F
      BY <2>2
    <3>2. Wrote(p, mm_copy_from_mm(p, src, a)[a.pages], M0, C0, S, Put(F, PagesOf(a), g))
      BY <2>3, <3>1, CopyArea
    <3> QED BY <1>0, <1>3, <3>2
  <2>5. Added(m, n, a, M0, C0, S, Put(F, X, g))
    BY <1>1, <1>3, <2>4, AddedWrote
  <2>6. /\ DOMAIN Over(H, X, g) = DOMAIN Put(F, X, g)
        /\ \A v \in DOMAIN Put(F, X, g) : Over(H, X, g)[v] = Put(F, X, g)[v]
    <3>1. X \cap DOMAIN H = {}
      OBVIOUS
    <3> QED BY <2>2, <3>1 DEF Over, Put
  <2> QED BY <2>5, <2>6, AddedEqual
<1> QED BY <1>2, <1>3

\* The first pages of a segment hold what the file has, the others zeroes.
SegmentHolds(s) ==
    [v \in PagesOf(s) |-> IF v \in FirstPages(s, s.filepages) THEN Content(v) ELSE "zero"]

\* map_segment adds an area with what the file has.
LEMMA LoadSegment ==
    ASSUME NEW m, NEW M0, NEW C0, NEW S, NEW H, Going(m, M0, C0, S, H),
           NEW image \in Images, NEW i \in DOMAIN image, NEW s, s = image[i],
           NEW a, a = SegmentArea(s), PagesOf(a) \cap (DOMAIN S \cup DOMAIN H) = {}
    PROVE  Added(m, map_segment(m, s), a, M0, C0, S, Over(H, PagesOf(a), SegmentHolds(s)))
<1> PICK z, p, n, X, Y, g :
        /\ z = [v \in PagesOf(a) |-> "zero"] /\ p = anon_mmap(m, a) /\ n = map_segment(m, s)
        /\ X = PagesOf(a) /\ Y = FirstPages(s, s.filepages) /\ g = SegmentHolds(s)
  OBVIOUS
<1>0. n = IF p.oom THEN p ELSE mm_copy_from_buf(p, s)[s.filepages]
  BY DEF map_segment, fill_from_buf
<1>a. /\ a \in AllAreas /\ IsReg(a) /\ a.start = s.start /\ a.pages = s.pages
      /\ s.start \in Nat /\ s.pages \in Nat /\ s.filepages \in Nat /\ s.filepages <= s.pages
  BY SegArea
<1>b. X = PagesOf(s) /\ Y \subseteq X
  BY <1>a DEF PagesOf, FirstPages
<1>1. Added(m, p, a, M0, C0, S, Over(H, X, z))
  BY <1>a, AnonMmap
<1>2. CASE p.oom
  BY <1>0, <1>1, <1>2 DEF Added
<1>3. CASE ~p.oom
  <2>1. PICK F : F = Over(H, X, z)
    OBVIOUS
  <2>2. DOMAIN F = DOMAIN H \cup X /\ \A v \in DOMAIN H : F[v] = H[v]
    BY <2>1 DEF Over
  <2>x. X \cap DOMAIN H = {}
    OBVIOUS
  <2>y. \A v \in X : F[v] = "zero"
    BY <2>1, <2>x DEF Over
  <2>3. Build(p, M0, C0, S, F)
    BY <1>1, <1>3, <2>1 DEF Added
  <2>4. Wrote(p, n, M0, C0, S, Put(F, Y, g))
    <3>1. FirstPages(s, s.filepages) \subseteq DOMAIN F
      BY <1>b, <2>2
    <3>2. \A v \in FirstPages(s, s.filepages) : g[v] = Content(v)
      BY <1>b DEF SegmentHolds
    <3>3. Wrote(p, mm_copy_from_buf(p, s)[s.filepages], M0, C0, S, Put(F, FirstPages(s, s.filepages), g))
      BY <1>a, <2>3, <3>1, <3>2, CopyBuf
    <3> QED BY <1>0, <1>3, <3>3
  <2>5. Added(m, n, a, M0, C0, S, Put(F, Y, g))
    BY <1>1, <1>3, <2>4, AddedWrote
  <2>6. /\ DOMAIN Over(H, X, g) = DOMAIN Put(F, Y, g)
        /\ \A v \in DOMAIN Put(F, Y, g) : Over(H, X, g)[v] = Put(F, Y, g)[v]
    <3>1. \A v \in X : g[v] = IF v \in Y THEN Content(v) ELSE "zero"
      BY <1>b DEF SegmentHolds
    <3> QED BY <1>b, <2>2, <2>x, <2>y, <3>1 DEF Over, Put
  <2> QED BY <2>5, <2>6, AddedEqual
<1> QED BY <1>2, <1>3

(***************************************************************************)
(* A new address space has the kernel's areas.                             *)
(***************************************************************************)
\* The types of the kernel's areas
KTypes == {a.type : a \in Range(KernelAreas)}

\* The pages of the first i of the kernel's areas
KFirst(i) == UNION {PagesOf(KernelAreas[j]) : j \in 1 .. i}

\* The kernel's pages, mapped as the kernel's own tables do
Mirror(M0, X) == [v \in X |-> M0[At(kernel_p4, v, 0)]]

\* The first i of the kernel's areas, last first
RevList(list, i) ==
    list \in Seq(AllAreas) /\ Len(list) = i /\ \A j \in 1 .. i : list[j] = KernelAreas[i + 1 - j]

\* The first i of the kernel's areas have been counted.
Counted(r, s, i) ==
    /\ s \in [KTypes -> Int]
    /\ \A k \in KTypes : s[k] = r[k] + (IF \E j \in 1 .. i : KernelAreas[j].type = k THEN 1 ELSE 0)

\* There are kernel areas; all of them have all its pages.
LEMMA KernelLen ==
    /\ Len(KernelAreas) \in Nat \ {0} /\ DOMAIN KernelAreas = 1 .. Len(KernelAreas)
    /\ KFirst(Len(KernelAreas)) = KPages /\ KFirst(0) = {}
<1> DEFINE R == [type : STRING \ {"VM_AREA_REG"}, start : Nat,
                 pages : Nat \ {0}, write : BOOLEAN, user : {FALSE}]
<1>1. KernelAreas \in Seq(R) /\ KernelAreas # <<>>
  BY LayoutAssumption
<1> HIDE DEF R
<1>2. Len(KernelAreas) \in Nat \ {0} /\ DOMAIN KernelAreas = 1 .. Len(KernelAreas)
  BY <1>1
<1> QED BY <1>2 DEF KFirst, KPages

\* Each has pages of its own, and a type of its own.
LEMMA KernelStep ==
    ASSUME NEW i \in 1 .. Len(KernelAreas)
    PROVE  /\ i \in DOMAIN KernelAreas
           /\ KFirst(i) = KFirst(i - 1) \cup PagesOf(KernelAreas[i])
           /\ PagesOf(KernelAreas[i]) \cap KFirst(i - 1) = {}
           /\ \A j \in 1 .. i - 1 : KernelAreas[j].type # KernelAreas[i].type
           /\ KernelAreas[i].type \in KTypes
<1>1. i \in DOMAIN KernelAreas /\ \A j \in 1 .. i - 1 : j \in DOMAIN KernelAreas /\ j # i
  BY KernelLen
<1>2. KFirst(i) = KFirst(i - 1) \cup PagesOf(KernelAreas[i])
  <2>1. 1 .. i = (1 .. i - 1) \cup {i}
    BY KernelLen
  <2> QED BY <2>1 DEF KFirst
<1>3. \A j \in 1 .. i - 1 : /\ KernelAreas[j].type # KernelAreas[i].type
                            /\ PagesOf(KernelAreas[j]) \cap PagesOf(KernelAreas[i]) = {}
  BY <1>1, LayoutAssumption
<1>4. PagesOf(KernelAreas[i]) \cap KFirst(i - 1) = {}
  BY <1>3 DEF KFirst
<1>5. KernelAreas[i].type \in KTypes
  BY <1>1 DEF KTypes, Range
<1> QED BY <1>1, <1>2, <1>3, <1>4, <1>5

\* Each type is that of some area.
LEMMA KTypeOf == ASSUME NEW k \in KTypes PROVE \E j \in 1 .. Len(KernelAreas) : KernelAreas[j].type = k
  BY KernelLen DEF KTypes, Range

\* What Prepend does to a list
LEMMA PrependIs ==
    ASSUME NEW list \in Seq(AllAreas), NEW a \in AllAreas
    PROVE  /\ Prepend(a, list) \in Seq(AllAreas) /\ Len(Prepend(a, list)) = Len(list) + 1
           /\ Prepend(a, list)[1] = a
           /\ \A j \in 2 .. Len(list) + 1 : Prepend(a, list)[j] = list[j - 1]
  BY DEF Prepend

\* Sharing one area after the other leaves them in reverse order.
LEMMA RevStep ==
    ASSUME NEW i \in 1 .. Len(KernelAreas), NEW list, RevList(list, i - 1)
    PROVE  RevList(Prepend(KernelAreas[i], list), i)
<1> PICK a, q : a = KernelAreas[i] /\ q = Prepend(a, list)
  OBVIOUS
<1>0. a \in AllAreas /\ list \in Seq(AllAreas) /\ Len(list) = i - 1
  BY KernelArea, KernelLen DEF RevList
<1>1. /\ q \in Seq(AllAreas) /\ Len(q) = Len(list) + 1 /\ q[1] = a
      /\ \A j \in 2 .. Len(list) + 1 : q[j] = list[j - 1]
  BY <1>0 DEF Prepend
<1>2. ASSUME NEW j \in 1 .. i PROVE q[j] = KernelAreas[i + 1 - j]
  <2>1. CASE j = 1
    BY <1>1, <2>1, KernelLen
  <2>2. CASE j # 1
    <3>1. j \in 2 .. Len(list) + 1 /\ j - 1 \in 1 .. i - 1 /\ i - 1 + 1 - (j - 1) = i + 1 - j
      BY <1>0, <2>2, KernelLen
    <3>2. list[j - 1] = KernelAreas[i - 1 + 1 - (j - 1)]
      BY <3>1 DEF RevList
    <3> QED BY <1>1, <3>1, <3>2
  <2> QED BY <2>1, <2>2
<1>3. Len(q) = i
  BY <1>0, <1>1, KernelLen
<1> QED BY <1>1, <1>2, <1>3 DEF RevList

\* Each is counted when it is added.
LEMMA CountStep ==
    ASSUME NEW i \in 1 .. Len(KernelAreas), NEW r \in [KTypes -> Int], NEW s, Counted(r, s, i - 1)
    PROVE  Counted(r, CountIn(s, KernelAreas[i]), i)
<1> PICK t, u : t = KernelAreas[i].type /\ u = [s EXCEPT ![t] = @ + 1] /\ u = CountIn(s, KernelAreas[i])
  BY KernelArea, KernelLen DEF CountIn
<1>1. t \in KTypes /\ \A j \in 1 .. i - 1 : KernelAreas[j].type # t
  BY KernelStep
<1>2. u \in [KTypes -> Int] /\ u[t] = s[t] + 1 /\ \A k \in KTypes : k # t => u[k] = s[k]
  <2>1. s \in [KTypes -> Int]
    BY DEF Counted
  <2> QED BY <1>1, <2>1
<1>3. s[t] = r[t] /\ u[t] = r[t] + 1
  <2>1. s[t] = r[t] + 0 /\ r[t] \in Int
    BY <1>1 DEF Counted
  <2> QED BY <1>2, <2>1
<1>4. ASSUME NEW k \in KTypes
      PROVE  u[k] = r[k] + (IF \E j \in 1 .. i : KernelAreas[j].type = k THEN 1 ELSE 0)
  <2>1. 1 .. i = (1 .. i - 1) \cup {i}
    BY KernelLen
  <2>2. CASE k = t
    BY <1>3, <2>1, <2>2
  <2>3. CASE k # t
    <3>1. (\E j \in 1 .. i : KernelAreas[j].type = k) <=> (\E j \in 1 .. i - 1 : KernelAreas[j].type = k)
      BY <2>1, <2>3
    <3>2. s[k] = r[k] + (IF \E j \in 1 .. i - 1 : KernelAreas[j].type = k THEN 1 ELSE 0)
      BY DEF Counted
    <3> QED BY <1>2, <2>3, <3>1, <3>2
  <2> QED BY <2>2, <2>3
<1> QED BY <1>2, <1>4 DEF Counted

\* The kernel's tables map all its pages.
KernelIn(M0) == \A v \in KPages : At(kernel_p4, v, 0) \in DOMAIN M0

\* The first i of the kernel's areas are in the new space.
Initing(m, n, M0, C0, i) ==
    /\ Build(n, M0, C0, Mirror(M0, KFirst(i)), <<>>)
    /\ RevList(n.areas, i)
    /\ m.refcnt \in [KTypes -> Int] /\ Counted(m.refcnt, n.refcnt, i)
    /\ n.cr3 = m.cr3 /\ n.harm = m.harm

\* The empty function
LEMMA EmptyMap == DOMAIN <<>> = {}
  OBVIOUS

\* mm_share_vma adds one kernel area, or runs out of frames.
LEMMA InitStep ==
    ASSUME NEW m, NEW p, NEW M0, NEW C0, NEW i \in 1 .. Len(KernelAreas), DOMAIN p = Fields,
           KernelIn(M0), p.oom \/ Initing(m, p, M0, C0, i - 1),
           NEW n, n = mm_share_vma(p, KernelAreas[i])
    PROVE  Keeps(p, n) /\ (n.oom \/ Initing(m, n, M0, C0, i))
<1> PICK a, q, X, S, H, g : /\ a = KernelAreas[i] /\ q = SharedPages(p, a)[a.pages] /\ X = KFirst(i - 1)
                            /\ S = Mirror(M0, X) /\ H = <<>> /\ g = Mirror(M0, KPages)
  OBVIOUS
<1>0. a \in AllAreas /\ ~IsReg(a) /\ PagesOf(a) \subseteq KPages /\ PagesOf(a) \cap X = {}
  BY KernelArea, KernelStep
<1>1. Going(p, M0, C0, S, H)
  BY DEF Going, Initing
<1>2. DOMAIN S = X /\ DOMAIN H = {}
  BY EmptyMap DEF Mirror
<1>3. \A v \in PagesOf(a) : At(kernel_p4, v, 0) \in DOMAIN M0 /\ g[v] = M0[At(kernel_p4, v, 0)]
  BY <1>0 DEF KernelIn, Mirror
<1>4. Did(p, q, M0, C0, Over(S, PagesOf(a), g), H)
  <2>1. PagesOf(a) \cap (DOMAIN S \cup DOMAIN H) = {}
    BY <1>0, <1>2
  <2> QED BY <1>0, <1>1, <1>3, <2>1, ShareArea
<1>5. n = mm_insert_vma(q, a) /\ DOMAIN q = Fields
  BY <1>4 DEF mm_share_vma, Did, Keeps
<1>6. /\ DOMAIN n = Fields /\ n.used = q.used /\ n.table = q.table /\ n.data = q.data
      /\ n.p4 = q.p4 /\ n.oom = q.oom /\ n.areas = Prepend(a, q.areas) /\ n.cr3 = q.cr3
      /\ n.refcnt = CountIn(q.refcnt, a) /\ n.harm = q.harm
  <2>1. Inserted(q, n, a)
    BY <1>5, Insert
  <2> QED BY <2>1 DEF Inserted
<1>7. Keeps(p, n)
  BY <1>4, <1>6 DEF Did, Keeps
<1>8. ASSUME ~n.oom PROVE Initing(m, n, M0, C0, i)
  <2>1. ~q.oom /\ ~p.oom
    BY <1>4, <1>6, <1>8 DEF Did, Keeps
  <2>2. Build(q, M0, C0, Over(S, PagesOf(a), g), H) /\ Same(p, q)
    BY <1>4, <2>1 DEF Did
  <2>3. Build(q, M0, C0, Mirror(M0, KFirst(i)), H)
    <3>1. KFirst(i) = X \cup PagesOf(a)
      BY KernelStep
    <3>2. /\ DOMAIN Mirror(M0, KFirst(i)) = DOMAIN Over(S, PagesOf(a), g)
          /\ \A v \in DOMAIN Over(S, PagesOf(a), g) : Mirror(M0, KFirst(i))[v] = Over(S, PagesOf(a), g)[v]
      BY <1>0, <1>2, <3>1 DEF Over, Mirror
    <3> QED BY <2>2, <3>2, BuildEqual
  <2>4. Build(n, M0, C0, Mirror(M0, KFirst(i)), H)
    BY <1>6, <2>3, BuildSame
  <2>5. Initing(m, p, M0, C0, i - 1)
    BY <2>1
  <2>6. RevList(n.areas, i)
    BY <1>6, <2>2, <2>5, RevStep DEF Initing, Same
  <2>7. Counted(m.refcnt, n.refcnt, i)
    <3>1. m.refcnt \in [KTypes -> Int] /\ Counted(m.refcnt, p.refcnt, i - 1) /\ n.refcnt = CountIn(p.refcnt, KernelAreas[i])
      BY <1>6, <2>2, <2>5 DEF Initing, Same
    <3> QED BY <3>1, CountStep
  <2> QED BY <1>6, <2>2, <2>4, <2>5, <2>6, <2>7 DEF Initing, Same
<1> QED BY <1>7, <1>8

\* mm_init makes a space with the kernel's areas and nothing else.
LEMMA MmInit ==
    ASSUME NEW m, NEW M0, NEW C0, DOMAIN m = Fields, m.oom \/ Good(m, M0, C0, {}),
           m.oom \/ m.refcnt \in [KTypes -> Int], KernelIn(M0),
           NEW n, n = mm_init(m)
    PROVE  Keeps(m, n) /\ (n.oom \/ Initing(m, n, M0, C0, Len(KernelAreas)))
<1> PICK h, K : h = WithAreas(m) /\ K = Len(KernelAreas)
  OBVIOUS
<1>0. K \in Nat /\ n = h[K]
  BY KernelLen DEF mm_init
<1>1. /\ h[0] = [m EXCEPT !.p4 = NONE, !.areas = <<>>]
      /\ \A i \in 1 .. K : h[i] = mm_share_vma(h[i - 1], KernelAreas[i])
  <2>1. Len(KernelAreas) \in Nat
    BY <1>0
  <2> QED BY <2>1, WithAreasIs, Zenon
<1> DEFINE P == {i \in 0 .. K : Keeps(m, h[i]) /\ (h[i].oom \/ Initing(m, h[i], M0, C0, i))}
<1>2. 0 \in P
  <2>1. PICK p : p = h[0]
    OBVIOUS
  <2>2. /\ DOMAIN p = Fields /\ p.used = m.used /\ p.table = m.table /\ p.data = m.data /\ p.p4 = NONE
        /\ p.oom = m.oom /\ p.areas = <<>> /\ p.cr3 = m.cr3 /\ p.refcnt = m.refcnt /\ p.harm = m.harm
    BY <1>1, <2>1 DEF Fields
  <2>3. Keeps(m, p)
    BY <2>2 DEF Keeps
  <2>4. ASSUME ~p.oom PROVE Initing(m, p, M0, C0, 0)
    <3>1. Good(m, M0, C0, {}) /\ ~p.oom /\ m.refcnt \in [KTypes -> Int]
      BY <2>2, <2>4
    <3>2. DOMAIN Mirror(M0, KFirst(0)) = {} /\ DOMAIN <<>> = {}
      BY KernelLen, EmptyMap DEF Mirror
    <3>3. Build(p, M0, C0, Mirror(M0, KFirst(0)), <<>>)
      BY <2>2, <3>1, <3>2, BuildStart
    <3>4. RevList(p.areas, 0)
      BY <2>2 DEF RevList
    <3>5. Counted(m.refcnt, p.refcnt, 0)
      BY <2>2, <3>1 DEF Counted
    <3> QED BY <2>2, <3>1, <3>3, <3>4, <3>5 DEF Initing
  <2> QED BY <1>0, <2>1, <2>3, <2>4
<1>3. ASSUME NEW i \in 1 .. K, i - 1 \in P PROVE i \in P
  <2>1. PICK p, q : p = h[i - 1] /\ q = h[i]
    OBVIOUS
  <2>2. Keeps(m, p) /\ (p.oom \/ Initing(m, p, M0, C0, i - 1)) /\ q = mm_share_vma(p, KernelAreas[i])
    BY <1>1, <1>3, <2>1
  <2>3. DOMAIN p = Fields
    BY <2>2 DEF Keeps
  <2>4. Keeps(p, q) /\ (q.oom \/ Initing(m, q, M0, C0, i))
    BY <2>2, <2>3, InitStep
  <2>5. Keeps(m, q)
    BY <2>2, <2>4 DEF Keeps
  <2> QED BY <2>1, <2>4, <2>5
<1> HIDE DEF P
<1>4. \A i \in 0 .. K : i \in P
  BY <1>0, <1>2, <1>3, Upto
<1>5. K \in P
  BY <1>0, <1>4
<1> QED BY <1>0, <1>5 DEF P

(***************************************************************************)
(* The list of areas of an address space: n regular ones with the pages X, *)
(* then those of the kernel.                                               *)
(***************************************************************************)
\* Regular areas are apart from each other.
AreasOK(list, n, X) ==
    /\ n \in Nat /\ list \in Seq(AllAreas) /\ Len(list) = n + Len(KernelAreas)
    /\ \A j \in 1 .. n : IsReg(list[j])
    /\ \A j \in 1 .. Len(KernelAreas) : list[n + j] = KernelAreas[Len(KernelAreas) + 1 - j]
    /\ \A i, j \in 1 .. n : i # j => PagesOf(list[i]) \cap PagesOf(list[j]) = {}
    /\ X = UNION {PagesOf(list[j]) : j \in 1 .. n}

\* A new space has no regular areas.
LEMMA AreasNew ==
    ASSUME NEW list, RevList(list, Len(KernelAreas)) PROVE AreasOK(list, 0, {})
<1>1. \A j \in 1 .. Len(KernelAreas) : 0 + j = j /\ list[j] = KernelAreas[Len(KernelAreas) + 1 - j]
  BY KernelLen DEF RevList
<1> QED BY <1>1, KernelLen DEF AreasOK, RevList

\* Another regular area may be put in front.
LEMMA AreasMore ==
    ASSUME NEW list, NEW n, NEW X, AreasOK(list, n, X), NEW a \in AllAreas, IsReg(a),
           PagesOf(a) \cap X = {}
    PROVE  AreasOK(Prepend(a, list), n + 1, X \cup PagesOf(a))
<1> PICK q, K : q = Prepend(a, list) /\ K = Len(KernelAreas)
  OBVIOUS
<1>0. n \in Nat /\ list \in Seq(AllAreas) /\ Len(list) = n + K /\ K \in Nat
  BY KernelLen DEF AreasOK
<1>1. /\ q \in Seq(AllAreas) /\ Len(q) = Len(list) + 1 /\ q[1] = a
      /\ \A j \in 2 .. Len(list) + 1 : q[j] = list[j - 1]
  <2>1. list \in Seq(AllAreas)
    BY <1>0
  <2>2. /\ Prepend(a, list) \in Seq(AllAreas) /\ Len(Prepend(a, list)) = Len(list) + 1
        /\ Prepend(a, list)[1] = a
        /\ \A j \in 2 .. Len(list) + 1 : Prepend(a, list)[j] = list[j - 1]
    BY <2>1, PrependIs
  <2> QED BY <2>2
<1>2. \A j \in 2 .. n + 1 : q[j] = list[j - 1] /\ j - 1 \in 1 .. n
  BY <1>0, <1>1
<1>3. \A j \in 1 .. n + 1 : j = 1 \/ j \in 2 .. n + 1
  BY <1>0
<1>4. \A j \in 1 .. n : IsReg(list[j]) /\ PagesOf(list[j]) \cap PagesOf(a) = {}
  BY DEF AreasOK
<1>5. \A j \in 1 .. n + 1 : IsReg(q[j])
  BY <1>1, <1>2, <1>3, <1>4
<1>6. ASSUME NEW i \in 1 .. n + 1, NEW j \in 1 .. n + 1, i # j
      PROVE  PagesOf(q[i]) \cap PagesOf(q[j]) = {}
  <2>1. CASE i = 1
    BY <1>1, <1>2, <1>3, <1>4, <1>6, <2>1
  <2>2. CASE j = 1
    BY <1>1, <1>2, <1>3, <1>4, <1>6, <2>2
  <2>3. CASE i \in 2 .. n + 1 /\ j \in 2 .. n + 1
    <3>1. i - 1 \in 1 .. n /\ j - 1 \in 1 .. n /\ i - 1 # j - 1
      BY <1>0, <1>6, <2>3
    <3>2. PagesOf(list[i - 1]) \cap PagesOf(list[j - 1]) = {}
      BY <3>1 DEF AreasOK
    <3> QED BY <1>2, <2>3, <3>2
  <2> QED BY <1>3, <1>6, <2>1, <2>2, <2>3
<1>7. ASSUME NEW j \in 1 .. K PROVE q[n + 1 + j] = KernelAreas[K + 1 - j]
  <2>2. list[n + j] = KernelAreas[K + 1 - j]
    BY DEF AreasOK
  <2>3. PICK k : k = n + 1 + j
    OBVIOUS
  <2>4. k \in 2 .. Len(list) + 1 /\ k - 1 = n + j
    BY <1>0, <2>3
  <2>5. q[k] = list[k - 1]
    BY <1>1, <2>4
  <2> QED BY <2>2, <2>3, <2>4, <2>5
<1>8. X \cup PagesOf(a) = UNION {PagesOf(q[j]) : j \in 1 .. n + 1}
  <2>1. X = UNION {PagesOf(list[j]) : j \in 1 .. n}
    BY DEF AreasOK
  <2>2. \A j \in 1 .. n : j + 1 \in 2 .. n + 1 /\ j + 1 \in 1 .. n + 1 /\ q[j + 1] = list[j]
    BY <1>0, <1>1
  <2>3. 1 \in 1 .. n + 1
    BY <1>0
  <2>4. ASSUME NEW v \in X PROVE \E j \in 1 .. n + 1 : v \in PagesOf(q[j])
    <3>1. PICK j \in 1 .. n : v \in PagesOf(list[j])
      BY <2>1
    <3> QED BY <2>2, <3>1
  <2>5. ASSUME NEW j \in 1 .. n + 1, NEW v \in PagesOf(q[j]) PROVE v \in X \cup PagesOf(a)
    <3>1. CASE j = 1
      BY <1>1, <2>5, <3>1
    <3>2. CASE j \in 2 .. n + 1
      BY <1>2, <2>1, <2>5, <3>2
    <3> QED BY <1>3, <2>5, <3>1, <3>2
  <2>6. \A v \in PagesOf(a) : \E j \in 1 .. n + 1 : v \in PagesOf(q[j])
    BY <1>1, <2>3
  <2> QED BY <2>4, <2>5, <2>6
<1>9. Len(q) = n + 1 + K /\ n + 1 \in Nat
  BY <1>0, <1>1
<1>10. AreasOK(q, n + 1, X \cup PagesOf(a))
  BY <1>1, <1>5, <1>6, <1>7, <1>8, <1>9 DEF AreasOK
<1> QED BY <1>10

(***************************************************************************)
(* A new address space: the kernel's areas and n others with what H says.  *)
(***************************************************************************)
\* It is counted once in each kernel area.
NewSpace(m, r, M0, C0, n, H) ==
    /\ Build(r, M0, C0, Mirror(M0, KPages), H)
    /\ AreasOK(r.areas, n, DOMAIN H)
    /\ Counted(m.refcnt, r.refcnt, Len(KernelAreas))
    /\ r.cr3 = m.cr3 /\ r.harm = m.harm

\* mm_init makes one without regular areas.
LEMMA InitSpace ==
    ASSUME NEW m, NEW r, NEW M0, NEW C0, Initing(m, r, M0, C0, Len(KernelAreas)),
           NEW H, DOMAIN H = {}
    PROVE  NewSpace(m, r, M0, C0, 0, H)
<1>1. Build(r, M0, C0, Mirror(M0, KPages), <<>>)
  BY KernelLen DEF Initing
<1>2. Build(r, M0, C0, Mirror(M0, KPages), H)
  BY <1>1, EmptyMap, BuildEqual
<1>3. AreasOK(r.areas, 0, DOMAIN H)
  BY AreasNew DEF Initing
<1> QED BY <1>2, <1>3 DEF NewSpace, Initing

\* One more area: what was added holds g.
LEMMA SpaceMore ==
    ASSUME NEW m, NEW p, NEW q, NEW M0, NEW C0, NEW n, NEW H, NEW a \in AllAreas, IsReg(a), NEW g,
           PagesOf(a) \cap DOMAIN H = {},
           p.oom \/ NewSpace(m, p, M0, C0, n, H),
           Added(p, q, a, M0, C0, Mirror(M0, KPages), Over(H, PagesOf(a), g))
    PROVE  q.oom \/ NewSpace(m, q, M0, C0, n + 1, Over(H, PagesOf(a), g))
<1> SUFFICES ASSUME ~q.oom PROVE NewSpace(m, q, M0, C0, n + 1, Over(H, PagesOf(a), g))
  OBVIOUS
<1> PICK S, F : S = Mirror(M0, KPages) /\ F = Over(H, PagesOf(a), g)
  OBVIOUS
<1>1. ~p.oom
  BY DEF Added, Keeps
<1>2. NewSpace(m, p, M0, C0, n, H)
  BY <1>1
<1>3. /\ Build(q, M0, C0, S, F) /\ q.areas = Prepend(a, p.areas)
      /\ q.cr3 = p.cr3 /\ q.refcnt = p.refcnt /\ q.harm = p.harm
  BY DEF Added
<1>4. DOMAIN F = DOMAIN H \cup PagesOf(a)
  BY DEF Over
<1>5. AreasOK(Prepend(a, p.areas), n + 1, DOMAIN H \cup PagesOf(a))
  BY <1>2, AreasMore DEF NewSpace
<1>6. AreasOK(q.areas, n + 1, DOMAIN F)
  BY <1>3, <1>4, <1>5
<1>7. NewSpace(m, q, M0, C0, n + 1, F)
  BY <1>2, <1>3, <1>6 DEF NewSpace
<1> QED BY <1>7

\* Functions with the same values are as good.
LEMMA SpaceEqual ==
    ASSUME NEW m, NEW r, NEW M0, NEW C0, NEW n, NEW H, r.oom \/ NewSpace(m, r, M0, C0, n, H),
           NEW H2, DOMAIN H2 = DOMAIN H, \A v \in DOMAIN H : H2[v] = H[v]
    PROVE  r.oom \/ NewSpace(m, r, M0, C0, n, H2)
<1> SUFFICES ASSUME ~r.oom PROVE NewSpace(m, r, M0, C0, n, H2)
  OBVIOUS
<1>1. Build(r, M0, C0, Mirror(M0, KPages), H)
  BY DEF NewSpace
<1>2. Build(r, M0, C0, Mirror(M0, KPages), H2)
  BY <1>1, BuildEqual
<1> QED BY <1>2 DEF NewSpace

\* Where a regular area may go
LEMMA SpaceReady ==
    ASSUME NEW m, NEW p, NEW M0, NEW C0, NEW n, NEW H, DOMAIN p = Fields,
           p.oom \/ NewSpace(m, p, M0, C0, n, H),
           NEW a \in AllAreas, IsReg(a), PagesOf(a) \cap DOMAIN H = {}
    PROVE  /\ Going(p, M0, C0, Mirror(M0, KPages), H)
           /\ PagesOf(a) \cap (DOMAIN Mirror(M0, KPages) \cup DOMAIN H) = {}
<1>1. Going(p, M0, C0, Mirror(M0, KPages), H)
  BY DEF Going, NewSpace
<1>2. DOMAIN Mirror(M0, KPages) = KPages
  BY DEF Mirror
<1> QED BY <1>1, <1>2, UserApart

(***************************************************************************)
(* fork: a copy of every regular area.                                     *)
(***************************************************************************)
\* What the first n areas of a list hold, in the space src
CopyOf(list, n, src, C0) ==
    [v \in UNION {PagesOf(list[j]) : j \in 1 .. n} |-> C0[At(src, v, 0)]]

\* dupe_vma copies one area more.
LEMMA DupeStep ==
    ASSUME NEW m, NEW M0, NEW C0, NEW list, NEW n, NEW X, AreasOK(list, n, X), NEW src,
           \A v \in X : At(src, v, 0) \in DOMAIN C0,
           NEW i \in 1 .. n, NEW p, DOMAIN p = Fields,
           p.oom \/ NewSpace(m, p, M0, C0, i - 1, CopyOf(list, i - 1, src, C0))
    PROVE  /\ Keeps(p, dupe_vma(p, src, list[i]))
           /\ \/ dupe_vma(p, src, list[i]).oom
              \/ NewSpace(m, dupe_vma(p, src, list[i]), M0, C0, i, CopyOf(list, i, src, C0))
<1> PICK a, q, H, g, S : /\ a = list[i] /\ q = dupe_vma(p, src, a) /\ H = CopyOf(list, i - 1, src, C0)
                         /\ g = [v \in PagesOf(a) |-> C0[At(src, v, 0)]] /\ S = Mirror(M0, KPages)
  OBVIOUS
<1>0. n \in Nat /\ i \in 1 .. Len(list) /\ list \in Seq(AllAreas)
  BY KernelLen DEF AreasOK
<1>1. a \in AllAreas /\ IsReg(a)
  BY <1>0 DEF AreasOK
<1>2. PagesOf(a) \subseteq X /\ \A j \in 1 .. i - 1 : PagesOf(a) \cap PagesOf(list[j]) = {}
  <2>1. \A j \in 1 .. i - 1 : j \in 1 .. n /\ j # i
    BY <1>0
  <2> QED BY <2>1 DEF AreasOK
<1>3. DOMAIN H = UNION {PagesOf(list[j]) : j \in 1 .. i - 1}
  BY DEF CopyOf
<1>4. PagesOf(a) \cap DOMAIN H = {}
  BY <1>2, <1>3
<1>5. Going(p, M0, C0, S, H) /\ PagesOf(a) \cap (DOMAIN S \cup DOMAIN H) = {}
  BY <1>1, <1>4, SpaceReady
<1>6. \A v \in PagesOf(a) : At(src, v, 0) \in DOMAIN C0 /\ g[v] = C0[At(src, v, 0)]
  BY <1>2
<1>7. Added(p, q, a, M0, C0, S, Over(H, PagesOf(a), g))
  BY <1>1, <1>5, <1>6, DupeArea
<1>8. q.oom \/ NewSpace(m, q, M0, C0, i - 1 + 1, Over(H, PagesOf(a), g))
  BY <1>1, <1>4, <1>7, SpaceMore
<1>9. q.oom \/ NewSpace(m, q, M0, C0, i, Over(H, PagesOf(a), g))
  <2>1. i - 1 + 1 = i
    BY <1>0
  <2> QED BY <1>8, <2>1
<1>10. /\ DOMAIN CopyOf(list, i, src, C0) = DOMAIN Over(H, PagesOf(a), g)
       /\ \A v \in DOMAIN Over(H, PagesOf(a), g) : CopyOf(list, i, src, C0)[v] = Over(H, PagesOf(a), g)[v]
  <2>1. 1 .. i = (1 .. i - 1) \cup {i}
    BY <1>0
  <2>2. DOMAIN CopyOf(list, i, src, C0) = DOMAIN H \cup PagesOf(a)
    BY <1>3, <2>1 DEF CopyOf
  <2>3. \A v \in DOMAIN H \cup PagesOf(a) : CopyOf(list, i, src, C0)[v] = C0[At(src, v, 0)]
    BY <2>2 DEF CopyOf
  <2>4. \A v \in DOMAIN H : H[v] = C0[At(src, v, 0)]
    BY DEF CopyOf
  <2> QED BY <1>6, <2>2, <2>3, <2>4 DEF Over
<1>11. q.oom \/ NewSpace(m, q, M0, C0, i, CopyOf(list, i, src, C0))
  BY <1>9, <1>10, SpaceEqual
<1> QED BY <1>7, <1>11 DEF Added

\* mm_dupe makes a new space that holds what the old one does.
LEMMA MmDupe ==
    ASSUME NEW m, NEW M0, NEW C0, DOMAIN m = Fields, Good(m, M0, C0, {}), ~m.oom,
           m.refcnt \in [KTypes -> Int], KernelIn(M0),
           NEW mm, NEW n, NEW X, AreasOK(mm.areas, n, X),
           \A v \in X : At(mm.p4, v, 0) \in DOMAIN C0,
           ~mm_dupe(m, mm).oom
    PROVE  NewSpace(m, mm_dupe(m, mm), M0, C0, n, [v \in X |-> C0[At(mm.p4, v, 0)]])
<1> PICK h, list, L, src : h = Duplicated(m, mm) /\ list = mm.areas /\ L = Len(list) /\ src = mm.p4
  OBVIOUS
<1>0. n \in Nat /\ L \in Nat /\ L = n + Len(KernelAreas) /\ Len(KernelAreas) \in Nat /\ n <= L
  BY KernelLen DEF AreasOK
<1>1. h[0] = mm_init(m) /\ \A i \in 1 .. L : h[i] = dupe_vma(h[i - 1], src, list[i])
  BY <1>0, DuplicatedIs
<1> DEFINE T(i) == IF i <= n THEN i ELSE n
<1> DEFINE P == {i \in 0 .. L : /\ DOMAIN h[i] = Fields
                                /\ h[i].oom \/ NewSpace(m, h[i], M0, C0, T(i), CopyOf(list, T(i), src, C0))}
<1>2. 0 \in P
  <2>1. PICK p : p = h[0]
    OBVIOUS
  <2>2. Keeps(m, p) /\ (p.oom \/ Initing(m, p, M0, C0, Len(KernelAreas)))
    BY <1>1, <2>1, MmInit
  <2>3. DOMAIN CopyOf(list, 0, src, C0) = {}
    BY DEF CopyOf
  <2>4. p.oom \/ NewSpace(m, p, M0, C0, 0, CopyOf(list, 0, src, C0))
    BY <2>2, <2>3, InitSpace
  <2>5. T(0) = 0 /\ 0 \in 0 .. L
    BY <1>0
  <2> QED BY <2>1, <2>2, <2>4, <2>5 DEF Keeps
<1>3. ASSUME NEW i \in 1 .. L, i - 1 \in P PROVE i \in P
  <2>1. PICK p, q : p = h[i - 1] /\ q = h[i]
    OBVIOUS
  <2>2. DOMAIN p = Fields /\ (p.oom \/ NewSpace(m, p, M0, C0, T(i - 1), CopyOf(list, T(i - 1), src, C0)))
    BY <1>3, <2>1
  <2>3. q = dupe_vma(p, src, list[i])
    BY <1>1, <2>1
  <2>4. CASE i <= n
    <3>1. i \in 1 .. n /\ T(i - 1) = i - 1 /\ T(i) = i
      BY <1>0, <2>4
    <3>2. p.oom \/ NewSpace(m, p, M0, C0, i - 1, CopyOf(list, i - 1, src, C0))
      BY <2>2, <3>1
    <3>3. Keeps(p, q) /\ (q.oom \/ NewSpace(m, q, M0, C0, i, CopyOf(list, i, src, C0)))
      <4> HIDE DEF T
      <4>1. DOMAIN p = Fields /\ AreasOK(list, n, X) /\ \A v \in X : At(src, v, 0) \in DOMAIN C0
        BY <2>2
      <4> QED BY <2>3, <3>1, <3>2, <4>1, DupeStep
    <3> QED BY <2>1, <3>1, <3>3 DEF Keeps
  <2>5. CASE ~(i <= n)
    <3>1. T(i - 1) = n /\ T(i) = n /\ i - n \in 1 .. Len(KernelAreas) /\ n + (i - n) = i
      BY <1>0, <2>5
    <3>2. ~IsReg(list[i])
      <4>1. list[n + (i - n)] = KernelAreas[Len(KernelAreas) + 1 - (i - n)]
        BY <3>1 DEF AreasOK
      <4>2. Len(KernelAreas) + 1 - (i - n) \in DOMAIN KernelAreas
        BY <1>0, <3>1, KernelLen
      <4>3. PICK j : j = Len(KernelAreas) + 1 - (i - n) /\ j \in DOMAIN KernelAreas
        BY <4>2
      <4>4. ~IsReg(KernelAreas[j])
        BY <4>3, KernelArea
      <4>5. list[i] = KernelAreas[j]
        BY <3>1, <4>1, <4>3
      <4> QED BY <4>4, <4>5
    <3>3. q = p
      BY <2>3, <3>2 DEF dupe_vma
    <3>4. DOMAIN q = Fields /\ (q.oom \/ NewSpace(m, q, M0, C0, n, CopyOf(list, n, src, C0)))
      BY <2>2, <3>1, <3>3
    <3>5. i \in 0 .. L
      BY <1>0
    <3> QED BY <2>1, <3>1, <3>4, <3>5
  <2> QED BY <2>4, <2>5
<1> HIDE DEF P
<1>4. \A i \in 0 .. L : i \in P
  BY <1>0, <1>2, <1>3, Upto
<1>5. L \in P
  BY <1>0, <1>4
<1>6. PICK r : r = mm_dupe(m, mm) /\ r = h[L] /\ ~r.oom
  BY DEF mm_dupe
<1>7. T(L) = n
  BY <1>0
<1>8. NewSpace(m, r, M0, C0, n, CopyOf(list, n, src, C0))
  BY <1>5, <1>6, <1>7 DEF P
<1>9. CopyOf(list, n, src, C0) = [v \in X |-> C0[At(mm.p4, v, 0)]]
  <2>1. X = UNION {PagesOf(list[j]) : j \in 1 .. n}
    BY DEF AreasOK
  <2> QED BY <2>1 DEF CopyOf
<1> QED BY <1>6, <1>8, <1>9

(***************************************************************************)
(* exec: the segments of the program, then its stack.                      *)
(***************************************************************************)
\* The pages of the first i segments: those from the file, and all
FilePages(image, i) == UNION {FirstPages(image[j], image[j].filepages) : j \in 1 .. i}
SegPages(image, i)  == UNION {PagesOf(image[j]) : j \in 1 .. i}

\* What they hold
SegsHold(image, i) ==
    [v \in SegPages(image, i) |-> IF v \in FilePages(image, i) THEN Content(v) ELSE "zero"]

\* The segments of a program
LEMMA ImageLen ==
    ASSUME NEW image \in Images
    PROVE  Len(image) \in Nat /\ DOMAIN image = 1 .. Len(image)
<1> DEFINE R == [start : Nat, pages : Nat, filepages : Nat]
<1>1. image \in Seq(R)
  BY LayoutAssumption
<1> HIDE DEF R
<1> QED BY <1>1

\* Segments have their own pages.
LEMMA SegPagesIs ==
    ASSUME NEW image \in Images, NEW i \in DOMAIN image
    PROVE  /\ PagesOf(SegmentArea(image[i])) = PagesOf(image[i])
           /\ FirstPages(image[i], image[i].filepages) \subseteq PagesOf(image[i])
           /\ \A j \in DOMAIN image : j # i => PagesOf(image[j]) \cap PagesOf(image[i]) = {}
<1>1. /\ SegmentArea(image[i]).start = image[i].start
      /\ SegmentArea(image[i]).pages = image[i].pages
      /\ image[i].start \in Nat
      /\ image[i].pages \in Nat /\ image[i].filepages \in Nat
      /\ image[i].filepages <= image[i].pages
  BY SegArea
<1>2. PagesOf(SegmentArea(image[i])) = PagesOf(image[i])
  BY <1>1 DEF PagesOf, FirstPages
<1>3. FirstPages(image[i], image[i].filepages) \subseteq PagesOf(image[i])
  BY <1>1 DEF PagesOf, FirstPages
<1>4. \A j \in DOMAIN image : j # i => PagesOf(image[j]) \cap PagesOf(image[i]) = {}
  BY LayoutAssumption
<1> QED BY <1>2, <1>3, <1>4

\* What the segments hold grows by one segment at a time.
LEMMA SegsStep ==
    ASSUME NEW image \in Images, NEW i \in 1 .. Len(image), NEW a, a = SegmentArea(image[i])
    PROVE  /\ PagesOf(a) \cap DOMAIN SegsHold(image, i - 1) = {}
           /\ DOMAIN SegsHold(image, i) = DOMAIN Over(SegsHold(image, i - 1), PagesOf(a), SegmentHolds(image[i]))
           /\ \A v \in DOMAIN Over(SegsHold(image, i - 1), PagesOf(a), SegmentHolds(image[i])) :
                 SegsHold(image, i)[v] = Over(SegsHold(image, i - 1), PagesOf(a), SegmentHolds(image[i]))[v]
<1> PICK X, Y, A, F : /\ X = SegPages(image, i - 1) /\ Y = FilePages(image, i - 1) /\ A = PagesOf(a)
                      /\ F = FirstPages(image[i], image[i].filepages)
  OBVIOUS
<1>0. DOMAIN image = 1 .. Len(image) /\ i \in DOMAIN image /\ Len(image) \in Nat
  BY ImageLen
<1>1. A = PagesOf(image[i]) /\ F \subseteq A
  BY <1>0, SegPagesIs
<1>2. \A j \in 1 .. i - 1 : PagesOf(image[j]) \cap A = {} /\ FirstPages(image[j], image[j].filepages) \subseteq PagesOf(image[j])
  <2>1. \A j \in 1 .. i - 1 : j \in DOMAIN image /\ j # i
    BY <1>0
  <2> QED BY <1>0, <1>1, <2>1, SegPagesIs
<1>3. Y \subseteq X /\ X \cap A = {}
  BY <1>2 DEF SegPages, FilePages
<1>4. SegPages(image, i) = X \cup A /\ FilePages(image, i) = Y \cup F
  <2>1. 1 .. i = (1 .. i - 1) \cup {i}
    BY <1>0
  <2> QED BY <1>1, <2>1 DEF SegPages, FilePages
<1>5. PICK H, G, g : H = SegsHold(image, i - 1) /\ G = SegsHold(image, i) /\ g = SegmentHolds(image[i])
  OBVIOUS
<1>6. DOMAIN H = X /\ \A v \in X : H[v] = IF v \in Y THEN Content(v) ELSE "zero"
  BY <1>5 DEF SegsHold
<1>7. DOMAIN G = X \cup A /\ \A v \in X \cup A : G[v] = IF v \in Y \cup F THEN Content(v) ELSE "zero"
  BY <1>4, <1>5 DEF SegsHold
<1>8. \A v \in A : g[v] = IF v \in F THEN Content(v) ELSE "zero"
  BY <1>1, <1>5 DEF SegmentHolds
<1>9. DOMAIN Over(H, A, g) = X \cup A /\ \A v \in X \cup A : Over(H, A, g)[v] = IF v \in X THEN H[v] ELSE g[v]
  BY <1>6 DEF Over
<1>10. A \cap DOMAIN H = {} /\ DOMAIN G = DOMAIN Over(H, A, g) /\ \A v \in X \cup A : G[v] = Over(H, A, g)[v]
  BY <1>1, <1>3, <1>6, <1>7, <1>8, <1>9
<1> QED BY <1>5, <1>9, <1>10

\* The stack is apart from the segments: it can be written.
LEMMA StackApart ==
    ASSUME NEW image \in Images
    PROVE  PagesOf(Stack) \cap SegPages(image, Len(image)) = {}
<1> SUFFICES ASSUME NEW j \in 1 .. Len(image) PROVE PagesOf(Stack) \cap PagesOf(image[j]) = {}
  BY DEF SegPages
<1>1. j \in DOMAIN image
  BY ImageLen
<1>2. /\ SegmentArea(image[j]) \in AllAreas /\ ~SegmentArea(image[j]).write
      /\ Stack \in AllAreas /\ Stack.write
  BY <1>1, SegArea, StackArea
<1>3. PagesOf(Stack) \cap PagesOf(SegmentArea(image[j])) = {}
  BY <1>2, AreasApart
<1> QED BY <1>1, <1>3, SegPagesIs

\* map_segment loads one segment more.
LEMMA LoadStep ==
    ASSUME NEW m, NEW M0, NEW C0, NEW image \in Images, NEW i \in 1 .. Len(image),
           NEW p, DOMAIN p = Fields, p.oom \/ NewSpace(m, p, M0, C0, i - 1, SegsHold(image, i - 1))
    PROVE  /\ Keeps(p, map_segment(p, image[i]))
           /\ \/ map_segment(p, image[i]).oom
              \/ NewSpace(m, map_segment(p, image[i]), M0, C0, i, SegsHold(image, i))
<1> PICK a, q, H, g, S : /\ a = SegmentArea(image[i]) /\ q = map_segment(p, image[i])
                         /\ H = SegsHold(image, i - 1) /\ g = SegmentHolds(image[i]) /\ S = Mirror(M0, KPages)
  OBVIOUS
<1>0. i \in DOMAIN image /\ Len(image) \in Nat
  BY ImageLen
<1>1. a \in AllAreas /\ IsReg(a)
  BY <1>0, SegArea
<1>2. /\ PagesOf(a) \cap DOMAIN H = {}
      /\ DOMAIN SegsHold(image, i) = DOMAIN Over(H, PagesOf(a), g)
      /\ \A v \in DOMAIN Over(H, PagesOf(a), g) : SegsHold(image, i)[v] = Over(H, PagesOf(a), g)[v]
  BY SegsStep
<1>3. Going(p, M0, C0, S, H) /\ PagesOf(a) \cap (DOMAIN S \cup DOMAIN H) = {}
  <2>1. PICK n : n = i - 1
    OBVIOUS
  <2>2. p.oom \/ NewSpace(m, p, M0, C0, n, H)
    BY <2>1
  <2>3. PagesOf(a) \cap DOMAIN H = {}
    BY <1>2
  <2> QED BY <1>1, <2>2, <2>3, SpaceReady, Zenon
<1>4. Added(p, q, a, M0, C0, S, Over(H, PagesOf(a), g))
  BY <1>0, <1>3, LoadSegment
<1>5. q.oom \/ NewSpace(m, q, M0, C0, i - 1 + 1, Over(H, PagesOf(a), g))
  BY <1>1, <1>2, <1>4, SpaceMore
<1>6. i - 1 + 1 = i
  BY <1>0
<1>7. q.oom \/ NewSpace(m, q, M0, C0, i, Over(H, PagesOf(a), g))
  BY <1>5, <1>6
<1>8. q.oom \/ NewSpace(m, q, M0, C0, i, SegsHold(image, i))
  BY <1>2, <1>7, SpaceEqual
<1> QED BY <1>4, <1>8 DEF Added

\* exec_elf makes a new space that holds the program and its stack.
LEMMA ExecElf ==
    ASSUME NEW m, NEW M0, NEW C0, DOMAIN m = Fields, m.oom \/ Good(m, M0, C0, {}),
           m.oom \/ m.refcnt \in [KTypes -> Int], KernelIn(M0), NEW image \in Images,
           ~exec_elf(m, image).oom
    PROVE  ~m.oom /\ \E n : NewSpace(m, exec_elf(m, image), M0, C0, n, Loaded(image))
<1> PICK h, L : h = WithSegments(m, image) /\ L = Len(image)
  OBVIOUS
<1>0. L \in Nat /\ DOMAIN image = 1 .. L
  BY ImageLen
<1>1. h[0] = mm_init(m) /\ \A i \in 1 .. L : h[i] = map_segment(h[i - 1], image[i])
  BY <1>0, WithSegmentsIs
<1> DEFINE P == {i \in 0 .. L : Keeps(m, h[i]) /\ (h[i].oom \/ NewSpace(m, h[i], M0, C0, i, SegsHold(image, i)))}
<1>2. 0 \in P
  <2>1. PICK p : p = h[0]
    OBVIOUS
  <2>2. Keeps(m, p) /\ (p.oom \/ Initing(m, p, M0, C0, Len(KernelAreas)))
    BY <1>1, <2>1, MmInit
  <2>3. DOMAIN SegsHold(image, 0) = {}
    BY DEF SegsHold, SegPages
  <2>4. p.oom \/ NewSpace(m, p, M0, C0, 0, SegsHold(image, 0))
    BY <2>2, <2>3, InitSpace
  <2> QED BY <1>0, <2>1, <2>2, <2>4
<1>3. ASSUME NEW i \in 1 .. L, i - 1 \in P PROVE i \in P
  <2>1. PICK p, q : p = h[i - 1] /\ q = h[i]
    OBVIOUS
  <2>2. Keeps(m, p) /\ (p.oom \/ NewSpace(m, p, M0, C0, i - 1, SegsHold(image, i - 1)))
    BY <1>3, <2>1
  <2>3. q = map_segment(p, image[i]) /\ DOMAIN p = Fields /\ i \in 0 .. L
    BY <1>0, <1>1, <2>1, <2>2 DEF Keeps
  <2>4. Keeps(p, q) /\ (q.oom \/ NewSpace(m, q, M0, C0, i, SegsHold(image, i)))
    BY <2>2, <2>3, LoadStep
  <2>5. Keeps(m, q)
    BY <2>2, <2>4 DEF Keeps
  <2> QED BY <2>1, <2>3, <2>4, <2>5
<1> HIDE DEF P
<1>4. \A i \in 0 .. L : i \in P
  BY <1>0, <1>2, <1>3, Upto
<1>5. L \in P
  BY <1>0, <1>4
<1>6. PICK p, r, H, a, g, S : /\ p = h[L] /\ r = exec_elf(m, image) /\ H = SegsHold(image, L) /\ a = Stack
                           /\ g = [v \in PagesOf(Stack) |-> "zero"] /\ S = Mirror(M0, KPages)
  OBVIOUS
<1>7. r = anon_mmap(p, a) /\ Keeps(m, p) /\ (p.oom \/ NewSpace(m, p, M0, C0, L, H))
  BY <1>5, <1>6 DEF P, exec_elf
<1>8. a \in AllAreas /\ IsReg(a) /\ PagesOf(a) \cap DOMAIN H = {}
  BY <1>6, StackArea, StackApart DEF SegsHold
<1>9. Going(p, M0, C0, S, H) /\ PagesOf(a) \cap (DOMAIN S \cup DOMAIN H) = {}
  <2>1. DOMAIN p = Fields
    BY <1>7 DEF Keeps
  <2>2. p.oom \/ NewSpace(m, p, M0, C0, L, H)
    BY <1>7
  <2>3. /\ Going(p, M0, C0, Mirror(M0, KPages), H)
        /\ PagesOf(a) \cap (DOMAIN Mirror(M0, KPages) \cup DOMAIN H) = {}
    BY <1>8, <2>1, <2>2, SpaceReady
  <2> QED BY <1>6, <2>3
<1>10. Added(p, r, a, M0, C0, S, Over(H, PagesOf(a), g))
  <2>1. \A v \in PagesOf(a) : g[v] = "zero"
    BY <1>6
  <2>2. PICK F, A : F = Over(H, PagesOf(a), g) /\ A = anon_mmap(p, a)
    OBVIOUS
  <2>3. a \in AllAreas /\ IsReg(a) /\ Going(p, M0, C0, S, H) /\ PagesOf(a) \cap (DOMAIN S \cup DOMAIN H) = {}
    BY <1>8, <1>9
  <2>4. Added(p, A, a, M0, C0, S, F)
    BY <2>1, <2>2, <2>3, AnonMmap
  <2> QED BY <1>7, <2>2, <2>4
<1>11. r.oom \/ NewSpace(m, r, M0, C0, L + 1, Over(H, PagesOf(a), g))
  <2>1. Added(p, r, a, M0, C0, Mirror(M0, KPages), Over(H, PagesOf(a), g))
    BY <1>6, <1>10
  <2> QED BY <1>7, <1>8, <2>1, SpaceMore
<1>12. /\ DOMAIN Loaded(image) = DOMAIN Over(H, PagesOf(a), g)
       /\ \A v \in DOMAIN Over(H, PagesOf(a), g) : Loaded(image)[v] = Over(H, PagesOf(a), g)[v]
  <2>1. PICK X, Y, A, G : X = SegPages(image, L) /\ Y = FilePages(image, L) /\ A = PagesOf(a) /\ G = Loaded(image)
    OBVIOUS
  <2>2. Y \subseteq X
    BY <1>0, <2>1, SegPagesIs DEF SegPages, FilePages
  <2>3. DOMAIN H = X /\ \A v \in X : H[v] = IF v \in Y THEN Content(v) ELSE "zero"
    BY <1>6, <2>1 DEF SegsHold
  <2>4. DOMAIN G = X \cup A /\ \A v \in X \cup A : G[v] = IF v \in Y THEN Content(v) ELSE "zero"
    <3>1. /\ X = UNION {PagesOf(image[i]) : i \in DOMAIN image} /\ A = PagesOf(Stack)
          /\ Y = UNION {FirstPages(image[i], image[i].filepages) : i \in DOMAIN image}
      BY <1>0, <1>6, <2>1 DEF SegPages, FilePages
    <3>2. G = [v \in X \cup A |-> IF v \in Y THEN Content(v) ELSE "zero"]
      BY <2>1, <3>1 DEF Loaded
    <3> QED BY <3>2
  <2>5. A \cap X = {} /\ \A v \in A : g[v] = "zero"
    BY <1>6, <1>8, <2>1, <2>3
  <2>6. DOMAIN Over(H, A, g) = X \cup A /\ \A v \in X \cup A : Over(H, A, g)[v] = IF v \in X THEN H[v] ELSE g[v]
    BY <2>3 DEF Over
  <2>7. DOMAIN G = DOMAIN Over(H, A, g) /\ \A v \in X \cup A : G[v] = Over(H, A, g)[v]
    BY <2>2, <2>3, <2>4, <2>5, <2>6
  <2> QED BY <2>1, <2>6, <2>7
<1>13. r.oom \/ NewSpace(m, r, M0, C0, L + 1, Loaded(image))
  BY <1>11, <1>12, SpaceEqual
<1>14. ~r.oom /\ Keeps(p, r)
  BY <1>6, <1>10 DEF Added
<1>15. ~m.oom
  BY <1>7, <1>14 DEF Keeps
<1> QED BY <1>6, <1>13, <1>14, <1>15

(***************************************************************************)
(* Boot: the kernel's own tables.                                          *)
(***************************************************************************)
\* The boot code maps the heap to frames of its own, other areas to the lowest
\* frames.
IsHeap(a) == a.type = "VM_AREA_KERNELHEAP"

\* The heap's pages among the first i areas
KHeapFirst(i) == UNION {PagesOf(KernelAreas[j]) : j \in {k \in 1 .. i : IsHeap(KernelAreas[k])}}

\* All pages of the heap
KHeap == KHeapFirst(Len(KernelAreas))

\* A heap area is mapped like one of a program.
LEMMA BootHeap ==
    ASSUME NEW m, NEW a, a.pages \in Nat, IsHeap(a)
    PROVE  kernel_area(m, a)[a.pages] = AnonPages(m, a)[a.pages]
<1> PICK h, k : h = kernel_area(m, a) /\ k = AnonPages(m, a)
  OBVIOUS
<1>1. h[0] = m /\ \A i \in 1 .. a.pages : h[i] = kernel_page(h[i - 1], Page(a, i), a)
  BY KernelAreaIs
<1>2. k[0] = m /\ \A i \in 1 .. a.pages : k[i] = anon_page(k[i - 1], Page(a, i), a)
  BY AnonPagesIs
<1> DEFINE P == {i \in 0 .. a.pages : h[i] = k[i]}
<1>3. 0 \in P
  BY <1>1, <1>2
<1>4. ASSUME NEW i \in 1 .. a.pages, i - 1 \in P PROVE i \in P
  <2>1. kernel_page(h[i - 1], Page(a, i), a) = anon_page(h[i - 1], Page(a, i), a)
    BY DEF kernel_page, IsHeap
  <2>2. h[i - 1] = k[i - 1]
    BY <1>4
  <2>3. h[i] = k[i]
    BY <1>1, <1>2, <2>1, <2>2
  <2> QED BY <2>3
<1> HIDE DEF P
<1>5. \A i \in 0 .. a.pages : i \in P
  BY <1>3, <1>4, Upto
<1> QED BY <1>5 DEF P

\* kernel_area maps an area to the lowest frames.
LEMMA BootMap ==
    ASSUME NEW m, NEW M0, NEW C0, NEW S, NEW H, Going(m, M0, C0, S, H),
           NEW a \in AllAreas, PagesOf(a) \cap (DOMAIN S \cup DOMAIN H) = {}, ~IsHeap(a),
           NEW g, \A v \in PagesOf(a) : g[v] = v - a.start
    PROVE  Did(m, kernel_area(m, a)[a.pages], M0, C0, Over(S, PagesOf(a), g), H)
<1> PICK h : h = kernel_area(m, a)
  OBVIOUS
<1>0. a.start \in Nat /\ a.pages \in Nat
  BY AreaType
<1>1. h[0] = m /\ \A i \in 1 .. a.pages : h[i] = kernel_page(h[i - 1], Page(a, i), a)
  BY <1>0, KernelAreaIs
<1> DEFINE P == {i \in 0 .. a.pages : Did(m, h[i], M0, C0, Over(S, FirstPages(a, i), g), H)}
<1>2. 0 \in P
  <2>1. Did(m, h[0], M0, C0, S, H)
    BY <1>1, DidNothing
  <2>2. Did(m, h[0], M0, C0, Over(S, {}, g), H)
    BY <2>1, OverNone, DidEqual
  <2> QED BY <1>0, <2>2, NoPages
<1>3. ASSUME NEW i \in 1 .. a.pages, i - 1 \in P PROVE i \in P
  <2>1. PICK X, Y, v, p, F : /\ X = FirstPages(a, i - 1) /\ Y = FirstPages(a, i) /\ v = Page(a, i)
                             /\ p = h[i - 1] /\ F = Over(S, X, g)
    OBVIOUS
  <2>2. Y = X \cup {v} /\ v \notin X /\ v \in PagesOf(a) /\ Y \subseteq PagesOf(a)
    BY <1>0, <2>1, PagesStep
  <2>3. Did(m, p, M0, C0, F, H)
    BY <1>3, <2>1
  <2>4. Going(p, M0, C0, F, H)
    BY <2>3, DidGoing
  <2>5. DOMAIN F = DOMAIN S \cup X
    BY <2>1 DEF Over
  <2>6. v \notin DOMAIN F \cup DOMAIN H /\ v \notin DOMAIN S
    BY <2>2, <2>5
  <2>7. PICK f : f = g[v] /\ f = v - a.start
    BY <2>2
  <2>8. Did(p, vmm_map_page(p, v, f, a), M0, C0, Plus(F, v, f), H)
    BY <2>2, <2>4, <2>6, MapStep
  <2>9. h[i] = vmm_map_page(p, v, f, a)
    BY <1>1, <2>1, <2>7 DEF kernel_page, IsHeap
  <2>10. Did(m, h[i], M0, C0, Plus(F, v, g[v]), H)
    <3>1. Did(p, h[i], M0, C0, Plus(F, v, g[v]), H)
      BY <2>7, <2>8, <2>9
    <3> QED BY <2>3, <3>1, DidThen
  <2>11. /\ DOMAIN Over(S, Y, g) = DOMAIN Plus(F, v, g[v])
         /\ \A w \in DOMAIN Plus(F, v, g[v]) : Over(S, Y, g)[w] = Plus(F, v, g[v])[w]
    BY <2>1, <2>2, <2>6, OverPlus
  <2>12. Did(m, h[i], M0, C0, Over(S, Y, g), H)
    BY <2>10, <2>11, DidEqual
  <2> QED BY <2>1, <2>12
<1> HIDE DEF P
<1>4. \A i \in 0 .. a.pages : i \in P
  BY <1>0, <1>2, <1>3, Upto
<1> QED BY <1>0, <1>4 DEF P, PagesOf

\* The first i areas are mapped.
Booting(n, i) ==
    /\ DOMAIN n = Fields
    /\ n.oom \/ \E S, H : /\ Build(n, <<>>, <<>>, S, H) /\ Same(Blank, n)
                          /\ DOMAIN S \cup DOMAIN H = KFirst(i) /\ DOMAIN H = KHeapFirst(i)

\* One area more is mapped.
LEMMA BootStep ==
    ASSUME NEW p, NEW i \in 1 .. Len(KernelAreas), Booting(p, i - 1)
    PROVE  Booting(kernel_area(p, KernelAreas[i])[KernelAreas[i].pages], i)
<1> PICK a, q, E : a = KernelAreas[i] /\ q = kernel_area(p, a)[a.pages] /\ E = <<>>
  OBVIOUS
<1>0. i \in DOMAIN KernelAreas /\ a \in AllAreas /\ a.pages \in Nat /\ Len(KernelAreas) \in Nat
  BY KernelArea, KernelLen
<1>1. KFirst(i) = KFirst(i - 1) \cup PagesOf(a) /\ PagesOf(a) \cap KFirst(i - 1) = {}
  BY KernelStep
<1>2. KHeapFirst(i) = KHeapFirst(i - 1) \cup (IF IsHeap(a) THEN PagesOf(a) ELSE {})
  <2>1. 1 .. i = (1 .. i - 1) \cup {i}
    BY <1>0
  <2> QED BY <2>1 DEF KHeapFirst
<1>3. PICK S, H : /\ Going(p, E, E, S, H) /\ (p.oom \/ Same(Blank, p))
                  /\ DOMAIN S \cup DOMAIN H = KFirst(i - 1) /\ DOMAIN H = KHeapFirst(i - 1)
  <2>1. CASE p.oom
    <3>1. PICK S, H : S = [v \in KFirst(i - 1) |-> 0] /\ H = [v \in KHeapFirst(i - 1) |-> 0]
      OBVIOUS
    <3>2. DOMAIN S \cup DOMAIN H = KFirst(i - 1) /\ DOMAIN H = KHeapFirst(i - 1)
      BY <3>1 DEF KFirst, KHeapFirst
    <3>3. Going(p, E, E, S, H)
      BY <2>1 DEF Going, Booting
    <3> QED BY <2>1, <3>2, <3>3
  <2>2. CASE ~p.oom
    BY <2>2 DEF Going, Booting
  <2> QED BY <2>1, <2>2
<1>4. PagesOf(a) \cap (DOMAIN S \cup DOMAIN H) = {}
  BY <1>1, <1>3
<1>5. \E S2, H2 : /\ Did(p, q, E, E, S2, H2)
                  /\ DOMAIN S2 \cup DOMAIN H2 = KFirst(i) /\ DOMAIN H2 = KHeapFirst(i)
  <2>1. CASE IsHeap(a)
    <3>1. PICK z, H2 : z = [v \in PagesOf(a) |-> "zero"] /\ H2 = Over(H, PagesOf(a), z)
      OBVIOUS
    <3>2. \A v \in PagesOf(a) : z[v] = "zero"
      BY <3>1
    <3>3. Did(p, AnonPages(p, a)[a.pages], E, E, S, H2)
      BY <1>0, <1>3, <1>4, <3>1, <3>2, AnonArea
    <3>4. q = AnonPages(p, a)[a.pages]
      BY <1>0, <2>1, BootHeap
    <3>5. DOMAIN H2 = DOMAIN H \cup PagesOf(a)
      BY <3>1 DEF Over
    <3>6. DOMAIN S \cup DOMAIN H2 = KFirst(i) /\ DOMAIN H2 = KHeapFirst(i)
      BY <1>1, <1>2, <1>3, <2>1, <3>5
    <3> QED BY <3>3, <3>4, <3>6
  <2>2. CASE ~IsHeap(a)
    <3>1. PICK g, S2 : g = [v \in PagesOf(a) |-> v - a.start] /\ S2 = Over(S, PagesOf(a), g)
      OBVIOUS
    <3>2. \A v \in PagesOf(a) : g[v] = v - a.start
      BY <3>1
    <3>3. Did(p, q, E, E, S2, H)
      BY <1>0, <1>3, <1>4, <2>2, <3>1, <3>2, BootMap
    <3>4. DOMAIN S2 = DOMAIN S \cup PagesOf(a)
      BY <3>1 DEF Over
    <3>5. DOMAIN S2 \cup DOMAIN H = KFirst(i) /\ DOMAIN H = KHeapFirst(i)
      BY <1>1, <1>2, <1>3, <2>2, <3>4
    <3> QED BY <3>3, <3>5
  <2> QED BY <2>1, <2>2
<1>6. Booting(q, i)
  <2>1. PICK S2, H2 : /\ Did(p, q, E, E, S2, H2)
                      /\ DOMAIN S2 \cup DOMAIN H2 = KFirst(i) /\ DOMAIN H2 = KHeapFirst(i)
    BY <1>5
  <2>2. DOMAIN q = Fields
    BY <2>1 DEF Did, Keeps
  <2>3. ASSUME ~q.oom PROVE Build(q, <<>>, <<>>, S2, H2) /\ Same(Blank, q)
    <3>1. Build(q, E, E, S2, H2) /\ Same(p, q) /\ ~p.oom
      BY <2>1, <2>3 DEF Did, Keeps
    <3>2. Same(Blank, p)
      BY <1>3, <3>1
    <3> QED BY <3>1, <3>2 DEF Same
  <2> QED BY <2>1, <2>2, <2>3 DEF Booting
<1> QED BY <1>6

\* kernel_mm_init maps them all, or runs out of frames.
LEMMA Boot == Booting(kernel_mm_init, Len(KernelAreas))
<1> PICK h, K : h = kernel_areas /\ K = Len(KernelAreas)
  OBVIOUS
<1>0. K \in Nat
  BY KernelLen
<1>1. h[0] = Blank /\ \A i \in 1 .. K : h[i] = kernel_area(h[i - 1], KernelAreas[i])[KernelAreas[i].pages]
  BY <1>0, KernelAreasIs
<1> DEFINE P == {i \in 0 .. K : Booting(h[i], i)}
<1>2. 0 \in P
  <2>1. PICK E : E = <<>> /\ DOMAIN E = {}
    BY EmptyMap
  <2>2. Good(Blank, E, E, {})
    BY <2>1, GoodBlank
  <2>3. DOMAIN Blank = Fields /\ Blank.p4 = NONE /\ ~Blank.oom
    BY DEF Blank, Fields
  <2>4. Build(Blank, E, E, E, E)
    BY <2>1, <2>2, <2>3, BuildStart
  <2>5. DOMAIN E \cup DOMAIN E = KFirst(0) /\ DOMAIN E = KHeapFirst(0)
    BY <2>1 DEF KFirst, KHeapFirst
  <2>6. Booting(Blank, 0)
    BY <2>1, <2>3, <2>4, <2>5 DEF Booting, Same
  <2> QED BY <1>0, <1>1, <2>6
<1>3. ASSUME NEW i \in 1 .. K, i - 1 \in P PROVE i \in P
  <2>1. PICK p : p = h[i - 1] /\ Booting(p, i - 1)
    BY <1>3
  <2>2. Booting(kernel_area(p, KernelAreas[i])[KernelAreas[i].pages], i)
    BY <2>1, BootStep
  <2>3. i \in 0 .. K /\ h[i] = kernel_area(p, KernelAreas[i])[KernelAreas[i].pages]
    BY <1>0, <1>1, <2>1
  <2> QED BY <2>2, <2>3
<1> HIDE DEF P
<1>4. \A i \in 0 .. K : i \in P
  BY <1>0, <1>2, <1>3, Upto
<1> QED BY <1>0, <1>4 DEF P, kernel_mm_init

(***************************************************************************)
(* Freeing an address space, page by page.                                 *)
(***************************************************************************)
\* The function F without the pages X of the space r
Without(F, r, X) == [x \in DOMAIN F \ {At(r, v, 0) : v \in X} |-> F[x]]

\* The pages X of the space r are gone; the loaded space is another one.
Torn(n, M, C, r, X) ==
    /\ Good(n, Without(M, r, X), Without(C, r, X), {})
    /\ n.p4 = IF HasSpace(Without(M, r, X), r) THEN r ELSE NONE
    /\ n.cr3 # r /\ HasSpace(M, n.cr3)

\* What Without is
LEMMA WithoutIs ==
    ASSUME NEW F, NEW r, NEW X
    PROVE  /\ \A x : x \in DOMAIN Without(F, r, X) <=> x \in DOMAIN F /\ \A v \in X : x # At(r, v, 0)
           /\ \A x \in DOMAIN Without(F, r, X) : Without(F, r, X)[x] = F[x]
  BY DEF Without

\* It loses one page at a time.
LEMMA WithoutMinus ==
    ASSUME NEW F, NEW r, NEW X, NEW v
    PROVE  Without(F, r, X \cup {v}) = Minus(Without(F, r, X), At(r, v, 0))
<1>1. PICK D, y : D = {At(r, w, 0) : w \in X} /\ y = At(r, v, 0)
  OBVIOUS
<1>2. {At(r, w, 0) : w \in X \cup {v}} = D \cup {y}
  BY <1>1
<1>3. Without(F, r, X) = [x \in DOMAIN F \ D |-> F[x]]
  BY <1>1 DEF Without
<1>4. Without(F, r, X \cup {v}) = [x \in DOMAIN F \ (D \cup {y}) |-> F[x]]
  BY <1>2 DEF Without
<1> QED BY <1>1, <1>3, <1>4 DEF Minus

\* Other spaces stay.
LEMMA WithoutOther ==
    ASSUME NEW M, NEW r, NEW X, NEW c, c # r, HasSpace(M, c)
    PROVE  HasSpace(Without(M, r, X), c)
<1>1. PICK w \in Pages : At(c, w, 0) \in DOMAIN M
  BY DEF HasSpace
<1>2. \A v \in X : At(c, w, 0) # At(r, v, 0)
  BY AtPage
<1> QED BY <1>1, <1>2, WithoutIs DEF HasSpace

\* vmm_unmap_page takes a page away; its frame is pending if it was the
\* space's own.
LEMMA TornUnmap ==
    ASSUME NEW n, NEW M, NEW C, NEW r, NEW X, Torn(n, M, C, r, X),
           NEW v \in Pages, v \notin X, At(r, v, 0) \in DOMAIN M,
           NEW y, y = At(r, v, 0), NEW q, q = vmm_unmap_page(n, v), NEW pend,
           pend = IF y \in DOMAIN C THEN {M[y]} ELSE {}
    PROVE  /\ Good(q, Without(M, r, X \cup {v}), Without(C, r, X \cup {v}), pend)
           /\ q.p4 = IF HasSpace(Without(M, r, X \cup {v}), r) THEN r ELSE NONE
           /\ Same(n, q) /\ q.oom = n.oom
           /\ phys_of(n, v) = M[y] /\ (y \in DOMAIN C => M[y] # n.cr3)
<1> PICK W, D, W2, D2 : /\ W = Without(M, r, X) /\ D = Without(C, r, X)
                        /\ W2 = Without(M, r, X \cup {v}) /\ D2 = Without(C, r, X \cup {v})
  OBVIOUS
<1>1. Good(n, W, D, {}) /\ n.cr3 # r /\ HasSpace(M, n.cr3)
  BY DEF Torn
<1>2. \A w \in X : y # At(r, w, 0)
  BY AtPage
<1>3. y \in DOMAIN W /\ W[y] = M[y] /\ (y \in DOMAIN C <=> y \in DOMAIN D)
  BY <1>2, WithoutIs
<1>4. n.p4 = r
  BY <1>3 DEF Torn, HasSpace
<1>5. HasSpace(W, n.cr3)
  BY <1>1, WithoutOther
<1>6. W2 = Minus(W, y) /\ D2 = Minus(D, y)
  BY WithoutMinus
<1>7. DOMAIN D2 = DOMAIN D \ {y} /\ \A x \in DOMAIN D2 : D2[x] = D[x]
  BY <1>6 DEF Minus
<1>8. pend = IF y \in DOMAIN D THEN {} \cup {W[y]} ELSE {}
  BY <1>3
<1>9. /\ Good(q, W2, D2, pend) /\ Same(n, q) /\ q.oom = n.oom
      /\ q.p4 = IF HasSpace(W2, r) THEN r ELSE NONE
  <2>1. /\ Good(n, W, D, {}) /\ At(n.p4, v, 0) \in DOMAIN W /\ n.p4 # n.cr3 /\ HasSpace(W, n.cr3)
        /\ DOMAIN D2 = DOMAIN D \ {At(n.p4, v, 0)} /\ W2 = Minus(W, At(n.p4, v, 0))
        /\ pend = IF At(n.p4, v, 0) \in DOMAIN D THEN {} \cup {W[At(n.p4, v, 0)]} ELSE {}
    BY <1>1, <1>3, <1>4, <1>5, <1>6, <1>7, <1>8
  <2>2. /\ Good(q, W2, D2, pend) /\ Same(n, q) /\ q.data = n.data /\ q.oom = n.oom
        /\ q.p4 = IF HasSpace(W2, n.p4) THEN n.p4 ELSE NONE
    BY <1>7, <2>1, UnmapPage
  <2> QED BY <1>4, <2>2
<1>10. phys_of(n, v) = M[y]
  BY <1>1, <1>3, <1>4, PhysIs
<1>11. y \in DOMAIN C => M[y] # n.cr3
  BY <1>1, <1>3, <1>5, GoodFacts
<1> QED BY <1>9, <1>10, <1>11

\* Unmapping is all for a shared page.
LEMMA TornUnshare ==
    ASSUME NEW n, NEW M, NEW C, NEW r, NEW X, Torn(n, M, C, r, X),
           NEW v \in Pages, v \notin X, At(r, v, 0) \in DOMAIN M, At(r, v, 0) \notin DOMAIN C
    PROVE  /\ Torn(vmm_unmap_page(n, v), M, C, r, X \cup {v})
           /\ Same(n, vmm_unmap_page(n, v)) /\ vmm_unmap_page(n, v).oom = n.oom
<1> PICK q, y, pend : /\ q = vmm_unmap_page(n, v) /\ y = At(r, v, 0)
                      /\ pend = IF y \in DOMAIN C THEN {M[y]} ELSE {}
  OBVIOUS
<1>1. /\ Good(q, Without(M, r, X \cup {v}), Without(C, r, X \cup {v}), pend)
      /\ q.p4 = IF HasSpace(Without(M, r, X \cup {v}), r) THEN r ELSE NONE
      /\ Same(n, q) /\ q.oom = n.oom
  BY TornUnmap
<1>2. pend = {} /\ q.cr3 # r /\ HasSpace(M, q.cr3)
  BY <1>1 DEF Torn, Same
<1> QED BY <1>1, <1>2 DEF Torn

\* free_page also gives the frame back.
LEMMA TornFree ==
    ASSUME NEW n, NEW M, NEW C, NEW r, NEW X, Torn(n, M, C, r, X),
           NEW v \in Pages, v \notin X, At(r, v, 0) \in DOMAIN M, At(r, v, 0) \in DOMAIN C
    PROVE  /\ Torn(free_page(n, v), M, C, r, X \cup {v})
           /\ Same(n, free_page(n, v)) /\ free_page(n, v).oom = n.oom
<1> PICK p, y, f, pend, W, D : /\ p = vmm_unmap_page(n, v) /\ y = At(r, v, 0) /\ f = M[y]
                         /\ pend = (IF y \in DOMAIN C THEN {M[y]} ELSE {})
                         /\ W = Without(M, r, X \cup {v}) /\ D = Without(C, r, X \cup {v})
  OBVIOUS
<1>1. /\ Good(p, W, D, pend)
      /\ p.p4 = IF HasSpace(W, r) THEN r ELSE NONE
      /\ Same(n, p) /\ p.oom = n.oom /\ phys_of(n, v) = M[y] /\ M[y] # n.cr3
  BY TornUnmap
<1>2. pend = {f} /\ f \in pend /\ pend \ {f} = {} /\ f # p.cr3
  BY <1>1 DEF Same
<1>3. PICK q : q = pmm_free(p, f) /\ q = free_page(n, v)
  BY <1>1 DEF free_page
<1>4. Good(q, W, D, {})
  <2>1. Good(pmm_free(p, f), W, D, pend \ {f})
    BY <1>1, <1>2, GoodFree
  <2> QED BY <1>2, <1>3, <2>1
<1>5. DOMAIN p = Fields
  BY <1>1, GoodFacts
<1>6. Same(p, q) /\ q.oom = p.oom /\ q.p4 = p.p4
  <2>1. q = pmm_free(p, f) /\ f # p.cr3
    BY <1>2, <1>3
  <2>2. /\ q.areas = p.areas /\ q.cr3 = p.cr3 /\ q.refcnt = p.refcnt /\ q.harm = p.harm
        /\ q.oom = p.oom /\ q.p4 = p.p4
    BY <1>5, <2>1, FreeIs
  <2> QED BY <2>2 DEF Same
<1>7. Same(n, q) /\ q.oom = n.oom /\ q.cr3 # r /\ HasSpace(M, q.cr3)
  BY <1>1, <1>6 DEF Same, Torn
<1>8. Torn(q, M, C, r, X \cup {v})
  BY <1>1, <1>4, <1>6, <1>7 DEF Torn
<1> QED BY <1>3, <1>7, <1>8

(***************************************************************************)
(* The pages of an area.                                                   *)
(***************************************************************************)
\* mm_free_reg_vma frees all pages of an area.
LEMMA FreeArea ==
    ASSUME NEW m, NEW M, NEW C, NEW r, NEW X, Torn(m, M, C, r, X),
           NEW a \in AllAreas, PagesOf(a) \cap X = {},
           \A v \in PagesOf(a) : At(r, v, 0) \in DOMAIN M /\ At(r, v, 0) \in DOMAIN C
    PROVE  /\ Torn(FreedPages(m, a)[a.pages], M, C, r, X \cup PagesOf(a))
           /\ Same(m, FreedPages(m, a)[a.pages]) /\ FreedPages(m, a)[a.pages].oom = m.oom
<1> PICK h : h = FreedPages(m, a)
  OBVIOUS
<1>0. a.start \in Nat /\ a.pages \in Nat /\ PagesOf(a) \subseteq Pages
  BY AreaType
<1>1. h[0] = m /\ \A i \in 1 .. a.pages : h[i] = free_page(h[i - 1], Page(a, i))
  BY <1>0, FreedPagesIs
<1> DEFINE P == {i \in 0 .. a.pages : /\ Torn(h[i], M, C, r, X \cup FirstPages(a, i))
                                      /\ Same(m, h[i]) /\ h[i].oom = m.oom}
<1>2. 0 \in P
  <2>1. X \cup FirstPages(a, 0) = X
    BY <1>0, NoPages
  <2>2. Torn(h[0], M, C, r, X \cup FirstPages(a, 0))
    BY <1>1, <2>1
  <2> QED BY <1>0, <1>1, <2>2 DEF Same
<1>3. ASSUME NEW i \in 1 .. a.pages, i - 1 \in P PROVE i \in P
  <2>1. PICK Y, v, p, q : Y = X \cup FirstPages(a, i - 1) /\ v = Page(a, i) /\ p = h[i - 1] /\ q = h[i]
    OBVIOUS
  <2>2. X \cup FirstPages(a, i) = Y \cup {v} /\ v \notin FirstPages(a, i - 1) /\ v \in PagesOf(a)
    BY <1>0, <2>1, PagesStep
  <2>3. v \notin Y /\ v \in Pages /\ At(r, v, 0) \in DOMAIN M /\ At(r, v, 0) \in DOMAIN C
    BY <1>0, <2>1, <2>2
  <2>4. Torn(p, M, C, r, Y) /\ Same(m, p) /\ p.oom = m.oom
    BY <1>3, <2>1
  <2>5. q = free_page(p, v) /\ i \in 0 .. a.pages
    BY <1>0, <1>1, <2>1
  <2>6. Torn(q, M, C, r, Y \cup {v}) /\ Same(p, q) /\ q.oom = p.oom
    BY <2>3, <2>4, <2>5, TornFree
  <2> QED BY <2>1, <2>2, <2>4, <2>5, <2>6 DEF Same
<1> HIDE DEF P
<1>4. \A i \in 0 .. a.pages : i \in P
  BY <1>0, <1>2, <1>3, Upto
<1> QED BY <1>0, <1>4 DEF P, PagesOf

\* mm_unshare_vma unmaps all pages of an area.
LEMMA UnshareArea ==
    ASSUME NEW m, NEW M, NEW C, NEW r, NEW X, Torn(m, M, C, r, X),
           NEW a \in AllAreas, PagesOf(a) \cap X = {},
           \A v \in PagesOf(a) : At(r, v, 0) \in DOMAIN M /\ At(r, v, 0) \notin DOMAIN C
    PROVE  /\ Torn(UnsharedPages(m, a)[a.pages], M, C, r, X \cup PagesOf(a))
           /\ Same(m, UnsharedPages(m, a)[a.pages]) /\ UnsharedPages(m, a)[a.pages].oom = m.oom
<1> PICK h : h = UnsharedPages(m, a)
  OBVIOUS
<1>0. a.start \in Nat /\ a.pages \in Nat /\ PagesOf(a) \subseteq Pages
  BY AreaType
<1>1. h[0] = m /\ \A i \in 1 .. a.pages : h[i] = vmm_unmap_page(h[i - 1], Page(a, i))
  BY <1>0, UnsharedPagesIs
<1> DEFINE P == {i \in 0 .. a.pages : /\ Torn(h[i], M, C, r, X \cup FirstPages(a, i))
                                      /\ Same(m, h[i]) /\ h[i].oom = m.oom}
<1>2. 0 \in P
  <2>1. X \cup FirstPages(a, 0) = X
    BY <1>0, NoPages
  <2>2. Torn(h[0], M, C, r, X \cup FirstPages(a, 0))
    BY <1>1, <2>1
  <2> QED BY <1>0, <1>1, <2>2 DEF Same
<1>3. ASSUME NEW i \in 1 .. a.pages, i - 1 \in P PROVE i \in P
  <2>1. PICK Y, v, p, q : Y = X \cup FirstPages(a, i - 1) /\ v = Page(a, i) /\ p = h[i - 1] /\ q = h[i]
    OBVIOUS
  <2>2. X \cup FirstPages(a, i) = Y \cup {v} /\ v \notin FirstPages(a, i - 1) /\ v \in PagesOf(a)
    BY <1>0, <2>1, PagesStep
  <2>3. v \notin Y /\ v \in Pages /\ At(r, v, 0) \in DOMAIN M /\ At(r, v, 0) \notin DOMAIN C
    BY <1>0, <2>1, <2>2
  <2>4. Torn(p, M, C, r, Y) /\ Same(m, p) /\ p.oom = m.oom
    BY <1>3, <2>1
  <2>5. q = vmm_unmap_page(p, v) /\ i \in 0 .. a.pages
    BY <1>0, <1>1, <2>1
  <2>6. Torn(q, M, C, r, Y \cup {v}) /\ Same(p, q) /\ q.oom = p.oom
    BY <2>3, <2>4, <2>5, TornUnshare
  <2> QED BY <2>1, <2>2, <2>4, <2>5, <2>6 DEF Same
<1> HIDE DEF P
<1>4. \A i \in 0 .. a.pages : i \in P
  BY <1>0, <1>2, <1>3, Upto
<1> QED BY <1>0, <1>4 DEF P, PagesOf

\* Functions with the same values are as good.
LEMMA GoodEqual ==
    ASSUME NEW m, NEW M, NEW C, NEW pend, Good(m, M, C, pend),
           NEW W, NEW D, DOMAIN W = DOMAIN M, DOMAIN D = DOMAIN C,
           \A x \in DOMAIN M : W[x] = M[x], \A x \in DOMAIN C : D[x] = C[x]
    PROVE  Good(m, W, D, pend)
<1>1. PICK N : /\ Tree(m, N, C, pend) /\ Leaves(M, N)
               /\ \A x \in DOMAIN N : Level(x) # 0 => Needed(x, N)
  BY DEF Good
<1>2. Leaves(W, N)
  BY <1>1 DEF Leaves
<1>3. \A x : Own(x, D) <=> Own(x, C)
  BY DEF Own
<1>4. Shape(N, D)
  BY <1>1 DEF Tree, Shape
<1>5. Ledger(m.used, pend, N, D)
  BY <1>1, <1>3 DEF Tree, Ledger
<1>6. Contents(m.data, N, D)
  BY <1>1 DEF Tree, Contents
<1>7. Tree(m, N, D, pend)
  BY <1>1, <1>4, <1>5, <1>6 DEF Tree
<1> QED BY <1>1, <1>2, <1>7 DEF Good

(***************************************************************************)
(* Freeing all areas.                                                      *)
(***************************************************************************)
\* The pages of the first i areas
ListPages(list, i) == UNION {PagesOf(list[j]) : j \in 1 .. i}

\* Areas up to n are regular, the others the kernel's.
LEMMA AreaAt ==
    ASSUME NEW list, NEW n, NEW X, AreasOK(list, n, X), NEW i \in 1 .. Len(list)
    PROVE  /\ list[i] \in AllAreas
           /\ i <= n => IsReg(list[i]) /\ PagesOf(list[i]) \subseteq X
           /\ ~(i <= n) => /\ Len(KernelAreas) + 1 - (i - n) \in DOMAIN KernelAreas
                           /\ list[i] = KernelAreas[Len(KernelAreas) + 1 - (i - n)]
                           /\ ~IsReg(list[i]) /\ PagesOf(list[i]) \subseteq KPages
                           /\ list[i].type \in KTypes
<1> PICK K : K = Len(KernelAreas)
  OBVIOUS
<1>0. n \in Nat /\ K \in Nat /\ Len(list) = n + K /\ list \in Seq(AllAreas)
  BY KernelLen DEF AreasOK
<1>1. list[i] \in AllAreas
  BY <1>0
<1>2. ASSUME i <= n PROVE IsReg(list[i]) /\ PagesOf(list[i]) \subseteq X
  <2>1. i \in 1 .. n
    BY <1>0, <1>2
  <2> QED BY <2>1 DEF AreasOK
<1>3. ASSUME ~(i <= n)
      PROVE  /\ K + 1 - (i - n) \in DOMAIN KernelAreas /\ list[i] = KernelAreas[K + 1 - (i - n)]
             /\ ~IsReg(list[i]) /\ PagesOf(list[i]) \subseteq KPages /\ list[i].type \in KTypes
  <2>1. PICK j, k : j = i - n /\ k = K + 1 - j
    OBVIOUS
  <2>2. j \in 1 .. K /\ n + j = i /\ k \in 1 .. K
    BY <1>0, <1>3, <2>1
  <2>3. list[n + j] = KernelAreas[K + 1 - j]
    BY <2>2 DEF AreasOK
  <2>4. k \in DOMAIN KernelAreas /\ list[i] = KernelAreas[k]
    BY <2>1, <2>2, <2>3, KernelLen
  <2>5. ~IsReg(KernelAreas[k]) /\ PagesOf(KernelAreas[k]) \subseteq KPages /\ KernelAreas[k].type \in KTypes
    BY <2>2, <2>4, KernelArea, KernelStep
  <2> QED BY <2>1, <2>4, <2>5
<1> QED BY <1>1, <1>2, <1>3

\* Two areas of a list share no page, and two kernel areas no type.
LEMMA ListApart ==
    ASSUME NEW list, NEW n, NEW X, AreasOK(list, n, X), NEW i \in 1 .. Len(list),
           NEW j \in 1 .. Len(list), i # j
    PROVE  /\ PagesOf(list[i]) \cap PagesOf(list[j]) = {}
           /\ ~(i <= n) /\ ~(j <= n) => list[i].type # list[j].type
<1>0. n \in Nat /\ Len(KernelAreas) \in Nat /\ Len(list) \in Nat
  BY KernelLen DEF AreasOK
<1>1. CASE i <= n /\ j <= n
  <2>1. i \in 1 .. n /\ j \in 1 .. n
    BY <1>0, <1>1
  <2> QED BY <1>1, <2>1 DEF AreasOK
<1>2. CASE i <= n /\ ~(j <= n)
  <2>1. list[i] \in AllAreas /\ IsReg(list[i]) /\ PagesOf(list[j]) \subseteq KPages
    BY <1>2, AreaAt
  <2> QED BY <1>2, <2>1, UserApart
<1>3. CASE ~(i <= n) /\ j <= n
  <2>1. list[j] \in AllAreas /\ IsReg(list[j]) /\ PagesOf(list[i]) \subseteq KPages
    BY <1>3, AreaAt
  <2> QED BY <1>3, <2>1, UserApart
<1>4. CASE ~(i <= n) /\ ~(j <= n)
  <2>1. PICK k, l : k = Len(KernelAreas) + 1 - (i - n) /\ l = Len(KernelAreas) + 1 - (j - n)
    OBVIOUS
  <2>2. k \in DOMAIN KernelAreas /\ l \in DOMAIN KernelAreas /\ list[i] = KernelAreas[k] /\ list[j] = KernelAreas[l]
    BY <1>4, <2>1, AreaAt
  <2>3. k # l
    BY <1>0, <2>1
  <2>4. KernelAreas[k].type # KernelAreas[l].type /\ PagesOf(KernelAreas[k]) \cap PagesOf(KernelAreas[l]) = {}
    BY <2>2, <2>3, LayoutAssumption
  <2> QED BY <2>2, <2>4
<1> QED BY <1>1, <1>2, <1>3, <1>4

\* Together they have all the space's pages, and all types.
LEMMA ListAll ==
    ASSUME NEW list, NEW n, NEW X, AreasOK(list, n, X)
    PROVE  /\ Len(list) \in Nat
           /\ ListPages(list, Len(list)) = X \cup KPages /\ ListPages(list, 0) = {}
           /\ \A k \in KTypes : \E j \in 1 .. Len(list) : ~(j <= n) /\ list[j].type = k
<1> PICK K : K = Len(KernelAreas)
  OBVIOUS
<1>0. n \in Nat /\ K \in Nat /\ Len(list) = n + K
  BY KernelLen DEF AreasOK
<1>1. ASSUME NEW l \in 1 .. K PROVE \E j \in 1 .. Len(list) : ~(j <= n) /\ list[j] = KernelAreas[l]
  <2>1. PICK i, j : i = K + 1 - l /\ j = n + i
    OBVIOUS
  <2>2. i \in 1 .. K /\ K + 1 - i = l /\ j \in 1 .. Len(list) /\ ~(j <= n)
    BY <1>0, <2>1
  <2>3. list[n + i] = KernelAreas[K + 1 - i]
    BY <2>2 DEF AreasOK
  <2> QED BY <2>1, <2>2, <2>3
<1>2. ListPages(list, Len(list)) \subseteq X \cup KPages
  <2>1. \A j \in 1 .. Len(list) : PagesOf(list[j]) \subseteq X \/ PagesOf(list[j]) \subseteq KPages
    BY AreaAt
  <2> QED BY <2>1 DEF ListPages
<1>3. X \subseteq ListPages(list, Len(list))
  <2>1. \A j \in 1 .. n : j \in 1 .. Len(list)
    BY <1>0
  <2> QED BY <2>1 DEF AreasOK, ListPages
<1>4. KPages \subseteq ListPages(list, Len(list))
  <2>1. SUFFICES ASSUME NEW l \in 1 .. K, NEW v \in PagesOf(KernelAreas[l]) PROVE v \in ListPages(list, Len(list))
    BY KernelLen DEF KPages
  <2> QED BY <1>1 DEF ListPages
<1>5. \A k \in KTypes : \E j \in 1 .. Len(list) : ~(j <= n) /\ list[j].type = k
  BY <1>1, KTypeOf
<1>6. ListPages(list, 0) = {} /\ Len(list) \in Nat
  BY <1>0 DEF ListPages
<1> QED BY <1>2, <1>3, <1>4, <1>5, <1>6

\* The kernel's areas among the first i are no longer counted.
Dropped(s, r, list, n, i) ==
    /\ r \in [KTypes -> Int]
    /\ \A k \in KTypes : r[k] = s[k] - (IF \E j \in 1 .. i : ~(j <= n) /\ list[j].type = k THEN 1 ELSE 0)

\* Freeing an area uncounts it if it is the kernel's.
LEMMA DropStep ==
    ASSUME NEW list, NEW n, NEW X, AreasOK(list, n, X), NEW i \in 1 .. Len(list),
           NEW s \in [KTypes -> Int], NEW r, Dropped(s, r, list, n, i - 1)
    PROVE  /\ i <= n => Dropped(s, r, list, n, i)
           /\ ~(i <= n) => /\ r[list[i].type] = s[list[i].type]
                           /\ Dropped(s, [r EXCEPT ![list[i].type] = @ - 1], list, n, i)
<1> PICK t, u : t = list[i].type /\ u = [r EXCEPT ![t] = @ - 1]
  OBVIOUS
<1>0. 1 .. i = (1 .. i - 1) \cup {i} /\ Len(list) \in Nat
  <2>1. Len(list) \in Nat
    BY ListAll
  <2> QED BY <2>1
<1>1. ASSUME i <= n PROVE Dropped(s, r, list, n, i)
  BY <1>0, <1>1 DEF Dropped
<1>2. ASSUME ~(i <= n) PROVE r[t] = s[t] /\ Dropped(s, u, list, n, i)
  <2>1. t \in KTypes
    BY <1>2, AreaAt
  <2>2. \A j \in 1 .. i - 1 : ~(j <= n) => list[j].type # t
    <3>1. \A j \in 1 .. i - 1 : j \in 1 .. Len(list) /\ j # i
      BY <1>0
    <3> QED BY <1>2, <3>1, ListApart
  <2>3. r[t] = s[t] /\ s[t] \in Int
    <3>1. r[t] = s[t] - 0 /\ s[t] \in Int
      BY <2>1, <2>2 DEF Dropped
    <3> QED BY <3>1
  <2>4. u \in [KTypes -> Int] /\ u[t] = r[t] - 1 /\ \A k \in KTypes : k # t => u[k] = r[k]
    <3>1. r \in [KTypes -> Int]
      BY DEF Dropped
    <3> QED BY <2>1, <3>1
  <2>5. ASSUME NEW k \in KTypes
        PROVE  u[k] = s[k] - (IF \E j \in 1 .. i : ~(j <= n) /\ list[j].type = k THEN 1 ELSE 0)
    <3>1. CASE k = t
      <4>1. \E j \in 1 .. i : ~(j <= n) /\ list[j].type = k
        BY <1>0, <1>2, <3>1
      <4> QED BY <2>3, <2>4, <3>1, <4>1
    <3>2. CASE k # t
      <4>1. (\E j \in 1 .. i : ~(j <= n) /\ list[j].type = k) <=> (\E j \in 1 .. i - 1 : ~(j <= n) /\ list[j].type = k)
        BY <1>0, <3>2
      <4>2. r[k] = s[k] - (IF \E j \in 1 .. i - 1 : ~(j <= n) /\ list[j].type = k THEN 1 ELSE 0)
        BY DEF Dropped
      <4> QED BY <2>4, <3>2, <4>1, <4>2
    <3> QED BY <3>1, <3>2
  <2> QED BY <2>3, <2>4, <2>5 DEF Dropped
<1> QED BY <1>1, <1>2

\* What the space r consists of
SpaceOf(M, C, r, X) ==
    /\ \A v \in X : At(r, v, 0) \in DOMAIN M /\ At(r, v, 0) \in DOMAIN C
    /\ \A v \in KPages : At(r, v, 0) \in DOMAIN M /\ At(r, v, 0) \notin DOMAIN C
    /\ \A v \in Pages : At(r, v, 0) \in DOMAIN M => v \in X \cup KPages

\* The first i areas are gone.
Tearing(m, p, M, C, r, list, n, i) ==
    /\ Torn(p, M, C, r, ListPages(list, i)) /\ Dropped(m.refcnt, p.refcnt, list, n, i)
    /\ p.cr3 = m.cr3 /\ p.harm = m.harm /\ p.oom = m.oom

\* mm_unshare_vma unmaps the pages and uncounts the area while others have it.
LEMMA UnshareIs ==
    ASSUME NEW m, NEW a, NEW q, DOMAIN q = Fields, q = UnsharedPages(m, a)[a.pages], q.refcnt[a.type] # 1
    PROVE  /\ DOMAIN mm_unshare_vma(m, a) = Fields
           /\ mm_unshare_vma(m, a).used = q.used /\ mm_unshare_vma(m, a).table = q.table
           /\ mm_unshare_vma(m, a).data = q.data /\ mm_unshare_vma(m, a).p4 = q.p4
           /\ mm_unshare_vma(m, a).cr3 = q.cr3 /\ mm_unshare_vma(m, a).oom = q.oom
           /\ mm_unshare_vma(m, a).harm = q.harm
           /\ mm_unshare_vma(m, a).refcnt = [q.refcnt EXCEPT ![a.type] = @ - 1]
<1> PICK u, t : u = mm_unshare_vma(m, a) /\ t = a.type
  OBVIOUS
<1>1. u = [q EXCEPT !.refcnt[t] = @ - 1, !.harm = @ \cup {}]
  BY DEF mm_unshare_vma
<1>2. q.harm \cup {} = q.harm
  OBVIOUS
<1> QED BY <1>1, <1>2 DEF Fields

\* One area more has gone.
TornBy(p, q, M, C, r, Y, a) ==
    Torn(q, M, C, r, Y \cup PagesOf(a)) /\ Same(p, q) /\ q.oom = p.oom

\* The area's pages are the space's own, or somebody else's.
OwnArea(M, C, r, a) == \A v \in PagesOf(a) : At(r, v, 0) \in DOMAIN M /\ At(r, v, 0) \in DOMAIN C
OthersArea(M, C, r, a) == \A v \in PagesOf(a) : At(r, v, 0) \in DOMAIN M /\ At(r, v, 0) \notin DOMAIN C

\* FreeArea, in these terms
LEMMA FreeAreaBy ==
    ASSUME NEW p, NEW M, NEW C, NEW r, NEW Y, Torn(p, M, C, r, Y),
           NEW a \in AllAreas, PagesOf(a) \cap Y = {}, OwnArea(M, C, r, a)
    PROVE  TornBy(p, FreedPages(p, a)[a.pages], M, C, r, Y, a)
  BY FreeArea DEF OwnArea, TornBy

\* UnshareArea, in these terms
LEMMA UnshareAreaBy ==
    ASSUME NEW p, NEW M, NEW C, NEW r, NEW Y, Torn(p, M, C, r, Y),
           NEW a \in AllAreas, PagesOf(a) \cap Y = {}, OthersArea(M, C, r, a)
    PROVE  TornBy(p, UnsharedPages(p, a)[a.pages], M, C, r, Y, a)
  BY UnshareArea DEF OthersArea, TornBy

\* mm_free_vma frees one area more.
LEMMA TearStep ==
    ASSUME NEW m, NEW M, NEW C, NEW r, NEW list, NEW n, NEW X, AreasOK(list, n, X),
           SpaceOf(M, C, r, X), m.refcnt \in [KTypes -> Int], \A k \in KTypes : m.refcnt[k] # 1,
           NEW i \in 1 .. Len(list), NEW p, Tearing(m, p, M, C, r, list, n, i - 1)
    PROVE  Tearing(m, mm_free_vma(p, list[i]), M, C, r, list, n, i)
<1>a. PICK a, Y, q : a = list[i] /\ Y = ListPages(list, i - 1) /\ q = mm_free_vma(p, a)
  OBVIOUS
<1>0. Len(list) \in Nat /\ 1 .. i = (1 .. i - 1) \cup {i} /\ a \in AllAreas
  <2>1. Len(list) \in Nat
    BY ListAll
  <2> QED BY <1>a, <2>1, AreaAt
<1>1. ListPages(list, i) = Y \cup PagesOf(a)
  BY <1>a, <1>0 DEF ListPages
<1>2. PagesOf(a) \cap Y = {}
  <2>1. \A j \in 1 .. i - 1 : j \in 1 .. Len(list) /\ j # i
    BY <1>0
  <2>2. \A j \in 1 .. i - 1 : PagesOf(list[j]) \cap PagesOf(a) = {}
    BY <1>a, <2>1, ListApart
  <2> QED BY <1>a, <2>2 DEF ListPages
<1>3. Torn(p, M, C, r, Y) /\ Dropped(m.refcnt, p.refcnt, list, n, i - 1) /\ p.cr3 = m.cr3 /\ p.harm = m.harm /\ p.oom = m.oom
  BY <1>a DEF Tearing
<1>4. CASE i <= n
  <2>1. IsReg(a) /\ \A v \in PagesOf(a) : At(r, v, 0) \in DOMAIN M /\ At(r, v, 0) \in DOMAIN C
    BY <1>4, <1>a, AreaAt DEF SpaceOf
  <2>2. q = FreedPages(p, a)[a.pages]
    BY <1>a, <2>1 DEF mm_free_vma, mm_free_reg_vma
  <2>3. Torn(q, M, C, r, Y \cup PagesOf(a)) /\ Same(p, q) /\ q.oom = p.oom
    <3>1. OwnArea(M, C, r, a)
      BY <2>1 DEF OwnArea
    <3>2. TornBy(p, FreedPages(p, a)[a.pages], M, C, r, Y, a)
      BY <1>0, <1>2, <1>3, <3>1, FreeAreaBy
    <3>3. TornBy(p, q, M, C, r, Y, a)
      BY <2>2, <3>2
    <3> QED BY <3>3 DEF TornBy
  <2>4. Dropped(m.refcnt, p.refcnt, list, n, i)
    BY <1>3, <1>4, <1>a, DropStep
  <2> QED BY <1>a, <1>1, <1>3, <2>3, <2>4 DEF Tearing, Same
<1>5. CASE ~(i <= n)
  <2>1. /\ ~IsReg(a) /\ a.type \in KTypes
        /\ \A v \in PagesOf(a) : At(r, v, 0) \in DOMAIN M /\ At(r, v, 0) \notin DOMAIN C
    BY <1>5, <1>a, AreaAt DEF SpaceOf
  <2>2. q = mm_unshare_vma(p, a)
    BY <1>a, <2>1 DEF mm_free_vma
  <2>3. PICK u : u = UnsharedPages(p, a)[a.pages]
    OBVIOUS
  <2>4. Torn(u, M, C, r, Y \cup PagesOf(a)) /\ Same(p, u) /\ u.oom = p.oom
    <3>1. OthersArea(M, C, r, a)
      BY <2>1 DEF OthersArea
    <3>2. TornBy(p, UnsharedPages(p, a)[a.pages], M, C, r, Y, a)
      BY <1>0, <1>2, <1>3, <3>1, UnshareAreaBy
    <3>3. TornBy(p, u, M, C, r, Y, a)
      BY <2>3, <3>2
    <3> QED BY <3>3 DEF TornBy
  <2>5. p.refcnt[a.type] = m.refcnt[a.type] /\ Dropped(m.refcnt, [p.refcnt EXCEPT ![a.type] = @ - 1], list, n, i)
    BY <1>3, <1>5, <1>a, DropStep
  <2>6. DOMAIN u = Fields /\ u.refcnt = p.refcnt /\ u.refcnt[a.type] # 1
    <3>1. DOMAIN u = Fields
      BY <2>4, GoodFacts DEF Torn
    <3> QED BY <2>1, <2>4, <2>5, <3>1 DEF Same
  <2>7. /\ DOMAIN q = Fields /\ q.used = u.used /\ q.table = u.table /\ q.data = u.data /\ q.p4 = u.p4
        /\ q.cr3 = u.cr3 /\ q.oom = u.oom /\ q.harm = u.harm
        /\ q.refcnt = [u.refcnt EXCEPT ![a.type] = @ - 1]
    BY <2>2, <2>3, <2>6, UnshareIs
  <2>8. Torn(q, M, C, r, Y \cup PagesOf(a))
    BY <2>4, <2>7, GoodSame DEF Torn
  <2>9. Dropped(m.refcnt, q.refcnt, list, n, i)
    BY <2>5, <2>6, <2>7
  <2> QED BY <1>a, <1>1, <1>3, <2>4, <2>7, <2>8, <2>9 DEF Tearing, Same
<1> QED BY <1>a, <1>4, <1>5

\* A space can be freed, and has been.
Freeable(m, M, C, q, X) ==
    /\ Good(m, M, C, {}) /\ (\E n : AreasOK(q.areas, n, X)) /\ SpaceOf(M, C, q.p4, X)
    /\ m.refcnt \in [KTypes -> Int] /\ \A k \in KTypes : m.refcnt[k] # 1
    /\ m.cr3 # q.p4 /\ HasSpace(M, m.cr3) /\ HasSpace(M, q.p4)

\* What mm_free leaves: no page and no table of the space
Freed(m, r, M, C, q, X) ==
    /\ Good(r, Without(M, q.p4, X \cup KPages), Without(C, q.p4, X \cup KPages), {})
    /\ r.cr3 = m.cr3 /\ r.harm = m.harm /\ r.oom = m.oom
    /\ r.refcnt = [k \in KTypes |-> m.refcnt[k] - 1]

\* mm_free does so, whatever the areas.
LEMMA MmFree ==
    ASSUME NEW m, NEW M, NEW C, NEW mm, NEW X, Freeable(m, M, C, mm, X)
    PROVE  Freed(m, mm_free(m, mm), M, C, mm, X)
<1>a. PICK n : AreasOK(mm.areas, n, X)
  BY DEF Freeable
<1>b. /\ Good(m, M, C, {}) /\ SpaceOf(M, C, mm.p4, X)
      /\ m.refcnt \in [KTypes -> Int] /\ \A k \in KTypes : m.refcnt[k] # 1
      /\ m.cr3 # mm.p4 /\ HasSpace(M, m.cr3) /\ HasSpace(M, mm.p4)
  BY DEF Freeable
<1> PICK h, list, L, r : h = WithoutAreas(m, mm) /\ list = mm.areas /\ L = Len(list) /\ r = mm.p4
  OBVIOUS
<1>0. L \in Nat /\ ListPages(list, L) = X \cup KPages /\ ListPages(list, 0) = {}
  BY <1>a, ListAll
<1>1. h[0] = [m EXCEPT !.p4 = r] /\ \A i \in 1 .. L : h[i] = mm_free_vma(h[i - 1], list[i])
  BY <1>0, WithoutAreasIs
<1> DEFINE P == {i \in 0 .. L : Tearing(m, h[i], M, C, r, list, n, i)}
<1>2. 0 \in P
  <2>1. PICK p : p = h[0]
    OBVIOUS
  <2>2. DOMAIN m = Fields
    BY <1>b, GoodFacts
  <2>3. /\ DOMAIN p = Fields /\ p.used = m.used /\ p.table = m.table /\ p.data = m.data /\ p.p4 = r
        /\ p.cr3 = m.cr3 /\ p.oom = m.oom /\ p.harm = m.harm /\ p.refcnt = m.refcnt
    BY <1>1, <2>1, <2>2 DEF Fields
  <2>4. PICK W, D : W = Without(M, r, {}) /\ D = Without(C, r, {})
    OBVIOUS
  <2>5. DOMAIN W = DOMAIN M /\ DOMAIN D = DOMAIN C /\ (\A x \in DOMAIN M : W[x] = M[x]) /\ (\A x \in DOMAIN C : D[x] = C[x])
    BY <2>4 DEF Without
  <2>6. Good(p, M, C, {})
    BY <1>b, <2>3, GoodSame
  <2>7. Good(p, W, D, {})
    BY <2>5, <2>6, GoodEqual
  <2>8. HasSpace(W, r)
    BY <1>b, <2>5 DEF HasSpace
  <2>9. Torn(p, M, C, r, ListPages(list, 0))
    BY <1>b, <1>0, <2>3, <2>4, <2>7, <2>8 DEF Torn
  <2>10. Dropped(m.refcnt, p.refcnt, list, n, 0)
    BY <1>b, <2>3 DEF Dropped
  <2> QED BY <1>0, <2>1, <2>3, <2>9, <2>10 DEF Tearing
<1>3. ASSUME NEW i \in 1 .. L, i - 1 \in P PROVE i \in P
  <2>1. PICK p : p = h[i - 1] /\ Tearing(m, p, M, C, r, list, n, i - 1)
    BY <1>3
  <2>2. Tearing(m, mm_free_vma(p, list[i]), M, C, r, list, n, i)
    BY <1>a, <1>b, <2>1, TearStep
  <2>3. i \in 0 .. L /\ h[i] = mm_free_vma(p, list[i])
    BY <1>0, <1>1, <2>1
  <2> QED BY <2>2, <2>3
<1> HIDE DEF P
<1>4. \A i \in 0 .. L : i \in P
  BY <1>0, <1>2, <1>3, Upto
<1>5. PICK p : p = h[L] /\ Tearing(m, p, M, C, r, list, n, L)
  BY <1>0, <1>4 DEF P
<1>6. PICK W, D : W = Without(M, r, X \cup KPages) /\ D = Without(C, r, X \cup KPages)
  OBVIOUS
<1>7. ~HasSpace(W, r)
  <2>1. SUFFICES ASSUME NEW w \in Pages, At(r, w, 0) \in DOMAIN W PROVE FALSE
    BY DEF HasSpace
  <2>2. At(r, w, 0) \in DOMAIN M /\ \A v \in X \cup KPages : At(r, w, 0) # At(r, v, 0)
    BY <1>6, <2>1, WithoutIs
  <2> QED BY <1>b, <2>2 DEF SpaceOf
<1>8. Good(p, W, D, {}) /\ p.p4 = NONE /\ p.cr3 = m.cr3 /\ p.harm = m.harm /\ p.oom = m.oom
  BY <1>0, <1>5, <1>6, <1>7 DEF Tearing, Torn
<1>9. PICK q, f : q = pmm_free(p, f) /\ q = mm_free(m, mm) /\ f = NONE
  BY <1>5, <1>8 DEF mm_free
<1>10. DOMAIN p = Fields /\ p.used \subseteq Frames
  BY <1>8, GoodFacts
<1>11. f # p.cr3 /\ p.used \ {f} = p.used
  <2>1. m.cr3 \in m.used /\ m.used \subseteq Frames
    BY <1>b, GoodFacts
  <2>2. NONE \notin Frames
    BY VmmAssumption DEF Frames, NONE
  <2> QED BY <1>8, <1>9, <1>10, <2>1, <2>2
<1>12. /\ DOMAIN q = Fields /\ q.used = p.used /\ q.table = p.table /\ q.data = p.data
       /\ q.cr3 = p.cr3 /\ q.oom = p.oom /\ q.harm = p.harm /\ q.refcnt = p.refcnt
  <2>1. q = pmm_free(p, f)
    BY <1>9
  <2>2. /\ DOMAIN q = Fields /\ q.used = p.used \ {f} /\ q.table = p.table /\ q.data = p.data
        /\ q.cr3 = p.cr3 /\ q.oom = p.oom /\ q.harm = p.harm /\ q.refcnt = p.refcnt
    BY <1>10, <1>11, <2>1, FreeIs
  <2> QED BY <1>11, <2>2
<1>13. Good(q, W, D, {})
  BY <1>8, <1>12, GoodSame
<1>14. q.refcnt = [k \in KTypes |-> m.refcnt[k] - 1]
  <2>1. PICK c : c = p.refcnt
    OBVIOUS
  <2>2. Dropped(m.refcnt, c, list, n, L)
    BY <1>5, <2>1 DEF Tearing
  <2>3. \A k \in KTypes : \E j \in 1 .. L : ~(j <= n) /\ list[j].type = k
    BY <1>a, ListAll
  <2>4. c \in [KTypes -> Int] /\ \A k \in KTypes : c[k] = m.refcnt[k] - 1
    BY <2>2, <2>3 DEF Dropped
  <2> QED BY <1>12, <2>1, <2>4
<1>15. Freed(m, q, M, C, mm, X)
  BY <1>6, <1>8, <1>12, <1>13, <1>14 DEF Freed
<1> QED BY <1>9, <1>15

(***************************************************************************)
(* All address spaces together.  R is the set of the tasks' spaces, each a *)
(* struct mm with what its program is to find in it.                       *)
(***************************************************************************)
\* The kernel's tables map its areas, and own the heap.
KernelSpace(M, C, k) ==
    \A v \in Pages : /\ At(k, v, 0) \in DOMAIN M <=> v \in KPages
                     /\ At(k, v, 0) \in DOMAIN C <=> v \in KHeap

\* A task's space maps its own pages and, like the kernel's tables, the
\* kernel's.
UserSpace(M, C, k, mm, H) ==
    /\ \A v \in Pages : /\ At(mm.p4, v, 0) \in DOMAIN M <=> v \in KPages \cup DOMAIN H
                        /\ At(mm.p4, v, 0) \in DOMAIN C <=> v \in DOMAIN H
    /\ \A v \in DOMAIN H : C[At(mm.p4, v, 0)] = H[v]
    /\ \A v \in KPages : M[At(mm.p4, v, 0)] = M[At(k, v, 0)]
    /\ mm.p4 # k
    /\ \E n : AreasOK(mm.areas, n, DOMAIN H)

\* There are no pages but those of the kernel and of these spaces.
Spaces(M, C, k, R) ==
    /\ KernelSpace(M, C, k)
    /\ \A s \in R : UserSpace(M, C, k, s[1], s[2])
    /\ \A s, t \in R : s[1].p4 = t[1].p4 => s = t
    /\ \A x \in DOMAIN M : Space(x) = k \/ \E s \in R : Space(x) = s[1].p4

\* The kernel has a page.
LEMMA KPagesSome == \E v \in KPages : v \in Pages
<1>1. 1 \in DOMAIN KernelAreas
  BY KernelLen
<1>2. PICK a : a = KernelAreas[1] /\ a.start \in Nat /\ a.pages \in Nat \ {0} /\ PagesOf(a) \subseteq KPages
  BY <1>1, KernelArea
<1>3. a.start \in PagesOf(a)
  BY <1>2 DEF PagesOf, FirstPages
<1> QED BY <1>2, <1>3, KPagesIn

\* Regular areas lie inside the address space, apart from the kernel's.
LEMMA AreasIn ==
    ASSUME NEW list, NEW n, NEW X, AreasOK(list, n, X)
    PROVE  X \subseteq Pages /\ X \cap KPages = {}
<1>0. n \in Nat /\ Len(list) = n + Len(KernelAreas) /\ Len(KernelAreas) \in Nat /\ X = UNION {PagesOf(list[j]) : j \in 1 .. n}
  BY KernelLen DEF AreasOK
<1>1. \A j \in 1 .. n : j \in 1 .. Len(list) /\ j <= n
  BY <1>0
<1>2. \A j \in 1 .. n : list[j] \in AllAreas /\ IsReg(list[j])
  BY <1>1, AreaAt
<1>3. \A j \in 1 .. n : PagesOf(list[j]) \subseteq Pages /\ PagesOf(list[j]) \cap KPages = {}
  BY <1>2, AreaType, UserApart
<1> QED BY <1>0, <1>3

\* A task's own pages are apart from the kernel's.
LEMMA UserIn ==
    ASSUME NEW M, NEW C, NEW k, NEW mm, NEW H, UserSpace(M, C, k, mm, H)
    PROVE  DOMAIN H \subseteq Pages /\ DOMAIN H \cap KPages = {}
  BY AreasIn DEF UserSpace

\* Outside of the space r nothing changes.
Agree(F, G, r) ==
    \A x : Space(x) # r => /\ x \in DOMAIN G <=> x \in DOMAIN F
                           /\ x \in DOMAIN F => G[x] = F[x]

\* Agree, for one page
LEMMA AgreeAt ==
    ASSUME NEW F, NEW G, NEW r, Agree(F, G, r), NEW q, q # r, NEW v
    PROVE  /\ At(q, v, 0) \in DOMAIN G <=> At(q, v, 0) \in DOMAIN F
           /\ At(q, v, 0) \in DOMAIN F => G[At(q, v, 0)] = F[At(q, v, 0)]
<1>1. PICK x : x = At(q, v, 0) /\ Space(x) = q
  BY AtFields
<1>2. (x \in DOMAIN G <=> x \in DOMAIN F) /\ (x \in DOMAIN F => G[x] = F[x])
  BY <1>1 DEF Agree
<1> QED BY <1>1, <1>2

\* Building a space changes nothing outside of it.
LEMMA BuiltAgree ==
    ASSUME NEW m, NEW M, NEW C, NEW M0, NEW C0, NEW S, NEW H, DOMAIN C0 \subseteq DOMAIN M0,
           Built(m, M, C, M0, C0, S, H)
    PROVE  Agree(M0, M, m.p4) /\ Agree(C0, C, m.p4)
<1>1. /\ DOMAIN M = DOMAIN M0 \cup {At(m.p4, v, 0) : v \in DOMAIN S \cup DOMAIN H}
      /\ DOMAIN C = DOMAIN C0 \cup {At(m.p4, v, 0) : v \in DOMAIN H}
      /\ \A x \in DOMAIN M0 : M[x] = M0[x] /\ Space(x) # m.p4
      /\ \A x \in DOMAIN C0 : C[x] = C0[x]
  BY DEF Built
<1>2. \A v : Space(At(m.p4, v, 0)) = m.p4
  BY AtFields
<1>3. Agree(M0, M, m.p4)
  BY <1>1, <1>2 DEF Agree
<1>4. Agree(C0, C, m.p4)
  BY <1>1, <1>2 DEF Agree
<1> QED BY <1>3, <1>4

\* Nor does freeing one.
LEMMA WithoutAgree ==
    ASSUME NEW F, NEW r, NEW X PROVE Agree(F, Without(F, r, X), r)
<1>1. \A v : Space(At(r, v, 0)) = r
  BY AtFields
<1> QED BY <1>1, WithoutIs DEF Agree

\* The kernel's tables stay as they are when another space changes,
LEMMA KernelKept ==
    ASSUME NEW M, NEW C, NEW W, NEW D, NEW r, Agree(M, W, r), Agree(C, D, r),
           NEW k, k # r, KernelSpace(M, C, k)
    PROVE  KernelSpace(W, D, k)
  BY AgreeAt DEF KernelSpace

\* and so does any other task's space.
LEMMA UserKept ==
    ASSUME NEW M, NEW C, NEW W, NEW D, NEW r, Agree(M, W, r), Agree(C, D, r),
           NEW k, k # r, KernelSpace(M, C, k),
           NEW mm, NEW H, mm.p4 # r, UserSpace(M, C, k, mm, H)
    PROVE  UserSpace(W, D, k, mm, H)
<1> PICK q : q = mm.p4
  OBVIOUS
<1>0. DOMAIN H \subseteq Pages /\ KPages \subseteq Pages
  BY UserIn, KPagesIn
<1>1. /\ \A v \in Pages : /\ At(q, v, 0) \in DOMAIN M <=> v \in KPages \cup DOMAIN H
                          /\ At(q, v, 0) \in DOMAIN C <=> v \in DOMAIN H
      /\ \A v \in DOMAIN H : C[At(q, v, 0)] = H[v]
      /\ \A v \in KPages : M[At(q, v, 0)] = M[At(k, v, 0)]
      /\ q # k
      /\ \E n : AreasOK(mm.areas, n, DOMAIN H)
  BY DEF UserSpace
<1>2. \A v \in Pages : /\ At(q, v, 0) \in DOMAIN W <=> At(q, v, 0) \in DOMAIN M
                       /\ At(q, v, 0) \in DOMAIN D <=> At(q, v, 0) \in DOMAIN C
  BY AgreeAt
<1>3. \A v \in DOMAIN H : D[At(q, v, 0)] = H[v]
  BY <1>0, <1>1, AgreeAt
<1>4. \A v \in KPages : W[At(q, v, 0)] = W[At(k, v, 0)]
  <2>1. SUFFICES ASSUME NEW v \in KPages PROVE W[At(q, v, 0)] = W[At(k, v, 0)]
    OBVIOUS
  <2>2. At(q, v, 0) \in DOMAIN M /\ At(k, v, 0) \in DOMAIN M /\ M[At(q, v, 0)] = M[At(k, v, 0)]
    BY <1>0, <1>1 DEF KernelSpace
  <2>3. W[At(q, v, 0)] = M[At(q, v, 0)]
    BY <2>2, AgreeAt
  <2>4. W[At(k, v, 0)] = M[At(k, v, 0)]
    BY <2>2, AgreeAt
  <2> QED BY <2>2, <2>3, <2>4
<1> QED BY <1>1, <1>2, <1>3, <1>4 DEF UserSpace

\* What Spaces says of each of them
LEMMA SpaceFacts ==
    ASSUME NEW M, NEW C, NEW k, NEW R, Spaces(M, C, k, R)
    PROVE  /\ HasSpace(M, k) /\ \A v \in KPages : At(k, v, 0) \in DOMAIN M
           /\ \A s \in R : /\ HasSpace(M, s[1].p4) /\ s[1].p4 # k
                           /\ SpaceOf(M, C, s[1].p4, DOMAIN s[2])
                           /\ \E n : AreasOK(s[1].areas, n, DOMAIN s[2])
<1>0. PICK w \in KPages : w \in Pages
  BY KPagesSome
<1>1. \A v \in KPages : At(k, v, 0) \in DOMAIN M
  BY KPagesIn DEF Spaces, KernelSpace
<1>2. HasSpace(M, k)
  BY <1>0, <1>1 DEF HasSpace
<1>3. ASSUME NEW s \in R
      PROVE  /\ HasSpace(M, s[1].p4) /\ s[1].p4 # k /\ SpaceOf(M, C, s[1].p4, DOMAIN s[2])
             /\ \E n : AreasOK(s[1].areas, n, DOMAIN s[2])
  <2>1. UserSpace(M, C, k, s[1], s[2])
    BY DEF Spaces
  <2>2. DOMAIN s[2] \subseteq Pages /\ DOMAIN s[2] \cap KPages = {} /\ KPages \subseteq Pages
    BY <2>1, UserIn, KPagesIn
  <2>3. SpaceOf(M, C, s[1].p4, DOMAIN s[2])
    BY <2>1, <2>2 DEF UserSpace, SpaceOf
  <2>4. HasSpace(M, s[1].p4)
    BY <1>0, <2>1 DEF UserSpace, HasSpace
  <2> QED BY <2>1, <2>3, <2>4 DEF UserSpace
<1> QED BY <1>1, <1>2, <1>3

\* A space that was built is one more.
LEMMA AddSpace ==
    ASSUME NEW M0, NEW C0, NEW k, NEW R, Spaces(M0, C0, k, R), k = kernel_p4,
           DOMAIN C0 \subseteq DOMAIN M0,
           NEW m, NEW M, NEW C, NEW H, NEW n, AreasOK(m.areas, n, DOMAIN H),
           Built(m, M, C, M0, C0, Mirror(M0, KPages), H)
    PROVE  /\ Spaces(M, C, k, R \cup {<<MmOf(m), H>>})
           /\ k # m.p4 /\ \A s \in R : s[1].p4 # m.p4
<1>0. MmOf(m).p4 = m.p4 /\ MmOf(m).areas = m.areas
  BY DEF MmOf
<1> PICK r, mm : r = m.p4 /\ mm = MmOf(m) /\ mm.p4 = r /\ mm.areas = m.areas
  BY <1>0
<1> DEFINE S == Mirror(M0, KPages)
<1>1. DOMAIN S = KPages /\ \A v \in KPages : S[v] = M0[At(k, v, 0)]
  BY DEF Mirror
<1>2. /\ DOMAIN M = DOMAIN M0 \cup {At(r, v, 0) : v \in DOMAIN S \cup DOMAIN H}
      /\ DOMAIN C = DOMAIN C0 \cup {At(r, v, 0) : v \in DOMAIN H}
      /\ \A x \in DOMAIN M0 : M[x] = M0[x] /\ Space(x) # r
      /\ \A v \in DOMAIN S : M[At(r, v, 0)] = S[v]
      /\ \A v \in DOMAIN H : C[At(r, v, 0)] = H[v]
  BY DEF Built
<1>3. Agree(M0, M, r) /\ Agree(C0, C, r)
  BY BuiltAgree
<1> HIDE DEF S
<1>4. ASSUME NEW q, HasSpace(M0, q) PROVE q # r
  <2>1. PICK w \in Pages : At(q, w, 0) \in DOMAIN M0
    BY <1>4 DEF HasSpace
  <2>2. Space(At(q, w, 0)) = q
    BY AtFields
  <2> QED BY <1>2, <2>1, <2>2
<1>5. k # r /\ \A s \in R : s[1].p4 # r
  BY <1>4, SpaceFacts
<1>6. KernelSpace(M, C, k)
  BY <1>3, <1>5, KernelKept DEF Spaces
<1>7. ASSUME NEW s \in R PROVE UserSpace(M, C, k, s[1], s[2])
  <2>1. UserSpace(M0, C0, k, s[1], s[2]) /\ KernelSpace(M0, C0, k) /\ s[1].p4 # r
    BY <1>5 DEF Spaces
  <2> QED BY <1>3, <1>5, <2>1, UserKept
<1>8. UserSpace(M, C, k, mm, H)
  <2>1. ASSUME NEW v \in Pages
        PROVE  /\ At(r, v, 0) \in DOMAIN M <=> v \in KPages \cup DOMAIN H
               /\ At(r, v, 0) \in DOMAIN C <=> v \in DOMAIN H
    <3>1. At(r, v, 0) \notin DOMAIN M0 /\ At(r, v, 0) \notin DOMAIN C0
      <4>1. Space(At(r, v, 0)) = r
        BY AtFields
      <4> QED BY <1>2, <4>1
    <3>2. \A w : At(r, v, 0) = At(r, w, 0) => v = w
      BY AtPage
    <3> QED BY <1>1, <1>2, <3>1, <3>2
  <2>2. \A v \in KPages : M[At(r, v, 0)] = M[At(k, v, 0)]
    <3>1. SUFFICES ASSUME NEW v \in KPages PROVE M[At(r, v, 0)] = M[At(k, v, 0)]
      OBVIOUS
    <3>2. At(k, v, 0) \in DOMAIN M0
      BY SpaceFacts
    <3> QED BY <1>1, <1>2, <3>2
  <2> QED BY <1>2, <1>5, <2>1, <2>2 DEF UserSpace
<1>a. <<mm, H>>[1] = mm /\ <<mm, H>>[2] = H
  OBVIOUS
<1>9. PICK new : new = <<mm, H>> /\ new[1] = mm /\ new[2] = H
  BY <1>a
<1>10. \A x \in DOMAIN M : Space(x) = k \/ \E s \in R \cup {new} : Space(x) = s[1].p4
  <2>1. \A v : Space(At(r, v, 0)) = r
    BY AtFields
  <2>2. \A x \in DOMAIN M0 : Space(x) = k \/ \E s \in R : Space(x) = s[1].p4
    BY DEF Spaces
  <2> QED BY <1>2, <1>9, <2>1, <2>2
<1>11. \A s, t \in R \cup {new} : s[1].p4 = t[1].p4 => s = t
  <2>1. \A s, t \in R : s[1].p4 = t[1].p4 => s = t
    BY DEF Spaces
  <2> QED BY <1>5, <1>9, <2>1
<1>12. \A s \in R \cup {new} : UserSpace(M, C, k, s[1], s[2])
  BY <1>7, <1>8, <1>9
<1>13. Spaces(M, C, k, R \cup {new})
  BY <1>6, <1>10, <1>11, <1>12 DEF Spaces
<1> QED BY <1>5, <1>9, <1>13

\* A space that was freed is one less.
LEMMA DropSpace ==
    ASSUME NEW M, NEW C, NEW k, NEW R, Spaces(M, C, k, R), NEW m, NEW pend, Good(m, M, C, pend),
           NEW s \in R
    PROVE  Spaces(Without(M, s[1].p4, DOMAIN s[2] \cup KPages),
                  Without(C, s[1].p4, DOMAIN s[2] \cup KPages), k, R \ {s})
<1> PICK r, X, W, D : /\ r = s[1].p4 /\ X = DOMAIN s[2] \cup KPages
                      /\ W = Without(M, r, X) /\ D = Without(C, r, X)
  OBVIOUS
<1>1. Agree(M, W, r) /\ Agree(C, D, r)
  BY WithoutAgree
<1>2. k # r /\ \A t \in R \ {s} : t[1].p4 # r
  <2>1. \A t \in R : t[1].p4 # k
    BY SpaceFacts
  <2>2. \A t, u \in R : t[1].p4 = u[1].p4 => t = u
    BY DEF Spaces
  <2> QED BY <2>1, <2>2
<1>3. KernelSpace(W, D, k)
  BY <1>1, <1>2, KernelKept DEF Spaces
<1>4. ASSUME NEW t \in R \ {s} PROVE UserSpace(W, D, k, t[1], t[2])
  <2>1. UserSpace(M, C, k, t[1], t[2]) /\ KernelSpace(M, C, k) /\ t[1].p4 # r
    BY <1>2 DEF Spaces
  <2> QED BY <1>1, <1>2, <2>1, UserKept
<1>5. ASSUME NEW x \in DOMAIN W PROVE Space(x) = k \/ \E t \in R \ {s} : Space(x) = t[1].p4
  <2>1. x \in DOMAIN M /\ \A v \in X : x # At(r, v, 0)
    BY WithoutIs
  <2>2. x \in Nodes /\ Level(x) = 0
    BY <2>1, GoodFacts
  <2>3. PICK v \in Pages : x = At(Space(x), v, 0)
    BY <2>2, NodeAt
  <2>4. Space(x) # r
    <3>1. SUFFICES ASSUME Space(x) = r PROVE FALSE
      OBVIOUS
    <3>2. At(r, v, 0) \in DOMAIN M
      BY <2>1, <2>3, <3>1
    <3>3. v \in X
      BY <3>2, SpaceFacts DEF SpaceOf
    <3> QED BY <2>1, <2>3, <3>1, <3>3
  <2>5. Space(x) = k \/ \E t \in R : Space(x) = t[1].p4
    BY <2>1 DEF Spaces
  <2> QED BY <2>4, <2>5
<1>6. \A t, u \in R \ {s} : t[1].p4 = u[1].p4 => t = u
  BY DEF Spaces
<1> QED BY <1>3, <1>4, <1>5, <1>6 DEF Spaces

\* A write changes what one space holds.
LEMMA WriteSpace ==
    ASSUME NEW M, NEW C, NEW k, NEW R, Spaces(M, C, k, R), NEW s \in R,
           NEW v \in DOMAIN s[2], NEW c
    PROVE  Spaces(M, [C EXCEPT ![At(s[1].p4, v, 0)] = c], k,
                  (R \ {s}) \cup {<<s[1], [s[2] EXCEPT ![v] = c]>>})
<1> PICK mm, H, y, D, G, new :
        /\ mm = s[1] /\ H = s[2] /\ y = At(mm.p4, v, 0)
        /\ D = [C EXCEPT ![y] = c] /\ G = [H EXCEPT ![v] = c] /\ new = <<mm, G>>
  OBVIOUS
<1>0. new[1] = mm /\ new[2] = G
  OBVIOUS
<1>1. UserSpace(M, C, k, mm, H) /\ v \in Pages /\ DOMAIN H \subseteq Pages
  BY UserIn DEF Spaces
<1>2. y \in DOMAIN C
  BY <1>1 DEF UserSpace
<1>3. DOMAIN D = DOMAIN C /\ D[y] = c /\ \A x \in DOMAIN C : x # y => D[x] = C[x]
  BY <1>2
<1>4. DOMAIN G = DOMAIN H /\ G[v] = c /\ \A w \in DOMAIN H : w # v => G[w] = H[w]
  OBVIOUS
<1>5. UserSpace(M, D, k, mm, G)
  <2>1. ASSUME NEW w \in DOMAIN H PROVE D[At(mm.p4, w, 0)] = G[w]
    <3>1. At(mm.p4, w, 0) \in DOMAIN C /\ C[At(mm.p4, w, 0)] = H[w]
      BY <1>1 DEF UserSpace
    <3>2. At(mm.p4, w, 0) = y => w = v
      BY AtPage
    <3> QED BY <1>3, <1>4, <3>1, <3>2
  <2> QED BY <1>1, <1>3, <1>4, <2>1 DEF UserSpace
<1>6. ASSUME NEW t \in R \ {s} PROVE UserSpace(M, D, k, t[1], t[2]) /\ t[1].p4 # mm.p4
  <2>1. UserSpace(M, C, k, t[1], t[2]) /\ t[1].p4 # mm.p4 /\ DOMAIN t[2] \subseteq Pages
    BY UserIn DEF Spaces
  <2>2. ASSUME NEW w \in DOMAIN t[2] PROVE D[At(t[1].p4, w, 0)] = t[2][w]
    <3>1. At(t[1].p4, w, 0) \in DOMAIN C /\ C[At(t[1].p4, w, 0)] = t[2][w]
      BY <2>1 DEF UserSpace
    <3>2. At(t[1].p4, w, 0) # y
      BY <2>1, AtPage
    <3> QED BY <1>3, <3>1, <3>2
  <2> QED BY <1>3, <2>1, <2>2 DEF UserSpace
<1>7. KernelSpace(M, D, k)
  BY <1>3 DEF Spaces, KernelSpace
<1>8. PICK Q : Q = (R \ {s}) \cup {new}
  OBVIOUS
<1>9. \A t \in Q : UserSpace(M, D, k, t[1], t[2])
  BY <1>0, <1>5, <1>6, <1>8
<1>10. \A t, u \in Q : t[1].p4 = u[1].p4 => t = u
  <2>1. \A t, u \in R : t[1].p4 = u[1].p4 => t = u
    BY DEF Spaces
  <2> QED BY <1>0, <1>6, <1>8, <2>1
<1>11. \A x \in DOMAIN M : Space(x) = k \/ \E t \in Q : Space(x) = t[1].p4
  <2>1. \A x \in DOMAIN M : Space(x) = k \/ \E t \in R : Space(x) = t[1].p4
    BY DEF Spaces
  <2> QED BY <1>0, <1>8, <2>1
<1>12. Spaces(M, D, k, Q)
  BY <1>7, <1>9, <1>10, <1>11 DEF Spaces
<1> QED BY <1>8, <1>12

(***************************************************************************)
(* The spaces and the tasks they belong to.                                *)
(***************************************************************************)
\* Each task of L has a space of its own, and each space is a task's.
Holding(R, L, mm, H) ==
    /\ \A t \in L : <<mm[t], H[t]>> \in R
    /\ \A s \in R : \E t \in L : s = <<mm[t], H[t]>>
    /\ \A t, u \in L : mm[t].p4 = mm[u].p4 => t = u

\* The memory consists of the kernel's tables and the spaces of the tasks L.
Forest(m, k, L, mm, H) ==
    \E M, C, R : Good(m, M, C, {}) /\ Spaces(M, C, k, R) /\ Holding(R, L, mm, H)

\* Pairs
LEMMA PairIs ==
    ASSUME NEW a, NEW b, NEW c, NEW d
    PROVE  /\ <<a, b>>[1] = a /\ <<a, b>>[2] = b
           /\ <<a, b>> = <<c, d>> => a = c /\ b = d
  OBVIOUS

\* One task more
LEMMA HoldAdd ==
    ASSUME NEW R, NEW L, NEW mm, NEW H, Holding(R, L, mm, H),
           NEW c, c \notin L, c \in DOMAIN mm, c \in DOMAIN H, L \subseteq DOMAIN mm, L \subseteq DOMAIN H,
           NEW q, NEW G, \A s \in R : s[1].p4 # q.p4
    PROVE  Holding(R \cup {<<q, G>>}, L \cup {c}, [mm EXCEPT ![c] = q], [H EXCEPT ![c] = G])
<1> PICK mm2, H2 : mm2 = [mm EXCEPT ![c] = q] /\ H2 = [H EXCEPT ![c] = G]
  OBVIOUS
<1>1. mm2[c] = q /\ H2[c] = G /\ \A t \in L : mm2[t] = mm[t] /\ H2[t] = H[t]
  OBVIOUS
<1>2. \A t \in L : <<mm[t], H[t]>> \in R /\ mm[t].p4 # q.p4
  BY PairIs DEF Holding
<1>3. \A t \in L \cup {c} : <<mm2[t], H2[t]>> \in R \cup {<<q, G>>}
  BY <1>1, <1>2
<1>4. \A s \in R \cup {<<q, G>>} : \E t \in L \cup {c} : s = <<mm2[t], H2[t]>>
  BY <1>1 DEF Holding
<1>5. \A t, u \in L \cup {c} : mm2[t].p4 = mm2[u].p4 => t = u
  BY <1>1, <1>2 DEF Holding
<1> QED BY <1>3, <1>4, <1>5 DEF Holding

\* A task gets another space.
LEMMA HoldReplace ==
    ASSUME NEW R, NEW L, NEW mm, NEW H, Holding(R, L, mm, H),
           NEW p \in L, L \subseteq DOMAIN mm, L \subseteq DOMAIN H,
           NEW q, NEW G, \A t \in L : t # p => mm[t].p4 # q.p4
    PROVE  Holding((R \ {<<mm[p], H[p]>>}) \cup {<<q, G>>}, L, [mm EXCEPT ![p] = q], [H EXCEPT ![p] = G])
<1> PICK mm2, H2, Q : /\ mm2 = [mm EXCEPT ![p] = q] /\ H2 = [H EXCEPT ![p] = G]
                      /\ Q = (R \ {<<mm[p], H[p]>>}) \cup {<<q, G>>}
  OBVIOUS
<1>1. mm2[p] = q /\ H2[p] = G /\ \A t \in L : t # p => mm2[t] = mm[t] /\ H2[t] = H[t]
  OBVIOUS
<1>2. ASSUME NEW t \in L PROVE <<mm2[t], H2[t]>> \in Q
  <2>1. CASE t = p
    BY <1>1, <2>1
  <2>2. CASE t # p
    <3>1. <<mm[t], H[t]>> \in R /\ mm[t].p4 # mm[p].p4
      BY <2>2 DEF Holding
    <3>2. <<mm[t], H[t]>> # <<mm[p], H[p]>>
      BY <3>1, PairIs
    <3> QED BY <1>1, <2>2, <3>1, <3>2
  <2> QED BY <2>1, <2>2
<1>3. ASSUME NEW s \in Q PROVE \E t \in L : s = <<mm2[t], H2[t]>>
  <2>1. CASE s = <<q, G>>
    BY <1>1, <2>1
  <2>2. CASE s \in R /\ s # <<mm[p], H[p]>>
    <3>1. PICK t \in L : s = <<mm[t], H[t]>>
      BY <2>2 DEF Holding
    <3> QED BY <1>1, <2>2, <3>1
  <2> QED BY <2>1, <2>2
<1>4. \A t, u \in L : mm2[t].p4 = mm2[u].p4 => t = u
  BY <1>1 DEF Holding
<1> QED BY <1>2, <1>3, <1>4 DEF Holding

\* One task less
LEMMA HoldDrop ==
    ASSUME NEW R, NEW L, NEW mm, NEW H, Holding(R, L, mm, H),
           NEW p \in L, L \subseteq DOMAIN mm, L \subseteq DOMAIN H, NEW q, NEW G
    PROVE  Holding(R \ {<<mm[p], H[p]>>}, L \ {p}, [mm EXCEPT ![p] = q], [H EXCEPT ![p] = G])
<1> PICK mm2, H2, Q : /\ mm2 = [mm EXCEPT ![p] = q] /\ H2 = [H EXCEPT ![p] = G]
                      /\ Q = R \ {<<mm[p], H[p]>>}
  OBVIOUS
<1>1. \A t \in L : t # p => mm2[t] = mm[t] /\ H2[t] = H[t]
  OBVIOUS
<1>2. ASSUME NEW t \in L \ {p} PROVE <<mm2[t], H2[t]>> \in Q
  <2>1. <<mm[t], H[t]>> \in R /\ mm[t].p4 # mm[p].p4
    BY DEF Holding
  <2>2. <<mm[t], H[t]>> # <<mm[p], H[p]>>
    BY <2>1, PairIs
  <2> QED BY <1>1, <2>1, <2>2
<1>3. ASSUME NEW s \in Q PROVE \E t \in L \ {p} : s = <<mm2[t], H2[t]>>
  <2>1. PICK t \in L : s = <<mm[t], H[t]>>
    BY DEF Holding
  <2> QED BY <1>1, <2>1
<1>4. \A t, u \in L \ {p} : mm2[t].p4 = mm2[u].p4 => t = u
  BY <1>1 DEF Holding
<1> QED BY <1>2, <1>3, <1>4 DEF Holding

\* Only the tables, the data and the frames in use matter.
LEMMA ForestSame ==
    ASSUME NEW m, NEW k, NEW L, NEW mm, NEW H, Forest(m, k, L, mm, H), NEW n, DOMAIN n = Fields,
           n.used = m.used, n.table = m.table, n.data = m.data
    PROVE  Forest(n, k, L, mm, H)
<1>1. PICK M, C, R : Good(m, M, C, {}) /\ Spaces(M, C, k, R) /\ Holding(R, L, mm, H)
  BY DEF Forest
<1>2. Good(n, M, C, {})
  BY <1>1, GoodSame
<1> QED BY <1>1, <1>2 DEF Forest

\* What a new space is to the ones there are
Grown(m, r, R, G) ==
    /\ DOMAIN r = Fields /\ r.p4 # NONE /\ r.cr3 = m.cr3 /\ r.harm = m.harm
    /\ r.refcnt \in [KTypes -> Int] /\ \A k \in KTypes : r.refcnt[k] = m.refcnt[k] + 1
    /\ kernel_p4 # r.p4 /\ \A s \in R : s[1].p4 # r.p4
    /\ \E M, C : Good(r, M, C, {}) /\ Spaces(M, C, kernel_p4, R \cup {<<MmOf(r), G>>})

\* A new space joins the others.
LEMMA NewSpaceIs ==
    ASSUME NEW m, NEW r, NEW M0, NEW C0, NEW n, NEW G, NewSpace(m, r, M0, C0, n, G),
           NEW R, Spaces(M0, C0, kernel_p4, R)
    PROVE  Grown(m, r, R, G)
<1>1. /\ Build(r, M0, C0, Mirror(M0, KPages), G) /\ AreasOK(r.areas, n, DOMAIN G)
      /\ Counted(m.refcnt, r.refcnt, Len(KernelAreas)) /\ r.cr3 = m.cr3 /\ r.harm = m.harm
  BY DEF NewSpace
<1>2. DOMAIN r = Fields
  BY <1>1, BuildType
<1>3. r.p4 # NONE
  <2>1. DOMAIN Mirror(M0, KPages) = KPages
    BY DEF Mirror
  <2> QED BY <1>1, <2>1, KPagesSome DEF Build
<1>4. PICK M, C : Good(r, M, C, {}) /\ Built(r, M, C, M0, C0, Mirror(M0, KPages), G) /\ DOMAIN C0 \subseteq DOMAIN M0
  BY <1>1 DEF Build
<1>5. /\ Spaces(M, C, kernel_p4, R \cup {<<MmOf(r), G>>})
      /\ kernel_p4 # r.p4 /\ \A s \in R : s[1].p4 # r.p4
  <2>1. PICK k : k = kernel_p4
    OBVIOUS
  <2>2. Spaces(M0, C0, k, R)
    BY <2>1
  <2>3. AreasOK(r.areas, n, DOMAIN G)
    BY <1>1
  <2>4. DOMAIN C0 \subseteq DOMAIN M0 /\ Built(r, M, C, M0, C0, Mirror(M0, KPages), G)
    BY <1>4
  <2>5. Spaces(M, C, k, R \cup {<<MmOf(r), G>>}) /\ k # r.p4 /\ \A s \in R : s[1].p4 # r.p4
    BY <2>1, <2>2, <2>3, <2>4, AddSpace
  <2> QED BY <2>1, <2>5
<1>6. r.refcnt \in [KTypes -> Int] /\ \A k \in KTypes : r.refcnt[k] = m.refcnt[k] + 1
  <2>1. PICK c, d : c = r.refcnt /\ d = m.refcnt
    OBVIOUS
  <2>2. Counted(d, c, Len(KernelAreas))
    BY <1>1, <2>1
  <2>3. c \in [KTypes -> Int] /\ \A k \in KTypes : c[k] = d[k] + 1
    BY <2>2, KTypeOf DEF Counted
  <2> QED BY <2>1, <2>3
<1> QED BY <1>1, <1>2, <1>3, <1>4, <1>5, <1>6 DEF Grown

(***************************************************************************)
(* What fork, exec, the freeing of a task and a write do to the forest.    *)
(***************************************************************************)
\* A machine between two handlers
Settled(m) == DOMAIN m = Fields /\ ~m.oom /\ m.refcnt \in [KTypes -> Int]

\* The struct mm of a new space
LEMMA MmIs ==
    ASSUME NEW r, r.p4 # NONE
    PROVE  MmOf(r).p4 = r.p4 /\ MmOf(r).areas = r.areas /\ MmOf(r) # NoMm
  BY DEF MmOf, NoMm

\* The child's memory holds what its parent's does.
Forked(m, r, L, mm, H, p, c) ==
    /\ Forest(r, kernel_p4, L \cup {c}, [mm EXCEPT ![c] = MmOf(r)], [H EXCEPT ![c] = H[p]])
    /\ DOMAIN r = Fields /\ r.p4 # NONE /\ r.cr3 = m.cr3 /\ r.harm = m.harm
    /\ r.refcnt \in [KTypes -> Int] /\ \A k \in KTypes : r.refcnt[k] = m.refcnt[k] + 1

\* mm_dupe makes it so.
LEMMA ForkForest ==
    ASSUME NEW m, Settled(m), NEW L, NEW mm, NEW H, Forest(m, kernel_p4, L, mm, H),
           L \subseteq DOMAIN mm, L \subseteq DOMAIN H,
           NEW p \in L, NEW c, c \notin L, c \in DOMAIN mm, c \in DOMAIN H,
           NEW r, r = mm_dupe(m, mm[p]), ~r.oom
    PROVE  Forked(m, r, L, mm, H, p, c)
<1>1. PICK M, C, R : Good(m, M, C, {}) /\ Spaces(M, C, kernel_p4, R) /\ Holding(R, L, mm, H)
  BY DEF Forest
<1>2. PICK q, G : q = mm[p] /\ G = H[p] /\ <<q, G>> \in R
  BY <1>1 DEF Holding
<1>3. UserSpace(M, C, kernel_p4, q, G)
  <2>1. PICK s \in R : s[1] = q /\ s[2] = G
    BY <1>2, PairIs
  <2>2. UserSpace(M, C, kernel_p4, s[1], s[2])
    BY <1>1 DEF Spaces
  <2> QED BY <2>1, <2>2
<1>4. PICK X : X = DOMAIN G
  OBVIOUS
<1>5. PICK n : AreasOK(q.areas, n, X)
  BY <1>3, <1>4 DEF UserSpace
<1>6. \A v \in X : At(q.p4, v, 0) \in DOMAIN C /\ C[At(q.p4, v, 0)] = G[v]
  <2>1. X \subseteq Pages
    BY <1>3, <1>4, UserIn, Zenon
  <2>2. /\ \A v \in Pages : At(q.p4, v, 0) \in DOMAIN C <=> v \in DOMAIN G
        /\ \A v \in DOMAIN G : C[At(q.p4, v, 0)] = G[v]
    BY <1>3 DEF UserSpace
  <2> QED BY <1>4, <2>1, <2>2
<1>7. KernelIn(M)
  BY <1>1, SpaceFacts DEF KernelIn
<1>8. PICK F : F = [v \in X |-> C[At(q.p4, v, 0)]]
  OBVIOUS
<1>9. NewSpace(m, mm_dupe(m, q), M, C, n, [v \in X |-> C[At(q.p4, v, 0)]])
  <2>1. ~mm_dupe(m, q).oom
    BY <1>2
  <2>2. \A v \in X : At(q.p4, v, 0) \in DOMAIN C
    BY <1>6
  <2>3. DOMAIN m = Fields /\ ~m.oom /\ m.refcnt \in [KTypes -> Int] /\ Good(m, M, C, {})
    BY <1>1 DEF Settled
  <2> HIDE DEF Settled
  <2> QED BY <1>5, <1>7, <2>1, <2>2, <2>3, MmDupe
<1>10. NewSpace(m, r, M, C, n, F)
  BY <1>2, <1>8, <1>9
<1>11. DOMAIN G = DOMAIN F /\ \A v \in DOMAIN F : G[v] = F[v]
  BY <1>4, <1>6, <1>8
<1>12. NewSpace(m, r, M, C, n, G)
  BY <1>10, <1>11, SpaceEqual
<1>a. Grown(m, r, R, G)
  BY <1>1, <1>12, NewSpaceIs
<1>13. PICK W, D : Good(r, W, D, {}) /\ Spaces(W, D, kernel_p4, R \cup {<<MmOf(r), G>>})
  BY <1>a DEF Grown
<1>14. /\ DOMAIN r = Fields /\ r.p4 # NONE /\ r.cr3 = m.cr3 /\ r.harm = m.harm
       /\ r.refcnt \in [KTypes -> Int] /\ \A k \in KTypes : r.refcnt[k] = m.refcnt[k] + 1
       /\ \A s \in R : s[1].p4 # r.p4
  BY <1>a DEF Grown
<1>15. PICK new : new = MmOf(r) /\ new.p4 = r.p4
  <2>1. MmOf(r).p4 = r.p4
    BY DEF MmOf
  <2> QED BY <2>1
<1>16. Holding(R \cup {<<new, G>>}, L \cup {c}, [mm EXCEPT ![c] = new], [H EXCEPT ![c] = G])
  BY <1>1, <1>14, <1>15, HoldAdd
<1>17. Forest(r, kernel_p4, L \cup {c}, [mm EXCEPT ![c] = new], [H EXCEPT ![c] = G])
  BY <1>13, <1>15, <1>16 DEF Forest
<1> QED BY <1>2, <1>14, <1>15, <1>17 DEF Forked

\* The task has no memory any more.
Reaped(m, r, L, mm, H, p, z, y) ==
    /\ Forest(r, kernel_p4, L \ {p}, [mm EXCEPT ![p] = z], [H EXCEPT ![p] = y])
    /\ r.cr3 = m.cr3 /\ r.harm = m.harm /\ r.refcnt = [k \in KTypes |-> m.refcnt[k] - 1]

\* mm_free makes it so, while another task's tables are loaded.
LEMMA FreeForest ==
    ASSUME NEW m, Settled(m), NEW L, NEW mm, NEW H, Forest(m, kernel_p4, L, mm, H),
           L \subseteq DOMAIN mm, L \subseteq DOMAIN H,
           NEW p \in L, NEW c \in L, c # p, m.cr3 = mm[c].p4, \A k \in KTypes : m.refcnt[k] # 1,
           NEW z, NEW y
    PROVE  Reaped(m, mm_free(m, mm[p]), L, mm, H, p, z, y)
<1>1. PICK M, C, R : Good(m, M, C, {}) /\ Spaces(M, C, kernel_p4, R) /\ Holding(R, L, mm, H)
  BY DEF Forest
<1>2. PICK q, G, s, r : q = mm[p] /\ G = H[p] /\ s = <<q, G>> /\ s[1] = q /\ s[2] = G /\ s \in R /\ r = mm_free(m, q)
  <2>1. PICK q, G : q = mm[p] /\ G = H[p] /\ <<q, G>> \in R
    BY <1>1 DEF Holding
  <2>2. PICK s : s = <<q, G>>
    OBVIOUS
  <2>3. s[1] = q /\ s[2] = G
    BY <2>2
  <2> QED BY <2>1, <2>2, <2>3
<1>3. PICK t \in R : t[1] = mm[c]
  <2>1. <<mm[c], H[c]>> \in R
    BY <1>1 DEF Holding
  <2> QED BY <2>1, PairIs
<1>4. m.cr3 # q.p4 /\ HasSpace(M, m.cr3) /\ HasSpace(M, q.p4)
  <2>1. mm[c].p4 # mm[p].p4
    BY <1>1 DEF Holding
  <2>2. HasSpace(M, t[1].p4) /\ HasSpace(M, s[1].p4)
    BY <1>1, <1>2, <1>3, SpaceFacts
  <2> QED BY <1>2, <1>3, <2>1, <2>2
<1>5. PICK n, X : X = DOMAIN G /\ AreasOK(q.areas, n, X) /\ SpaceOf(M, C, q.p4, X)
  <2>1. (\E n : AreasOK(s[1].areas, n, DOMAIN s[2])) /\ SpaceOf(M, C, s[1].p4, DOMAIN s[2])
    BY <1>1, <1>2, SpaceFacts
  <2> QED BY <1>2, <2>1
<1>6. PICK W, D : W = Without(M, q.p4, X \cup KPages) /\ D = Without(C, q.p4, X \cup KPages)
  OBVIOUS
<1>7. /\ Good(r, W, D, {}) /\ r.cr3 = m.cr3 /\ r.harm = m.harm
      /\ r.refcnt = [k \in KTypes |-> m.refcnt[k] - 1]
  <2>1. Freeable(m, M, C, q, X)
    BY <1>1, <1>4, <1>5 DEF Settled, Freeable
  <2>2. Freed(m, mm_free(m, q), M, C, q, X)
    BY <2>1, MmFree
  <2>3. Freed(m, r, M, C, q, X)
    BY <1>2, <2>2
  <2> QED BY <1>6, <2>3 DEF Freed
<1>8. Spaces(W, D, kernel_p4, R \ {s})
  BY <1>1, <1>2, <1>5, <1>6, DropSpace
<1>9. Holding(R \ {<<mm[p], H[p]>>}, L \ {p}, [mm EXCEPT ![p] = z], [H EXCEPT ![p] = y])
  BY <1>1, HoldDrop
<1>10. Forest(r, kernel_p4, L \ {p}, [mm EXCEPT ![p] = z], [H EXCEPT ![p] = y])
  BY <1>2, <1>7, <1>8, <1>9 DEF Forest
<1>11. Reaped(m, r, L, mm, H, p, z, y)
  BY <1>7, <1>10 DEF Reaped
<1> QED BY <1>2, <1>11

\* exec_elf, the change to the new tables and mm_free leave the task with the
\* program in its new space.
LEMMA ExecForest ==
    ASSUME NEW m, Settled(m), NEW L, NEW mm, NEW H, Forest(m, kernel_p4, L, mm, H),
           L \subseteq DOMAIN mm, L \subseteq DOMAIN H, NEW p \in L,
           \A k \in KTypes : m.refcnt[k] # 0, NEW image \in Images,
           NEW r, r = exec_elf(m, image), ~r.oom,
           NEW f, f = mm_free(leave_old_mm(r), mm[p])
    PROVE  /\ Forest(f, kernel_p4, L, [mm EXCEPT ![p] = MmOf(r)], [H EXCEPT ![p] = Loaded(image)])
           /\ DOMAIN f = Fields /\ r.p4 # NONE /\ f.harm = m.harm /\ f.refcnt \in [KTypes -> Int]
           /\ \A k \in KTypes : f.refcnt[k] = m.refcnt[k]
<1>1. PICK M, C, R : Good(m, M, C, {}) /\ Spaces(M, C, kernel_p4, R) /\ Holding(R, L, mm, H)
  BY DEF Forest
<1>2. PICK q, G, s, l : q = mm[p] /\ G = H[p] /\ s = <<q, G>> /\ s[1] = q /\ s[2] = G /\ s \in R /\ l = leave_old_mm(r)
  <2>1. PICK q, G : q = mm[p] /\ G = H[p] /\ <<q, G>> \in R
    BY <1>1 DEF Holding
  <2>2. PICK s : s = <<q, G>>
    OBVIOUS
  <2>3. s[1] = q /\ s[2] = G
    BY <2>2
  <2> QED BY <2>1, <2>2, <2>3
<1>3. PICK N : N = Loaded(image)
  OBVIOUS
<1>4. PICK n : NewSpace(m, r, M, C, n, N)
  <2>1. KernelIn(M)
    BY <1>1, SpaceFacts DEF KernelIn
  <2>2. DOMAIN m = Fields /\ m.refcnt \in [KTypes -> Int]
    BY DEF Settled
  <2>3. ~exec_elf(m, image).oom
    OBVIOUS
  <2>4. \E n : NewSpace(m, exec_elf(m, image), M, C, n, Loaded(image))
    BY <1>1, <2>1, <2>2, <2>3, ExecElf
  <2> QED BY <1>3, <2>4
<1>a. Grown(m, r, R, N)
  BY <1>1, <1>4, NewSpaceIs
<1>5. /\ DOMAIN r = Fields /\ r.p4 # NONE /\ r.cr3 = m.cr3 /\ r.harm = m.harm
      /\ r.refcnt \in [KTypes -> Int] /\ \A k \in KTypes : r.refcnt[k] = m.refcnt[k] + 1
      /\ kernel_p4 # r.p4 /\ \A t \in R : t[1].p4 # r.p4
  BY <1>a DEF Grown
<1>6. PICK new, mn : mn = MmOf(r) /\ mn.p4 = r.p4 /\ new = <<mn, N>> /\ new[1] = mn /\ new[2] = N
  <2>1. PICK mn : mn = MmOf(r) /\ mn.p4 = r.p4
    BY <1>5, MmIs
  <2>2. PICK new : new = <<mn, N>>
    OBVIOUS
  <2>3. new[1] = mn /\ new[2] = N
    BY <2>2
  <2> QED BY <2>1, <2>2, <2>3
<1>7. PICK M1, C1 : Good(r, M1, C1, {}) /\ Spaces(M1, C1, kernel_p4, R \cup {new})
  BY <1>a, <1>6 DEF Grown
<1>8. /\ DOMAIN l = Fields /\ l.used = r.used /\ l.table = r.table /\ l.data = r.data
      /\ l.cr3 = kernel_p4 /\ l.harm = r.harm /\ l.refcnt = r.refcnt
  BY <1>2, <1>5 DEF leave_old_mm, Fields
<1>9. Good(l, M1, C1, {})
  BY <1>7, <1>8, GoodSame
<1>10. s \in R \cup {new}
  BY <1>2
<1>11. HasSpace(M1, kernel_p4) /\ HasSpace(M1, q.p4) /\ q.p4 # kernel_p4
  <2>1. HasSpace(M1, s[1].p4) /\ s[1].p4 # kernel_p4 /\ HasSpace(M1, kernel_p4)
    BY <1>7, <1>10, SpaceFacts
  <2> QED BY <1>2, <2>1
<1>12. PICK j, X : X = DOMAIN G /\ AreasOK(q.areas, j, X) /\ SpaceOf(M1, C1, q.p4, X)
  <2>1. (\E j : AreasOK(s[1].areas, j, DOMAIN s[2])) /\ SpaceOf(M1, C1, s[1].p4, DOMAIN s[2])
    BY <1>7, <1>10, SpaceFacts
  <2> QED BY <1>2, <2>1
<1>13. l.refcnt \in [KTypes -> Int] /\ \A k \in KTypes : l.refcnt[k] = m.refcnt[k] + 1
  BY <1>5, <1>8
<1>14. \A k \in KTypes : l.refcnt[k] # 1 /\ l.refcnt[k] - 1 = m.refcnt[k]
  <2>1. PICK c : c = m.refcnt /\ c \in [KTypes -> Int]
    BY DEF Settled
  <2>2. \A k \in KTypes : c[k] \in Int /\ c[k] # 0
    BY <2>1
  <2> QED BY <1>13, <2>1, <2>2
<1>15. PICK W, D : W = Without(M1, q.p4, X \cup KPages) /\ D = Without(C1, q.p4, X \cup KPages)
  OBVIOUS
<1>16. Good(f, W, D, {}) /\ f.harm = l.harm /\ f.refcnt = [k \in KTypes |-> l.refcnt[k] - 1]
  <2>1. l.cr3 # q.p4 /\ HasSpace(M1, l.cr3)
    BY <1>8, <1>11
  <2>2. Freeable(l, M1, C1, q, X)
    BY <1>9, <1>11, <1>12, <1>13, <1>14, <2>1 DEF Freeable
  <2>3. Freed(l, mm_free(l, q), M1, C1, q, X)
    BY <2>2, MmFree
  <2>4. Freed(l, f, M1, C1, q, X)
    BY <1>2, <2>3
  <2> QED BY <1>15, <2>4 DEF Freed
<1>17. Spaces(W, D, kernel_p4, (R \cup {new}) \ {s})
  BY <1>2, <1>7, <1>9, <1>10, <1>12, <1>15, DropSpace
<1>18. (R \cup {new}) \ {s} = (R \ {<<mm[p], H[p]>>}) \cup {<<mn, N>>}
  <2>1. new # s
    BY <1>2, <1>5, <1>6
  <2> QED BY <1>2, <1>6, <2>1
<1>19. \A t \in L : mm[t].p4 # mn.p4
  <2>1. \A t \in L : <<mm[t], H[t]>> \in R
    BY <1>1 DEF Holding
  <2> QED BY <1>5, <1>6, <2>1, PairIs
<1>20. Holding((R \ {<<mm[p], H[p]>>}) \cup {<<mn, N>>}, L, [mm EXCEPT ![p] = mn], [H EXCEPT ![p] = N])
  BY <1>1, <1>19, HoldReplace
<1>21. Forest(f, kernel_p4, L, [mm EXCEPT ![p] = mn], [H EXCEPT ![p] = N])
  BY <1>16, <1>17, <1>18, <1>20 DEF Forest
<1>22. DOMAIN f = Fields
  BY <1>16, GoodFacts
<1>23. f.refcnt \in [KTypes -> Int] /\ \A k \in KTypes : f.refcnt[k] = m.refcnt[k]
  <2>1. PICK c, d : c = f.refcnt /\ d = l.refcnt /\ d \in [KTypes -> Int] /\ c = [k \in KTypes |-> d[k] - 1]
    BY <1>13, <1>16
  <2>2. c \in [KTypes -> Int] /\ \A k \in KTypes : c[k] = d[k] - 1
    BY <2>1
  <2> QED BY <1>14, <2>1, <2>2
<1> QED BY <1>3, <1>5, <1>6, <1>8, <1>16, <1>21, <1>22, <1>23

\* A store by the program changes what its task holds, and what no other does.
LEMMA WriteForest ==
    ASSUME NEW m, NEW L, NEW mm, NEW H, Forest(m, kernel_p4, L, mm, H),
           L \subseteq DOMAIN mm, L \subseteq DOMAIN H, NEW p \in L, NEW v \in DOMAIN H[p], NEW c,
           NEW n, n.table = m.table, n.p4 = mm[p].p4
    PROVE  /\ Forest([m EXCEPT !.data[phys_of(n, v)] = c], kernel_p4, L, mm, [H EXCEPT ![p] = [H[p] EXCEPT ![v] = c]])
           /\ DOMAIN m = Fields /\ DOMAIN [m EXCEPT !.data[phys_of(n, v)] = c] = Fields
<1>1. PICK M, C, R : Good(m, M, C, {}) /\ Spaces(M, C, kernel_p4, R) /\ Holding(R, L, mm, H)
  BY DEF Forest
<1>2. PICK q, G, s, y : q = mm[p] /\ G = H[p] /\ s = <<q, G>> /\ s[1] = q /\ s[2] = G /\ s \in R /\ y = At(q.p4, v, 0)
  <2>1. PICK q, G : q = mm[p] /\ G = H[p] /\ <<q, G>> \in R
    BY <1>1 DEF Holding
  <2>2. PICK s : s = <<q, G>>
    OBVIOUS
  <2>3. s[1] = q /\ s[2] = G
    BY <2>2
  <2> QED BY <2>1, <2>2, <2>3
<1>3. UserSpace(M, C, kernel_p4, q, G) /\ v \in Pages
  <2>1. UserSpace(M, C, kernel_p4, s[1], s[2])
    BY <1>1, <1>2 DEF Spaces
  <2>2. UserSpace(M, C, kernel_p4, q, G) /\ v \in DOMAIN G
    BY <1>2, <2>1
  <2> QED BY <2>2, UserIn
<1>4. y \in DOMAIN C /\ y \in DOMAIN M
  BY <1>2, <1>3 DEF UserSpace
<1>5. phys_of(n, v) = M[y]
  <2>1. At(n.p4, v, 0) \in DOMAIN M /\ At(n.p4, v, 0) = y
    BY <1>2, <1>4
  <2>2. phys_of(n, v) = M[At(n.p4, v, 0)]
    BY <1>1, <1>3, <2>1, PhysIs
  <2> QED BY <2>1, <2>2
<1>6. PICK F, D : F = [G EXCEPT ![v] = c] /\ D = [C EXCEPT ![y] = c]
  OBVIOUS
<1>7. PICK w : w = [m EXCEPT !.data[phys_of(n, v)] = c] /\ Good(w, M, D, {})
  BY <1>1, <1>4, <1>5, <1>6, GoodPut
<1>8. Spaces(M, D, kernel_p4, (R \ {s}) \cup {<<q, F>>})
  <2>1. v \in DOMAIN s[2]
    BY <1>2
  <2>2. Spaces(M, [C EXCEPT ![At(s[1].p4, v, 0)] = c], kernel_p4, (R \ {s}) \cup {<<s[1], [s[2] EXCEPT ![v] = c]>>})
    BY <1>1, <1>2, <2>1, WriteSpace
  <2> QED BY <1>2, <1>6, <2>2
<1>9. \A t \in L : t # p => mm[t].p4 # q.p4
  BY <1>1, <1>2 DEF Holding
<1>10. Holding((R \ {<<mm[p], H[p]>>}) \cup {<<q, F>>}, L, [mm EXCEPT ![p] = q], [H EXCEPT ![p] = F])
  BY <1>1, <1>9, HoldReplace
<1>11. Holding((R \ {s}) \cup {<<q, F>>}, L, mm, [H EXCEPT ![p] = F])
  <2>1. PICK Q, H2, mm2 : Q = (R \ {s}) \cup {<<q, F>>} /\ H2 = [H EXCEPT ![p] = F] /\ mm2 = [mm EXCEPT ![p] = q]
    OBVIOUS
  <2>2. Holding(Q, L, mm2, H2)
    BY <1>2, <1>10, <2>1
  <2>3. \A t \in L : mm2[t] = mm[t]
    BY <1>2, <2>1
  <2>4. Holding(Q, L, mm, H2)
    BY <2>2, <2>3 DEF Holding
  <2> QED BY <2>1, <2>4
<1>12. Forest(w, kernel_p4, L, mm, [H EXCEPT ![p] = F])
  BY <1>7, <1>8, <1>11 DEF Forest
<1>13. DOMAIN m = Fields /\ DOMAIN w = Fields
  BY <1>1, <1>7, GoodFacts
<1> QED BY <1>2, <1>6, <1>7, <1>12, <1>13

\* Nothing is counted at first.
LEMMA BlankIs == Blank.refcnt \in [KTypes -> Int] /\ (\A k \in KTypes : Blank.refcnt[k] = 0) /\ Blank.harm = {}
<1>1. Blank.refcnt = [k \in KTypes |-> 0] /\ Blank.harm = {}
  BY DEF Blank, KTypes
<1> QED BY <1>1

\* The kernel's own tables after boot
LEMMA BootForest ==
    ASSUME NEW b, b = kernel_mm_init, kernel_p4 = b.p4, ~b.oom
    PROVE  /\ DOMAIN b = Fields /\ b.refcnt \in [KTypes -> Int]
           /\ \A k \in KTypes : b.refcnt[k] = 0
           /\ b.harm = {}
           /\ \E M, C : Good(b, M, C, {}) /\ Spaces(M, C, kernel_p4, {})
<1>1. Booting(b, Len(KernelAreas))
  BY Boot
<1>2. PICK E : E = <<>> /\ DOMAIN E = {}
  OBVIOUS
<1>3. PICK S, H : /\ Build(b, E, E, S, H) /\ Same(Blank, b)
                  /\ DOMAIN S \cup DOMAIN H = KPages /\ DOMAIN H = KHeap
  BY <1>1, <1>2, KernelLen DEF Booting, KHeap
<1>4. PICK M, C : Good(b, M, C, {}) /\ Built(b, M, C, E, E, S, H)
  BY <1>3 DEF Build
<1>5. DOMAIN M = {At(kernel_p4, v, 0) : v \in KPages} /\ DOMAIN C = {At(kernel_p4, v, 0) : v \in KHeap}
  BY <1>2, <1>3, <1>4 DEF Built
<1>6. KernelSpace(M, C, kernel_p4)
  <2>1. SUFFICES ASSUME NEW v \in Pages
                 PROVE  /\ At(kernel_p4, v, 0) \in DOMAIN M <=> v \in KPages
                        /\ At(kernel_p4, v, 0) \in DOMAIN C <=> v \in KHeap
    BY DEF KernelSpace
  <2>2. \A w : At(kernel_p4, v, 0) = At(kernel_p4, w, 0) => v = w
    BY AtPage
  <2> QED BY <1>5, <2>2
<1>7. \A x \in DOMAIN M : Space(x) = kernel_p4
  <2>1. \A v : Space(At(kernel_p4, v, 0)) = kernel_p4
    BY AtFields
  <2> QED BY <1>5, <2>1
<1>8. Spaces(M, C, kernel_p4, {})
  BY <1>6, <1>7 DEF Spaces
<1>9. b.refcnt = Blank.refcnt /\ b.harm = Blank.harm
  BY <1>3 DEF Same
<1>10. b.refcnt \in [KTypes -> Int] /\ \A k \in KTypes : b.refcnt[k] = 0
  <2>1. PICK c : c = Blank.refcnt /\ c \in [KTypes -> Int] /\ \A k \in KTypes : c[k] = 0
    BY BlankIs
  <2> QED BY <1>9, <2>1
<1>11. DOMAIN b = Fields /\ b.harm = {}
  BY <1>4, <1>9, GoodFacts, BlankIs
<1> QED BY <1>4, <1>8, <1>10, <1>11

\* There is a first program only if the kernel's tables could be made.
LEMMA BootRuns ==
    ASSUME kernel_p4 = kernel_mm_init.p4, NEW image \in Images, ~exec_elf(kernel_mm_init, image).oom
    PROVE  ~kernel_mm_init.oom
<1>1. SUFFICES ASSUME kernel_mm_init.oom PROVE FALSE
  OBVIOUS
<1>2. PICK b : b = kernel_mm_init /\ b.oom /\ DOMAIN b = Fields
  BY <1>1, Boot DEF Booting
<1>3. PICK M : M = [x \in {At(kernel_p4, v, 0) : v \in KPages} |-> 0]
  OBVIOUS
<1>4. DOMAIN M = {At(kernel_p4, v, 0) : v \in KPages}
  BY <1>3
<1>5. KernelIn(M)
  BY <1>4 DEF KernelIn
<1>6. ~exec_elf(b, image).oom
  BY <1>2
<1>7. ~b.oom
  BY <1>2, <1>5, <1>6, ExecElf
<1> QED BY <1>2, <1>7

\* After boot there is one task.
LEMMA InitForest ==
    ASSUME kernel_p4 = kernel_mm_init.p4, NEW image \in Images,
           NEW r, r = exec_elf(kernel_mm_init, image), ~r.oom,
           NEW mm, NEW H, mm[1] = MmOf(r), H[1] = Loaded(image)
    PROVE  /\ Forest(r, kernel_p4, {1}, mm, H)
           /\ DOMAIN r = Fields /\ r.p4 # NONE /\ r.harm = {}
           /\ r.refcnt \in [KTypes -> Int] /\ \A k \in KTypes : r.refcnt[k] = 1
<1>1. PICK b, G, new : b = kernel_mm_init /\ G = Loaded(image) /\ new = MmOf(r)
  OBVIOUS
<1>2. ~exec_elf(b, image).oom /\ ~b.oom /\ kernel_p4 = b.p4
  BY <1>1, BootRuns
<1>3. /\ DOMAIN b = Fields /\ b.refcnt \in [KTypes -> Int]
      /\ \A k \in KTypes : b.refcnt[k] = 0
      /\ b.harm = {}
  BY <1>1, <1>2, BootForest
<1>4. PICK M, C : Good(b, M, C, {}) /\ Spaces(M, C, kernel_p4, {})
  BY <1>1, <1>2, BootForest
<1>5. KernelIn(M)
  BY <1>4, SpaceFacts DEF KernelIn
<1>6. PICK n : NewSpace(b, r, M, C, n, G)
  <2>1. \E n : NewSpace(b, exec_elf(b, image), M, C, n, Loaded(image))
    BY <1>2, <1>3, <1>4, <1>5, ExecElf
  <2> QED BY <1>1, <2>1
<1>7. Grown(b, r, {}, G)
  BY <1>4, <1>6, NewSpaceIs
<1>8. PICK W, D : Good(r, W, D, {}) /\ Spaces(W, D, kernel_p4, {} \cup {<<new, G>>})
  BY <1>1, <1>7 DEF Grown
<1>9. Holding({} \cup {<<new, G>>}, {1}, mm, H)
  BY <1>1 DEF Holding
<1>10. Forest(r, kernel_p4, {1}, mm, H)
  BY <1>8, <1>9 DEF Forest
<1>11. /\ DOMAIN r = Fields /\ r.p4 # NONE /\ r.harm = b.harm
       /\ r.refcnt \in [KTypes -> Int] /\ \A k \in KTypes : r.refcnt[k] = b.refcnt[k] + 1
  BY <1>7 DEF Grown
<1> QED BY <1>3, <1>10, <1>11

(***************************************************************************)
(* The inductive invariant.                                                *)
(***************************************************************************)
\* Every live task has a space of its own, is counted in the kernel's areas,
\* and the current one's is loaded.
VmmInv ==
    /\ DOMAIN ram = {"table", "data", "used"} /\ DOMAIN mms = Tasks /\ DOMAIN holds = Tasks
    /\ current \in Live /\ 1 \in Live
    /\ cr3 = mms[current].p4 /\ harm = {}
    /\ refcnt \in [KTypes -> Int] /\ \A k \in KTypes : refcnt[k] = Cardinality(Live)
    /\ Forest(Machine, kernel_p4, Live, mms, holds)

\* The live tasks can be counted.
LEMMA LiveFinite ==
    /\ IsFiniteSet(Live) /\ Cardinality(Live) \in Nat
    /\ Live # {} => Cardinality(Live) # 0
    /\ \A t, u \in Live : t # u => Cardinality(Live) # 1
<1>1. IsFiniteSet(Tasks)
  BY FS_Interval, VmmAssumption DEF Tasks
<1>2. IsFiniteSet(Live)
  BY <1>1, FS_Subset DEF Live
<1>3. Cardinality(Live) \in Nat
  BY <1>2, FS_CardinalityType
<1>4. Live # {} => Cardinality(Live) # 0
  BY <1>2, FS_EmptySet
<1>5. Cardinality(Live) = 1 => \E x : Live = {x}
  BY <1>2, FS_Singleton
<1> QED BY <1>2, <1>3, <1>4, <1>5

\* The machine that the handlers start from
LEMMA MachineIs ==
    /\ DOMAIN Machine = Fields /\ Machine.table = ram.table /\ Machine.data = ram.data
    /\ Machine.used = ram.used /\ Machine.cr3 = cr3 /\ Machine.refcnt = refcnt
    /\ Machine.harm = harm /\ ~Machine.oom
  BY DEF Machine, Fields

\* The machine that the next handler starts from
LEMMA MachineNext ==
    /\ DOMAIN Machine' = Fields /\ Machine'.table = ram'.table /\ Machine'.data = ram'.data
    /\ Machine'.used = ram'.used
  BY DEF Machine, Fields

\* Boot establishes the invariant.
LEMMA VmmInit == Init => VmmInv
<1>1. SUFFICES ASSUME Init PROVE VmmInv
  OBVIOUS
<1>2. PICK image \in Images :
          LET m == exec_elf(kernel_mm_init, image)
          IN  /\ ~m.oom
              /\ ram = [table |-> m.table, data |-> m.data, used |-> m.used]
              /\ refcnt = m.refcnt /\ harm = m.harm /\ cr3 = m.p4
              /\ mms = [t \in Tasks |-> IF t = 1 THEN MmOf(m) ELSE NoMm]
              /\ holds = [t \in Tasks |-> IF t = 1 THEN Loaded(image) ELSE <<>>]
  BY <1>1 DEF Init
<1>3. PICK r : r = exec_elf(kernel_mm_init, image)
  OBVIOUS
<1>4. /\ ~r.oom /\ ram = [table |-> r.table, data |-> r.data, used |-> r.used]
      /\ refcnt = r.refcnt /\ harm = r.harm /\ cr3 = r.p4
      /\ mms = [t \in Tasks |-> IF t = 1 THEN MmOf(r) ELSE NoMm]
      /\ holds = [t \in Tasks |-> IF t = 1 THEN Loaded(image) ELSE <<>>]
  BY <1>2, <1>3
<1>5. current = 1 /\ kernel_p4 = kernel_mm_init.p4
  BY <1>1 DEF Init
<1>6. 1 \in Tasks
  BY VmmAssumption DEF Tasks
<1>7. mms[1] = MmOf(r) /\ holds[1] = Loaded(image) /\ DOMAIN mms = Tasks /\ DOMAIN holds = Tasks
  BY <1>4, <1>6
<1>8. /\ Forest(r, kernel_p4, {1}, mms, holds)
      /\ DOMAIN r = Fields /\ r.p4 # NONE /\ r.harm = {}
      /\ r.refcnt \in [KTypes -> Int] /\ \A k \in KTypes : r.refcnt[k] = 1
  BY <1>3, <1>4, <1>5, <1>7, InitForest
<1>9. MmOf(r).p4 = r.p4 /\ MmOf(r) # NoMm
  BY <1>8, MmIs
<1>10. Live = {1}
  BY <1>4, <1>6, <1>7, <1>9 DEF Live
<1>11. Cardinality(Live) = 1
  BY <1>10, FS_Singleton
<1>12. DOMAIN ram = {"table", "data", "used"} /\ ram.table = r.table /\ ram.data = r.data /\ ram.used = r.used
  BY <1>4
<1>13. Forest(Machine, kernel_p4, Live, mms, holds)
  BY <1>8, <1>10, <1>12, MachineIs, ForestSame
<1>14. refcnt \in [KTypes -> Int] /\ \A k \in KTypes : refcnt[k] = Cardinality(Live)
  BY <1>4, <1>8, <1>11
<1>15. cr3 = mms[current].p4 /\ harm = {} /\ current \in Live /\ 1 \in Live
  BY <1>4, <1>5, <1>7, <1>8, <1>9, <1>10
<1> QED BY <1>7, <1>12, <1>13, <1>14, <1>15 DEF VmmInv

(***************************************************************************)
(* Every handler keeps the invariant.                                      *)
(***************************************************************************)
\* What the invariant gives a handler
LEMMA MachineReady ==
    ASSUME VmmInv
    PROVE  /\ Settled(Machine) /\ Forest(Machine, kernel_p4, Live, mms, holds)
           /\ Live \subseteq DOMAIN mms /\ Live \subseteq DOMAIN holds /\ Live \subseteq Tasks
           /\ current \in Live /\ 1 \in Live
<1>1. refcnt \in [KTypes -> Int]
  BY DEF VmmInv
<1>2. Settled(Machine)
  BY <1>1, MachineIs DEF Settled
<1>3. Live \subseteq Tasks
  BY DEF Live
<1> QED BY <1>2, <1>3 DEF VmmInv

\* The end of a handler
LEMMA CommitForest ==
    ASSUME NEW m, NEW mm, NEW H, NEW L, Forest(m, kernel_p4, L, mm, H),
           Commit(m, mm, H), Live' = L
    PROVE  /\ Forest(Machine', kernel_p4', Live', mms', holds')
           /\ DOMAIN ram' = {"table", "data", "used"}
<1>1. /\ ram' = [table |-> m.table, data |-> m.data, used |-> m.used]
      /\ mms' = mm /\ holds' = H /\ kernel_p4' = kernel_p4
  BY DEF Commit
<1>2. ram'.table = m.table /\ ram'.data = m.data /\ ram'.used = m.used /\ DOMAIN ram' = {"table", "data", "used"}
  BY <1>1
<1>3. Forest(Machine', kernel_p4, L, mm, H)
  BY <1>2, MachineNext, ForestSame
<1> QED BY <1>1, <1>2, <1>3

\* do_fork keeps the invariant.
LEMMA KeepsFork ==
    ASSUME VmmInv, NEW c \in Tasks, do_fork(c) PROVE VmmInv'
<1>1. PICK r : r = mm_dupe(Machine, mms[current])
  OBVIOUS
<1>2. /\ mms[c] = NoMm
      /\ \/ r.oom /\ out_of_frames
         \/ ~r.oom /\ Commit(r, [mms EXCEPT ![c] = MmOf(r)], [holds EXCEPT ![c] = holds[current]])
  BY <1>1 DEF do_fork
<1>3. CASE out_of_frames
  <2>1. Machine' = Machine /\ Live' = Live
    BY <1>3 DEF out_of_frames, Machine, Live
  <2> QED BY <1>3, <2>1 DEF out_of_frames, VmmInv
<1>4. CASE ~r.oom /\ Commit(r, [mms EXCEPT ![c] = MmOf(r)], [holds EXCEPT ![c] = holds[current]])
  <2>0. PICK mm, H, new : mm = [mms EXCEPT ![c] = new] /\ H = [holds EXCEPT ![c] = holds[current]] /\ new = MmOf(r)
    OBVIOUS
  <2>1. DOMAIN mms = Tasks /\ DOMAIN holds = Tasks /\ c \notin Live
    BY <1>2 DEF VmmInv, Live
  <2>2. /\ Forest(r, kernel_p4, Live \cup {c}, [mms EXCEPT ![c] = MmOf(r)], [holds EXCEPT ![c] = holds[current]])
        /\ DOMAIN r = Fields /\ r.p4 # NONE /\ r.cr3 = Machine.cr3 /\ r.harm = Machine.harm
        /\ r.refcnt \in [KTypes -> Int] /\ \A k \in KTypes : r.refcnt[k] = Machine.refcnt[k] + 1
    <3>1. PICK m, mm0, H0, L, p : m = Machine /\ mm0 = mms /\ H0 = holds /\ L = Live /\ p = current
      OBVIOUS
    <3>2. Settled(m) /\ Forest(m, kernel_p4, L, mm0, H0) /\ L \subseteq DOMAIN mm0 /\ L \subseteq DOMAIN H0 /\ p \in L
      BY <3>1, MachineReady
    <3>3. c \notin L /\ c \in DOMAIN mm0 /\ c \in DOMAIN H0 /\ r = mm_dupe(m, mm0[p]) /\ ~r.oom
      BY <1>1, <1>4, <2>1, <3>1
    <3>4. Forked(m, r, L, mm0, H0, p, c)
      BY <3>2, <3>3, ForkForest
    <3> QED BY <3>1, <3>4 DEF Forked
  <2>3. Forest(r, kernel_p4, Live \cup {c}, mm, H)
    BY <2>0, <2>2
  <2>4. Commit(r, mm, H)
    BY <1>4, <2>0
  <2>5. /\ mms' = mm /\ holds' = H /\ current' = current /\ cr3' = r.cr3 /\ harm' = r.harm /\ refcnt' = r.refcnt
    BY <2>4 DEF Commit
  <2>6. DOMAIN mm = Tasks /\ DOMAIN H = Tasks /\ mm[c] # NoMm /\ \A t \in Tasks : t # c => mm[t] = mms[t]
    BY <2>0, <2>1, <2>2, MmIs
  <2>7. Live' = Live \cup {c}
    BY <2>5, <2>6 DEF Live
  <2>8. Forest(Machine', kernel_p4', Live', mms', holds') /\ DOMAIN ram' = {"table", "data", "used"}
    BY <2>3, <2>4, <2>7, CommitForest
  <2>9. Cardinality(Live') = Cardinality(Live) + 1
    BY <2>1, <2>7, LiveFinite, FS_AddElement
  <2>10. refcnt' \in [KTypes -> Int] /\ \A k \in KTypes : refcnt'[k] = Cardinality(Live')
    <3>1. \A k \in KTypes : refcnt[k] = Cardinality(Live)
      BY DEF VmmInv
    <3>2. \A k \in KTypes : r.refcnt[k] = refcnt[k] + 1
      BY <2>2, MachineIs
    <3> QED BY <2>2, <2>5, <2>9, <3>1, <3>2
  <2>11. current \in Live /\ 1 \in Live /\ current # c /\ current \in Tasks /\ cr3 = mms[current].p4 /\ harm = {}
    BY <2>1 DEF VmmInv, Live
  <2>12. cr3' = mms'[current'].p4 /\ harm' = {} /\ current' \in Live' /\ 1 \in Live'
    BY <2>2, <2>5, <2>6, <2>7, <2>11, MachineIs
  <2>13. DOMAIN mms' = Tasks /\ DOMAIN holds' = Tasks
    BY <2>5, <2>6
  <2> QED BY <2>8, <2>10, <2>12, <2>13 DEF VmmInv
<1> QED BY <1>2, <1>3, <1>4

\* task_free keeps the invariant.
LEMMA KeepsFree ==
    ASSUME VmmInv, NEW p \in Tasks, task_free(p) PROVE VmmInv'
<1>1. PICK r, z, mm, H : /\ r = mm_free(Machine, mms[p]) /\ z = <<>>
                         /\ mm = [mms EXCEPT ![p] = NoMm] /\ H = [holds EXCEPT ![p] = z]
  OBVIOUS
<1>2. p # 1 /\ p # current /\ mms[p] # NoMm /\ Commit(r, mm, H)
  BY <1>1 DEF task_free
<1>3. DOMAIN mms = Tasks /\ DOMAIN holds = Tasks /\ p \in Live /\ current \in Live /\ 1 \in Live /\ current \in Tasks
  BY <1>2 DEF VmmInv, Live
<1>4. Machine.cr3 = mms[current].p4 /\ harm = {}
  BY MachineIs DEF VmmInv
<1>5. \A k \in KTypes : Machine.refcnt[k] # 1
  <2>1. \A k \in KTypes : refcnt[k] = Cardinality(Live)
    BY DEF VmmInv
  <2>2. Cardinality(Live) # 1
    BY <1>2, <1>3, LiveFinite
  <2> QED BY <2>1, <2>2, MachineIs
<1>6. /\ Forest(r, kernel_p4, Live \ {p}, mm, H)
      /\ r.cr3 = Machine.cr3 /\ r.harm = Machine.harm
      /\ r.refcnt = [k \in KTypes |-> Machine.refcnt[k] - 1]
  <2>1. /\ Forest(mm_free(Machine, mms[p]), kernel_p4, Live \ {p}, [mms EXCEPT ![p] = NoMm], [holds EXCEPT ![p] = z])
        /\ mm_free(Machine, mms[p]).cr3 = Machine.cr3 /\ mm_free(Machine, mms[p]).harm = Machine.harm
        /\ mm_free(Machine, mms[p]).refcnt = [k \in KTypes |-> Machine.refcnt[k] - 1]
    <3>1. PICK m, mm0, H0, L, c : m = Machine /\ mm0 = mms /\ H0 = holds /\ L = Live /\ c = current
      OBVIOUS
    <3>2. Settled(m) /\ Forest(m, kernel_p4, L, mm0, H0) /\ L \subseteq DOMAIN mm0 /\ L \subseteq DOMAIN H0 /\ c \in L
      BY <3>1, MachineReady
    <3>3. p \in L /\ c # p /\ m.cr3 = mm0[c].p4 /\ \A k \in KTypes : m.refcnt[k] # 1
      BY <1>2, <1>3, <1>4, <1>5, <3>1
    <3>4. PICK no : no = NoMm
      OBVIOUS
    <3>5. Reaped(m, mm_free(m, mm0[p]), L, mm0, H0, p, no, z)
      BY <3>2, <3>3, FreeForest
    <3> QED BY <3>1, <3>4, <3>5 DEF Reaped
  <2> QED BY <1>1, <2>1
<1>7. mms' = mm /\ holds' = H /\ current' = current /\ cr3' = r.cr3 /\ harm' = r.harm /\ refcnt' = r.refcnt
  BY <1>2 DEF Commit
<1>8. DOMAIN mm = Tasks /\ DOMAIN H = Tasks /\ mm[p] = NoMm /\ \A t \in Tasks : t # p => mm[t] = mms[t]
  BY <1>1, <1>3
<1>9. Live' = Live \ {p}
  BY <1>7, <1>8 DEF Live
<1>10. Forest(Machine', kernel_p4', Live', mms', holds') /\ DOMAIN ram' = {"table", "data", "used"}
  BY <1>2, <1>6, <1>9, CommitForest
<1>11. Cardinality(Live') = Cardinality(Live) - 1
  BY <1>3, <1>9, LiveFinite, FS_RemoveElement
<1>12. refcnt' \in [KTypes -> Int] /\ \A k \in KTypes : refcnt'[k] = Cardinality(Live')
  <2>1. refcnt \in [KTypes -> Int] /\ \A k \in KTypes : refcnt[k] = Cardinality(Live)
    BY DEF VmmInv
  <2>2. refcnt' = [k \in KTypes |-> refcnt[k] - 1]
    BY <1>6, <1>7, MachineIs
  <2> QED BY <1>11, <2>1, <2>2
<1>13. cr3' = mms'[current'].p4 /\ harm' = {} /\ current' \in Live' /\ 1 \in Live'
  BY <1>2, <1>3, <1>4, <1>6, <1>7, <1>8, <1>9, MachineIs
<1>14. DOMAIN mms' = Tasks /\ DOMAIN holds' = Tasks
  BY <1>7, <1>8
<1> QED BY <1>10, <1>12, <1>13, <1>14 DEF VmmInv

\* sched_exec keeps the invariant.
LEMMA KeepsExec ==
    ASSUME VmmInv, NEW image \in Images, sched_exec(image) PROVE VmmInv'
<1>1. PICK r, f, p : r = exec_elf(Machine, image) /\ p = current /\ f = mm_free(leave_old_mm(r), mms[p])
  OBVIOUS
<1>2. PICK d, new, N : d = [f EXCEPT !.cr3 = r.p4] /\ new = MmOf(r) /\ N = Loaded(image)
  OBVIOUS
<1>3. \/ r.oom /\ out_of_frames
      \/ ~r.oom /\ Commit(d, [mms EXCEPT ![p] = new], [holds EXCEPT ![p] = N])
  BY <1>1, <1>2 DEF sched_exec
<1>4. CASE out_of_frames
  <2>1. Machine' = Machine /\ Live' = Live
    BY <1>4 DEF out_of_frames, Machine, Live
  <2> QED BY <1>4, <2>1 DEF out_of_frames, VmmInv
<1>5. CASE ~r.oom /\ Commit(d, [mms EXCEPT ![p] = new], [holds EXCEPT ![p] = N])
  <2>0. PICK mm, H : mm = [mms EXCEPT ![p] = new] /\ H = [holds EXCEPT ![p] = N]
    OBVIOUS
  <2>1. DOMAIN mms = Tasks /\ DOMAIN holds = Tasks /\ p \in Live /\ p \in Tasks /\ 1 \in Live /\ harm = {}
    BY <1>1 DEF VmmInv, Live
  <2>2. \A k \in KTypes : Machine.refcnt[k] # 0
    <3>1. \A k \in KTypes : refcnt[k] = Cardinality(Live)
      BY DEF VmmInv
    <3>2. Cardinality(Live) # 0
      BY <2>1, LiveFinite
    <3> QED BY <3>1, <3>2, MachineIs
  <2>3. /\ Forest(f, kernel_p4, Live, [mms EXCEPT ![p] = MmOf(r)], [holds EXCEPT ![p] = Loaded(image)])
        /\ DOMAIN f = Fields /\ r.p4 # NONE /\ f.harm = Machine.harm /\ f.refcnt \in [KTypes -> Int]
        /\ \A k \in KTypes : f.refcnt[k] = Machine.refcnt[k]
    <3>1. PICK m, mm0, H0, L, o : m = Machine /\ mm0 = mms /\ H0 = holds /\ L = Live /\ o = current
      OBVIOUS
    <3>2. Settled(m) /\ Forest(m, kernel_p4, L, mm0, H0) /\ L \subseteq DOMAIN mm0 /\ L \subseteq DOMAIN H0 /\ o \in L
      BY <3>1, MachineReady
    <3>3. /\ \A k \in KTypes : m.refcnt[k] # 0
          /\ r = exec_elf(m, image) /\ ~r.oom /\ f = mm_free(leave_old_mm(r), mm0[o])
      BY <1>1, <1>5, <2>2, <3>1
    <3>4. /\ Forest(f, kernel_p4, L, [mm0 EXCEPT ![o] = MmOf(r)], [H0 EXCEPT ![o] = Loaded(image)])
          /\ DOMAIN f = Fields /\ r.p4 # NONE /\ f.harm = m.harm /\ f.refcnt \in [KTypes -> Int]
          /\ \A k \in KTypes : f.refcnt[k] = m.refcnt[k]
      BY <3>2, <3>3, ExecForest
    <3> QED BY <1>1, <3>1, <3>4
  <2>4. Forest(f, kernel_p4, Live, mm, H)
    BY <1>2, <2>0, <2>3
  <2>5. /\ DOMAIN d = Fields /\ d.used = f.used /\ d.table = f.table /\ d.data = f.data
        /\ d.cr3 = r.p4 /\ d.harm = f.harm /\ d.refcnt = f.refcnt
    BY <1>2, <2>3 DEF Fields
  <2>6. Forest(d, kernel_p4, Live, mm, H)
    BY <2>4, <2>5, ForestSame
  <2>7. Commit(d, mm, H)
    BY <1>5, <2>0
  <2>8. mms' = mm /\ holds' = H /\ current' = current /\ cr3' = d.cr3 /\ harm' = d.harm /\ refcnt' = d.refcnt
    BY <2>7 DEF Commit
  <2>9. new # NoMm /\ new.p4 = r.p4
    BY <1>2, <2>3, MmIs
  <2>10. DOMAIN mm = Tasks /\ DOMAIN H = Tasks /\ mm[p] = new /\ \A t \in Tasks : t # p => mm[t] = mms[t]
    BY <2>0, <2>1
  <2>11. Live' = Live
    BY <2>1, <2>8, <2>9, <2>10 DEF Live
  <2>12. Forest(Machine', kernel_p4', Live', mms', holds') /\ DOMAIN ram' = {"table", "data", "used"}
    BY <2>6, <2>7, <2>11, CommitForest
  <2>13. refcnt' \in [KTypes -> Int] /\ \A k \in KTypes : refcnt'[k] = Cardinality(Live')
    <3>1. \A k \in KTypes : refcnt[k] = Cardinality(Live)
      BY DEF VmmInv
    <3>2. \A k \in KTypes : f.refcnt[k] = refcnt[k]
      BY <2>3, MachineIs
    <3> QED BY <2>3, <2>5, <2>8, <2>11, <3>1, <3>2
  <2>14. cr3' = mms'[current'].p4 /\ harm' = {} /\ current' \in Live' /\ 1 \in Live'
    BY <1>1, <2>1, <2>3, <2>5, <2>8, <2>9, <2>10, <2>11, MachineIs
  <2>15. DOMAIN mms' = Tasks /\ DOMAIN holds' = Tasks
    BY <2>8, <2>10
  <2> QED BY <2>12, <2>13, <2>14, <2>15 DEF VmmInv
<1> QED BY <1>3, <1>4, <1>5

\* switch_to keeps the invariant.
LEMMA KeepsSwitch ==
    ASSUME VmmInv, NEW t \in Tasks, switch_to(t) PROVE VmmInv'
<1>1. /\ mms[t] # NoMm /\ current' = t /\ cr3' = mms[t].p4
      /\ UNCHANGED <<ram, kernel_p4, refcnt, mms, harm, holds, status>>
  BY DEF switch_to
<1>2. Live' = Live /\ t \in Live
  BY <1>1 DEF Live
<1>3. Forest(Machine, kernel_p4, Live, mms, holds)
  BY DEF VmmInv
<1>4. ram'.table = Machine.table /\ ram'.data = Machine.data /\ ram'.used = Machine.used
  BY <1>1, MachineIs
<1>5. Forest(Machine', kernel_p4, Live, mms, holds)
  BY <1>3, <1>4, MachineNext, ForestSame
<1>6. Forest(Machine', kernel_p4', Live', mms', holds')
  BY <1>1, <1>2, <1>5
<1> QED BY <1>1, <1>2, <1>6 DEF VmmInv

\* A store by the program keeps the invariant.
LEMMA KeepsWrite ==
    ASSUME VmmInv, NEW v \in DOMAIN holds[current], NEW c, user_write(v, c) PROVE VmmInv'
<1>1. PICK n, f, p, w : /\ n = [Machine EXCEPT !.p4 = cr3] /\ f = phys_of(n, v) /\ p = current
                        /\ w = [Machine EXCEPT !.data[f] = c]
  OBVIOUS
<1>2. /\ ram' = [ram EXCEPT !.data[f] = c]
      /\ holds' = [holds EXCEPT ![p][v] = c]
      /\ UNCHANGED <<kernel_p4, refcnt, mms, current, cr3, harm, status>>
  BY <1>1 DEF user_write, Translate
<1>3. DOMAIN ram = {"table", "data", "used"} /\ DOMAIN holds = Tasks /\ p \in Live /\ p \in Tasks /\ cr3 = mms[p].p4
  BY <1>1 DEF VmmInv, Live
<1>4. n.table = Machine.table /\ n.p4 = mms[p].p4
  BY <1>1, <1>3, MachineIs DEF Fields
<1>5. Forest(w, kernel_p4, Live, mms, [holds EXCEPT ![p] = [holds[p] EXCEPT ![v] = c]]) /\ DOMAIN w = Fields
  <2>1. PICK m, mm0, H0, L, o : m = Machine /\ mm0 = mms /\ H0 = holds /\ L = Live /\ o = current
    OBVIOUS
  <2>2. Settled(m) /\ Forest(m, kernel_p4, L, mm0, H0) /\ L \subseteq DOMAIN mm0 /\ L \subseteq DOMAIN H0 /\ o \in L
    BY <2>1, MachineReady
  <2>3. v \in DOMAIN H0[o] /\ n.table = m.table /\ n.p4 = mm0[o].p4
    BY <1>1, <1>4, <2>1
  <2>4. /\ Forest([m EXCEPT !.data[phys_of(n, v)] = c], kernel_p4, L, mm0, [H0 EXCEPT ![o] = [H0[o] EXCEPT ![v] = c]])
        /\ DOMAIN [m EXCEPT !.data[phys_of(n, v)] = c] = Fields
    BY <2>2, <2>3, WriteForest
  <2> QED BY <1>1, <2>1, <2>4
<1>6. holds' = [holds EXCEPT ![p] = [holds[p] EXCEPT ![v] = c]] /\ DOMAIN holds' = Tasks
  BY <1>2, <1>3
<1>7. /\ DOMAIN ram' = {"table", "data", "used"}
      /\ ram'.table = w.table /\ ram'.data = w.data /\ ram'.used = w.used
  BY <1>1, <1>2, <1>3, MachineIs DEF Fields
<1>8. Live' = Live
  BY <1>2 DEF Live
<1>9. Forest(Machine', kernel_p4, Live, mms, holds')
  BY <1>5, <1>6, <1>7, MachineNext, ForestSame
<1>10. Forest(Machine', kernel_p4', Live', mms', holds')
  BY <1>2, <1>8, <1>9
<1> QED BY <1>2, <1>6, <1>7, <1>8, <1>10 DEF VmmInv

\* So does every step.
LEMMA VmmStep == VmmInv /\ [Next]_vars => VmmInv'
<1>1. SUFFICES ASSUME VmmInv, [Next]_vars PROVE VmmInv'
  OBVIOUS
<1>2. CASE UNCHANGED vars
  <2>1. Machine' = Machine /\ Live' = Live
    BY <1>2 DEF vars, Machine, Live
  <2> QED BY <1>1, <1>2, <2>1 DEF vars, VmmInv
<1>3. CASE \E image \in Images : sched_exec(image)
  BY <1>1, <1>3, KeepsExec
<1>4. CASE \E t \in Tasks : do_fork(t) \/ task_free(t) \/ switch_to(t)
  BY <1>1, <1>4, KeepsFork, KeepsFree, KeepsSwitch
<1>5. CASE \E virt \in DOMAIN holds[current], v \in Written : user_write(virt, v)
  BY <1>1, <1>5, KeepsWrite
<1> QED BY <1>1, <1>2, <1>3, <1>4, <1>5 DEF Next

\* However tasks fork, exec, run and are freed, memory stays divided into the
\* kernel's tables and one address space per live task, with no frame lost or
\* in two places.
THEOREM VmmInvariant == Spec => []VmmInv
  BY VmmInit, VmmStep, PTL DEF Spec

(***************************************************************************)
(* The properties.                                                         *)
(***************************************************************************)
\* What the invariant says of one task
Tenant(M, C, t) ==
    /\ Good(Machine, M, C, {}) /\ HasSpace(M, mms[t].p4)
    /\ KernelSpace(M, C, kernel_p4) /\ UserSpace(M, C, kernel_p4, mms[t], holds[t])

\* There is such a division.
LEMMA TenantIs ==
    ASSUME VmmInv, NEW t \in Live PROVE \E M, C : Tenant(M, C, t)
<1>1. PICK M, C, R : Good(Machine, M, C, {}) /\ Spaces(M, C, kernel_p4, R) /\ Holding(R, Live, mms, holds)
  BY DEF VmmInv, Forest
<1>2. PICK s \in R : s = <<mms[t], holds[t]>>
  BY <1>1 DEF Holding
<1>3. s[1] = mms[t] /\ s[2] = holds[t]
  BY <1>2
<1>4. HasSpace(M, s[1].p4)
  BY <1>1, SpaceFacts
<1>5. KernelSpace(M, C, kernel_p4) /\ UserSpace(M, C, kernel_p4, s[1], s[2])
  BY <1>1 DEF Spaces
<1>6. Tenant(M, C, t)
  BY <1>1, <1>3, <1>4, <1>5 DEF Tenant
<1> QED BY <1>6

\* Looking at another space of the same memory
LEMMA WithP4 ==
    ASSUME NEW p
    PROVE  [Machine EXCEPT !.p4 = p].table = Machine.table /\ [Machine EXCEPT !.p4 = p].p4 = p
<1>1. DOMAIN Machine = Fields
  BY MachineIs
<1> QED BY <1>1 DEF Fields

\* An address translates to the frame of its page.
LEMMA TranslateIs ==
    ASSUME NEW M, NEW C, Good(Machine, M, C, {}), NEW p, NEW v \in Pages, At(p, v, 0) \in DOMAIN M
    PROVE  Translate(p, v) = M[At(p, v, 0)]
<1>1. PICK n : n = [Machine EXCEPT !.p4 = p] /\ n.table = Machine.table /\ n.p4 = p
  BY WithP4
<1>2. PICK m : m = Machine
  OBVIOUS
<1>3. Good(m, M, C, {}) /\ n.table = m.table /\ At(n.p4, v, 0) \in DOMAIN M
  BY <1>1, <1>2
<1>4. phys_of(n, v) = M[At(n.p4, v, 0)]
  BY <1>3, PhysIs
<1> QED BY <1>1, <1>4 DEF Translate

\* Each task reads what it wrote: its pages' frames are in no other space.
LEMMA PrivateHolds == VmmInv => MemoryPrivate
<1>1. SUFFICES ASSUME VmmInv, NEW t \in Live, NEW v \in DOMAIN holds[t]
               PROVE  ram.data[Translate(mms[t].p4, v)] = holds[t][v]
  BY DEF MemoryPrivate
<1>2. PICK M, C : Tenant(M, C, t)
  BY <1>1, TenantIs
<1>3. PICK p, H : p = mms[t].p4 /\ H = holds[t]
  OBVIOUS
<1>4. v \in Pages
  BY <1>1, <1>2, UserIn DEF Tenant
<1>5. PICK x : x = At(p, v, 0) /\ x \in DOMAIN M /\ x \in DOMAIN C /\ C[x] = H[v]
  BY <1>1, <1>2, <1>3, <1>4 DEF Tenant, UserSpace
<1>6. Translate(p, v) = M[x]
  BY <1>2, <1>4, <1>5, TranslateIs DEF Tenant
<1>7. Machine.data[M[x]] = C[x]
  BY <1>2, <1>5, GoodFacts DEF Tenant
<1> QED BY <1>3, <1>5, <1>6, <1>7, MachineIs

\* Kernel pages translate as in the kernel's own tables.
LEMMA MappedHolds == VmmInv => KernelMapped
<1>1. SUFFICES ASSUME VmmInv PROVE KernelMapped
  OBVIOUS
<1>2. ASSUME NEW t \in Live, NEW v \in KPages PROVE Translate(mms[t].p4, v) = Translate(kernel_p4, v)
  <2>1. PICK M, C : Tenant(M, C, t)
    BY <1>1, TenantIs
  <2>2. PICK p : p = mms[t].p4
    OBVIOUS
  <2>3. v \in Pages
    BY KPagesIn
  <2>4. At(p, v, 0) \in DOMAIN M /\ At(kernel_p4, v, 0) \in DOMAIN M /\ M[At(p, v, 0)] = M[At(kernel_p4, v, 0)]
    BY <2>1, <2>2, <2>3 DEF Tenant, UserSpace, KernelSpace
  <2>5. Translate(p, v) = M[At(p, v, 0)]
    BY <2>1, <2>3, <2>4, TranslateIs DEF Tenant
  <2>6. Translate(kernel_p4, v) = M[At(kernel_p4, v, 0)]
    BY <2>1, <2>3, <2>4, TranslateIs DEF Tenant
  <2> QED BY <2>2, <2>4, <2>5, <2>6
<1>3. \A a \in Range(KernelAreas) : PagesOf(a) \subseteq KPages
  BY KernelArea DEF Range
<1>4. "static" \notin harm /\ \A k \in DOMAIN refcnt : refcnt[k] = Cardinality(Live)
  BY <1>1 DEF VmmInv
<1> QED BY <1>2, <1>3, <1>4 DEF KernelMapped

\* The tree under the state
StateTree(N, M, C) ==
    /\ Tree(Machine, N, C, {}) /\ Leaves(M, N)
    /\ \A x \in DOMAIN N : Level(x) # 0 => Needed(x, N)

\* A space with a page has its top table.
LEMMA RootThere ==
    ASSUME NEW N, NEW M, NEW C, StateTree(N, M, C), NEW p, HasSpace(M, p)
    PROVE  Root(p) \in DOMAIN N
<1>1. PICK w \in Pages : At(p, w, 0) \in DOMAIN N
  BY DEF HasSpace, StateTree, Leaves
<1>2. Shape(N, C)
  BY DEF StateTree, Tree
<1>3. Root(Space(At(p, w, 0))) \in DOMAIN N
  BY <1>1, <1>2, RootIn
<1> QED BY <1>3, AtFields

\* What get_entry finds in the state
LEMMA EntryThere ==
    ASSUME NEW N, NEW M, NEW C, StateTree(N, M, C), NEW p, NEW v \in Pages, NEW l \in 1 .. LEVELS,
           At(p, v, l) \in DOMAIN N, NEW e, e = get_entry([Machine EXCEPT !.p4 = p], v, l)
    PROVE  /\ e.present <=> At(p, v, l - 1) \in DOMAIN N
           /\ At(p, v, l - 1) \in DOMAIN N => e = Entry(N[At(p, v, l - 1)], Flags(At(p, v, l - 1)))
<1>1. PICK n : n = [Machine EXCEPT !.p4 = p] /\ n.table = Machine.table /\ n.p4 = p
  BY WithP4
<1>2. Shape(N, C) /\ Ledger(Machine.used, {}, N, C) /\ Tables(n.table, N) /\ At(n.p4, v, l) \in DOMAIN N
  BY <1>1 DEF StateTree, Tree
<1>3. /\ get_entry(n, v, l).present <=> At(n.p4, v, l - 1) \in DOMAIN N
      /\ At(n.p4, v, l - 1) \in DOMAIN N =>
            get_entry(n, v, l) = Entry(N[At(n.p4, v, l - 1)], Flags(At(n.p4, v, l - 1)))
  <2>1. PICK used : used = Machine.used
    OBVIOUS
  <2>2. Ledger(used, {}, N, C)
    BY <1>2, <2>1
  <2> QED BY <1>2, <2>2, EntryAt
<1> QED BY <1>1, <1>3

\* The rights an entry gives to the pages of an area
LEMMA EntryRights ==
    ASSUME NEW a \in AllAreas, NEW v \in PagesOf(a), NEW r, NEW l \in 0 .. LEVELS - 1, NEW f,
           NEW write \in BOOLEAN
    PROVE  Grants(Entry(f, Flags(At(r, v, l))), write) <=> IsReg(a) /\ (write => a.write)
<1>1. PICK g : g = Flags(At(r, v, l)) /\ g = [write |-> a.write, user |-> a.user]
  BY FlagsAre
<1>2. g.write = a.write /\ g.user = a.user
  BY <1>1
<1>a. PICK e : e = Entry(f, g)
  OBVIOUS
<1>3. e = Entry(f, g) /\ e.present /\ e.user = g.user /\ e.write = g.write
  BY <1>a DEF Entry
<1>4. a.user <=> IsReg(a)
  BY AreaType
<1>5. Grants(e, write) <=> IsReg(a) /\ (write => a.write)
  BY <1>2, <1>3, <1>4 DEF Grants
<1> QED BY <1>1, <1>3, <1>5

\* The rights of a page are those of its area.
LEMMA AllowedIs ==
    ASSUME NEW N, NEW M, NEW C, StateTree(N, M, C), NEW p, HasSpace(M, p), NEW v \in Pages,
           NEW write \in BOOLEAN
    PROVE  /\ Allowed(p, v, write) => At(p, v, 0) \in DOMAIN M
           /\ \A a \in AllAreas : v \in PagesOf(a) /\ At(p, v, 0) \in DOMAIN M =>
                 (Allowed(p, v, write) <=> IsReg(a) /\ (write => a.write))
<1> DEFINE E(l) == get_entry([Machine EXCEPT !.p4 = p], v, l)
<1>0. LEVELS \in Nat /\ LEVELS >= 2
  BY Sizes
<1>1. Allowed(p, v, write) <=> \A l \in 1 .. LEVELS : Grants(E(l), write)
  <2>1. ASSUME NEW l \in 1 .. LEVELS PROVE LEVELS - l \in 0 .. LEVELS - 1 /\ LEVELS - (LEVELS - l) = l
    BY <1>0
  <2>2. \A d \in 0 .. LEVELS - 1 : LEVELS - d \in 1 .. LEVELS
    BY <1>0
  <2>3. ASSUME Allowed(p, v, write), NEW l \in 1 .. LEVELS PROVE Grants(E(l), write)
    <3>1. PICK d : d = LEVELS - l /\ d \in 0 .. LEVELS - 1 /\ LEVELS - d = l
      BY <2>1
    <3>2. Grants(E(LEVELS - d), write)
      BY <2>3, <3>1 DEF Allowed
    <3> QED BY <3>1, <3>2
  <2>4. ASSUME \A l \in 1 .. LEVELS : Grants(E(l), write) PROVE Allowed(p, v, write)
    <3>1. \A d \in 0 .. LEVELS - 1 : Grants(E(LEVELS - d), write)
      BY <2>2, <2>4
    <3> QED BY <3>1 DEF Allowed
  <2> QED BY <2>3, <2>4
<1>2. At(p, v, 0) \in DOMAIN M <=> At(p, v, 0) \in DOMAIN N
  BY AtFields DEF StateTree, Leaves
<1>3. \A l \in 1 .. LEVELS : At(p, v, l) \in DOMAIN N =>
        /\ E(l).present <=> At(p, v, l - 1) \in DOMAIN N
        /\ At(p, v, l - 1) \in DOMAIN N => E(l) = Entry(N[At(p, v, l - 1)], Flags(At(p, v, l - 1)))
  BY EntryThere
<1> HIDE DEF E
<1>4. ASSUME Allowed(p, v, write) PROVE At(p, v, 0) \in DOMAIN N
  <2> DEFINE P == {d \in 0 .. LEVELS : At(p, v, LEVELS - d) \in DOMAIN N}
  <2>1. 0 \in P
    <3>1. At(p, v, LEVELS) \in DOMAIN N
      BY AtTop, RootThere
    <3>2. LEVELS - 0 = LEVELS /\ 0 \in 0 .. LEVELS
      BY <1>0
    <3> QED BY <3>1, <3>2
  <2>2. ASSUME NEW d \in 1 .. LEVELS, d - 1 \in P PROVE d \in P
    <3>1. PICK l : l = LEVELS - (d - 1)
      OBVIOUS
    <3>2. l \in 1 .. LEVELS /\ l - 1 = LEVELS - d /\ d \in 0 .. LEVELS
      BY <1>0, <3>1
    <3>3. At(p, v, l) \in DOMAIN N
      BY <2>2, <3>1
    <3>4. E(l).present
      BY <1>1, <1>4, <3>2 DEF Grants
    <3>5. At(p, v, l - 1) \in DOMAIN N
      BY <1>3, <3>2, <3>3, <3>4
    <3> QED BY <3>2, <3>5
  <2> HIDE DEF P
  <2>3. \A d \in 0 .. LEVELS : d \in P
    BY <1>0, <2>1, <2>2, Upto
  <2>4. LEVELS \in 0 .. LEVELS /\ LEVELS - LEVELS = 0
    BY <1>0
  <2>5. At(p, v, LEVELS - LEVELS) \in DOMAIN N
    BY <2>3, <2>4 DEF P
  <2> QED BY <2>4, <2>5
<1>5. ASSUME NEW a \in AllAreas, v \in PagesOf(a), At(p, v, 0) \in DOMAIN M
      PROVE  Allowed(p, v, write) <=> IsReg(a) /\ (write => a.write)
  <2>1. \A l \in 0 .. LEVELS : At(p, v, l) \in DOMAIN N
    <3>1. Shape(N, C) /\ 0 \in 0 .. LEVELS
      BY <1>0 DEF StateTree, Tree
    <3> QED BY <1>2, <1>5, <3>1, UpIn
  <2>2. ASSUME NEW l \in 1 .. LEVELS PROVE Grants(E(l), write) <=> IsReg(a) /\ (write => a.write)
    <3>1. l \in 0 .. LEVELS /\ l - 1 \in 0 .. LEVELS /\ l - 1 \in 0 .. LEVELS - 1
      BY <1>0
    <3>2. E(l) = Entry(N[At(p, v, l - 1)], Flags(At(p, v, l - 1)))
      BY <1>3, <2>1, <3>1
    <3>3. Grants(Entry(N[At(p, v, l - 1)], Flags(At(p, v, l - 1))), write) <=> IsReg(a) /\ (write => a.write)
      BY <1>5, <3>1, EntryRights
    <3> QED BY <3>2, <3>3
  <2>3. 1 \in 1 .. LEVELS
    BY <1>0
  <2> QED BY <1>1, <2>2, <2>3
<1> QED BY <1>2, <1>4, <1>5

\* So each task may touch its own areas and nothing else.
LEMMA RightsHold == VmmInv => RightsExact
<1>1. SUFFICES ASSUME VmmInv, NEW t \in Live, NEW v \in Pages, NEW write \in BOOLEAN
               PROVE  Allowed(mms[t].p4, v, write) <=>
                         \E a \in Range(mms[t].areas) : IsReg(a) /\ v \in PagesOf(a) /\ (write => a.write)
  BY DEF RightsExact
<1>2. PICK M, C : Tenant(M, C, t)
  BY <1>1, TenantIs
<1>3. PICK N : StateTree(N, M, C)
  BY <1>2 DEF Tenant, Good, StateTree
<1>4. PICK p, list, X, n : p = mms[t].p4 /\ list = mms[t].areas /\ X = DOMAIN holds[t] /\ AreasOK(list, n, X)
  BY <1>2 DEF Tenant, UserSpace
<1>5. HasSpace(M, p) /\ (At(p, v, 0) \in DOMAIN M <=> v \in KPages \cup X)
  BY <1>2, <1>4 DEF Tenant, UserSpace
<1>6. /\ Allowed(p, v, write) => At(p, v, 0) \in DOMAIN M
      /\ \A a \in AllAreas : v \in PagesOf(a) /\ At(p, v, 0) \in DOMAIN M =>
            (Allowed(p, v, write) <=> IsReg(a) /\ (write => a.write))
  BY <1>3, <1>5, AllowedIs
<1>7. DOMAIN list = 1 .. Len(list) /\ Len(list) \in Nat
  BY <1>4 DEF AreasOK
<1>8. \A a \in Range(list) : a \in AllAreas /\ PagesOf(a) \subseteq KPages \cup X
  <2>1. \A i \in 1 .. Len(list) : list[i] \in AllAreas
    BY <1>4, AreaAt
  <2>2. \A i \in 1 .. Len(list) : PagesOf(list[i]) \subseteq KPages \cup X
    BY <1>4, ListAll DEF ListPages
  <2> QED BY <1>7, <2>1, <2>2 DEF Range
<1>9. v \in KPages \cup X => \E a \in Range(list) : v \in PagesOf(a)
  <2>1. v \in KPages \cup X => \E i \in 1 .. Len(list) : v \in PagesOf(list[i])
    BY <1>4, ListAll DEF ListPages
  <2> QED BY <1>7, <2>1 DEF Range
<1>10. Allowed(p, v, write) <=> \E a \in Range(list) : IsReg(a) /\ v \in PagesOf(a) /\ (write => a.write)
  BY <1>5, <1>6, <1>8, <1>9
<1> QED BY <1>4, <1>10

(***************************************************************************)
(* The frames of a space are those of its nodes.                           *)
(***************************************************************************)
\* The tables of a level
TablesIn(N, p, l) == {N[x] : x \in {y \in DOMAIN N : Space(y) = p /\ Level(y) = l}}

\* The entries of a level's tables point to the tables below.
LEMMA BelowIs ==
    ASSUME NEW N, NEW M, NEW C, StateTree(N, M, C), NEW p, NEW l \in 2 .. LEVELS
    PROVE  Below(TablesIn(N, p, l)) = TablesIn(N, p, l - 1)
<1> PICK t : t = ram.table
  OBVIOUS
<1>0. LEVELS \in Nat
  BY Sizes
<1>1. Tables(t, N) /\ Shape(N, C)
  BY MachineIs DEF StateTree, Tree
<1>2. /\ DOMAIN t = Frames /\ \A f \in Frames : DOMAIN t[f] = Indices
      /\ \A y \in DOMAIN N : Level(y) < LEVELS => t[N[Parent(y)]][Slot(y)] = Entry(N[y], Flags(y))
      /\ \A x \in DOMAIN N : \A i \in Indices : Level(x) # 0 /\ t[N[x]][i].present =>
            \E y \in DOMAIN N : Level(y) < LEVELS /\ Parent(y) = x /\ Slot(y) = i
  BY <1>1 DEF Tables
<1>3. \A x \in DOMAIN N : Level(x) # 0 => N[x] \in Frames
  BY DEF StateTree, Tree, Ledger, Own
<1>4. \A y \in DOMAIN N : /\ Level(y) \in 0 .. LEVELS
                          /\ Level(y) < LEVELS => /\ Parent(y) \in DOMAIN N /\ Slot(y) \in Indices
                                                  /\ Level(Parent(y)) = Level(y) + 1
                                                  /\ Space(Parent(y)) = Space(y)
  <2>1. \A y \in DOMAIN N : y \in Nodes /\ (Level(y) < LEVELS => Parent(y) \in DOMAIN N)
    BY <1>1 DEF Shape
  <2> QED BY <2>1, NodeAt
<1>5. ASSUME NEW f \in Below(TablesIn(N, p, l)) PROVE f \in TablesIn(N, p, l - 1)
  <2>1. PICK g, e : g \in TablesIn(N, p, l) /\ e \in Range(t[g]) /\ e.present /\ f = e.frame
    BY <1>5 DEF Below
  <2>2. PICK x \in DOMAIN N : Space(x) = p /\ Level(x) = l /\ g = N[x]
    BY <2>1 DEF TablesIn
  <2>3. Level(x) # 0 /\ g \in Frames
    BY <1>0, <1>3, <2>2
  <2>4. PICK i \in Indices : e = t[g][i]
    BY <1>2, <2>1, <2>3 DEF Range
  <2>5. PICK y \in DOMAIN N : Level(y) < LEVELS /\ Parent(y) = x /\ Slot(y) = i
    BY <1>2, <2>1, <2>2, <2>3, <2>4
  <2>6. e = Entry(N[y], Flags(y))
    BY <1>2, <2>2, <2>4, <2>5
  <2>7. f = N[y]
    BY <2>1, <2>6 DEF Entry
  <2>8. Space(y) = p /\ Level(y) = l - 1
    <3>1. Level(y) + 1 = l /\ Space(y) = p /\ Level(y) \in 0 .. LEVELS
      BY <1>4, <2>2, <2>5
    <3> QED BY <1>0, <3>1
  <2> QED BY <2>7, <2>8 DEF TablesIn
<1>6. ASSUME NEW f \in TablesIn(N, p, l - 1) PROVE f \in Below(TablesIn(N, p, l))
  <2>1. PICK y \in DOMAIN N : Space(y) = p /\ Level(y) = l - 1 /\ f = N[y]
    BY <1>6 DEF TablesIn
  <2>2. Level(y) < LEVELS /\ l # 0 /\ l - 1 + 1 = l
    BY <1>0, <2>1
  <2>3. PICK x, i : x = Parent(y) /\ i = Slot(y) /\ x \in DOMAIN N /\ i \in Indices /\ Level(x) = l /\ Space(x) = p
    BY <1>4, <2>1, <2>2
  <2>4. PICK g, e : g = N[x] /\ e = t[g][i] /\ e = Entry(N[y], Flags(y))
    BY <1>2, <2>2, <2>3
  <2>5. e.present /\ e.frame = f
    BY <2>1, <2>4 DEF Entry
  <2>6. g \in TablesIn(N, p, l) /\ g \in Frames
    BY <1>3, <2>2, <2>3, <2>4 DEF TablesIn
  <2>7. e \in Range(t[g])
    BY <1>2, <2>3, <2>4, <2>6 DEF Range
  <2> QED BY <2>5, <2>6, <2>7 DEF Below
<1> QED BY <1>5, <1>6

\* The tables of a space are found from its top table.
LEMMA TablesOfIs ==
    ASSUME NEW N, NEW M, NEW C, StateTree(N, M, C), NEW p, HasSpace(M, p)
    PROVE  TablesOf(p) = {N[x] : x \in {y \in DOMAIN N : Space(y) = p /\ Level(y) # 0}}
<1>0. LEVELS \in Nat /\ LEVELS >= 2 /\ LEVELS - 1 \in Nat
  BY Sizes
<1>1. PICK h : h = TablesAt(p) /\ h[0] = {p} /\ \A d \in 1 .. LEVELS - 1 : h[d] = Below(h[d - 1])
  <2>1. TablesAt(p)[0] = {p} /\ \A d \in 1 .. LEVELS - 1 : TablesAt(p)[d] = Below(TablesAt(p)[d - 1])
    BY <1>0, TablesAtIs
  <2> QED BY <2>1
<1> DEFINE P == {d \in 0 .. LEVELS - 1 : h[d] = TablesIn(N, p, LEVELS - d)}
<1>2. 0 \in P
  <2>1. Root(p) \in DOMAIN N /\ Space(Root(p)) = p /\ Level(Root(p)) = LEVELS
    BY RootThere DEF Root, Space, Level
  <2>2. N[Root(p)] = p
    BY <2>1 DEF StateTree, Tree, Ledger
  <2>3. \A x \in DOMAIN N : Space(x) = p /\ Level(x) = LEVELS => x = Root(p)
    BY NodeAt DEF StateTree, Tree, Shape
  <2>4. TablesIn(N, p, LEVELS) = {p}
    BY <2>1, <2>2, <2>3 DEF TablesIn
  <2>5. LEVELS - 0 = LEVELS /\ 0 \in 0 .. LEVELS - 1
    BY <1>0
  <2> QED BY <1>1, <2>4, <2>5
<1>3. ASSUME NEW d \in 1 .. LEVELS - 1, d - 1 \in P PROVE d \in P
  <2>1. PICK l : l = LEVELS - (d - 1)
    OBVIOUS
  <2>2. l \in 2 .. LEVELS /\ l - 1 = LEVELS - d /\ d \in 0 .. LEVELS - 1
    BY <1>0, <2>1
  <2>3. h[d - 1] = TablesIn(N, p, l)
    BY <1>3, <2>1
  <2>4. Below(TablesIn(N, p, l)) = TablesIn(N, p, l - 1)
    BY <2>2, BelowIs
  <2> QED BY <1>1, <2>2, <2>3, <2>4
<1> HIDE DEF P
<1>4. \A d \in 0 .. LEVELS - 1 : d \in P
  BY <1>0, <1>2, <1>3, Upto
<1>5. \A d \in 0 .. LEVELS - 1 : h[d] = TablesIn(N, p, LEVELS - d)
  BY <1>4 DEF P
<1>6. \A x \in DOMAIN N : Level(x) \in 0 .. LEVELS
  BY NodeAt DEF StateTree, Tree, Shape
<1>7. TablesOf(p) = UNION {h[d] : d \in 0 .. LEVELS - 1}
  BY <1>1 DEF TablesOf
<1>8. ASSUME NEW f \in TablesOf(p) PROVE \E x \in DOMAIN N : Space(x) = p /\ Level(x) # 0 /\ f = N[x]
  <2>1. PICK d \in 0 .. LEVELS - 1 : f \in h[d]
    BY <1>7, <1>8
  <2>2. PICK x \in DOMAIN N : Space(x) = p /\ Level(x) = LEVELS - d /\ f = N[x]
    BY <1>5, <2>1 DEF TablesIn
  <2>3. LEVELS - d # 0
    BY <1>0
  <2> QED BY <2>2, <2>3
<1>9. ASSUME NEW x \in DOMAIN N, Space(x) = p, Level(x) # 0 PROVE N[x] \in TablesOf(p)
  <2>1. PICK d : d = LEVELS - Level(x)
    OBVIOUS
  <2>2. d \in 0 .. LEVELS - 1 /\ LEVELS - d = Level(x)
    BY <1>0, <1>6, <1>9, <2>1
  <2>3. N[x] \in TablesIn(N, p, LEVELS - d)
    BY <1>9, <2>2 DEF TablesIn
  <2>4. N[x] \in h[d]
    BY <1>5, <2>2, <2>3
  <2> QED BY <1>7, <2>2, <2>4
<1> QED BY <1>8, <1>9

\* The frames that belong to the space p
FramesIn(N, C, p) == {N[x] : x \in {y \in DOMAIN N : Space(y) = p /\ Own(y, C)}}

\* A space's frames are its tables and its own pages.
LEMMA SpaceFrames ==
    ASSUME NEW N, NEW M, NEW C, StateTree(N, M, C), Good(Machine, M, C, {}), NEW p, HasSpace(M, p),
           NEW mm, mm.p4 = p, NEW types,
           \A v \in Pages : At(p, v, 0) \in DOMAIN C <=>
                               \E a \in Range(mm.areas) : a.type \in types /\ v \in PagesOf(a)
    PROVE  TablesOf(p) \cup PageFrames(mm, types) = FramesIn(N, C, p)
<1>1. TablesOf(p) = {N[x] : x \in {y \in DOMAIN N : Space(y) = p /\ Level(y) # 0}}
  BY TablesOfIs
<1> DEFINE Y == {v \in Pages : At(p, v, 0) \in DOMAIN C}
<1>2. PageFrames(mm, types) = {Translate(p, v) : v \in Y}
  BY DEF PageFrames
<1>3. DOMAIN C \subseteq DOMAIN M /\ DOMAIN C \subseteq DOMAIN N /\ \A x \in DOMAIN M : M[x] = N[x]
  <2>1. Shape(N, C) /\ Leaves(M, N)
    BY DEF StateTree, Tree
  <2> QED BY <2>1 DEF Shape, Leaves
<1>4. \A v \in Y : Translate(p, v) = N[At(p, v, 0)]
  <2>1. SUFFICES ASSUME NEW v \in Y PROVE Translate(p, v) = N[At(p, v, 0)]
    OBVIOUS
  <2>2. v \in Pages /\ At(p, v, 0) \in DOMAIN M
    BY <1>3
  <2>3. Translate(p, v) = M[At(p, v, 0)]
    BY <2>2, TranslateIs
  <2> QED BY <1>3, <2>2, <2>3
<1>5. \A x \in DOMAIN C : Level(x) = 0 /\ x \in DOMAIN N /\ \E v \in Pages : x = At(Space(x), v, 0)
  <2>1. \A x \in DOMAIN C : Level(x) = 0 /\ x \in Nodes
    BY <1>3 DEF StateTree, Tree, Shape
  <2> QED BY <1>3, <2>1, NodeAt
<1>6. ASSUME NEW f \in PageFrames(mm, types) PROVE f \in FramesIn(N, C, p)
  <2>1. PICK v \in Y : f = Translate(p, v)
    BY <1>2, <1>6
  <2>2. PICK x : x = At(p, v, 0) /\ x \in DOMAIN C /\ x \in DOMAIN N /\ Space(x) = p /\ f = N[x]
    BY <1>3, <1>4, <2>1, AtFields
  <2> QED BY <2>2 DEF FramesIn, Own
<1>7. TablesOf(p) \subseteq FramesIn(N, C, p)
  BY <1>1 DEF FramesIn, Own
<1>8. ASSUME NEW x \in DOMAIN N, Space(x) = p, Own(x, C) PROVE N[x] \in TablesOf(p) \cup PageFrames(mm, types)
  <2>1. CASE Level(x) # 0
    BY <1>1, <1>8, <2>1
  <2>2. CASE x \in DOMAIN C
    <3>1. PICK v \in Pages : x = At(p, v, 0)
      BY <1>5, <1>8, <2>2
    <3>2. v \in Y /\ Translate(p, v) = N[x]
      BY <1>4, <2>2, <3>1
    <3> QED BY <1>2, <3>2
  <2> QED BY <1>8, <2>1, <2>2 DEF Own
<1>9. FramesIn(N, C, p) \subseteq TablesOf(p) \cup PageFrames(mm, types)
  BY <1>8 DEF FramesIn
<1> QED BY <1>6, <1>7, <1>9

\* The kernel's frames
LEMMA KernelFramesIs ==
    ASSUME NEW N, NEW M, NEW C, StateTree(N, M, C), Good(Machine, M, C, {}), HasSpace(M, kernel_p4),
           KernelSpace(M, C, kernel_p4)
    PROVE  KernelFrames = FramesIn(N, C, kernel_p4)
<1>1. PICK mm, types : mm = [p4 |-> kernel_p4, areas |-> KernelAreas] /\ types = {"VM_AREA_KERNELHEAP"}
  OBVIOUS
<1>2. mm.p4 = kernel_p4 /\ mm.areas = KernelAreas
  BY <1>1
<1>3. \A v : v \in KHeap <=> \E i \in DOMAIN KernelAreas : IsHeap(KernelAreas[i]) /\ v \in PagesOf(KernelAreas[i])
  BY KernelLen DEF KHeap, KHeapFirst
<1>4. \A v : v \in KHeap <=> \E a \in Range(mm.areas) : a.type \in types /\ v \in PagesOf(a)
  <2>1. \A a : a \in Range(mm.areas) <=> \E i \in DOMAIN KernelAreas : a = KernelAreas[i]
    BY <1>2 DEF Range
  <2>2. \A a : a.type \in types <=> IsHeap(a)
    BY <1>1 DEF IsHeap
  <2> QED BY <1>3, <2>1, <2>2
<1>5. \A v \in Pages : At(kernel_p4, v, 0) \in DOMAIN C <=>
                          \E a \in Range(mm.areas) : a.type \in types /\ v \in PagesOf(a)
  BY <1>4 DEF KernelSpace
<1>6. TablesOf(kernel_p4) \cup PageFrames(mm, types) = FramesIn(N, C, kernel_p4)
  <2>1. PICK p : p = kernel_p4
    OBVIOUS
  <2>2. mm.p4 = p /\ HasSpace(M, p)
    BY <1>2, <2>1
  <2>3. \A v \in Pages : At(p, v, 0) \in DOMAIN C <=>
                            \E a \in Range(mm.areas) : a.type \in types /\ v \in PagesOf(a)
    BY <1>5, <2>1
  <2>4. TablesOf(p) \cup PageFrames(mm, types) = FramesIn(N, C, p)
    BY <2>2, <2>3, SpaceFrames
  <2> QED BY <2>1, <2>4
<1> QED BY <1>1, <1>6 DEF KernelFrames

\* A task's frames
LEMMA OwnFramesIs ==
    ASSUME NEW N, NEW M, NEW C, StateTree(N, M, C), NEW t, Tenant(M, C, t)
    PROVE  OwnFrames(t) = FramesIn(N, C, mms[t].p4)
<1>1. PICK mm, types, p : mm = mms[t] /\ types = {"VM_AREA_REG"} /\ p = mm.p4
  OBVIOUS
<1>2. Good(Machine, M, C, {}) /\ HasSpace(M, p) /\ UserSpace(M, C, kernel_p4, mm, holds[t])
  BY <1>1 DEF Tenant
<1>3. PICK n, X : X = DOMAIN holds[t] /\ AreasOK(mm.areas, n, X)
  BY <1>2 DEF UserSpace
<1>4. PICK list : list = mm.areas
  OBVIOUS
<1>5. n \in Nat /\ Len(list) \in Nat /\ n <= Len(list) /\ DOMAIN list = 1 .. Len(list) /\ X = UNION {PagesOf(list[j]) : j \in 1 .. n}
  BY <1>3, <1>4, KernelLen DEF AreasOK
<1>6. \A i \in 1 .. Len(list) : i <= n <=> IsReg(list[i])
  BY <1>3, <1>4, AreaAt
<1>7. \A v : v \in X <=> \E i \in 1 .. Len(list) : IsReg(list[i]) /\ v \in PagesOf(list[i])
  <2>1. \A i \in 1 .. Len(list) : i <= n <=> i \in 1 .. n
    BY <1>5
  <2>2. \A i \in 1 .. n : i \in 1 .. Len(list)
    BY <1>5
  <2> QED BY <1>5, <1>6, <2>1, <2>2
<1>8. \A v : v \in X <=> \E a \in Range(mm.areas) : a.type \in types /\ v \in PagesOf(a)
  BY <1>1, <1>4, <1>5, <1>7 DEF Range, IsReg
<1>9. \A v \in Pages : At(p, v, 0) \in DOMAIN C <=>
                          \E a \in Range(mm.areas) : a.type \in types /\ v \in PagesOf(a)
  BY <1>1, <1>2, <1>3, <1>8 DEF UserSpace
<1>10. TablesOf(p) \cup PageFrames(mm, types) = FramesIn(N, C, p)
  BY <1>1, <1>2, <1>9, SpaceFrames
<1> QED BY <1>1, <1>10 DEF OwnFrames

\* The frames in use are those of the kernel and of the live tasks.
LEMMA FramesHold == VmmInv => FramesExact
<1>1. SUFFICES ASSUME VmmInv PROVE FramesExact
  OBVIOUS
<1>2. PICK M, C, R : Good(Machine, M, C, {}) /\ Spaces(M, C, kernel_p4, R) /\ Holding(R, Live, mms, holds)
  BY <1>1 DEF VmmInv, Forest
<1>3. PICK N : StateTree(N, M, C)
  BY <1>2 DEF Good, StateTree
<1>4. ASSUME NEW t \in Live PROVE Tenant(M, C, t) /\ mms[t].p4 # kernel_p4
  <2>1. PICK s \in R : s = <<mms[t], holds[t]>>
    BY <1>2 DEF Holding
  <2>2. s[1] = mms[t] /\ s[2] = holds[t]
    BY <2>1
  <2>3. HasSpace(M, s[1].p4) /\ s[1].p4 # kernel_p4
    BY <1>2, SpaceFacts
  <2>4. KernelSpace(M, C, kernel_p4) /\ UserSpace(M, C, kernel_p4, s[1], s[2])
    BY <1>2 DEF Spaces
  <2> QED BY <1>2, <2>2, <2>3, <2>4 DEF Tenant
<1>5. \A t \in Live : OwnFrames(t) = FramesIn(N, C, mms[t].p4)
  BY <1>3, <1>4, OwnFramesIs
<1>6. KernelFrames = FramesIn(N, C, kernel_p4)
  <2>1. HasSpace(M, kernel_p4) /\ KernelSpace(M, C, kernel_p4)
    BY <1>2, SpaceFacts DEF Spaces
  <2> QED BY <1>2, <1>3, <2>1, KernelFramesIs
<1>7. Ledger(ram.used, {}, N, C)
  BY <1>3, MachineIs DEF StateTree, Tree
<1>8. /\ \A x \in DOMAIN N : Own(x, C) => N[x] \in ram.used
      /\ \A x, y \in DOMAIN N : Own(x, C) /\ Own(y, C) /\ N[x] = N[y] => x = y
      /\ \A f \in ram.used : \E x \in DOMAIN N : Own(x, C) /\ N[x] = f
  BY <1>7 DEF Ledger
<1>9. ASSUME NEW x \in DOMAIN N PROVE Space(x) = kernel_p4 \/ \E t \in Live : Space(x) = mms[t].p4
  <2>1. PICK y \in DOMAIN M : Space(y) = Space(x)
    <3>1. CASE Level(x) = 0
      BY <1>3, <3>1 DEF StateTree, Leaves
    <3>2. CASE Level(x) # 0
      <4>1. PICK v : At(Space(x), v, 0) \in DOMAIN N
        BY <1>3, <3>2 DEF StateTree, Needed
      <4>2. Level(At(Space(x), v, 0)) = 0 /\ Space(At(Space(x), v, 0)) = Space(x)
        BY AtFields
      <4>3. At(Space(x), v, 0) \in DOMAIN M
        BY <1>3, <4>1, <4>2 DEF StateTree, Leaves
      <4> QED BY <4>2, <4>3
    <3> QED BY <3>1, <3>2
  <2>2. Space(y) = kernel_p4 \/ \E s \in R : Space(y) = s[1].p4
    BY <1>2 DEF Spaces
  <2>3. \A s \in R : \E t \in Live : s[1] = mms[t]
    <3>1. SUFFICES ASSUME NEW s \in R PROVE \E t \in Live : s[1] = mms[t]
      OBVIOUS
    <3>2. PICK t \in Live : s = <<mms[t], holds[t]>>
      BY <1>2 DEF Holding
    <3> QED BY <3>2
  <2> QED BY <2>1, <2>2, <2>3
<1>10. ram.used = KernelFrames \cup UNION {OwnFrames(t) : t \in Live}
  <2>1. ASSUME NEW f \in ram.used PROVE f \in KernelFrames \cup UNION {OwnFrames(t) : t \in Live}
    <3>1. PICK x \in DOMAIN N : Own(x, C) /\ N[x] = f
      BY <1>8
    <3>2. f \in FramesIn(N, C, Space(x))
      BY <3>1 DEF FramesIn
    <3> QED BY <1>5, <1>6, <1>9, <3>2
  <2>2. \A p : FramesIn(N, C, p) \subseteq ram.used
    BY <1>8 DEF FramesIn
  <2> QED BY <1>5, <1>6, <2>1, <2>2
<1>11. ASSUME NEW p, NEW q, p # q PROVE FramesIn(N, C, p) \cap FramesIn(N, C, q) = {}
  BY <1>8, <1>11 DEF FramesIn
<1>12. \A s \in Live : OwnFrames(s) \cap KernelFrames = {}
  BY <1>4, <1>5, <1>6, <1>11
<1>13. \A s \in Live : \A t \in Live \ {s} : OwnFrames(s) \cap OwnFrames(t) = {}
  <2>1. \A s \in Live : \A t \in Live \ {s} : mms[s].p4 # mms[t].p4
    BY <1>2 DEF Holding
  <2> QED BY <1>5, <1>11, <2>1
<1> QED BY <1>10, <1>12, <1>13 DEF FramesExact

\* The loaded tables are the current task's.
LEMMA LoadedHolds == VmmInv => LoadedTablesLive
  BY DEF VmmInv, LoadedTablesLive

\* MemoryPrivate: for any depth and width of the tables, any areas and
\* programs, a task finds in its memory what it put there, through any forks,
\* execs, frees and writes of others (mm_dupe, exec_elf, mm_free).
THEOREM PrivateCorrect == Spec => []MemoryPrivate
  BY VmmInvariant, PrivateHolds, PTL

\* FramesExact: vmm_map_page, vmm_unmap_page and mm_free neither lose a frame
\* nor hand out one twice: the frames in use are those of the kernel and of
\* the live tasks, each of one owner.
THEOREM FramesCorrect == Spec => []FramesExact
  BY VmmInvariant, FramesHold, PTL

\* RightsExact: the flags that vmm_map_page gives to pages and to the tables
\* above them let a program use its own areas as they say, and no page of the
\* kernel.
THEOREM RightsCorrect == Spec => []RightsExact
  BY VmmInvariant, RightsHold, PTL

\* KernelMapped: every address space maps the kernel's pages as the kernel's
\* own tables do (mm_share_vma), so the kernel can run in any of them.
THEOREM KernelCorrect == Spec => []KernelMapped
  BY VmmInvariant, MappedHolds, PTL

\* LoadedTablesLive: the tables in CR3 are always those of the current task,
\* and nothing frees them while they are loaded (sched_exec, task_free).
THEOREM LoadedCorrect == Spec => []LoadedTablesLive
  BY VmmInvariant, LoadedHolds, PTL
=============================================================================
