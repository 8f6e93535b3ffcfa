------------------------------ MODULE PmmProof ------------------------------
(***************************************************************************)
(* Proofs about Pmm, for every page size, every kernel image and every     *)
(* memory map whose usable entries do not overlap.                         *)
(***************************************************************************)
EXTENDS Pmm, FiniteSetTheorems, TLAPS

LEMMA Sizes ==
    /\ PAGE_SIZE \in Nat /\ PAGE_SIZE > 0 /\ BITS \in Nat \ {0}
    /\ KernelStart \in Nat /\ KernelEnd \in Nat /\ KernelStart + PAGE_SIZE <= KernelEnd
BY PmmAssumption

(***************************************************************************)
(* Arithmetic.                                                             *)
(***************************************************************************)
LEMMA DivBounds ==
    ASSUME NEW x \in Int, NEW P \in Nat \ {0}
    PROVE  /\ x \div P \in Int
           /\ (x \div P) * P <= x
           /\ x < (x \div P) * P + P
OBVIOUS

LEMMA TimesMono ==
    ASSUME NEW a \in Int, NEW b \in Int, NEW P \in Nat \ {0}, a < b
    PROVE  a * P \in Int /\ b * P \in Int /\ a * P + P <= b * P
OBVIOUS

LEMMA DivNat ==
    ASSUME NEW x \in Nat, NEW P \in Nat \ {0}
    PROVE  x \div P \in Nat /\ x \div P <= x
OBVIOUS

LEMMA TimesNat ==
    ASSUME NEW a \in Nat, NEW b \in Nat
    PROVE  a * b \in Nat /\ (a > 0 /\ b > 0 => a * b > 0 /\ b <= a * b)
OBVIOUS

LEMMA DivTimes ==
    ASSUME NEW a \in Nat, NEW P \in Nat \ {0}
    PROVE  (a * P) \div P = a
OBVIOUS

\* Rounding a quotient up never makes it larger than the dividend, and the
\* multiple it names reaches the dividend.
LEMMA CeilBounds ==
    ASSUME NEW x \in Nat, NEW P \in Nat \ {0}
    PROVE  /\ DIV_CEIL(x, P) \in Nat
           /\ DIV_CEIL(x, P) <= x
           /\ x <= DIV_CEIL(x, P) * P
           /\ x > 0 => DIV_CEIL(x, P) > 0
<1> DEFINE q == (x + P - 1) \div P
<1>1. x + P - 1 \in Nat
  OBVIOUS
<1>2. q \in Nat /\ q * P <= x + P - 1 /\ x + P - 1 < q * P + P
  BY <1>1, DivBounds, DivNat
<1> HIDE DEF q
<1>3. x <= q * P
  BY <1>2
<1>4. q <= x
  <2>1. SUFFICES ASSUME x < q PROVE FALSE
    BY <1>2
  <2>2. x * P \in Int /\ q * P \in Int /\ x * P + P <= q * P
    BY <1>2, <2>1, TimesMono
  <2>3. x <= x * P
    OBVIOUS
  <2> QED BY <1>2, <2>2, <2>3
<1>5. x > 0 => q > 0
  BY <1>2, <1>3
<1> QED BY <1>2, <1>3, <1>4, <1>5 DEF q, DIV_CEIL

\* The byte of a bit of a region lies in the pages of the bitmap.
LEMMA BitByte ==
    ASSUME NEW n \in Nat, NEW j \in Nat, j < n
    PROVE  /\ j \div BITS \in Nat /\ j \div BITS <= j
           /\ j \div BITS < BitmapPages(n) * PAGE_SIZE
<1> DEFINE c == DIV_CEIL(n, BITS)
<1>1. c \in Nat /\ n <= c * BITS
  BY Sizes, CeilBounds
<1>2. c <= DIV_CEIL(c, PAGE_SIZE) * PAGE_SIZE /\ DIV_CEIL(c, PAGE_SIZE) \in Nat
  BY <1>1, Sizes, CeilBounds
<1>3. j \div BITS \in Nat /\ j \div BITS <= j /\ (j \div BITS) * BITS <= j
  BY Sizes, DivBounds, DivNat
<1> HIDE DEF c
<1>4. j \div BITS < c
  <2>1. SUFFICES ASSUME ~(j \div BITS < c) PROVE FALSE
    OBVIOUS
  <2>2. c = j \div BITS \/ c < j \div BITS
    BY <1>1, <1>3, <2>1
  <2>3. c * BITS <= (j \div BITS) * BITS
    BY <1>1, <1>3, <2>2, Sizes, TimesMono
  <2> QED BY <1>1, <1>3, <2>3, Sizes
<1> QED BY <1>1, <1>2, <1>3, <1>4, Sizes DEF BitmapPages, c

\* A region has no more bitmap pages than pages, and one if it has any.
LEMMA BitmapFits ==
    ASSUME NEW n \in Nat
    PROVE  /\ BitmapPages(n) \in Nat /\ BitmapPages(n) <= n
           /\ n > 0 => BitmapPages(n) > 0
<1> DEFINE c == DIV_CEIL(n, BITS)
<1>1. c \in Nat /\ c <= n /\ (n > 0 => c > 0)
  BY Sizes, CeilBounds
<1> HIDE DEF c
<1>2. /\ DIV_CEIL(c, PAGE_SIZE) \in Nat /\ DIV_CEIL(c, PAGE_SIZE) <= c
      /\ c > 0 => DIV_CEIL(c, PAGE_SIZE) > 0
  BY <1>1, Sizes, CeilBounds
<1> QED BY <1>1, <1>2 DEF BitmapPages, c

\* Min is the least element of a set of natural numbers.
LEMMA MinLeast ==
    ASSUME NEW T \in SUBSET Nat, T # {}
    PROVE  Min(T) \in T /\ \A y \in T : Min(T) <= y
<1> DEFINE R == {ss \in Nat \X Nat : ss[1] < ss[2]}
<1>1. IsWellFoundedOn(R, Nat)
  BY NatLessThanWellFounded DEF OpToRel
<1>2. \A x, y \in Nat : x < y => <<x, y>> \in R
  OBVIOUS
<1> HIDE DEF R
<1>3. PICK x \in T : \A y \in T : ~ (<<y, x>> \in R)
  BY <1>1, WFMin
<1>4. \A y \in T : x <= y
  <2> TAKE y \in T
  <2>1. x \in Nat /\ y \in Nat /\ ~ (y < x)
    BY <1>2, <1>3
  <2> QED BY <2>1
<1> QED BY <1>4 DEF Min

(***************************************************************************)
(* The layout of the regions, which nothing changes after boot.            *)
(***************************************************************************)
\* The address behind the last page of a region
EndAddr(i) == regions[i].start + regions[i].pages * PAGE_SIZE

\* The regions lie apart, and one that begins at address 0 has a page.
Layout ==
    /\ DOMAIN regions \subseteq Nat
    /\ \A i \in DOMAIN regions :
          /\ regions[i].start \in Nat /\ regions[i].pages \in Nat
          /\ regions[i].start = 0 => regions[i].pages > 0
    /\ \A i, k \in DOMAIN regions :
          i # k => EndAddr(i) <= regions[k].start \/ EndAddr(k) <= regions[i].start

\* A region made from an entry lies inside the entry.
LEMMA RegionInEntry ==
    ASSUME NEW e \in [addr : Nat, len : Nat, available : BOOLEAN], Kept(e)
    PROVE  LET n == (EndOf(e) - StartOf(e)) \div PAGE_SIZE IN
           /\ StartOf(e) \in Nat /\ EndOf(e) \in Nat /\ n \in Nat
           /\ e.addr <= StartOf(e)
           /\ StartOf(e) + n * PAGE_SIZE <= EndOf(e)
           /\ EndOf(e) <= e.addr + e.len
           /\ EndOf(e) < StartOf(e) + n * PAGE_SIZE + PAGE_SIZE
           /\ OVERLAPS_KERNEL(e.addr) => KernelEnd <= StartOf(e)
           /\ OVERLAPS_KERNEL(e.addr + e.len) => EndOf(e) <= KernelStart
           /\ StartOf(e) = 0 => e.addr = 0 /\ (e.len >= PAGE_SIZE => n > 0)
<1> DEFINE n == (EndOf(e) - StartOf(e)) \div PAGE_SIZE
           A == ALIGNUP(KernelEnd)
           D == ALIGNDOWN(KernelStart)
<1> USE Sizes
<1>1. A \in Nat /\ KernelEnd <= A
  <2> DEFINE q == (KernelEnd + PAGE_SIZE - 1) \div PAGE_SIZE
  <2>1. q \in Nat /\ KernelEnd + PAGE_SIZE - 1 < q * PAGE_SIZE + PAGE_SIZE
    BY DivBounds, DivNat
  <2> HIDE DEF q
  <2>2. q * PAGE_SIZE \in Nat
    BY <2>1
  <2> QED BY <2>1, <2>2 DEF ALIGNUP, q
<1>2. D \in Nat /\ D <= KernelStart
  <2> DEFINE q == KernelStart \div PAGE_SIZE
  <2>1. q \in Nat /\ q * PAGE_SIZE <= KernelStart
    BY DivBounds, DivNat
  <2> HIDE DEF q
  <2>2. q * PAGE_SIZE \in Nat
    BY <2>1
  <2> QED BY <2>1, <2>2 DEF ALIGNDOWN, q
<1> HIDE DEF A, D
<1>3. /\ StartOf(e) \in Nat /\ EndOf(e) \in Nat
      /\ e.addr <= StartOf(e) /\ EndOf(e) <= e.addr + e.len
      /\ OVERLAPS_KERNEL(e.addr) => KernelEnd <= StartOf(e)
      /\ OVERLAPS_KERNEL(e.addr + e.len) => EndOf(e) <= KernelStart
      /\ StartOf(e) = 0 => e.addr = 0
  BY <1>1, <1>2 DEF StartOf, EndOf, OVERLAPS_KERNEL, A, D
<1>4. StartOf(e) <= EndOf(e)
  BY <1>3 DEF Kept, StartOf, EndOf
<1>5. n \in Nat
  BY <1>3, <1>4, DivNat
<1>6. n * PAGE_SIZE <= EndOf(e) - StartOf(e) /\ EndOf(e) - StartOf(e) < n * PAGE_SIZE + PAGE_SIZE
  <2>1. PICK x \in Nat : x = EndOf(e) - StartOf(e)
    BY <1>3, <1>4
  <2>2. (x \div PAGE_SIZE) * PAGE_SIZE <= x /\ x < (x \div PAGE_SIZE) * PAGE_SIZE + PAGE_SIZE
    BY DivBounds
  <2> QED BY <2>1, <2>2
<1> HIDE DEF n
<1>7. n * PAGE_SIZE \in Nat
  BY <1>5
<1>8. ASSUME StartOf(e) = 0, e.len >= PAGE_SIZE PROVE n > 0
  <2>1. ~OVERLAPS_KERNEL(e.addr) /\ e.addr = 0
    BY <1>3, <1>8 DEF OVERLAPS_KERNEL
  <2>2. CASE ~OVERLAPS_KERNEL(e.addr + e.len)
    <3>1. EndOf(e) = e.len
      BY <2>1, <2>2 DEF EndOf
    <3> QED BY <1>5, <1>6, <1>8, <3>1
  <2>3. CASE OVERLAPS_KERNEL(e.addr + e.len)
    <3>1. EndOf(e) = D /\ 0 < D
      BY <1>8, <2>3, <1>2 DEF Kept, EndOf, D
    <3>2. D >= PAGE_SIZE
      <4> DEFINE q == KernelStart \div PAGE_SIZE
      <4>1. q \in Nat /\ D = q * PAGE_SIZE
        BY DivNat DEF D, ALIGNDOWN
      <4> HIDE DEF q
      <4> QED BY <3>1, <4>1
    <3> QED BY <1>2, <1>5, <1>6, <1>8, <3>1, <3>2
  <2> QED BY <2>2, <2>3
<1> QED BY <1>3, <1>5, <1>6, <1>7, <1>8 DEF n

\* The entries of a memory map
LEMMA MapEntries ==
    ASSUME map \in Maps
    PROVE  /\ DOMAIN map \subseteq Nat
           /\ \A i \in DOMAIN map : map[i] \in [addr : Nat, len : Nat, available : BOOLEAN]
<1>1. PICK E : E = [addr : Nat, len : Nat, available : BOOLEAN]
  OBVIOUS
<1>2. map \in Seq(E)
  BY <1>1, PmmAssumption
<1>3. DOMAIN map = 1 .. Len(map) /\ Len(map) \in Nat
  BY <1>2
<1>4. \A i \in DOMAIN map : map[i] \in E
  BY <1>2, <1>3
<1> QED BY <1>1, <1>3, <1>4

LEMMA LayoutHolds ==
    ASSUME map \in Maps, regions = pmm_set_mmap(map)
    PROVE  Layout
<1> USE Sizes
<1>1. /\ DOMAIN regions \subseteq DOMAIN map /\ DOMAIN map \subseteq Nat
      /\ \A i \in DOMAIN regions :
            /\ map[i] \in [addr : Nat, len : Nat, available : BOOLEAN]
            /\ Kept(map[i])
            /\ regions[i] = [start |-> StartOf(map[i]),
                             pages |-> (EndOf(map[i]) - StartOf(map[i])) \div PAGE_SIZE]
  <2>2. DOMAIN regions = {k \in DOMAIN map : Kept(map[k])}
    BY DEF pmm_set_mmap
  <2>3. \A i \in DOMAIN regions :
           regions[i] = [start |-> StartOf(map[i]),
                         pages |-> (EndOf(map[i]) - StartOf(map[i])) \div PAGE_SIZE]
    BY DEF pmm_set_mmap
  <2> QED BY <2>2, <2>3, MapEntries
<1>2. \A i \in DOMAIN regions :
         /\ regions[i].start \in Nat /\ regions[i].pages \in Nat /\ EndAddr(i) \in Nat
         /\ map[i].addr <= regions[i].start
         /\ EndAddr(i) <= map[i].addr + map[i].len
         /\ regions[i].start = 0 => map[i].addr = 0
         /\ regions[i].start = 0 /\ map[i].len >= PAGE_SIZE => regions[i].pages > 0
  <2> TAKE i \in DOMAIN regions
  <2> DEFINE e == map[i]
  <2>1. e \in [addr : Nat, len : Nat, available : BOOLEAN] /\ Kept(e)
    BY <1>1
  <2>2. /\ regions[i].start = StartOf(e)
        /\ regions[i].pages = (EndOf(e) - StartOf(e)) \div PAGE_SIZE
    BY <1>1
  <2> HIDE DEF e
  <2>3. /\ regions[i].start \in Nat /\ EndOf(e) \in Nat /\ regions[i].pages \in Nat
        /\ e.addr <= regions[i].start
        /\ EndAddr(i) <= EndOf(e) /\ EndOf(e) <= e.addr + e.len
        /\ regions[i].start = 0 => e.addr = 0 /\ (e.len >= PAGE_SIZE => regions[i].pages > 0)
    BY <2>1, <2>2, RegionInEntry DEF EndAddr
  <2>4. EndAddr(i) \in Nat
    BY <2>3, TimesNat DEF EndAddr
  <2> QED BY <2>1, <2>3, <2>4 DEF e
<1>3. \A i \in DOMAIN regions : map[i].available
  BY <1>1 DEF Kept
<1>4. ASSUME NEW i \in DOMAIN regions, NEW k \in DOMAIN regions, i # k
      PROVE  EndAddr(i) <= regions[k].start \/ EndAddr(k) <= regions[i].start
  <2>1. Apart(map[i], map[k])
    BY <1>1, <1>3, <1>4, PmmAssumption
  <2>2. EndAddr(i) \in Nat /\ EndAddr(k) \in Nat
    BY <1>2
  <2>3. /\ map[i].addr \in Nat /\ map[i].len \in Nat
        /\ map[k].addr \in Nat /\ map[k].len \in Nat
    BY <1>1
  <2> QED BY <1>2, <2>1, <2>2, <2>3 DEF Apart
<1>5. \A i \in DOMAIN regions : regions[i].start = 0 => regions[i].pages > 0
  <2> TAKE i \in DOMAIN regions
  <2>1. regions[i].start = 0 => map[i].len >= PAGE_SIZE
    BY <1>1, <1>2, <1>3, PmmAssumption
  <2> QED BY <1>2, <2>1
<1> QED BY <1>1, <1>2, <1>4, <1>5 DEF Layout

LEMMA RegionTypes ==
    ASSUME Layout, NEW i \in DOMAIN regions
    PROVE  regions[i].start \in Nat /\ regions[i].pages \in Nat /\ EndAddr(i) \in Nat
<1>1. regions[i].start \in Nat /\ regions[i].pages \in Nat
  BY DEF Layout
<1>2. regions[i].pages * PAGE_SIZE \in Nat
  BY <1>1, Sizes, TimesNat
<1> QED BY <1>1, <1>2 DEF EndAddr

\* Where a page of a region lies.
LEMMA PageInside ==
    ASSUME Layout, NEW i \in DOMAIN regions, NEW j \in Pages(i)
    PROVE  /\ j \in Nat /\ PageAddr(i, j) \in Nat
           /\ regions[i].start <= PageAddr(i, j)
           /\ PageAddr(i, j) + PAGE_SIZE <= EndAddr(i)
           /\ j > 0 => regions[i].start + PAGE_SIZE <= PageAddr(i, j)
<1>1. /\ regions[i].start \in Nat /\ regions[i].pages \in Nat
      /\ j \in Nat /\ j < regions[i].pages
  BY DEF Layout, Pages
<1>2. /\ j * PAGE_SIZE \in Nat /\ regions[i].pages * PAGE_SIZE \in Nat
      /\ j * PAGE_SIZE + PAGE_SIZE <= regions[i].pages * PAGE_SIZE
  BY <1>1, Sizes, TimesMono
<1>3. j > 0 => PAGE_SIZE <= j * PAGE_SIZE
  BY <1>1, Sizes, TimesNat
<1> QED BY <1>1, <1>2, <1>3, Sizes DEF PageAddr, EndAddr

\* No two pages have the same address.
LEMMA PagesDistinct ==
    ASSUME Layout, NEW i \in DOMAIN regions, NEW j \in Pages(i),
           NEW k \in DOMAIN regions, NEW l \in Pages(k), PageAddr(i, j) = PageAddr(k, l)
    PROVE  i = k /\ j = l
<1> USE Sizes
<1>1. i = k
  <2>1. SUFFICES ASSUME i # k PROVE FALSE
    OBVIOUS
  <2>2. EndAddr(i) <= regions[k].start \/ EndAddr(k) <= regions[i].start
    BY <2>1 DEF Layout
  <2>3. /\ regions[i].start \in Nat /\ regions[k].start \in Nat
        /\ EndAddr(i) \in Nat /\ EndAddr(k) \in Nat
    BY RegionTypes
  <2>4. /\ PageAddr(i, j) \in Nat
        /\ regions[i].start <= PageAddr(i, j) /\ PageAddr(i, j) + PAGE_SIZE <= EndAddr(i)
        /\ regions[k].start <= PageAddr(i, j) /\ PageAddr(i, j) + PAGE_SIZE <= EndAddr(k)
    BY PageInside
  <2> QED BY <2>2, <2>3, <2>4
<1>2. j = l
  <2>1. j \in Nat /\ l \in Nat /\ regions[i].start \in Nat
    BY PageInside DEF Layout
  <2>2. j * PAGE_SIZE \in Nat /\ l * PAGE_SIZE \in Nat
    BY <2>1, TimesNat
  <2>3. j * PAGE_SIZE = l * PAGE_SIZE
    BY <1>1, <2>1, <2>2 DEF PageAddr
  <2>4. ASSUME j < l PROVE FALSE
    <3>1. j * PAGE_SIZE + PAGE_SIZE <= l * PAGE_SIZE
      BY <2>1, <2>4, TimesMono
    <3> QED BY <2>2, <2>3, <3>1
  <2>5. ASSUME l < j PROVE FALSE
    <3>1. l * PAGE_SIZE + PAGE_SIZE <= j * PAGE_SIZE
      BY <2>1, <2>5, TimesMono
    <3> QED BY <2>2, <2>3, <3>1
  <2> QED BY <2>1, <2>4, <2>5
<1> QED BY <1>1, <1>2

\* pmm_free finds the page it is given, and no other region claims it.
LEMMA FreeFinds ==
    ASSUME Layout, NEW i \in DOMAIN regions, NEW j \in Pages(i),
           j > 0 \/ PageAddr(i, j) = 0
    PROVE  /\ Holds(i, PageAddr(i, j)) /\ BitOf(i, PageAddr(i, j)) = j
           /\ \A k \in DOMAIN regions : Holds(k, PageAddr(i, j)) => k = i
<1> USE Sizes
<1>1. /\ regions[i].start \in Nat /\ regions[i].pages \in Nat
      /\ \A k \in DOMAIN regions : EndAddr(k) \in Nat /\ regions[k].start \in Nat
  BY RegionTypes
<1>2. Holds(i, PageAddr(i, j))
  BY <1>1, PageInside DEF Holds, EndAddr
<1>3. BitOf(i, PageAddr(i, j)) = j
  <2>1. j \in Nat /\ j * PAGE_SIZE \in Nat
    BY PageInside
  <2>2. (regions[i].start + j * PAGE_SIZE) - regions[i].start = j * PAGE_SIZE
    BY <1>1, <2>1
  <2>3. (j * PAGE_SIZE) \div PAGE_SIZE = j
    BY <2>1, DivTimes
  <2> QED BY <2>2, <2>3 DEF BitOf, PageAddr
<1>4. ASSUME NEW k \in DOMAIN regions, Holds(k, PageAddr(i, j)), k # i
      PROVE  FALSE
  <2>1. EndAddr(i) <= regions[k].start \/ EndAddr(k) <= regions[i].start
    BY <1>4 DEF Layout
  <2>2. regions[k].start <= PageAddr(i, j) /\ PageAddr(i, j) <= EndAddr(k)
    BY <1>4 DEF Holds, EndAddr
  <2>3. CASE j > 0
    BY <1>1, <2>1, <2>2, <2>3, PageInside
  <2>4. CASE PageAddr(i, j) = 0
    <3>1. regions[i].start = 0 /\ regions[k].start = 0
      BY <1>1, <2>2, <2>4, PageInside
    <3>2. regions[i].pages > 0 /\ regions[k].pages > 0 /\ regions[k].pages \in Nat
      BY <3>1 DEF Layout
    <3>3. EndAddr(i) > 0 /\ EndAddr(k) > 0
      BY <1>1, <3>1, <3>2, TimesNat DEF EndAddr
    <3> QED BY <1>1, <2>1, <3>1, <3>3
  <2> QED BY <2>3, <2>4
<1> QED BY <1>2, <1>3, <1>4

(***************************************************************************)
(* The inductive invariant.                                                *)
(***************************************************************************)
\* Whoever owns a page got a page of a region that is no part of a bitmap.
OwnedPages ==
    \A a \in owned :
       a # 0 /\ \E i \in DOMAIN regions : \E j \in Pages(i) :
                   a = PageAddr(i, j) /\ ~IsBitmap(i, j)

PmmInv ==
    /\ map \in Maps /\ regions = pmm_set_mmap(map)
    /\ BitmapExact
    /\ ~failed => DOMAIN bits = DOMAIN regions /\ OwnedPages

\* A page that is no part of a bitmap is not the first of its region.
LEMMA NotFirst ==
    ASSUME Layout, NEW i \in DOMAIN regions, NEW j \in Pages(i), ~IsBitmap(i, j)
    PROVE  j > 0
<1>1. regions[i].pages \in Nat /\ j \in Nat /\ j < regions[i].pages
  BY RegionTypes DEF Pages
<1>2. BitmapPages(regions[i].pages) \in Nat /\ BitmapPages(regions[i].pages) > 0
  BY <1>1, BitmapFits
<1> QED BY <1>1, <1>2 DEF IsBitmap

LEMMA PmmInit == Init => PmmInv
<1> SUFFICES ASSUME Init PROVE PmmInv
  OBVIOUS
<1>1. map \in Maps /\ regions = pmm_set_mmap(map) /\ Layout
  BY LayoutHolds DEF Init
<1>2. /\ DOMAIN bits = DOMAIN regions /\ owned = {} /\ cleared = {}
      /\ \A i \in DOMAIN regions : bits[i] = 0 .. BitmapPages(regions[i].pages) - 1
  BY DEF Init, pmm_init_regions
<1>3. Cardinality(cleared) <= 1
  BY <1>2, FS_EmptySet
<1>4. ASSUME NEW i \in DOMAIN regions
      PROVE  /\ bits[i] \subseteq Pages(i)
             /\ \A j \in Pages(i) : j \in bits[i] <=> IsBitmap(i, j)
  <2>1. regions[i].pages \in Nat
    BY <1>1, RegionTypes
  <2>2. BitmapPages(regions[i].pages) \in Nat /\ BitmapPages(regions[i].pages) <= regions[i].pages
    BY <2>1, BitmapFits
  <2> QED BY <1>2, <2>1, <2>2 DEF Pages, IsBitmap
<1>5. BitmapExact
  BY <1>2, <1>3, <1>4 DEF BitmapExact
<1> QED BY <1>1, <1>2, <1>5 DEF PmmInv, OwnedPages

\* Zeroing a page that was just handed out touches no bitmap.
LEMMA ZeroSpares ==
    ASSUME Layout, NEW h \in DOMAIN regions, NEW m \in Pages(h), ~IsBitmap(h, m),
           NEW i \in DOMAIN regions, NEW j \in Pages(i)
    PROVE  regions[i].start + j \div BITS
              \notin PageAddr(h, m) .. PageAddr(h, m) + PAGE_SIZE - 1
<1> USE Sizes
<1> DEFINE x == j \div BITS
           n == BitmapPages(regions[i].pages)
<1>1. /\ regions[i].start \in Nat /\ regions[i].pages \in Nat /\ EndAddr(i) \in Nat
      /\ regions[h].start \in Nat /\ regions[h].pages \in Nat /\ EndAddr(h) \in Nat
      /\ j \in Nat /\ j < regions[i].pages
  BY RegionTypes DEF Pages
<1>2. /\ PageAddr(h, m) \in Nat /\ m \in Nat
      /\ regions[h].start <= PageAddr(h, m) /\ PageAddr(h, m) + PAGE_SIZE <= EndAddr(h)
  BY PageInside
<1>3. x \in Nat /\ x <= j /\ x < n * PAGE_SIZE /\ n \in Nat
  BY <1>1, BitByte, BitmapFits
<1> HIDE DEF x, n
<1>4. CASE i = h
  <2>1. n <= m
    BY <1>2, <1>3, <1>4 DEF IsBitmap, n
  <2>2. n * PAGE_SIZE \in Nat /\ m * PAGE_SIZE \in Nat
    BY <1>2, <1>3, TimesNat
  <2>3. n * PAGE_SIZE <= m * PAGE_SIZE
    <3>1. CASE n = m
      BY <2>2, <3>1
    <3>2. CASE n < m
      BY <1>2, <1>3, <2>2, <3>2, TimesMono
    <3> QED BY <1>2, <1>3, <2>1, <3>1, <3>2
  <2>4. PageAddr(h, m) = regions[h].start + m * PAGE_SIZE
    BY DEF PageAddr
  <2>5. regions[i].start + x < PageAddr(h, m)
    BY <1>1, <1>3, <1>4, <2>2, <2>3, <2>4
  <2> QED BY <1>1, <1>2, <1>3, <2>5 DEF x
<1>5. CASE i # h
  <2>1. EndAddr(i) <= regions[h].start \/ EndAddr(h) <= regions[i].start
    BY <1>5 DEF Layout
  <2>2. regions[i].start + x < EndAddr(i)
    <3>1. regions[i].pages * PAGE_SIZE >= regions[i].pages
      BY <1>1, TimesNat
    <3> QED BY <1>1, <1>3, <3>1, TimesNat DEF EndAddr
  <2>3. regions[i].start + x < PageAddr(h, m) \/ PageAddr(h, m) + PAGE_SIZE <= regions[i].start + x
    BY <1>1, <1>2, <1>3, <2>1, <2>2
  <2> QED BY <1>1, <1>2, <1>3, <2>3 DEF x
<1> QED BY <1>4, <1>5

\* An allocation that succeeds takes a page that nobody owns and that holds no
\* bitmap, and marks it.
LEMMA PmmAlloc ==
    ASSUME PmmInv, pmm_alloc
    PROVE  /\ PmmInv'
           /\ ~failed' => /\ got' \notin owned
                          /\ \E i \in DOMAIN regions : \E j \in Pages(i) :
                                got' = PageAddr(i, j) /\ ~IsBitmap(i, j)
<1> DEFINE hits  == {i \in DOMAIN regions : find_free_page(i) # 0}
           tried == {i \in DOMAIN regions : hits = {} \/ i <= Min(hits)}
<1>1. PICK addr : /\ addr = IF hits = {} THEN 0 ELSE find_free_page(Min(hits))
                  /\ got' = addr /\ owned' = owned \cup {addr}
                  /\ failed' = (failed \/ addr = 0) /\ cleared' = {}
                  /\ UNCHANGED <<map, regions, status>>
  BY DEF pmm_alloc
<1>2. PICK b : /\ b = [i \in DOMAIN bits |-> IF i \in tried THEN Taken(i) ELSE bits[i]]
               /\ bits' = Zeroed(b, addr)
  BY <1>1 DEF pmm_alloc
<1>3. map' \in Maps /\ regions' = pmm_set_mmap(map') /\ Layout
  BY <1>1, LayoutHolds DEF PmmInv
<1>4. CASE failed'
  BY <1>3, <1>4 DEF PmmInv, BitmapExact
<1>5. CASE ~failed'
  <2>1. /\ ~failed /\ addr # 0 /\ hits # {} /\ OwnedPages /\ DOMAIN bits = DOMAIN regions
        /\ \A i \in DOMAIN regions :
              /\ bits[i] \subseteq Pages(i)
              /\ \A j \in Pages(i) :
                    PageAddr(i, j) # 0 =>
                       (j \in bits[i] <=> PageAddr(i, j) \in owned \/ IsBitmap(i, j))
    BY <1>1, <1>5 DEF PmmInv, BitmapExact
  <2>2. PICK h \in hits : h = Min(hits) /\ \A i \in hits : h <= i
    <3>1. hits \in SUBSET Nat
      BY <1>3 DEF Layout
    <3> QED BY <2>1, <3>1, MinLeast
  <2>3. ASSUME NEW i \in DOMAIN regions, ClearBits(i) # {}
        PROVE  Min(ClearBits(i)) \in Pages(i) /\ Min(ClearBits(i)) \notin bits[i]
    <3>1. ClearBits(i) \in SUBSET Nat
      BY <1>3, RegionTypes DEF ClearBits
    <3>2. Min(ClearBits(i)) \in ClearBits(i)
      BY <2>3, <3>1, MinLeast
    <3> QED BY <3>2 DEF ClearBits, Pages
  <2>4. PICK m \in Pages(h) : /\ m = Min(ClearBits(h)) /\ ClearBits(h) # {} /\ m \notin bits[h]
                              /\ addr = PageAddr(h, m)
    BY <1>1, <2>1, <2>2, <2>3 DEF find_free_page
  <2>5. h \in DOMAIN regions /\ addr \notin owned /\ ~IsBitmap(h, m)
    BY <2>1, <2>2, <2>4
  <2>6. h \in tried /\ \A i \in tried : i # h => find_free_page(i) = 0
    <3>1. h \in Nat /\ \A i \in DOMAIN regions : i \in Nat
      BY <1>3, <2>2 DEF Layout
    <3>2. h \in tried
      BY <2>2, <3>1
    <3>3. ASSUME NEW i \in tried, i # h PROVE i \notin hits
      <4>1. i <= h /\ i \in DOMAIN regions
        BY <2>1, <2>2
      <4> QED BY <2>2, <3>1, <3>3, <4>1
    <3> QED BY <3>2, <3>3
  <2>7. ASSUME NEW i \in DOMAIN regions
        PROVE  /\ b[i] \subseteq Pages(i)
               /\ \A j \in Pages(i) :
                     PageAddr(i, j) # 0 => (j \in b[i] <=> j \in bits[i] \/ (i = h /\ j = m))
    <3>1. b[i] = IF i \in tried THEN Taken(i) ELSE bits[i]
      BY <1>2, <2>1
    <3>2. CASE i = h
      BY <2>1, <2>4, <2>6, <3>1, <3>2 DEF Taken
    <3>3. CASE i # h /\ i \in tried /\ ClearBits(i) # {}
      <4>1. b[i] = bits[i] \cup {Min(ClearBits(i))} /\ PageAddr(i, Min(ClearBits(i))) = 0
        BY <2>6, <3>1, <3>3 DEF Taken, find_free_page
      <4> QED BY <2>1, <2>3, <3>3, <4>1
    <3>4. CASE i # h /\ ~(i \in tried /\ ClearBits(i) # {})
      <4>1. b[i] = bits[i]
        BY <3>1, <3>4 DEF Taken
      <4> QED BY <2>1, <3>4, <4>1
    <3> QED BY <3>2, <3>3, <3>4
  <2>8. DOMAIN bits' = DOMAIN regions /\ \A i \in DOMAIN regions : bits'[i] = b[i]
    <3>1. DOMAIN b = DOMAIN regions
      BY <1>2, <2>1
    <3>2. DOMAIN bits' = DOMAIN regions
      BY <1>2, <3>1 DEF Zeroed
    <3>3. ASSUME NEW i \in DOMAIN regions PROVE bits'[i] = b[i]
      <4>1. bits'[i] = {j \in b[i] : regions[i].start + j \div BITS
                                       \notin addr .. addr + PAGE_SIZE - 1}
        BY <1>2, <3>1 DEF Zeroed
      <4>2. \A j \in b[i] : regions[i].start + j \div BITS \notin addr .. addr + PAGE_SIZE - 1
        BY <1>3, <2>4, <2>5, <2>7, ZeroSpares
      <4> QED BY <4>1, <4>2
    <3> QED BY <3>2, <3>3
  <2>9. /\ \A i \in DOMAIN regions : Pages(i)' = Pages(i)
        /\ \A i, j : (PageAddr(i, j)' = PageAddr(i, j)) /\ (IsBitmap(i, j)' <=> IsBitmap(i, j))
    BY <1>1 DEF Pages, PageAddr, IsBitmap
  <2>10. BitmapExact'
    <3>1. ASSUME NEW i \in DOMAIN regions, NEW j \in Pages(i), PageAddr(i, j) # 0
          PROVE  j \in bits'[i] <=> PageAddr(i, j) \in owned' \/ IsBitmap(i, j)
      <4>1. PageAddr(i, j) = addr <=> i = h /\ j = m
        BY <1>3, <2>4, <2>5, PagesDistinct
      <4> QED BY <1>1, <2>1, <2>5, <2>7, <2>8, <3>1, <4>1
    <3>2. Cardinality(cleared') <= 1
      BY <1>1, FS_EmptySet
    <3>3. \A i \in DOMAIN regions' :
             /\ bits'[i] \subseteq Pages(i)'
             /\ \A j \in Pages(i)' :
                   PageAddr(i, j)' # 0 =>
                      (j \in bits'[i] <=> PageAddr(i, j)' \in owned' \/ IsBitmap(i, j)')
      BY <1>1, <2>7, <2>8, <2>9, <3>1
    <3> QED BY <1>1, <3>2, <3>3 DEF BitmapExact
  <2>11. OwnedPages'
    BY <1>1, <2>1, <2>4, <2>5, <2>9 DEF OwnedPages
  <2> QED BY <1>1, <1>3, <2>4, <2>5, <2>8, <2>10, <2>11 DEF PmmInv
<1> QED BY <1>4, <1>5

\* A free clears the bit of its page and no other.
LEMMA PmmFree ==
    ASSUME PmmInv, NEW phys \in owned \cup {0}, pmm_free(phys)
    PROVE  PmmInv' /\ got' = NONE
<1>1. got' = NONE /\ UNCHANGED <<map, regions, failed>>
  BY DEF pmm_free
<1>2. map' \in Maps /\ regions' = pmm_set_mmap(map') /\ Layout
  BY <1>1, LayoutHolds DEF PmmInv
<1>3. CASE failed'
  BY <1>1, <1>2, <1>3 DEF PmmInv, BitmapExact
<1>4. CASE UNCHANGED <<bits, owned, cleared>>
  BY <1>1, <1>2, <1>4
     DEF PmmInv, BitmapExact, OwnedPages, Pages, PageAddr, IsBitmap
<1>5. CASE /\ ~failed'
           /\ cleared' = {<<i, BitOf(i, phys)>> :
                            i \in {k \in DOMAIN regions : Holds(k, phys)}}
           /\ bits' = [i \in DOMAIN bits |-> {j \in bits[i] : <<i, j>> \notin cleared'}]
           /\ owned' = owned \ {phys}
  <2>1. /\ ~failed /\ OwnedPages /\ DOMAIN bits = DOMAIN regions
        /\ \A i \in DOMAIN regions :
              /\ bits[i] \subseteq Pages(i)
              /\ \A j \in Pages(i) :
                    PageAddr(i, j) # 0 =>
                       (j \in bits[i] <=> PageAddr(i, j) \in owned \/ IsBitmap(i, j))
    BY <1>1, <1>5 DEF PmmInv, BitmapExact
  <2>2. /\ \A i \in DOMAIN regions : Pages(i)' = Pages(i)
        /\ \A i, j : (PageAddr(i, j)' = PageAddr(i, j)) /\ (IsBitmap(i, j)' <=> IsBitmap(i, j))
    BY <1>1 DEF Pages, PageAddr, IsBitmap
  <2>3. /\ DOMAIN bits' = DOMAIN regions
        /\ \A i \in DOMAIN regions : bits'[i] = {j \in bits[i] : <<i, j>> \notin cleared'}
    BY <1>5, <2>1
  <2>4. ASSUME NEW i \in DOMAIN regions, NEW j \in Pages(i), phys = PageAddr(i, j),
               j > 0 \/ PageAddr(i, j) = 0
        PROVE  cleared' = {<<i, j>>}
    <3>1. Holds(i, phys) /\ BitOf(i, phys) = j /\ \A k \in DOMAIN regions : Holds(k, phys) => k = i
      BY <1>2, <2>4, FreeFinds
    <3>2. {k \in DOMAIN regions : Holds(k, phys)} = {i}
      BY <3>1
    <3> QED BY <1>5, <3>1, <3>2
  <2>5. \/ cleared' = {} /\ phys = 0
        \/ \E i \in DOMAIN regions : \E j \in Pages(i) :
              /\ cleared' = {<<i, j>>} /\ phys = PageAddr(i, j)
              /\ phys = 0 \/ ~IsBitmap(i, j)
    <3>1. CASE phys \in owned
      <4>0. PICK i \in DOMAIN regions :
               \E j \in Pages(i) : phys = PageAddr(i, j) /\ ~IsBitmap(i, j)
        BY <2>1, <3>1 DEF OwnedPages
      <4>1. PICK j \in Pages(i) : phys = PageAddr(i, j) /\ ~IsBitmap(i, j)
        BY <4>0
      <4>2. j > 0
        BY <1>2, <4>1, NotFirst
      <4> QED BY <2>4, <4>1, <4>2
    <3>2. CASE phys = 0 /\ \E k \in DOMAIN regions : Holds(k, phys)
      <4>1. PICK k \in DOMAIN regions : Holds(k, 0)
        BY <3>2
      <4>2. regions[k].start = 0 /\ regions[k].pages \in Nat /\ regions[k].pages > 0
        BY <1>2, <4>1 DEF Holds, Layout
      <4>3. 0 \in Pages(k) /\ PageAddr(k, 0) = 0
        BY <4>2, Sizes DEF Pages, PageAddr
      <4> QED BY <2>4, <3>2, <4>3
    <3>3. CASE phys = 0 /\ ~(\E k \in DOMAIN regions : Holds(k, phys))
      BY <1>5, <3>3
    <3> QED BY <3>1, <3>2, <3>3
  <2>6. Cardinality(cleared') <= 1 /\ \A x \in cleared' : x[2] \in Pages(x[1])'
    <3>1. CASE cleared' = {}
      BY <3>1, FS_EmptySet
    <3>2. ASSUME NEW i \in DOMAIN regions, NEW j \in Pages(i), cleared' = {<<i, j>>}
          PROVE  Cardinality(cleared') <= 1 /\ \A x \in cleared' : x[2] \in Pages(x[1])'
      <4>1. Cardinality(cleared') = 1
        BY <3>2, FS_Singleton
      <4> QED BY <2>2, <3>2, <4>1
    <3> QED BY <2>5, <3>1, <3>2
  <2>7. ASSUME NEW k \in DOMAIN regions, NEW l \in Pages(k), PageAddr(k, l) # 0
        PROVE  l \in bits'[k] <=> PageAddr(k, l) \in owned' \/ IsBitmap(k, l)
    <3>1. CASE cleared' = {} /\ phys = 0
      BY <1>5, <2>1, <2>3, <2>7, <3>1
    <3>2. ASSUME NEW i \in DOMAIN regions, NEW j \in Pages(i),
                 cleared' = {<<i, j>>}, phys = PageAddr(i, j), phys = 0 \/ ~IsBitmap(i, j)
          PROVE  l \in bits'[k] <=> PageAddr(k, l) \in owned' \/ IsBitmap(k, l)
      <4>1. PageAddr(k, l) = phys <=> k = i /\ l = j
        BY <1>2, <3>2, PagesDistinct
      <4>2. l \in bits'[k] <=> l \in bits[k] /\ ~(k = i /\ l = j)
        BY <2>3, <3>2
      <4> QED BY <1>5, <2>1, <2>7, <3>2, <4>1, <4>2
    <3> QED BY <2>5, <3>1, <3>2
  <2>8. BitmapExact'
    <3>1. \A i \in DOMAIN regions' :
             /\ bits'[i] \subseteq Pages(i)'
             /\ \A j \in Pages(i)' :
                   PageAddr(i, j)' # 0 =>
                      (j \in bits'[i] <=> PageAddr(i, j)' \in owned' \/ IsBitmap(i, j)')
      BY <1>1, <2>1, <2>2, <2>3, <2>7
    <3> QED BY <2>6, <3>1 DEF BitmapExact
  <2>9. OwnedPages'
    BY <1>1, <1>5, <2>1, <2>2 DEF OwnedPages
  <2> QED BY <1>1, <1>2, <2>3, <2>8, <2>9 DEF PmmInv
<1> QED BY <1>1, <1>3, <1>4, <1>5 DEF pmm_free

LEMMA PmmNext ==
    ASSUME PmmInv, [Next]_vars
    PROVE  PmmInv'
<1>1. CASE pmm_alloc
  BY <1>1, PmmAlloc
<1>2. ASSUME NEW phys \in owned \cup {0}, pmm_free(phys) PROVE PmmInv'
  BY <1>2, PmmFree
<1>3. CASE UNCHANGED vars
  BY <1>3 DEF vars, PmmInv, BitmapExact, OwnedPages, Pages, PageAddr, IsBitmap
<1> QED BY <1>1, <1>2, <1>3 DEF Next

LEMMA PmmInvariance == Spec => []PmmInv
BY PmmInit, PmmNext, PTL DEF Spec

\* Until an allocation fails the bits tell exactly which pages are in use, and
\* a free clears at most the one bit of its page.
THEOREM BitmapCorrect == Spec => []BitmapExact
<1>1. PmmInv => BitmapExact
  BY DEF PmmInv
<1> QED BY <1>1, PmmInvariance, PTL

\* No page has two owners, and no bitmap is handed out.
THEOREM AllocCorrect == Spec => NeverTwice
<1> DEFINE Fresh == got' # NONE /\ ~failed' =>
                       /\ got' \notin owned
                       /\ \E i \in DOMAIN regions : \E j \in Pages(i) :
                             got' = PageAddr(i, j) /\ ~IsBitmap(i, j)
<1>1. PmmInv /\ [Next]_vars => [Fresh]_vars
  <2> SUFFICES ASSUME PmmInv, Next PROVE Fresh \/ UNCHANGED vars
    OBVIOUS
  <2>1. CASE pmm_alloc
    BY <2>1, PmmAlloc
  <2>2. ASSUME NEW phys \in owned \cup {0}, pmm_free(phys) PROVE Fresh
    BY <2>2, PmmFree
  <2> QED BY <2>1, <2>2 DEF Next
<1> QED BY <1>1, PmmInvariance, PTL DEF Spec, NeverTwice

\* The allocator uses or hands out a page of the kernel's image if, and only if,
\* a usable entry of the memory map reaches over both ends of the image: the two
\* tests of pmm_set_mmap, each on one end of the entry, see all other overlaps.
THEOREM KernelSparedCorrect == Spec => []KernelSpared
<1>1. ASSUME PmmInv PROVE KernelSpared
  <2> USE Sizes
  <2>1. /\ Layout /\ DOMAIN regions = {k \in DOMAIN map : Kept(map[k])}
        /\ \A k \in DOMAIN map : map[k] \in [addr : Nat, len : Nat, available : BOOLEAN]
        /\ \A i \in DOMAIN regions :
              /\ regions[i].start = StartOf(map[i])
              /\ regions[i].pages = (EndOf(map[i]) - StartOf(map[i])) \div PAGE_SIZE
    <3>1. Layout
      BY <1>1, LayoutHolds DEF PmmInv
    <3>2. DOMAIN regions = {k \in DOMAIN map : Kept(map[k])}
      BY <1>1 DEF PmmInv, pmm_set_mmap
    <3>3. \A i \in DOMAIN regions :
              /\ regions[i].start = StartOf(map[i])
              /\ regions[i].pages = (EndOf(map[i]) - StartOf(map[i])) \div PAGE_SIZE
      BY <1>1 DEF PmmInv, pmm_set_mmap
    <3> QED BY <1>1, <3>1, <3>2, <3>3, MapEntries DEF PmmInv
  <2>2. ASSUME NEW i \in DOMAIN regions, NEW j \in Pages(i),
               Bytes(PageAddr(i, j)) \cap (KernelStart .. KernelEnd - 1) # {}
        PROVE  StraddlesKernel(map[i])
    <3>1. PICK e \in [addr : Nat, len : Nat, available : BOOLEAN] :
             /\ e = map[i] /\ Kept(e) /\ regions[i].start = StartOf(e)
             /\ regions[i].pages = (EndOf(e) - StartOf(e)) \div PAGE_SIZE
      BY <2>1
    <3>2. /\ EndOf(e) \in Nat /\ e.addr <= regions[i].start
          /\ EndAddr(i) <= EndOf(e) /\ EndOf(e) <= e.addr + e.len
          /\ OVERLAPS_KERNEL(e.addr) => KernelEnd <= regions[i].start
          /\ OVERLAPS_KERNEL(e.addr + e.len) => EndOf(e) <= KernelStart
      BY <3>1, RegionInEntry DEF EndAddr
    <3>3. /\ PageAddr(i, j) \in Nat /\ regions[i].start <= PageAddr(i, j)
          /\ PageAddr(i, j) + PAGE_SIZE <= EndAddr(i)
          /\ regions[i].start \in Nat /\ EndAddr(i) \in Nat
      BY <2>1, PageInside, RegionTypes
    <3>4. PageAddr(i, j) < KernelEnd /\ KernelStart < PageAddr(i, j) + PAGE_SIZE
      BY <2>2, <3>3 DEF Bytes
    <3>5. e.addr \in Nat /\ e.len \in Nat /\ e.available
      BY <3>1 DEF Kept
    <3> QED BY <3>1, <3>2, <3>3, <3>4, <3>5 DEF OVERLAPS_KERNEL, StraddlesKernel
  <2>3. ASSUME NEW k \in DOMAIN map, StraddlesKernel(map[k])
        PROVE  \E i \in DOMAIN regions : \E j \in Pages(i) :
                  Bytes(PageAddr(i, j)) \cap (KernelStart .. KernelEnd - 1) # {}
    <3>1. PICK e \in [addr : Nat, len : Nat, available : BOOLEAN] :
             e = map[k] /\ StraddlesKernel(e)
      BY <2>1, <2>3
    <3>2. /\ e.addr \in Nat /\ e.len \in Nat /\ e.available
          /\ e.addr < KernelStart /\ KernelEnd <= e.addr + e.len
      BY <3>1 DEF StraddlesKernel
    <3>3. Kept(e) /\ StartOf(e) = e.addr /\ EndOf(e) = e.addr + e.len
      BY <3>2 DEF Kept, OVERLAPS_KERNEL, StartOf, EndOf
    <3>4. /\ k \in DOMAIN regions /\ regions[k].start = e.addr
          /\ regions[k].pages = (EndOf(e) - StartOf(e)) \div PAGE_SIZE
      BY <2>1, <3>1, <3>3
    <3>5. regions[k].pages \in Nat /\ e.addr + e.len < EndAddr(k) + PAGE_SIZE
      BY <3>1, <3>3, <3>4, RegionInEntry DEF EndAddr
    \* the page that holds the first byte of the kernel's image
    <3>6. PICK j \in Nat :
             /\ j * PAGE_SIZE <= KernelStart - e.addr /\ j * PAGE_SIZE \in Nat
             /\ KernelStart - e.addr < j * PAGE_SIZE + PAGE_SIZE
      <4>1. PICK x \in Nat : x = KernelStart - e.addr
        BY <3>2
      <4>2. /\ x \div PAGE_SIZE \in Nat /\ (x \div PAGE_SIZE) * PAGE_SIZE <= x
            /\ x < (x \div PAGE_SIZE) * PAGE_SIZE + PAGE_SIZE
        BY DivBounds, DivNat
      <4>3. (x \div PAGE_SIZE) * PAGE_SIZE \in Nat
        BY <4>2, TimesNat
      <4> QED BY <4>1, <4>2, <4>3
    <3>7. j < regions[k].pages
      <4>1. SUFFICES ASSUME regions[k].pages <= j PROVE FALSE
        BY <3>5, <3>6
      <4>2. regions[k].pages * PAGE_SIZE <= j * PAGE_SIZE
        <5>1. CASE regions[k].pages = j
          BY <3>6, <5>1
        <5>2. CASE regions[k].pages < j
          BY <3>5, <3>6, <5>2, TimesMono
        <5> QED BY <3>5, <3>6, <4>1, <5>1, <5>2
      <4>3. regions[k].pages * PAGE_SIZE \in Nat
        BY <3>5, TimesNat
      <4> QED BY <3>2, <3>4, <3>5, <3>6, <4>2, <4>3 DEF EndAddr
    <3>8. j \in Pages(k) /\ PageAddr(k, j) = e.addr + j * PAGE_SIZE
      BY <3>4, <3>5, <3>6, <3>7 DEF Pages, PageAddr
    <3>9. KernelStart \in Bytes(PageAddr(k, j)) /\ KernelStart \in KernelStart .. KernelEnd - 1
      BY <3>2, <3>6, <3>8 DEF Bytes
    <3> QED BY <3>4, <3>8, <3>9
  <2> QED BY <2>1, <2>2, <2>3 DEF KernelSpared
<1> QED BY <1>1, PmmInvariance, PTL
=============================================================================
