-------------------------------- MODULE Pmm --------------------------------
(***************************************************************************)
(* The physical page allocator: mm/pmm.c.  The regions come from the boot  *)
(* loader's memory map; the first pages of a region hold its bitmap, one   *)
(* bit for each page of the region, those pages included.                  *)
(*                                                                         *)
(* bits holds the indices of the bits that are set.  The bitmap is memory: *)
(* pmm_alloc zeroes the page it returns, whichever page that is.  The      *)
(* callers (mm/vmm.c) free what they allocated; mm_free also frees address *)
(* 0, because vmm_unmap_page has already cleared mm->p4.                   *)
(***************************************************************************)
EXTENDS Integers, Sequences, FiniteSetsExt

CONSTANTS
    PAGE_SIZE,
    BITS,                      \* bits of a char
    KernelStart, KernelEnd,    \* __kernel_start_phys, __kernel_end_phys
    Maps                       \* bound: the boot loader's memory maps

\* Two entries of a memory map with no byte in common
Apart(e, f) == e.addr + e.len <= f.addr \/ f.addr + f.len <= e.addr

\* The kernel fills a page at least.  The usable entries of a memory map do not
\* overlap, and one that begins at address 0 has room for a page.
ASSUME PmmAssumption ==
    /\ PAGE_SIZE \in Nat \ {0} /\ BITS \in Nat \ {0}
    /\ KernelStart \in Nat /\ KernelEnd \in Nat /\ KernelStart + PAGE_SIZE <= KernelEnd
    /\ \A m \in Maps :
          /\ m \in Seq([addr : Nat, len : Nat, available : BOOLEAN])
          /\ \A i, k \in DOMAIN m :
                i # k /\ m[i].available /\ m[k].available => Apart(m[i], m[k])
          /\ \A i \in DOMAIN m :
                m[i].available /\ m[i].addr = 0 => m[i].len >= PAGE_SIZE

NONE == -1

VARIABLES
    map,        \* the memory map the kernel was booted with
    regions,    \* entry of the map |-> the struct mmap_region made from it
    bits,       \* region |-> the bits set in its bitmap
    owned,      \* history: the pages handed out and not yet freed
    got,        \* history: what the last step, if a pmm_alloc, returned
    cleared,    \* history: the bits the last step, if a pmm_free, cleared
    failed,     \* history: pmm_alloc has run out of pages
    status      \* "running", or the panic that stopped the kernel

vars == <<map, regions, bits, owned, got, cleared, failed, status>>

ALIGNUP(x)     == ((x + PAGE_SIZE - 1) \div PAGE_SIZE) * PAGE_SIZE
ALIGNDOWN(x)   == (x \div PAGE_SIZE) * PAGE_SIZE
DIV_CEIL(x, y) == (x + y - 1) \div y

(***************************************************************************)
(* Boot.                                                                   *)
(***************************************************************************)
OVERLAPS_KERNEL(x) == KernelStart <= x /\ x < KernelEnd

\* Mutant: the region starts in the page that holds the kernel's last bytes.
StartOf_down(e) ==
    IF OVERLAPS_KERNEL(e.addr) THEN ALIGNDOWN(KernelEnd) ELSE e.addr

StartOf(e) == IF OVERLAPS_KERNEL(e.addr) THEN ALIGNUP(KernelEnd) ELSE e.addr

EndOf(e) == IF OVERLAPS_KERNEL(e.addr + e.len) THEN ALIGNDOWN(KernelStart)
            ELSE e.addr + e.len

\* Each move of an end is followed by the test for a total overlap.
Kept(e) ==
    /\ e.available
    /\ OVERLAPS_KERNEL(e.addr) => StartOf(e) < e.addr + e.len
    /\ OVERLAPS_KERNEL(e.addr + e.len) => StartOf(e) < EndOf(e)

pmm_set_mmap(m) ==
    [i \in {k \in DOMAIN m : Kept(m[k])} |->
       [start |-> StartOf(m[i]), pages |-> (EndOf(m[i]) - StartOf(m[i])) \div PAGE_SIZE]]

\* The number of pages that hold the bitmap of a region of n pages
BitmapPages(n) == DIV_CEIL(DIV_CEIL(n, BITS), PAGE_SIZE)

pmm_init_regions(r) == [i \in DOMAIN r |-> 0 .. BitmapPages(r[i].pages) - 1]

Init ==
    /\ map \in Maps
    /\ regions = pmm_set_mmap(map)
    /\ bits = pmm_init_regions(regions)
    /\ owned = {} /\ got = NONE /\ cleared = {} /\ failed = FALSE
    /\ status = "running"

(***************************************************************************)
(* Allocation.                                                             *)
(***************************************************************************)
PageAddr(i, j) == regions[i].start + j * PAGE_SIZE

\* The clear bits that the loop of find_free_page can find
ClearBits(i) == 0 .. regions[i].pages - 1 \ bits[i]

\* Mutant: the bit is tested but not set.
Taken_not_set(i) == bits[i]

\* find_free_page sets the bit before anybody looks at the address.
Taken(i) ==
    IF ClearBits(i) = {} THEN bits[i] ELSE bits[i] \cup {Min(ClearBits(i))}

\* What find_free_page returns: 0 stands for none, and for the page at 0
find_free_page(i) ==
    IF ClearBits(i) = {} THEN 0 ELSE PageAddr(i, Min(ClearBits(i)))

\* memset of the page at addr, which may hold a part of a bitmap
Zeroed(b, addr) ==
    [i \in DOMAIN b |->
       {j \in b[i] : regions[i].start + j \div BITS
                        \notin addr .. addr + PAGE_SIZE - 1}]

\* The regions are tried in order, up to the first that returns a page.
pmm_alloc ==
    LET hits  == {i \in DOMAIN regions : find_free_page(i) # 0}
        tried == {i \in DOMAIN regions : hits = {} \/ i <= Min(hits)}
        addr  == IF hits = {} THEN 0 ELSE find_free_page(Min(hits))
    IN  /\ bits' = Zeroed([i \in DOMAIN bits |->
                             IF i \in tried THEN Taken(i) ELSE bits[i]], addr)
        /\ got' = addr
        /\ owned' = owned \cup {addr}
        /\ failed' = (failed \/ addr = 0)
        /\ cleared' = {}
        /\ UNCHANGED <<map, regions, status>>

\* Both ends of the range are taken to be inside.
Holds(i, phys) ==
    /\ regions[i].start <= phys
    /\ phys <= regions[i].start + regions[i].pages * PAGE_SIZE

\* Mutant: the index is counted from address 0.
BitOf_absolute(i, phys) == phys \div PAGE_SIZE

BitOf(i, phys) == (phys - regions[i].start) \div PAGE_SIZE

pmm_free(phys) ==
    /\ got' = NONE
    /\ \/ /\ phys % PAGE_SIZE # 0
          /\ status' = "free_unaligned"
          /\ UNCHANGED <<bits, owned, cleared>>
       \/ /\ phys % PAGE_SIZE = 0
          /\ cleared' = {<<i, BitOf(i, phys)>> :
                           i \in {k \in DOMAIN regions : Holds(k, phys)}}
          /\ bits' = [i \in DOMAIN bits |-> {j \in bits[i] : <<i, j>> \notin cleared'}]
          /\ owned' = owned \ {phys}
          /\ UNCHANGED status
    /\ UNCHANGED <<map, regions, failed>>

Next == \/ /\ status = "running"
           /\ pmm_alloc \/ \E phys \in owned \cup {0} : pmm_free(phys)
        \/ status # "running" /\ UNCHANGED vars

Spec == Init /\ [][Next]_vars

-----------------------------------------------------------------------------
Pages(i)    == 0 .. regions[i].pages - 1
Bytes(a)    == a .. a + PAGE_SIZE - 1
IsBitmap(i, j) == j < BitmapPages(regions[i].pages)

\* Until an allocation fails, the bits tell exactly which pages are in use:
\* those handed out and those of the bitmaps.  (Page 0 is set apart: address
\* 0 is also freed by mm_free and stands for "no page".)  pmm_free accepts the
\* address behind a region's last page; no page that is ever freed lies there,
\* so each free clears the one bit of its page.
BitmapExact ==
    ~failed =>
       /\ \A i \in DOMAIN regions :
             /\ bits[i] \subseteq Pages(i)
             /\ \A j \in Pages(i) :
                   PageAddr(i, j) # 0 =>
                      (j \in bits[i] <=> PageAddr(i, j) \in owned \/ IsBitmap(i, j))
       /\ Cardinality(cleared) <= 1
       /\ \A x \in cleared : x[2] \in Pages(x[1])

\* No page is handed out while somebody still owns it, and no page of a
\* bitmap ever, as long as no allocation has failed.
NeverTwice ==
    [][got' # NONE /\ ~failed' =>
          /\ got' \notin owned
          /\ \E i \in DOMAIN regions : \E j \in Pages(i) :
                got' = PageAddr(i, j) /\ ~IsBitmap(i, j)]_vars

\* A usable entry that begins before the kernel's image and ends at or behind
\* its end: the case the two tests of pmm_set_mmap do not see.
StraddlesKernel(e) ==
    e.available /\ e.addr < KernelStart /\ KernelEnd <= e.addr + e.len

\* A page that the allocator uses or hands out overlaps the kernel's image if,
\* and only if, a single entry of the memory map reaches over both its ends.
KernelSpared ==
    (\E i \in DOMAIN regions : \E j \in Pages(i) :
          Bytes(PageAddr(i, j)) \cap (KernelStart .. KernelEnd - 1) # {})
    <=> \E k \in DOMAIN map : StraddlesKernel(map[k])
=============================================================================
