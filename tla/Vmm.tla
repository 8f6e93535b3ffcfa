-------------------------------- MODULE Vmm --------------------------------
(***************************************************************************)
(* Address spaces: mm/vmm.c with fs/exec.c, and what fork, exec and the    *)
(* reaping of a task (kernel/fork.c, kernel/sched.c) do to them.           *)
(*                                                                         *)
(* Addresses are page numbers.  The page tables form a radix tree of       *)
(* LEVELS levels with FAN entries to a table; the code has 4 levels of 512 *)
(* and repeats its steps for each.  Tables live in page frames, which come *)
(* from the page allocator (module Pmm) lowest first, zeroed.  Handlers    *)
(* run with interrupts disabled, so each is one step; inside it a machine  *)
(* m is passed along: the frames, the address space at hand, the loaded    *)
(* cr3, the reference counts and the harm done so far.                     *)
(***************************************************************************)
EXTENDS Integers, SequencesExt

CONSTANTS
    LEVELS, FAN,
    NFrames,       \* bound: frames 1 .. NFrames of the page allocator
    NTasks,        \* bound: tasks; task 1 is init
    KernelAreas,   \* kernel_mm's list of areas
    Images,        \* bound: the programs, sequences of loadable segments
                   \*   [start, pages, filepages]
    StackStart, StackPages,
    Written        \* bound: what programs write

ASSUME VmmAssumption ==
    /\ LEVELS \in Nat \ {0, 1} /\ FAN \in Nat \ {0, 1}
    /\ NFrames \in Nat /\ NTasks \in Nat \ {0}

Tasks   == 1 .. NTasks
Frames  == 1 .. NFrames
Indices == 0 .. FAN - 1
NONE    == 0         \* mm->p4 == 0; also the frame of an absent entry

VARIABLES
    ram,       \* [table, data, used]: page frames as tables and as memory,
               \* and the frames the page allocator has handed out
    kernel_p4, \* kernel_mm.p4
    refcnt,    \* the reference counts of the kernel's areas
    mms,       \* task |-> its struct mm, or NoMm
    current,
    cr3,
    harm,      \* history: "cr3", a loaded table was freed; "static", an area
               \* of kernel_mm, which is not on the heap, was freed
    holds,     \* history: task |-> page |-> what the program has there
    status     \* "running" or "out_of_frames"

vars == <<ram, kernel_p4, refcnt, mms, current, cr3, harm, holds, status>>

NoMm == [p4 |-> NONE, areas |-> <<>>]

Zero == [frame |-> NONE, present |-> FALSE, write |-> FALSE, user |-> FALSE]

Entry(f, a) == [frame |-> f, present |-> TRUE, write |-> a.write, user |-> a.user]

\* The pages of an area: the one number i, and the first n
Page(a, i)     == a.start + i - 1
FirstPages(a, n) == a.start .. a.start + n - 1
PagesOf(a)     == FirstPages(a, a.pages)

IsReg(a) == a.type = "VM_AREA_REG"

(***************************************************************************)
(* The page allocator as its callers see it.                               *)
(***************************************************************************)
NextFree(m) == Min(Frames \ m.used)

\* When no frame is left the code goes on with page 0; the model stops.
pmm_alloc(m) ==
    IF Frames \subseteq m.used THEN [m EXCEPT !.oom = TRUE]
    ELSE [m EXCEPT !.used = @ \cup {NextFree(m)},
                   !.table[NextFree(m)] = [i \in Indices |-> Zero],
                   !.data[NextFree(m)] = "zero"]

pmm_free(m, f) ==
    [m EXCEPT !.used = @ \ {f}, !.harm = @ \cup (IF f = m.cr3 THEN {"cr3"} ELSE {})]

(***************************************************************************)
(* The page tables.                                                        *)
(***************************************************************************)
\* An address shifted right by each number of indices
Shifted(virt) ==
    LET by[l \in 0 .. LEVELS] == IF l = 0 THEN virt ELSE by[l - 1] \div FAN
    IN  by

\* The pages of an address space: FAN to the power of LEVELS
Span ==
    LET of[l \in 0 .. LEVELS] == IF l = 0 THEN 1 ELSE FAN * of[l - 1]
    IN  of

Pages == 0 .. Span[LEVELS] - 1

NDX(virt, level) == Shifted(virt)[level - 1] % FAN

\* The frames of the tables on the way to virt, from the top down
Path(m, virt) ==
    LET at[d \in 0 .. LEVELS - 1] ==
            IF d = 0 THEN m.p4 ELSE m.table[at[d - 1]][NDX(virt, LEVELS - d + 1)].frame
    IN  at

TableAt(m, virt, level) == Path(m, virt)[LEVELS - level]

get_entry(m, virt, level) == m.table[TableAt(m, virt, level)][NDX(virt, level)]

set_entry(m, virt, level, e) ==
    [m EXCEPT !.table[TableAt(m, virt, level)][NDX(virt, level)] = e]

phys_of(m, virt) == get_entry(m, virt, 1).frame

ensure_p4(m) ==
    LET n == pmm_alloc(m)
    IN  IF m.p4 # NONE THEN m ELSE IF n.oom THEN n ELSE [n EXCEPT !.p4 = NextFree(m)]

\* Mutant: tables are entered without the user flag.
ensure_table_supervisor(m, virt, level, a) ==
    LET n == pmm_alloc(m)
    IN  IF m.oom \/ get_entry(m, virt, level).present THEN m
        ELSE IF n.oom THEN n
        ELSE set_entry(n, virt, level, Entry(NextFree(m), [a EXCEPT !.user = FALSE]))

\* A table for the level below, with the flags of the page that needs it
ensure_table(m, virt, level, a) ==
    LET n == pmm_alloc(m)
    IN  IF m.oom \/ get_entry(m, virt, level).present THEN m
        ELSE IF n.oom THEN n ELSE set_entry(n, virt, level, Entry(NextFree(m), a))

\* With the tables on the way to virt, from the top down
WithTables(m, virt, a) ==
    LET down[d \in 0 .. LEVELS - 1] ==
            IF d = 0 THEN ensure_p4(m)
            ELSE ensure_table(down[d - 1], virt, LEVELS - d + 1, a)
    IN  down

\* The last entry, when there was a frame for every table
enter_page(m, virt, f, a) == IF m.oom THEN m ELSE set_entry(m, virt, 1, Entry(f, a))

vmm_map_page(m, virt, f, a) == enter_page(WithTables(m, virt, a)[LEVELS - 1], virt, f, a)

Empty(m, f) == \A i \in Indices : ~m.table[f][i].present

\* A table that is left without an entry is freed.  It is not looked at when the
\* one below was not.
drop_table(m, virt, level) ==
    IF get_entry(m, virt, level).present \/ ~Empty(m, TableAt(m, virt, level)) THEN m
    ELSE IF level = LEVELS THEN [pmm_free(m, m.p4) EXCEPT !.p4 = NONE]
    ELSE set_entry(pmm_free(m, TableAt(m, virt, level)), virt, level + 1, Zero)

\* The entry goes; then the tables on the way to it, from the bottom up
WithoutTables(m, virt) ==
    LET up[l \in 0 .. LEVELS] ==
            IF l = 0 THEN set_entry(m, virt, 1, Zero) ELSE drop_table(up[l - 1], virt, l)
    IN  up

vmm_unmap_page(m, virt) == WithoutTables(m, virt)[LEVELS]

(***************************************************************************)
(* Areas.  A regular area is in one list only and lives as long as it is   *)
(* there; the kernel's areas are in every list and counted.                *)
(***************************************************************************)
CountIn(r, a) == IF IsReg(a) THEN r ELSE [r EXCEPT ![a.type] = @ + 1]

mm_insert_vma(m, a) == [m EXCEPT !.areas = <<a>> \o @, !.refcnt = CountIn(@, a)]

UserArea(start, pages, write) ==
    [type |-> "VM_AREA_REG", start |-> start, pages |-> pages, write |-> write, user |-> TRUE]

\* The stack of every program
Stack == UserArea(StackStart, StackPages, TRUE)

\* The area of a segment: exec_elf asks for no right to write.
SegmentArea(s) == UserArea(s.start, s.pages, FALSE)

AllAreas ==
    Range(KernelAreas) \cup {Stack} \cup
    UNION {{SegmentArea(image[i]) : i \in DOMAIN image} : image \in Images}

\* The layout of memory: what include/vmm.h and the linker put where.  Areas under one
\* entry of the top table have the same flags: programs, the stack and the kernel
\* each have entries of their own.
ASSUME LayoutAssumption ==
    /\ KernelAreas \in Seq([type : STRING \ {"VM_AREA_REG"}, start : Nat,
                            pages : Nat \ {0}, write : BOOLEAN, user : {FALSE}])
    /\ KernelAreas # <<>>
    /\ \A i, j \in DOMAIN KernelAreas : i # j =>
          /\ KernelAreas[i].type # KernelAreas[j].type
          /\ PagesOf(KernelAreas[i]) \cap PagesOf(KernelAreas[j]) = {}
    /\ StackStart \in Nat /\ StackPages \in Nat
    /\ \A image \in Images :
          /\ image \in Seq([start : Nat, pages : Nat, filepages : Nat])
          /\ \A i \in DOMAIN image : image[i].filepages <= image[i].pages
          /\ \A i, j \in DOMAIN image : i # j => PagesOf(image[i]) \cap PagesOf(image[j]) = {}
    /\ \A a \in AllAreas : PagesOf(a) \subseteq Pages
    /\ \A a, b \in AllAreas : \A v \in PagesOf(a), w \in PagesOf(b) :
          NDX(v, LEVELS) = NDX(w, LEVELS) => a.write = b.write /\ a.user = b.user

anon_page(m, virt, a) ==
    LET n == pmm_alloc(m)
    IN  IF n.oom THEN n ELSE vmm_map_page(n, virt, NextFree(m), a)

\* A loop is a function: the machine after each number of passes.
AnonPages(m, a) ==
    LET st[i \in 0 .. a.pages] == IF i = 0 THEN m ELSE anon_page(st[i - 1], Page(a, i), a)
    IN  st

anon_mmap(m, a) == mm_insert_vma(AnonPages(m, a)[a.pages], a)

\* Mutant: every page is mapped to the frame of the area's first.
share_page_first(m, virt, a) ==
    vmm_map_page(m, virt, phys_of([m EXCEPT !.p4 = kernel_p4], a.start), a)

share_page(m, virt, a) ==
    vmm_map_page(m, virt, phys_of([m EXCEPT !.p4 = kernel_p4], virt), a)

SharedPages(m, a) ==
    LET st[i \in 0 .. a.pages] == IF i = 0 THEN m ELSE share_page(st[i - 1], Page(a, i), a)
    IN  st

mm_share_vma(m, a) == mm_insert_vma(SharedPages(m, a)[a.pages], a)

\* Mutant: the page is unmapped, but its frame is not given back.
free_page_leaks(m, virt) == vmm_unmap_page(m, virt)

free_page(m, virt) == pmm_free(vmm_unmap_page(m, virt), phys_of(m, virt))

FreedPages(m, a) ==
    LET st[i \in 0 .. a.pages] == IF i = 0 THEN m ELSE free_page(st[i - 1], Page(a, i))
    IN  st

mm_free_reg_vma(m, a) == FreedPages(m, a)[a.pages]

UnsharedPages(m, a) ==
    LET st[i \in 0 .. a.pages] == IF i = 0 THEN m ELSE vmm_unmap_page(st[i - 1], Page(a, i))
    IN  st

mm_unshare_vma(m, a) ==
    LET n == UnsharedPages(m, a)[a.pages]
    IN  [n EXCEPT !.refcnt[a.type] = @ - 1,
                  !.harm = @ \cup (IF n.refcnt[a.type] = 1 THEN {"static"} ELSE {})]

\* mm_new
WithAreas(m) ==
    LET st[i \in 0 .. Len(KernelAreas)] ==
            IF i = 0 THEN [m EXCEPT !.p4 = NONE, !.areas = <<>>]
            ELSE mm_share_vma(st[i - 1], KernelAreas[i])
    IN  st

mm_init(m) == WithAreas(m)[Len(KernelAreas)]

mm_free_vma(m, a) == IF IsReg(a) THEN mm_free_reg_vma(m, a) ELSE mm_unshare_vma(m, a)

WithoutAreas(m, mm) ==
    LET st[i \in 0 .. Len(mm.areas)] ==
            IF i = 0 THEN [m EXCEPT !.p4 = mm.p4] ELSE mm_free_vma(st[i - 1], mm.areas[i])
    IN  st

\* vmm_unmap_page has freed the p4 with the last page: the final pmm_free is
\* one of address 0.
mm_free(m, mm) ==
    LET n == WithoutAreas(m, mm)[Len(mm.areas)] IN pmm_free(n, n.p4)

\* Mutant: the child is given the parent's frame.
copy_page_shares(m, src, virt) ==
    set_entry(m, virt, 1, get_entry([m EXCEPT !.p4 = src], virt, 1))

copy_page(m, src, virt) ==
    [m EXCEPT !.data[phys_of(m, virt)] = m.data[phys_of([m EXCEPT !.p4 = src], virt)]]

mm_copy_from_mm(m, src, a) ==
    LET st[i \in 0 .. a.pages] == IF i = 0 THEN m ELSE copy_page(st[i - 1], src, Page(a, i))
    IN  st

\* What follows anon_mmap when there was a frame for every page
fill_from_mm(m, src, a) == IF m.oom THEN m ELSE mm_copy_from_mm(m, src, a)[a.pages]

dupe_vma(m, src, a) == IF IsReg(a) THEN fill_from_mm(anon_mmap(m, a), src, a) ELSE m

Duplicated(m, mm) ==
    LET st[i \in 0 .. Len(mm.areas)] ==
            IF i = 0 THEN mm_init(m) ELSE dupe_vma(st[i - 1], mm.p4, mm.areas[i])
    IN  st

mm_dupe(m, mm) == Duplicated(m, mm)[Len(mm.areas)]

(***************************************************************************)
(* Programs.                                                               *)
(***************************************************************************)
\* What the file holds for a page
Content(virt) == <<"file", virt>>

put_page(m, virt) == [m EXCEPT !.data[phys_of(m, virt)] = Content(virt)]

mm_copy_from_buf(m, s) ==
    LET st[i \in 0 .. s.filepages] ==
            IF i = 0 THEN m ELSE put_page(st[i - 1], Page(s, i))
    IN  st

fill_from_buf(m, s) == IF m.oom THEN m ELSE mm_copy_from_buf(m, s)[s.filepages]

map_segment(m, s) == fill_from_buf(anon_mmap(m, SegmentArea(s)), s)

WithSegments(m, image) ==
    LET st[i \in 0 .. Len(image)] ==
            IF i = 0 THEN mm_init(m) ELSE map_segment(st[i - 1], image[i])
    IN  st

exec_elf(m, image) ==
    anon_mmap(WithSegments(m, image)[Len(image)], Stack)

(***************************************************************************)
(* What the tasks do.                                                      *)
(***************************************************************************)
Machine == [table |-> ram.table, data |-> ram.data, used |-> ram.used,
            p4 |-> NONE, areas |-> <<>>, cr3 |-> cr3, refcnt |-> refcnt,
            harm |-> harm, oom |-> FALSE]

\* The handler's end: the machine becomes the state again.
Commit(m, newMms, newHolds) ==
    /\ ram' = [table |-> m.table, data |-> m.data, used |-> m.used]
    /\ harm' = m.harm /\ cr3' = m.cr3 /\ refcnt' = m.refcnt
    /\ mms' = newMms /\ holds' = newHolds
    /\ UNCHANGED <<kernel_p4, current, status>>

out_of_frames ==
    /\ status' = "out_of_frames"
    /\ UNCHANGED <<ram, kernel_p4, refcnt, mms, current, cr3, harm, holds>>

MmOf(m) == [p4 |-> m.p4, areas |-> m.areas]

\* What a program is to find in its memory after exec
Loaded(image) ==
    LET file  == UNION {FirstPages(image[i], image[i].filepages) : i \in DOMAIN image}
        pages == PagesOf(Stack) \cup UNION {PagesOf(image[i]) : i \in DOMAIN image}
    IN  [virt \in pages |-> IF virt \in file THEN Content(virt) ELSE "zero"]

\* Mutant: the old tables are freed while they are loaded.
leave_old_mm_not(m) == m

\* exec must not stand on the tables it is about to free.
leave_old_mm(m) == [m EXCEPT !.cr3 = kernel_p4]

sched_exec(image) ==
    LET new  == exec_elf(Machine, image)
        done == [mm_free(leave_old_mm(new), mms[current]) EXCEPT !.cr3 = new.p4]
    IN  \/ new.oom /\ out_of_frames
        \/ /\ ~new.oom
           /\ Commit(done, [mms EXCEPT ![current] = MmOf(new)],
                     [holds EXCEPT ![current] = Loaded(image)])

do_fork(child) ==
    LET new == mm_dupe(Machine, mms[current])
    IN  /\ mms[child] = NoMm
        /\ \/ new.oom /\ out_of_frames
           \/ /\ ~new.oom
              /\ Commit(new, [mms EXCEPT ![child] = MmOf(new)],
                        [holds EXCEPT ![child] = holds[current]])

\* wait frees another task's address space; init never exits.
task_free(t) ==
    /\ t \notin {1, current} /\ mms[t] # NoMm
    /\ Commit(mm_free(Machine, mms[t]), [mms EXCEPT ![t] = NoMm],
              [holds EXCEPT ![t] = <<>>])

switch_to(t) ==
    /\ t # current /\ mms[t] # NoMm
    /\ current' = t /\ cr3' = mms[t].p4
    /\ UNCHANGED <<ram, kernel_p4, refcnt, mms, harm, holds, status>>

\* The processor lets a program use a page when every entry on its path does.
Grants(e, write) == e.present /\ e.user /\ (write => e.write)

Allowed(p4, virt, write) ==
    \A d \in 0 .. LEVELS - 1 :
       Grants(get_entry([Machine EXCEPT !.p4 = p4], virt, LEVELS - d), write)

Translate(p4, virt) == phys_of([Machine EXCEPT !.p4 = p4], virt)

user_write(virt, v) ==
    /\ Allowed(cr3, virt, TRUE)
    /\ ram' = [ram EXCEPT !.data[Translate(cr3, virt)] = v]
    /\ holds' = [holds EXCEPT ![current][virt] = v]
    /\ UNCHANGED <<kernel_p4, refcnt, mms, current, cr3, harm, status>>

(***************************************************************************)
(* Boot: kernel_mm_init, then the first task with its program.             *)
(***************************************************************************)
Blank == [table |-> [f \in Frames |-> [i \in Indices |-> Zero]],
          data |-> [f \in Frames |-> "zero"], used |-> {},
          p4 |-> NONE, areas |-> <<>>, cr3 |-> NONE,
          refcnt |-> [k \in {a.type : a \in Range(KernelAreas)} |-> 0],
          harm |-> {}, oom |-> FALSE]

\* The heap gets frames of its own; the other areas map the memory from 0 up.
kernel_page(m, virt, a) ==
    IF a.type = "VM_AREA_KERNELHEAP" THEN anon_page(m, virt, a)
    ELSE vmm_map_page(m, virt, virt - a.start, a)

kernel_area(m, a) ==
    LET st[i \in 0 .. a.pages] == IF i = 0 THEN m ELSE kernel_page(st[i - 1], Page(a, i), a)
    IN  st

kernel_areas ==
    LET st[i \in 0 .. Len(KernelAreas)] ==
            IF i = 0 THEN Blank
            ELSE kernel_area(st[i - 1], KernelAreas[i])[KernelAreas[i].pages]
    IN  st

kernel_mm_init == kernel_areas[Len(KernelAreas)]

Init ==
    /\ kernel_p4 = kernel_mm_init.p4
    /\ current = 1 /\ status = "running"
    /\ \E image \in Images :
          LET m == exec_elf(kernel_mm_init, image)
          IN  /\ ~m.oom
              /\ ram = [table |-> m.table, data |-> m.data, used |-> m.used]
              /\ refcnt = m.refcnt /\ harm = m.harm /\ cr3 = m.p4
              /\ mms = [t \in Tasks |-> IF t = 1 THEN MmOf(m) ELSE NoMm]
              /\ holds = [t \in Tasks |-> IF t = 1 THEN Loaded(image) ELSE <<>>]

Next ==
    \/ /\ status = "running"
       /\ \/ \E image \in Images : sched_exec(image)
          \/ \E t \in Tasks : do_fork(t) \/ task_free(t) \/ switch_to(t)
          \/ \E virt \in DOMAIN holds[current], v \in Written : user_write(virt, v)
    \/ status # "running" /\ UNCHANGED vars

Spec == Init /\ [][Next]_vars

-----------------------------------------------------------------------------
Live == {t \in Tasks : mms[t] # NoMm}

\* The frames of the tables under p4, each depth from the one above
Below(tables) ==
    {e.frame : e \in {x \in UNION {Range(ram.table[f]) : f \in tables} : x.present}}

TablesAt(p4) ==
    LET at[d \in 0 .. LEVELS - 1] == IF d = 0 THEN {p4} ELSE Below(at[d - 1])
    IN  at

TablesOf(p4) == UNION {TablesAt(p4)[d] : d \in 0 .. LEVELS - 1}

\* The frames of the pages of those areas of mm that own their frames
PageFrames(mm, types) ==
    {Translate(mm.p4, virt) :
       virt \in {v \in Pages : \E a \in Range(mm.areas) : a.type \in types /\ v \in PagesOf(a)}}

OwnFrames(t) == TablesOf(mms[t].p4) \cup PageFrames(mms[t], {"VM_AREA_REG"})

KernelFrames ==
    TablesOf(kernel_p4)
    \cup PageFrames([p4 |-> kernel_p4, areas |-> KernelAreas], {"VM_AREA_KERNELHEAP"})

\* A program's memory holds what was loaded, copied at fork or written by the
\* program itself, whatever other tasks do, fork, exec or free meanwhile.
MemoryPrivate ==
    \A t \in Live : \A virt \in DOMAIN holds[t] :
       ram.data[Translate(mms[t].p4, virt)] = holds[t][virt]

\* Every frame handed out is a table or a page of exactly one address space or
\* belongs to the kernel: fork, exec and exit neither leak a frame nor share one.
FramesExact ==
    /\ ram.used = KernelFrames \cup UNION {OwnFrames(t) : t \in Live}
    /\ \A s \in Live : /\ OwnFrames(s) \cap KernelFrames = {}
                       /\ \A t \in Live \ {s} : OwnFrames(s) \cap OwnFrames(t) = {}

\* A program can read exactly the pages of its own areas and write exactly
\* those of its stack: although the flags of a table are those of the first
\* page mapped through it, they never deny a later page its rights, and the
\* kernel's pages stay out of reach.
RightsExact ==
    \A t \in Live : \A virt \in Pages : \A write \in BOOLEAN :
       Allowed(mms[t].p4, virt, write) <=>
          \E a \in Range(mms[t].areas) : IsReg(a) /\ virt \in PagesOf(a) /\ (write => a.write)

\* Every address space maps the kernel's areas as kernel_mm does, so that a
\* switch of cr3 inside the kernel changes nothing the kernel can see, and each
\* counts as one reference to them.  kernel_mm itself is not counted: that these
\* areas, which are no heap objects, are never given to free() is owed only to
\* there always being an address space.
KernelMapped ==
    /\ \A t \in Live : \A a \in Range(KernelAreas) : \A virt \in PagesOf(a) :
          Translate(mms[t].p4, virt) = Translate(kernel_p4, virt)
    /\ "static" \notin harm
    /\ \A k \in DOMAIN refcnt : refcnt[k] = Cardinality(Live)

\* The processor always runs on the tables of the current task, and no table
\* is freed while it is loaded, neither by exec nor by the reaping of a task.
LoadedTablesLive == "cr3" \notin harm /\ cr3 = mms[current].p4
=============================================================================
