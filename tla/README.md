# Formal models of Blackcomb

TLA+ models of the Blackcomb kernel (x86-64, one processor), checked with TLC on
small instances and, where marked, proved with TLAPS for every value of the
constants. `PROJECT.json` lists every run, mutant, theorem and hazard and maps
each definition to its source lines.

## The system

| Part | State | Operations | Interacts with |
|---|---|---|---|
| Scheduler `kernel/sched.c` | ring `next`/`prev`, `current`, `alive_ticks` | insert, remove, `schedule`, `schedule_sleep`, `sched_maybe_preempt`, `switch_to` | timer interrupt; fork, wait, exit, read call it |
| Process table `kernel/fork.c`, `kernel/exit.c` | `state`, `pid`, `exit_status`, `parent`/`children`/`sibling`, heap slots | `do_fork`, `do_wait`, `do_exit`, `task_free` | scheduler, kernel heap, address spaces |
| Terminal `kernel/tty.c`, `drivers/ps2.c` | line buffer, `waiting_task`, `release` | `stdin_read`, `tty_send_key`, `ps2_key_in` | keyboard interrupt; puts the reader back in the ring |
| Interrupts and system calls `drivers/int.c`, `kernel/sys.c` | interrupts in service at the two PICs | dispatch, EOI | everything above |
| Kernel entry and context switch `kernel/syscall.asm`, `drivers/int_table.asm` | registers, kernel stacks, `sp`, `__tss.rsp0`, `__current_task_stack` | save and restore on interrupt, system call, switch and first return | scheduler, fork, exec |
| Kernel heap `mm/kmalloc.c` | block list, `kernel_brk` | `kmalloc`, `free`, `sbrk` | every allocation in the kernel |
| Page allocator `mm/pmm.c` | regions, bitmaps in the managed memory | `pmm_init`, `pmm_alloc`, `pmm_free` | boot loader's memory map; virtual memory |
| Virtual memory `mm/vmm.c` | page tables, areas with reference counts | map, unmap, share, `mm_dupe`, `mm_free` | page allocator, heap, fork, exec |
| Program loading `fs/exec.c` | address space of the task | `exec_elf` | ext2, virtual memory |
| Open files `fs/open.c` | `fdtab` of each task, `struct file` with `refcnt` | open, close, read, write, getdents; copied by fork, released by `task_free` | system calls, process table, heap, ext2 |
| ext2 `fs/ext2.c`, disk `drivers/ata.c` | superblock, group descriptors, root inode | mount, inode lookup, block lookup, `ext2_read_file`, `ext2_namei`, `ext2_getdents` | open files, exec |
| Screen `kernel/vgaterm.c` | video memory, position, hardware cursor | put a character, newline with scroll, clear | `printf`, the terminal's output and echo |
| Boot, descriptor tables, `printf` | | start-up; formatting | |

**What is hard.** The kernel runs with interrupts off, so a system call is
atomic *up to the point where it sleeps*; from then on anything may happen until
`switch_to` comes back to it. The sleeping calls (`wait`, `read`), the two
interrupts that change the ring, and pointers that outlive what they point to
(`children`, `sibling`, `parent`) are where a test hardly reaches. The two
allocators are sequential, and hard because a wrong link, size or bit shows only
many calls later. Registers and stacks are hard because a task may leave the
kernel on another way than it came in by, in between other tasks' entries. The
file system is sequential; its cases lie at sizes and names that the shipped disk
does not have.

**What makes each part correct.** Scheduler: the ring is one ring and holds
exactly the tasks that can run. Process table: a sleeper always has somebody who
will wake it; only exited children are freed, by their parent. Terminal: a woken
reader finds a line. Heap: live allocations are disjoint, nothing is lost for
good. Page allocator: no page has two owners, the kernel's image has none.
Address spaces: a program sees its own memory and only that, the kernel sees the
same everywhere, and the tables in use are never freed. Entry and exit: a program
does not notice that it was interrupted, and its kernel stack ends where it began.
Files: a descriptor leads to the file it was opened for until it is closed. ext2:
what is read is what the disk says under that name. Screen: the last lines written.

## Modules

* **`Sched`** models `sched.c`, `fork.c` and `exit.c`. Tasks are heap slots
  (addresses), 0 is NULL. `rr` holds the link fields; `mem` says whether a slot
  is allocated (`live`), freed with its contents intact (`stale`) or overwritten
  by another allocation (`free`). A read through a dangling pointer returns the
  old value of a stale slot and anything from a free one; a use of an unknown
  value whose effect the source does not determine halts the model with
  `undefined`. `kctx[t]` records inside which call a task sleeps.
* **`Tty`** adds the terminal and the keyboard. Characters are counted, not stored.
* **`Kernel`** composes the two with the system calls, the timer, the keyboard
  and the user programs. `FirstProgram = "any"` lets every task make any call at
  any time; `"init_fork"` runs `/init` and `/sh` as their sources do. It states
  all properties of these parts and the refinement of **`RunQueue`**, a queue of
  tasks without pointers.
* **`Kmalloc`** models the heap byte for byte: the address, size and links of
  every header. `asked` is a history variable: the bytes each caller asked for.
  **`Heap`** is the abstract specification its callers rely on.
* **`Pmm`** models the page allocator, with the bitmaps as part of the memory
  that `pmm_alloc` zeroes; **`MCPmm`** supplies the memory maps.
* **`Vmm`** models `vmm.c` and `exec.c`: page tables as a tree held in page
  frames, areas, and what fork, exec, `task_free` and `switch_to` do to them. A
  handler threads a record `m` through the functions it calls, one operator for
  each, and commits it at its end. A loop of the code is a function from the number
  of passes to the machine after them (`AnonPages`, `WithoutAreas`, ...). `holds` is a history variable: what each
  program is to find in its memory. **`MCVmm`** supplies the areas and programs.
* **`Context`** models the assembly: each kernel stack is a map from depths to
  words, each entry and exit an operator that pushes and pops what the source
  does, in its order. A step of a task is its whole way from user mode into the
  kernel and, when `switch_to` runs, another task's way out. `want` is a history
  variable: the registers a program must find. The two interrupt controllers, the
  second on a line of the first, are modelled as far as their EOIs go.
* **`Files`** models the file tables over open, close, the calls through
  `file_ops`, fork, exit and reaping. `opened` (what a task believes a descriptor
  to be) and `misused` are history variables.
* **`Ext2Disk`** models mounting and the inode lookup down to the reads of the
  disk driver, **`Ext2File`** the reading of a file block by block, **`Ext2Dir`**
  the path lookup component by component, `getdents` and the loop of `/ls` over
  its answer. **`Ext2`**
  composes them as `exec_elf` and `/ls` use them: a wrong inode makes the walk of
  a path or the reading go astray. Beside the code's operators stands what an ext2
  disk really has in that place (`PlaceOf`, `PathTo`, `RefNamei`), and the
  properties compare the two. **`MCExt2`** supplies the disks.
* **`Vgaterm`** models the screen and refines **`Screen`**, a list of lines.
  `wrapped` is a history variable: a line has filled the last row.
* **`KernelProof`**, **`KmallocProof`**, **`FilesProof`**, **`PmmProof`**,
  **`VmmProof`**, **`VgatermProof`**, **`ContextProof`** and **`Ext2Proof`** hold
  the theorems.

Operators whose comment begins with "Mutant" are faulty variants of the
definition below them; they are used only to show that the properties notice.

### Abstractions

* fork's allocations take any slot that is not live, with one restriction that
  first fit implies: no slot above a hole that still holds a whole freed
  task_struct. Any stale slot may be overwritten by the other allocations of
  fork and exec. This over-approximates `kmalloc`.
* A scan of the sibling list that runs into a cycle of stale slots would never
  end; the model then has no successor for that choice (`Scan` yields the empty
  set). Within the bounds of `kernel_any` TLC
  meets no such cycle: the set is never empty.
* exec of a missing file panics; whether the file exists is a free choice for a
  line typed at the prompt, and `/sh` exists. Loading is not modelled further.
  A command exits: that a shell runs another `/sh` or `/init` is not modelled.
* In `Kernel` user programs follow their source, as if their registers survived;
  whether they do is the subject of `Context`.
* `kcalloc` is `kmalloc` followed by a memset inside the bytes handed out.
* Kernel stacks and address spaces are not part of `Sched`'s state; in `Vmm`, in
  turn, any task but init and the running one may be reaped at any time.
* In `Vmm` the four hand-written levels of the tables are one operator over
  `LEVELS`, addresses are page numbers, and the contents of a page are one value.
  The page allocator gives the lowest free frame and the model stops when there
  is none (what the code does then is in `Pmm`). A regular area is in one list
  only, so its reference count, always 1, is left out. The segments of a program
  share no page. The program, its stack and the kernel's areas lie, as in the
  kernel, under different entries of the top table (`LayoutAssumption`).
* In `Context` the kernel is entered with a different value in every register
  (`Entered`): since it copies registers without looking at them, this is the case
  that tells most. C functions keep the callee-saved registers and spoil the
  others; their own frames are left out, so depths are lower bounds (and
  `stack_creep` finds a minimum). Popped words are forgotten. Which task runs next
  and who is woken is a free choice (`Kernel` says which), and a woken call
  completes without sleeping again. `MaxDepth` cuts a program off that is
  preempted again and again without a system call, except in `stack_creep`.
* In `Files` a task may make any call. After a `misused` step (a fork with an open
  file, or closing a shared one) tasks go on using, closing and reaping, but open
  and fork nothing more (`AliveAndCareful`): no property speaks of such programs.
  Descriptors outside the table are not passed.
* In the ext2 modules a disk is what `mke2fs` writes, below 2 GiB (no offset
  overflows), with unwritten blocks only at the end of a file, and directories of
  one block. A block is a few cells, a read offset stands for the bytes there;
  what a wild pointer reads is one value, `FOREIGN` or `WILD`. A component looked
  up in a file's data yields `NODIR` in the code's walk and in the reference.
  A listing that leaves the buffer of `/ls` stops the model (`overrun`). The
  numbers of data and pointer blocks are left out, so `reads` does not hold the
  reads of whole blocks; `BlocksCorrect` is about them. Allocation is left out.
* In `Vgaterm` the memory behind the screen is blank at the start, and no space is
  written: it would be the same as a blank cell.
* In `Pmm` at most two map entries are used (`MAX_REGIONS` is never reached) and
  owners do not write to a page-0 "allocation" they got from a failed call.

## Runs

| Run | Question | Bounds |
|---|---|---|
| `kernel_any` | Do ring, run queue, sleepers, slices and pids stay consistent whatever the programs do? Does the ring implement a queue? | 4 slots (current, a sleeper, a zombie and a freed slot at once), 3 forks, slices of 1 tick, a buffer of 1: every panic is reached |
| `shell` | Do `/init` and `/sh` work for ever: no panic the user did not cause, each command reaped, each reader resumed? | 3 slots (init, shell, one command; the slot of a reaped command is reused, as first fit does), 4 forks, so several rounds of the shell |
| `lost_child` | violation of the sibling list's comment | 3 slots |
| `kmalloc` | Does the heap stay tiled and unfragmented, and do allocations stay apart? | header 2, initial heap 14, limit 24 bytes, requests of 0, 1, 2, 3 and 5: exact fits, remainders below, at and above one header, growth and exhaustion all occur |
| `pmm` | Are the bitmaps exact, pages given once, the kernel spared? | pages of 2 bytes, 2 bits per byte, kernel at 4..6 (ends inside a page); 229 maps of two entries around it, among them a region with a two-page bitmap, unaligned entries and unusable ones |
| `vmm` | Does each program keep its own memory, with exactly its rights, over fork, exec and reaping, and is every frame given back exactly once? | 3 tasks, tables of 3 levels with 3 entries, 47 frames: three tasks fit, an exec beside two others fits, and both fork and exec also run out; a segment across two tables, two segments in one, pages not in the file |
| `context` | Does every program find its registers, nobody else's, and a balanced stack, however it comes back to user mode? | 3 tasks (one running, one preempted or asleep, one zombie or fresh), vector 0 and those of both interrupt controllers (32 to 47), two contents for the registers, one nested depth of preemption |
| `isr_pops` | violation of the order in `struct isr_ctx` | as `context`, 2 tasks |
| `stack_creep` | violation of the stack's extent | 2 tasks, the real stack of 1024 words |
| `ext2` | Which inodes, names and blocks are found and read right, is the program named loaded with its contents, and does a listing end? | one part of the disk varies at a time. Groups: 15 to 49 blocks in groups of 16 (below, at and above a whole group), blocks of 1024 and 2048 bytes, the file at every inode number. Names: a root with up to two entries and a subdirectory, 4 names that begin one another, in use or deleted, 3 bytes that may follow a name; directories that fit the buffer of `/ls` with and without the last NUL, and that do not; paths of up to two components. Files: 2 direct blocks, 3 pointers and 2 cells to a block, sizes 0 to 82 cells (every block that the single, double and triple indirect pointers reach), up to 24 cells with a hole at the end from any block on |
| `files` | Are descriptors sound and counts exact? | 3 tasks, 3 files of which 2 are the terminal's, 3 descriptors; regular files, directories, FIFOs and missing paths: full tables, a reused file slot and every panic occur |
| `vgaterm` | Does the screen show the last lines? | 3 by 3 cells, 2 characters: wrapped lines, scrolling over old text, a line that fills the last row and clearing all occur |

Deadlock is checked in the runs of `Kernel`, `Kmalloc`, `Pmm`, `Vmm` and
`Vgaterm`. It is off in those of `Context`, `Files` and the ext2 modules, where a
panic stops the machine or the operation that is modelled comes to its end.

**Fairness.** In `shell`: The timer interrupt is weakly fair: the hardware
keeps ticking. A resumed call in the kernel is weakly fair: with interrupts off
nothing else runs. Each task's system calls are strongly fair: a program that
gets the CPU again and again reaches its next call, because its progress
accumulates over its slices. Nothing is assumed about the keyboard. In `ext2` the
steps of a call that has begun are weakly fair: inside the kernel interrupts are
off, and `/ls` gets the CPU again and again.

**Findings.** Three violation runs refute what the source says of itself:

* `lost_child`: the sibling list forgets all but the newest child. The shipped
  shell has one child at a time and does not meet this.
* `isr_pops`: `isr_common` pops in the order in which it pushed, so an interrupt
  exchanges the program's scratch registers.
* `stack_creep`: a program that is preempted without making system calls, as
  `/init` is, goes down its kernel stack and out of it.

Other defects are the exact exceptions in properties that hold:

* the kernel panics when the last runnable task sleeps (`SwitchPanicOnlyWhenIdle`);
* a memory map entry that spans the kernel's image is used with the kernel in it
  (`KernelSpared`); an exhausted page allocator returns and zeroes page 0, the
  bitmap of a region that starts there (`NeverTwice` holds until then);
* a system call returns with `rbp` 0 (excepted in `RegistersKept`);
* the last inode of each group, a last group that is not whole, and every inode
  of a file system with larger blocks are not found (`InodeFound`);
* blocks just behind each indirect level are looked up wrongly, and a file with a
  hole at its end may stop the kernel (`ReadExact`);
* a component is found when an entry's name begins it, so `..` is `.`
  (`NameiExactUnlessShadowed`); a deleted entry stops a listing for ever, and one
  longer than the buffer is written behind it (`ListingEnds`);
* a line that fills the last row goes on at the top without scrolling, and what is
  written from then until the next clear is out of order (`ImplementsScreen`);
* files that were opened count from 0, are freed by any close and never by an exit
  (`RefcntExact`, `DescriptorsSound`). `do_open` tests single bits of the mode, so
  symbolic links and sockets pass for regular files (operator `ops`).

## Proofs

All proofs are by an inductive invariant, one lemma per handler, for arbitrary
constants under the assumptions named in the modules.

* **`KernelProof`** proves the seven safety invariants of `kernel_any`, from
  `SchedAssumption`, `TtyAssumption` and `KernelAssumption`. `IInv` adds three
  facts to them. *StaleIsZombie*: a freed slot holds a zombie until it is
  overwritten, so an exit that looks at a dangling parent does not wake it.
  *ReaderOK*: the terminal's reader is live and running, which makes its wake-up
  an insertion of a task that is off the ring. *PidsBelow*: pids lie below
  `next_pid`. The ring lemmas (`InsertRing`, `RemoveRing`) show that inserting
  and removing a task keeps one ring, stated as: no proper part of the queue is
  closed under `next`.
* **`KmallocProof`** proves the five heap invariants (`TypeOK` and
  `NoFragmentsLeft`, which no run checks, besides the three of `kmalloc`) and the
  refinement `Spec => ImplementsHeap`, from `KmallocAssumption`. The invariant is their
  conjunction: that blocks are tiled is needed to know that a merge is with the
  physical neighbour, that no two free blocks are adjacent is needed for one
  merge on each side to be enough, and that sizes cover the requests is what the
  refinement uses.
* The second part of **`KernelProof`** proves the three invariants and the action property of the run
  `shell` that do not depend on fairness, for the programs `/init` and `/sh`
  (`FirstProgram = "init_fork"`) and any number of slots, forks, ticks and
  characters. They fail for arbitrary programs (run `lost_child`), so `IInv` is
  not enough: `ShellInv` describes the three programs and their family. *InitRuns*:
  init is on the ring for ever, so a task that sleeps has somebody to switch to.
  *ShellOK*: where the shell sleeps follows from its place in its program, and only
  it can be the terminal's reader. *CommandOK*: while the shell is to wait or
  waits, its newest child is its one command, live, and all other slots are free;
  a command that has exited has woken the shell. *SiblingOK*: behind the newest
  child the list ends, or goes on through overwritten memory. So the loop of
  `do_wait` (`Scan`) frees the command or nothing. `OnlyUserErrorsHalt` is a
  theorem for three slots, the bound of the run and what first fit gives the
  shell: with fewer fork finds no memory, and with more the slot of a reaped
  command may be overwritten while `children` still leads to it. `HaltsBounded`
  states exactly that.
* **`FilesProof`** proves `DescriptorsSound` and `RefcntExact` from
  `FilesAssumption`. The counts need the finite-set lemmas on cardinality (a fork
  adds the child's descriptors to the holders, an exit takes them away), and two
  further facts: no task that is free has a descriptor (*NoDescriptors*), and a
  file other than the terminal's has one holder (*OwnFiles*).
* **`PmmProof`** proves `BitmapExact`, `NeverTwice` and `KernelSpared` from
  `PmmAssumption`: the usable entries of the memory map do not overlap, the one at
  address 0 has at least a page, and the kernel's image at least a page. `Layout`
  (regions do not overlap, whatever was cut off for the kernel) follows from the
  map alone; `OwnedPages` (an owned address is a page of a region, behind its
  bitmap, and not 0) is what makes a free clear the one bit it should.
* **`VmmProof`** proves all five invariants of `vmm` for any depth and width of the
  page tables, any number of frames and tasks, any areas and any programs, from
  `VmmAssumption` and `LayoutAssumption`. The second says what the headers and the
  linker see to: areas do not overlap, and those under one entry of the top table
  have the same flags. It cannot be dropped: the flags of a table are those of the
  first page mapped through it, so `RightsExact` fails for a layout without it.
  The argument looks at memory as a forest. A node is a place in an address space:
  the space, a level, and the part of an address that leads there. `Tree` says that
  memory is a forest `N` of such nodes: with a node there is its parent (*Shape*);
  every frame handed out is the frame of exactly one node, or pending, that is, not
  yet or no longer in a table (*Ledger*); the present entries of the tables are
  exactly the nodes (*Tables*); and pages hold what they should (*Contents*).
  `Good` keeps of this the mapped pages alone and adds that each table is needed by
  one of them, which is what `vmm_unmap_page` must restore. `MapPage` and
  `UnmapPage` are the two lemmas on which all others rest; they follow the walk
  down (`Descended`) and up (`Climbed`) level by level. `MmInit`, `MmDupe` and
  `ExecElf` build a new space beside the others, page by page and area by area
  (`Build`, `NewSpace`), until frames run out; `MmFree` takes one apart (`Torn`).
  `VmmInv` then says that memory is divided into the kernel's tables and one space
  per live task (`Forest`), that each kernel area counts the live tasks, and that
  the tables of the current task are loaded. The counts are needed for `mm_free`
  never to reach the last reference to a static area, the loaded tables for no free
  to hit CR3. `LoopExists` shows once that the functions for the loops are what
  their recursion says.
* **`VgatermProof`** proves the refinement of `Screen` for every width and height
  and any characters. `ScreenInv` has two parts. *DrawnInv*, always: the pointer is
  on the screen and the row behind the screen is blank. It is needed because
  `vgaterm_scroll` moves that row into sight; without it a new line could show old
  text. *WrittenInv*, until a line fills the last row: each row down to the
  pointer is a line followed by blanks or full, the last one ends at the pointer,
  and all rows below it are blank. `vgaterm_clear` restores the second from the
  first, so the refinement holds again.
* **`ContextProof`** proves `RegistersKept`, `NoForeignRegisters`, `StackBalanced`
  and `NoneInService` for any number of tasks and, `MaxDepth` being any number,
  for stacks that preemptions have pushed down to any depth. `ContextInv` says
  what lies on the stack of a task that is alive and has not got the CPU, word by
  word: `IsrFrame` (it was preempted), `SyscallFrame` (it sleeps in a call whose
  result is still to be stored) or `ForkFrame` (it has not run yet). The words of
  a frame are those of `want`, so `ResumeOK`, the lemma that every frame is popped
  into the registers the task must find, gives the properties. The proof is built
  on lemmas about the stack machine (`PushOK`, `DropOK`, `PushRegsOK`,
  `PopRegsOK`, `CallOK`) that name the words an operation leaves at each depth.
  `IsrFrame` holds the registers that isr_common pops in the wrong order in the
  order it pushed them; that their contents are mixed up is why `Given` promises
  of the scratch registers only that they are the task's own.
* **`Ext2Proof`** proves the five invariants of `ext2`, and `BlocksCorrect`. `InodeFound`, `CopiesInside` and
  `ReadExact` hold for every
  number of blocks, groups and inodes, every number of direct blocks and of pointers
  in a block, and files of any size that the pointers reach, from `Ext2Assumption`,
  `DiskAssumption` (both say what `mke2fs` writes) and `FileAssumption`. Most of it
  is arithmetic. `PlaceSame`: no two inodes share a place, because a group's inode
  table lies within the group; so a read brings an inode if, and only if, it is made
  where that inode is (`InodeAtOK`), and what `ext2_get_inode` computes can be
  compared with it (`InodeReadOK`). `OffsetsExact`: the offsets of a block are the
  path to a block of the file if, and only if, it is that block and not one of the
  misplaced, over all four levels. `WholeSectors` and `PartOfSector`: the two kinds
  of reads that need no more sectors than `ata_read_bytes` counts; the first also
  gives `BlocksCorrect`, for the whole blocks that the model does not note one by
  one. `BlocksCounted`:
  a file without holes has at least as many sectors as blocks, so the test of
  `ext2_get_block` passes. `Ext2Inv` is the properties with the state of a read
  between two blocks (`ReadOK`: what lies in the buffer before block `i`) and the
  fact that outside of errors `ino` is a number of an entry (`InoOK`).
  `NameiExactUnlessShadowed` and `TypedCommandFound` compare `ext2_namei` with a
  recursive reference, `RefWalk`. They are proved for any directory tree and any
  path from `NamesAssumption` (names hold no NUL, a directory holds no name twice).
  `WalkInv`: as long as no component was shadowed and every inode was found, the
  code stands in the directory where the reference stands after as many components,
  and has failed exactly where the reference has. `MatchExact` is the heart of it:
  the entry that `strncmp` over the entry's length accepts is the one of the given
  name unless an earlier entry's name is a strict prefix. What a recursive function
  computes is obtained without an induction rule: `WalkExists` derives a
  contradiction from the least argument where the recursion would fail.

These invariants were first checked by TLC on the instances of the runs
(`ShellInv` with 1 to 5 slots). The exception is `VmmInv`: it says that there is a
forest, which TLC cannot enumerate; TLC checks the five properties that follow.

Only model-checked: the liveness properties of `shell` and `ext2` (fairness is
out of the prover's reach) and the refinement of `RunQueue` (its mapping follows
the ring with a recursive function).

## Plan

1. `Vmm` with programs whose segments share a page, and with the four fixed-width
   index fields of an address in place of a page number.
2. A terminal that stores its characters, and wait statuses other than 0.

## Not modelled

Boot code and descriptor tables run once, before the first task, and are the
models' initial states. Port I/O (`wait_ready`, the keyboard controller's set-up)
has no state beyond the hardware's. `printf` is third-party code that only
formats. `ext2_ls`, `ata_write`, `ata_write_bytes`, `strcpy` and `strcmp` have no
caller. The screen's colours change no position. The headers `elf.h` and
`multiboot2.h` are declarations of external formats, of which `Vmm` and `Pmm` use
the fields the code uses.
