-------------------------------- MODULE Ext2 --------------------------------
(***************************************************************************)
(* The file system as its callers use it: the kernel mounts it, exec_elf   *)
(* (fs/exec.c) looks a path up and reads the file, and /ls opens "/" and   *)
(* lists it.  Each of these calls runs with interrupts disabled, so one is *)
(* under way at a time; a run of the model is a mount and one call.        *)
(***************************************************************************)
EXTENDS Ext2Dir

CONSTANTS
    Disks,   \* bound: the file systems [sb, dir, file, size, hole]
    Paths    \* bound: the paths that are executed

ASSUME Ext2Assumption ==
    \A d \in Disks :
        /\ d.size \in Nat
        /\ {d.sb.blocks, d.sb.blocks_per_group} \subseteq Nat \ {0}
        /\ d.sb.inodes_per_group \in Nat \ {0, 1}
        /\ EXT2_ROOT_INO \in DOMAIN d.dir /\ d.file \notin DOMAIN d.dir

\* Names and paths are C strings, and no two entries of a directory that are in
\* use have the same name.
ASSUME NamesAssumption ==
    /\ Paths \subseteq Seq(Seq(Nat \ {NUL}))
    /\ \A d \in Disks : \A n \in DOMAIN d.dir :
          /\ d.dir[n] \in Seq([inode : Nat, name : Seq(Nat \ {NUL}), behind : Nat])
          /\ \A j, k \in DOMAIN d.dir[n] :
                /\ d.dir[n][j].inode # 0 /\ d.dir[n][k].inode # 0
                /\ d.dir[n][j].name = d.dir[n][k].name
                => j = k

\* What mke2fs sees to: blocks of 1, 2 or 4 KiB, the inode table of a group
\* within its blocks, and no file with more blocks than its pointers reach.  The
\* disk is below 2 GiB, so no offset wraps, and has no more groups than there are
\* descriptors in the 255 sectors that ata_read can count.
ASSUME DiskAssumption ==
    \A d \in Disks :
        /\ d.sb.log_block_size \in 0 .. 2
        /\ 4 * (1024 * 2^d.sb.log_block_size) + d.sb.inodes_per_group * InodeSize
              <= d.sb.blocks_per_group * (1024 * 2^d.sb.log_block_size)
        /\ d.sb.blocks * 2^d.sb.log_block_size < 2^21
        /\ d.sb.blocks <= 4080 * d.sb.blocks_per_group
        /\ d.size <= (NDIR + PTRS + DoubleBlocks + DoubleBlocks * PTRS) * CELLS

vars == <<diskVars, fileVars, dirVars>>

Mount == ext2_mount_rootfs /\ UNCHANGED <<fileVars, dirVars>>

exec_elf(p) == Namei(p, "namei_exec")

Walk == NameiStep \/ NameiReturn

\* The file is read once its number is known; the path is no longer needed.
ReadFile ==
    /\ op = "exec"
    /\ ext2_read_file(ino)
    /\ path' = <<>> /\ comp_start' = 1
    /\ UNCHANGED <<dir, ino, listVars>>

ReadStep == (GetBlock \/ Finish) /\ UNCHANGED dirVars

\* /ls opens "/", a path without components.
OpenRoot == Namei(<<>>, "namei_open")

ListStep == GetdentsStep \/ GetdentsReturn \/ LsStep

Init ==
    \E d \in Disks : DiskInit(d.sb) /\ FileInit(d.file, d.size, d.hole) /\ DirInit(d.dir)

Next ==
    \/ Mount
    \/ \E p \in Paths : exec_elf(p)
    \/ Walk \/ ReadFile \/ ReadStep
    \/ OpenRoot \/ Getdents \/ ListStep

\* A call that was begun is carried on (interrupts are off), and ls runs
\* whenever the scheduler gives it the CPU.
Spec == /\ Init /\ [][Next]_vars
        /\ WF_vars(Walk \/ ReadFile \/ ReadStep) /\ WF_vars(Getdents \/ ListStep)

----------------------------------------------------------------------------
\* The descriptors are read: they are in block 2 only when blocks have 1024
\* bytes, and their number is rounded down.
Loaded(g) == block_size = 1024 /\ g < bgdt_elems

\* ext2_get_inode brings this inode: it is not the last of its group.
Findable(n) ==
    n % sb.inodes_per_group # 0 /\ Loaded(n \div sb.inodes_per_group)

\* The entries of a directory that are in use
InUse(n) == SelectSeq(dir[n], LAMBDA e : e.inode # 0)

\* What ext2_getdents needs of the buffer to list a directory
ListingSize(n) == MapThenSumSet(LAMBDA j : rec_len(InUse(n)[j]), DOMAIN InUse(n))

\* One component of a walk through a tree that compares names as they are: the
\* first entry in use that has the name
Named(tree, n, c) == {j \in DOMAIN tree[n] : tree[n][j].inode # 0 /\ tree[n][j].name = c}

RefLookup(tree, n, c) ==
    IF n = PANIC THEN PANIC
    ELSE IF n \notin DOMAIN tree THEN NODIR
    ELSE IF Named(tree, n, c) = {} THEN PANIC
    ELSE tree[n][Min(Named(tree, n, c))].inode

\* The inode such a walk is at after each number of components
RefWalk(tree, p) ==
    LET at[k \in 0 .. Len(p)] ==
            IF k = 0 THEN EXT2_ROOT_INO ELSE RefLookup(tree, at[k - 1], p[k])
    IN  at

RefNamei(p) == RefWalk(dir, p)[Len(p)]

\* A directory has an entry in use whose name begins the component.
ShadowedIn(n, c) ==
    n \in DOMAIN dir /\ \E j \in DOMAIN dir[n] :
        dir[n][j].inode # 0 /\ IsStrictPrefix(dir[n][j].name, c)

\* So has some directory of the walk.
Shadowed(p) == \E k \in DOMAIN p : ShadowedIn(RefWalk(dir, p)[k - 1], p[k])

\* The inodes of all directories on the way are found.
Walkable(p) ==
    /\ Loaded(0)
    /\ \A k \in 1 .. Len(p) - 1 : RefWalk(dir, p)[k] > 0 => Findable(RefWalk(dir, p)[k])

\* The blocks the offsets are wrong for: as many as there are direct blocks
\* behind the first indirect block, as many as a block has pointers behind the
\* double indirect block, and those of the triple one from its second pointer.
Misplaced(b) ==
    LET b2 == b - NDIR - PTRS
        b3 == b2 - DoubleBlocks
    IN  b2 \in 0 .. NDIR - 1 \/ b3 \in 0 .. PTRS - 1 \/ b3 >= DoubleBlocks

Expected(p) == IF p >= i_size THEN ZERO ELSE <<p \div CELLS, p % CELLS>>

----------------------------------------------------------------------------
\* ext2_get_inode reads the inode it is asked for unless that is the last of
\* its group (the division puts it into the next one) or its group is the last
\* and not whole (bgdt_elems is rounded down); and mounting finds the root
\* directory, inode 2, when there is at least one whole group of 1024-byte
\* blocks, and only then (the descriptors are read from block 2).
InodeFound ==
    /\ op # "unmounted" => (rooti = EXT2_ROOT_INO <=> Loaded(0))
    /\ (comp_start > 1 \/ got # 0 \/ op = "garbage") /\ ino \in Inodes =>
            (got = ino <=> Findable(ino))

\* Although ata_read_bytes leaves the offset in the sector out of its count of
\* sectors, no read of the file system copies from behind its buffer: blocks
\* begin with a sector and no inode lies in two sectors.
CopiesInside ==
    \A r \in reads : ata_read_bytes(r).copied <= ata_read_bytes(r).filled

\* A file without holes never stops the kernel.  What ext2_read_file returns is
\* the file, block for block and with zeroes behind its end, but for the blocks
\* that were not written and the misplaced ones: the tests of ext2_block_offsets
\* take the direct blocks off twice, and so for the other levels.  Even these
\* never show what the heap held before (kmalloc does not clear it).
ReadExact ==
    /\ hole = {} /\ op = "panic" => ino = PANIC
    /\ op = "read" => \A p \in DOMAIN buf :
            /\ buf[p] # UNSET
            /\ buf[p] = Expected(p) <=>
                    p >= i_size \/ ~(Misplaced(p \div CELLS) \/ p \div CELLS \in hole)

\* ext2_namei finds what the path names, and panics when there is nothing of
\* that name, unless a directory on the way has an entry whose name begins the
\* component: strncmp takes that for the component (".." finds "." before it).
NameiExactUnlessShadowed ==
    op = "exec" \/ ino = PANIC =>
        (Walkable(path) /\ ~Shadowed(path) => ino = RefNamei(path))

\* The shell hands the line to exec with the newline that ended it.  That runs
\* the program because the comparison ends with the entry's name, whatever
\* stands behind it on the disk, and unless a shorter name, or one that has the
\* newline in it, is in the directory as well.
TypedCommandFound ==
    (op = "exec" \/ ino = PANIC) /\ Loaded(0) /\ Len(path) = 1 =>
        \A j \in DOMAIN dir[EXT2_ROOT_INO] :
            LET e == dir[EXT2_ROOT_INO][j]
            IN  /\ e.inode # 0 /\ path[1] = Append(e.name, NL)
                /\ ~ShadowedIn(EXT2_ROOT_INO, e.name)
                /\ Named(dir, EXT2_ROOT_INO, path[1]) = {}
                => ino = e.inode

\* A listing ends with the names of the entries written in the order of the
\* directory: the NUL that strlcpy leaves out and rec_len counts is there because
\* ls has cleared the buffer.  But a listing that meets an unused entry never
\* gets past it, and one that is larger than the buffer, and no other, leaves it:
\* ext2_getdents does not look at the length it is given.
ListingEnds ==
    op = "getdents" ~>
        \/ /\ op = "listed"
           /\ written = [j \in DOMAIN InUse(EXT2_ROOT_INO) |->
                            InUse(EXT2_ROOT_INO)[j].name]
        \/ op = "getdents" /\ doff \in DOMAIN Listed /\ Listed[doff].inode = 0
        \/ op = "overrun" /\ ListingSize(EXT2_ROOT_INO) > BufLen

\* From name to contents: exec of the name of a program without holes that fits
\* the direct and the first indirect block ends with exactly its contents in the
\* buffer, if the inodes on the way are findable and no shorter name precedes.
ProgramLoaded ==
    (op = "namei_exec" /\ comp_start = 1 /\ ~Shadowed(path) /\ Walkable(path) /\ Findable(file)
        /\ RefNamei(path) = file /\ hole = {} /\ nblk <= NDIR + PTRS)
    ~> (op = "read" /\ \A p \in DOMAIN buf : buf[p] = Expected(p))
====
