------------------------------ MODULE Ext2Disk ------------------------------
(***************************************************************************)
(* Finding things on the disk: ext2_mount_rootfs, ext2_get_inode and       *)
(* read_blk of fs/ext2.c over ata_read_bytes of drivers/ata.c.             *)
(*                                                                         *)
(* The disk is what mke2fs makes: block groups with an inode table each,   *)
(* the group descriptors in the block behind the superblock's.  A read is  *)
(* [off, len], in bytes, as the driver is given it; reading an inode tells *)
(* which one it is, 0 when the bytes are no inode.                         *)
(***************************************************************************)
EXTENDS Integers, FiniteSets

SECTOR_SIZE    == 512
SB_START_BYTES == 1024

\* The sizes of struct ext2_ino, ext2_sb and ext2_bgd
InodeSize == 128
SbSize    == 264
BgdSize   == 32

WILD == -1           \* a block number, or an offset made of one, that was read
                     \* from somewhere else

VARIABLES
    op,      \* what the file system is doing; "unmounted" at first
    sb,      \* the superblock
    rooti,   \* the inode that became fs->rooti
    got,     \* the inode that the last ext2_get_inode read
    reads    \* the reads of the last step

diskRest == <<sb, rooti, got, reads>>
diskVars == <<op, diskRest>>

block_size == 1024 * 2^sb.log_block_size

----------------------------------------------------------------------------
\* The disk.
FirstDataBlock == IF block_size = 1024 THEN 1 ELSE 0
Groups         == 0 .. (sb.blocks - FirstDataBlock - 1) \div sb.blocks_per_group
BgdtBlock      == FirstDataBlock + 1
InodeTable(g)  == FirstDataBlock + g * sb.blocks_per_group + 4
Inodes         == 1 .. sb.inodes_per_group * Cardinality(Groups)

\* The place of an inode: groups and the entries of a table count from 0.
PlaceOf(n) ==
    InodeTable((n - 1) \div sb.inodes_per_group) * block_size
        + ((n - 1) % sb.inodes_per_group) * InodeSize

InodeAt(off) ==
    IF \E n \in Inodes : PlaceOf(n) = off
    THEN CHOOSE n \in Inodes : PlaceOf(n) = off ELSE 0

----------------------------------------------------------------------------
\* drivers/ata.c

\* Mutant: the last sector that is needed only in part is not counted.
sectors_rounded_down(len) == len \div SECTOR_SIZE

nsectors(len) == (len + SECTOR_SIZE - 1) \div SECTOR_SIZE

\* ata_read has one byte for the number of sectors.
ata_read(n) == n % 256

\* ata_read_bytes copies len bytes from the offset in the first sector on.
ata_read_bytes(r) ==
    [copied |-> (r.off % SECTOR_SIZE) + r.len,
     filled |-> ata_read(nsectors(r.len)) * SECTOR_SIZE]

----------------------------------------------------------------------------
\* fs/ext2.c

Offset(boff, bytes) == IF boff = WILD THEN WILD ELSE boff * block_size + bytes

read_blk(boff, len) == [off |-> Offset(boff, 0), len |-> len]

bgdt_elems == sb.blocks \div sb.blocks_per_group

\* bgdt[g], of a table read from block 2
bgdt(g) == IF g < bgdt_elems /\ BgdtBlock = 2 THEN InodeTable(g) ELSE WILD

\* Mutant: the entry of an inode is counted from 1.
get_inode_from_one(n) ==
    [off |-> Offset(bgdt(n \div sb.inodes_per_group),
                    (n % sb.inodes_per_group) * InodeSize),
     len |-> InodeSize]

\* The read that ext2_get_inode makes
ext2_get_inode(n) ==
    [off |-> Offset(bgdt(n \div sb.inodes_per_group),
                    ((n % sb.inodes_per_group) - 1) * InodeSize),
     len |-> InodeSize]

\* The inode that it brings
InodeRead(n) == InodeAt(ext2_get_inode(n).off)

\* r_inodes[1] of the eleven reserved inodes
root_inode == InodeAt(Offset(bgdt(0), InodeSize))

\* Offsets of garbage say nothing of the driver.
Known(rs) == {r \in rs : r.off # WILD}

ext2_mount_rootfs ==
    /\ op = "unmounted"
    /\ op' = "idle"
    /\ rooti' = root_inode
    /\ reads' = Known({[off |-> SB_START_BYTES, len |-> SbSize],
                       read_blk(2, bgdt_elems * BgdSize),
                       read_blk(bgdt(0), 11 * InodeSize)})
    /\ UNCHANGED <<sb, got>>

GetInode(n) ==
    /\ got' = InodeRead(n)
    /\ reads' = Known({ext2_get_inode(n)})
    /\ UNCHANGED <<sb, rooti>>

DiskInit(s) ==
    /\ op = "unmounted"
    /\ sb = s
    /\ rooti = 0
    /\ got = 0
    /\ reads = {}
====
