------------------------------ MODULE Ext2File ------------------------------
(***************************************************************************)
(* Reading a file: ext2_read_file, ext2_get_blocks, ext2_get_block and     *)
(* ext2_block_offsets of fs/ext2.c.                                        *)
(*                                                                         *)
(* The disk holds one file, as inode `file'.  A block of it is known by    *)
(* the number it has in the file; the pointer blocks are known by the      *)
(* paths that lead to them, so a list of offsets names at most one block   *)
(* (PathTo).  A pointer that is not set is 0, and a block pointer of 0     *)
(* reads the boot block. A buffer is a map from positions to cells, CELLS  *)
(* of them to a block.                                                     *)
(***************************************************************************)
EXTENDS Ext2Disk, Sequences

CONSTANTS
    NDIR,     \* EXT2_NDIR_BLK
    PTRS,     \* pointers in a block
    CELLS,    \* bound: cells in a block (block_size)
    SECTORS   \* sectors in a block, the unit of i_blocks

ASSUME FileAssumption ==
    /\ NDIR \in Nat /\ PTRS \in Nat \ {0}
    /\ CELLS \in Nat \ {0} /\ SECTORS \in Nat \ {0}

VARIABLES
    file,     \* the number of its inode
    i_size,   \* size of the file
    hole,     \* blocks of the file that were never written
    buf,      \* what ext2_read_file has in its buffer
    i         \* the block ext2_get_blocks is at

fileVars == <<file, i_size, hole, buf, i>>

\* DIV_CEIL(i_size, block_size)
nblk == (i_size + CELLS - 1) \div CELLS

DoubleBlocks == PTRS * PTRS
TripleBlocks == DoubleBlocks * DoubleBlocks

\* Mutant: the direct blocks are not taken off.
offsets_not_rebased(blk) ==
    IF blk < NDIR THEN <<blk>> ELSE <<NDIR, blk>>

\* The direct blocks are subtracted from blk before the test for an indirect
\* block, and in the test again; so for the other levels.
ext2_block_offsets(blk) ==
    LET b1 == blk - NDIR
        b2 == b1 - PTRS
        b3 == b2 - DoubleBlocks
    IN  IF blk < NDIR THEN <<blk>>
        ELSE IF b1 - NDIR < PTRS THEN <<NDIR, b1>>
        ELSE IF b2 - PTRS < DoubleBlocks
             THEN <<NDIR + 1, b2 \div PTRS, b2 % PTRS>>
        ELSE IF b3 - DoubleBlocks < TripleBlocks
             THEN <<NDIR + 2, b3 \div DoubleBlocks, b3 \div PTRS, b3 % PTRS>>
        ELSE <<>>

\* Where block blk of a file is, as mke2fs and Linux lay it out
PathTo(blk) ==
    LET b1 == blk - NDIR
        b2 == b1 - PTRS
        b3 == b2 - DoubleBlocks
    IN  CASE b1 < 0 -> <<blk>>
          [] b1 >= 0 /\ b2 < 0 -> <<NDIR, b1>>
          [] b2 >= 0 /\ b3 < 0 -> <<NDIR + 1, b2 \div PTRS, b2 % PTRS>>
          [] OTHER -> <<NDIR + 2, b3 \div DoubleBlocks,
                        (b3 \div PTRS) % PTRS, b3 % PTRS>>

Written == (0 .. nblk - 1) \ hole

\* i_blocks counts the sectors of the data and pointer blocks that are there.
PointerBlocks ==
    UNION {{SubSeq(PathTo(b), 1, n) : n \in 1 .. Len(PathTo(b)) - 1} : b \in Written}

i_blocks == SECTORS * (Cardinality(Written) + Cardinality(PointerBlocks))

----------------------------------------------------------------------------
\* Cells: <<block, cell>> of the file, and what is not of the file
ZERO  == <<-1, 0>>
SLACK == <<-2, 0>>   \* behind the end of the file, in its last block
FOREIGN == <<-3, 0>> \* of another block, or of whatever a wild pointer names
UNSET == <<-4, 0>>   \* as kmalloc returned it

OnDisk(b, c) == IF b * CELLS + c < i_size THEN <<b, c>> ELSE SLACK

\* The offsets are followed; one behind the end of a pointer block picks up a
\* pointer from the memory behind the buffer.
ReadAt(offsets, c) ==
    IF \E b \in Written : PathTo(b) = offsets
    THEN OnDisk(CHOOSE b \in Written : PathTo(b) = offsets, c)
    ELSE FOREIGN

Cells(b) == b * CELLS .. (b + 1) * CELLS - 1

\* Mutant: the block is read to the place of the next one.
get_block_shifted(blk) ==
    [p \in DOMAIN buf |-> IF p \in Cells(blk + 1)
                          THEN ReadAt(ext2_block_offsets(blk), p % CELLS) ELSE buf[p]]

ext2_get_block(blk) ==
    [p \in DOMAIN buf |-> IF p \in Cells(blk)
                          THEN ReadAt(ext2_block_offsets(blk), p % CELLS) ELSE buf[p]]

\* The beginning of ext2_read_file.  When the inode is not the file's, what is
\* read has nothing to do with it, and the model stops.
ext2_read_file(n) ==
    /\ GetInode(n)
    /\ op' = IF got' = file THEN "reading" ELSE "garbage"
    /\ buf' = [p \in 0 .. nblk * CELLS - 1 |-> UNSET]
    /\ i' = 0
    /\ UNCHANGED <<file, i_size, hole>>

\* One turn of ext2_get_blocks; ext2_get_block and ext2_block_offsets panic.
GetBlock ==
    /\ op = "reading" /\ i < nblk
    /\ IF i > i_blocks \/ ext2_block_offsets(i) = <<>>
       THEN op' = "panic" /\ UNCHANGED <<buf, i>>
       ELSE buf' = ext2_get_block(i) /\ i' = i + 1 /\ UNCHANGED op
    /\ UNCHANGED <<diskRest, file, i_size, hole>>

\* The end of ext2_read_file: what the last block has behind the file is zeroed.
Finish ==
    /\ op = "reading" /\ i >= nblk
    /\ buf' = [p \in DOMAIN buf |-> IF p >= i_size THEN ZERO ELSE buf[p]]
    /\ op' = "read"
    /\ UNCHANGED <<diskRest, file, i_size, hole, i>>

\* A file of a size, written up to some block and extended from there
FileInit(n, size, unwritten) ==
    /\ file = n
    /\ i_size = size
    /\ hole = unwritten
    /\ buf = <<>>
    /\ i = 0
====
