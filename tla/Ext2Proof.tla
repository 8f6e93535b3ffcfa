----------------------------- MODULE Ext2Proof -----------------------------
(***************************************************************************)
(* Proofs about Ext2, for every disk geometry, number of direct blocks and *)
(* of pointers in a block, any size of the file, any tree and any path.    *)
(***************************************************************************)
EXTENDS Ext2, FiniteSetTheorems, WellFoundedInduction, TLAPS

(***************************************************************************)
(* Division.                                                               *)
(***************************************************************************)
\* Quotient and remainder of natural numbers
LEMMA DivMod ==
    ASSUME NEW a \in Nat, NEW b \in Nat \ {0}
    PROVE  a \div b \in Nat /\ a % b \in 0 .. b - 1 /\ a % b = a - b * (a \div b)
<1>1. a \div b \in Nat /\ a % b \in 0 .. b - 1
  OBVIOUS
<1>2. a % b = a - b * (a \div b)
  OBVIOUS
<1> QED BY <1>1, <1>2

\* They are determined by the number.
LEMMA DivIs ==
    ASSUME NEW a \in Nat, NEW b \in Nat \ {0}, NEW q \in Nat, NEW r \in 0 .. b - 1, a = b * q + r
    PROVE  a \div b = q /\ a % b = r
OBVIOUS

\* A number below b * c has a quotient below c, and only such a number.
LEMMA DivBelow ==
    ASSUME NEW a \in Nat, NEW b \in Nat \ {0}, NEW c \in Nat
    PROVE  a \div b < c <=> a < b * c
<1>1. PICK q, r : q = a \div b /\ r = a % b
  OBVIOUS
<1>2. q \in Nat /\ r \in 0 .. b - 1 /\ a = b * q + r
  <2>1. q \in Nat /\ r \in 0 .. b - 1 /\ r = a - b * q
    BY <1>1, DivMod
  <2>2. b * q \in Nat
    BY <2>1
  <2> QED BY <2>1, <2>2
<1>3. b * q \in Nat /\ b * c \in Nat
  BY <1>2
<1>4. CASE q < c
  <2>1. b * q + b <= b * c
    BY <1>2, <1>4
  <2> QED BY <1>1, <1>2, <1>3, <1>4, <2>1
<1>5. CASE c <= q
  <2>1. b * c <= b * q
    BY <1>2, <1>5
  <2> QED BY <1>1, <1>2, <1>3, <1>5, <2>1
<1> QED BY <1>1, <1>2, <1>4, <1>5

\* A number is known by its quotient and remainder.
LEMMA DivSame ==
    ASSUME NEW a \in Nat, NEW c \in Nat, NEW b \in Nat \ {0},
           a \div b = c \div b, a % b = c % b
    PROVE  a = c
<1>1. PICK q, r : q = a \div b /\ r = a % b
  OBVIOUS
<1>2. q \in Nat /\ r = a - b * q /\ r = c - b * q
  BY <1>1, DivMod
<1>3. b * q \in Nat
  BY <1>2
<1> QED BY <1>2, <1>3

\* The remainder of a number below b is the number.
LEMMA ModBelow ==
    ASSUME NEW b \in Nat \ {0}, NEW a \in 0 .. b - 1
    PROVE  a % b = a /\ a \div b = 0
<1>1. a = b * 0 + a
  OBVIOUS
<1> QED BY <1>1, DivIs

(***************************************************************************)
(* The block offsets.                                                      *)
(***************************************************************************)
\* The blocks of the largest file
MaxBlocks == NDIR + PTRS + DoubleBlocks + DoubleBlocks * PTRS

\* The numbers of blocks that the levels of pointers reach
LEMMA Geometry ==
    /\ NDIR \in Nat /\ PTRS \in Nat \ {0} /\ DoubleBlocks \in Nat \ {0}
    /\ TripleBlocks \in Nat /\ PTRS <= DoubleBlocks
    /\ DoubleBlocks * PTRS \in Nat /\ DoubleBlocks * PTRS <= TripleBlocks
    /\ MaxBlocks \in Nat
<1>1. NDIR \in Nat /\ PTRS \in Nat \ {0}
  BY FileAssumption
<1>2. PTRS * PTRS \in Nat /\ PTRS <= PTRS * PTRS
  BY <1>1
<1>3. DoubleBlocks \in Nat \ {0} /\ PTRS <= DoubleBlocks
  BY <1>1, <1>2 DEF DoubleBlocks
<1>4. PICK D : D = DoubleBlocks
  OBVIOUS
<1>5. D * PTRS \in Nat /\ D * D \in Nat /\ D * PTRS <= D * D
  BY <1>1, <1>3, <1>4
<1> QED BY <1>1, <1>3, <1>4, <1>5 DEF TripleBlocks, MaxBlocks

\* What ext2_block_offsets computes, by the level it takes a block for
LEMMA OffsetsAre ==
    ASSUME NEW b \in 0 .. MaxBlocks - 1, NEW b1, NEW b2, NEW b3, NEW o,
           b1 = b - NDIR, b2 = b1 - PTRS, b3 = b2 - DoubleBlocks,
           o = ext2_block_offsets(b)
    PROVE  /\ b < NDIR => o = <<b>>
           /\ b >= NDIR /\ b2 < NDIR => o = <<NDIR, b1>>
           /\ b2 >= NDIR /\ b3 < PTRS => o = <<NDIR + 1, b2 \div PTRS, b2 % PTRS>>
           /\ b2 >= NDIR /\ b3 >= PTRS =>
                 o = <<NDIR + 2, b3 \div DoubleBlocks, b3 \div PTRS, b3 % PTRS>>
<1>1. /\ NDIR \in Nat /\ PTRS \in Nat \ {0} /\ DoubleBlocks \in Nat \ {0}
      /\ TripleBlocks \in Nat
  BY Geometry
<1>2. b3 - DoubleBlocks < TripleBlocks
  <2>1. b < NDIR + PTRS + DoubleBlocks + DoubleBlocks * PTRS
    BY Geometry DEF MaxBlocks
  <2>2. PICK x : x = DoubleBlocks * PTRS
    OBVIOUS
  <2>3. x \in Nat /\ x <= TripleBlocks /\ b < NDIR + PTRS + DoubleBlocks + x
    BY <2>1, <2>2, Geometry
  <2> QED BY <1>1, <2>3
<1>3. b1 - NDIR < PTRS <=> b2 < NDIR
  BY <1>1
<1>4. b2 - PTRS < DoubleBlocks <=> b3 < PTRS
  BY <1>1
<1>5. o = IF b < NDIR THEN <<b>>
          ELSE IF b1 - NDIR < PTRS THEN <<NDIR, b1>>
          ELSE IF b2 - PTRS < DoubleBlocks THEN <<NDIR + 1, b2 \div PTRS, b2 % PTRS>>
          ELSE IF b3 - DoubleBlocks < TripleBlocks
               THEN <<NDIR + 2, b3 \div DoubleBlocks, b3 \div PTRS, b3 % PTRS>>
          ELSE <<>>
  BY DEF ext2_block_offsets
<1>6. CASE b < NDIR
  BY <1>1, <1>5, <1>6
<1>7. CASE b >= NDIR /\ b2 < NDIR
  BY <1>1, <1>3, <1>4, <1>5, <1>7
<1>8. CASE b2 >= NDIR /\ b3 < PTRS
  BY <1>1, <1>3, <1>4, <1>5, <1>8
<1>9. CASE b2 >= NDIR /\ b3 >= PTRS
  BY <1>1, <1>2, <1>3, <1>4, <1>5, <1>9
<1> QED BY <1>1, <1>6, <1>7, <1>8, <1>9

\* Where a block is, by its level
LEMMA PathIs ==
    ASSUME NEW c \in Nat, NEW c1, NEW c2, NEW c3, NEW p,
           c1 = c - NDIR, c2 = c1 - PTRS, c3 = c2 - DoubleBlocks, p = PathTo(c)
    PROVE  /\ c1 < 0 => p = <<c>>
           /\ c1 >= 0 /\ c2 < 0 => p = <<NDIR, c1>>
           /\ c2 >= 0 /\ c3 < 0 => p = <<NDIR + 1, c2 \div PTRS, c2 % PTRS>>
           /\ c3 >= 0 => p = <<NDIR + 2, c3 \div DoubleBlocks, (c3 \div PTRS) % PTRS, c3 % PTRS>>
<1>1. NDIR \in Nat /\ PTRS \in Nat \ {0} /\ DoubleBlocks \in Nat \ {0}
  BY Geometry
<1>2. p = CASE c1 < 0 -> <<c>>
            [] c1 >= 0 /\ c2 < 0 -> <<NDIR, c1>>
            [] c2 >= 0 /\ c3 < 0 -> <<NDIR + 1, c2 \div PTRS, c2 % PTRS>>
            [] OTHER -> <<NDIR + 2, c3 \div DoubleBlocks, (c3 \div PTRS) % PTRS, c3 % PTRS>>
  BY DEF PathTo
<1>3. CASE c1 < 0
  BY <1>1, <1>2, <1>3
<1>4. CASE c1 >= 0 /\ c2 < 0
  BY <1>1, <1>2, <1>4
<1>5. CASE c2 >= 0 /\ c3 < 0
  BY <1>1, <1>2, <1>5
<1>6. CASE c3 >= 0
  BY <1>1, <1>2, <1>6
<1> QED BY <1>1, <1>3, <1>4, <1>5, <1>6

\* The offsets lead to a block of the file if, and only if, it is the right one
\* and not misplaced.
LEMMA OffsetsExact ==
    ASSUME NEW b \in 0 .. MaxBlocks - 1, NEW c \in Nat
    PROVE  ext2_block_offsets(b) = PathTo(c) <=> b = c /\ ~Misplaced(b)
<1>1. PICK P, D, N, b1, b2, b3, c1, c2, c3, o, p :
         /\ P = PTRS /\ D = DoubleBlocks /\ N = NDIR
         /\ b1 = b - N /\ b2 = b1 - P /\ b3 = b2 - D
         /\ c1 = c - N /\ c2 = c1 - P /\ c3 = c2 - D
         /\ o = ext2_block_offsets(b) /\ p = PathTo(c)
  OBVIOUS
<1>2. N \in Nat /\ P \in Nat \ {0} /\ D \in Nat \ {0} /\ P <= D /\ D = P * P
  BY <1>1, Geometry DEF DoubleBlocks
<1>3. /\ b < N => o = <<b>>
      /\ b >= N /\ b2 < N => o = <<N, b1>>
      /\ b2 >= N /\ b3 < P => o = <<N + 1, b2 \div P, b2 % P>>
      /\ b2 >= N /\ b3 >= P => o = <<N + 2, b3 \div D, b3 \div P, b3 % P>>
  <2>1. /\ b1 = b - NDIR /\ b2 = b1 - PTRS /\ b3 = b2 - DoubleBlocks /\ o = ext2_block_offsets(b)
    BY <1>1
  <2> QED BY <1>1, <2>1, OffsetsAre
<1>4. /\ c1 < 0 => p = <<c>>
      /\ c1 >= 0 /\ c2 < 0 => p = <<N, c1>>
      /\ c2 >= 0 /\ c3 < 0 => p = <<N + 1, c2 \div P, c2 % P>>
      /\ c3 >= 0 => p = <<N + 2, c3 \div D, (c3 \div P) % P, c3 % P>>
  <2>1. c1 = c - NDIR /\ c2 = c1 - PTRS /\ c3 = c2 - DoubleBlocks /\ p = PathTo(c)
    BY <1>1
  <2> QED BY <1>1, <2>1, PathIs
<1>5. Misplaced(b) <=> b2 \in 0 .. N - 1 \/ b3 \in 0 .. P - 1 \/ b3 >= D
  BY <1>1 DEF Misplaced
<1>6. PICK bad : bad \in BOOLEAN /\ (bad <=> Misplaced(b))
  BY DEF Misplaced
<1>7. bad <=> b2 \in 0 .. N - 1 \/ b3 \in 0 .. P - 1 \/ b3 >= D
  BY <1>5, <1>6
<1>8. /\ b1 = b - N /\ b2 = b1 - P /\ b3 = b2 - D /\ c1 = c - N /\ c2 = c1 - P /\ c3 = c2 - D
      /\ b \in Nat
  BY <1>1, Geometry
<1>9. o = p <=> b = c /\ ~bad
  <2>1. CASE b < N
    <3>1. o = <<b>> /\ ~bad
      BY <1>2, <1>3, <1>7, <1>8, <2>1
    <3>2. CASE c1 < 0
      BY <1>4, <3>1, <3>2
    <3>3. CASE c1 >= 0
      <4>1. b # c
        BY <1>2, <1>8, <2>1, <3>3
      <4>2. Len(o) = 1 /\ Len(p) # 1
        BY <1>2, <1>4, <1>8, <3>1, <3>3
      <4>3. o # p
        BY <4>2
      <4> QED BY <4>1, <4>3
    <3> QED BY <1>2, <1>8, <3>2, <3>3
  <2>2. CASE b >= N /\ b2 < N
    <3>1. o = <<N, b1>> /\ (bad <=> b2 >= 0)
      BY <1>2, <1>3, <1>7, <1>8, <2>2
    <3>2. CASE c1 >= 0 /\ c2 < 0
      BY <1>2, <1>4, <1>8, <3>1, <3>2
    <3>3. CASE c1 < 0 \/ c2 >= 0
      <4>1. ~(b = c /\ ~bad)
        BY <1>2, <1>8, <2>2, <3>1, <3>3
      <4>2. Len(o) = 2 /\ Len(p) # 2
        BY <1>2, <1>4, <1>8, <3>1, <3>3
      <4> QED BY <4>1, <4>2
    <3> QED BY <1>2, <1>8, <3>2, <3>3
  <2>3. CASE b2 >= N /\ b3 < P
    <3>1. o = <<N + 1, b2 \div P, b2 % P>> /\ (bad <=> b3 >= 0) /\ b2 \in Nat
      BY <1>2, <1>3, <1>7, <1>8, <2>3
    <3>2. CASE c2 >= 0 /\ c3 < 0
      <4>1. p = <<N + 1, c2 \div P, c2 % P>> /\ c2 \in Nat
        BY <1>2, <1>4, <1>8, <3>2
      <4>2. o = p => b2 = c2
        <5>1. o = p => b2 \div P = c2 \div P /\ b2 % P = c2 % P
          BY <3>1, <4>1
        <5> QED BY <1>2, <3>1, <4>1, <5>1, DivSame
      <4>3. b2 = c2 => o = p /\ ~bad
        BY <1>2, <1>8, <3>1, <3>2, <4>1
      <4>4. b2 = c2 <=> b = c
        BY <1>2, <1>8
      <4> QED BY <4>2, <4>3, <4>4
    <3>3. CASE c2 < 0 \/ c3 >= 0
      <4>1. ~(b = c /\ ~bad)
        BY <1>2, <1>8, <2>3, <3>1, <3>3
      <4>2. Len(o) = 3 /\ Len(p) # 3
        <5>1. c1 < 0 \/ (c1 >= 0 /\ c2 < 0) \/ c3 >= 0
          BY <1>2, <1>8, <3>3
        <5> QED BY <1>4, <3>1, <5>1
      <4> QED BY <4>1, <4>2
    <3> QED BY <1>2, <1>8, <3>2, <3>3
  <2>4. CASE b2 >= N /\ b3 >= P
    <3>1. /\ o = <<N + 2, b3 \div D, b3 \div P, b3 % P>> /\ (bad <=> b3 >= D) /\ b3 \in Nat
      BY <1>2, <1>3, <1>7, <1>8, <2>4
    <3>2. CASE c3 >= 0
      <4>1. p = <<N + 2, c3 \div D, (c3 \div P) % P, c3 % P>> /\ c3 \in Nat
        BY <1>2, <1>4, <1>8, <3>2
      <4>2. b3 \div P < P <=> b3 < D
        BY <1>2, <3>1, DivBelow
      <4>3. c3 < D => c3 \div P \in 0 .. P - 1
        <5>1. c3 \div P < P <=> c3 < D
          BY <1>2, <4>1, DivBelow
        <5>2. c3 \div P \in Nat
          BY <1>2, <4>1, DivMod
        <5> QED BY <1>2, <5>1, <5>2
      <4>4. c3 < D => (c3 \div P) % P = c3 \div P
        BY <1>2, <4>3, ModBelow
      <4>5. ASSUME o = p PROVE b3 = c3 /\ ~bad
        <5>1. b3 \div D = c3 \div D /\ b3 \div P = (c3 \div P) % P /\ b3 % P = c3 % P
          BY <3>1, <4>1, <4>5
        <5>2. (c3 \div P) % P < P
          BY <1>2, <4>1, DivMod
        <5>3. b3 < D
          BY <4>2, <5>1, <5>2
        <5>4. c3 < D
          <6>1. b3 \div D < 1 /\ 1 \in Nat
            BY <1>2, <3>1, <5>3, ModBelow
          <6>2. c3 < D * 1
            BY <1>2, <4>1, <5>1, <6>1, DivBelow
          <6> QED BY <1>2, <6>2
        <5>5. b3 \div P = c3 \div P
          BY <4>4, <5>1, <5>4
        <5>6. b3 = c3
          BY <1>2, <3>1, <4>1, <5>1, <5>5, DivSame
        <5> QED BY <1>2, <3>1, <5>3, <5>6
      <4>6. ASSUME b3 = c3, ~bad PROVE o = p
        BY <1>2, <3>1, <4>1, <4>4, <4>6
      <4>7. b3 = c3 <=> b = c
        BY <1>2, <1>8
      <4> QED BY <4>5, <4>6, <4>7
    <3>3. CASE c3 < 0
      <4>1. b # c
        BY <1>2, <1>8, <2>4, <3>3
      <4>2. Len(o) = 4 /\ Len(p) # 4
        BY <1>2, <1>4, <1>8, <3>1, <3>3
      <4> QED BY <4>1, <4>2
    <3> QED BY <1>2, <1>8, <3>2, <3>3
  <2> QED BY <1>2, <1>8, <2>1, <2>2, <2>3, <2>4
<1> QED BY <1>1, <1>6, <1>9

\* No block of a file that its pointers reach is too big.
LEMMA NeverTooBig ==
    ASSUME NEW b \in 0 .. MaxBlocks - 1
    PROVE  ext2_block_offsets(b) # <<>>
<1>1. PICK b1, b2, b3, o : /\ b1 = b - NDIR /\ b2 = b1 - PTRS /\ b3 = b2 - DoubleBlocks
                           /\ o = ext2_block_offsets(b)
  OBVIOUS
<1>2. NDIR \in Nat /\ PTRS \in Nat \ {0} /\ DoubleBlocks \in Nat \ {0}
  BY Geometry
<1>3. /\ b < NDIR => o = <<b>>
      /\ b >= NDIR /\ b2 < NDIR => o = <<NDIR, b1>>
      /\ b2 >= NDIR /\ b3 < PTRS => o = <<NDIR + 1, b2 \div PTRS, b2 % PTRS>>
      /\ b2 >= NDIR /\ b3 >= PTRS =>
            o = <<NDIR + 2, b3 \div DoubleBlocks, b3 \div PTRS, b3 % PTRS>>
  BY <1>1, OffsetsAre
<1>4. \/ b < NDIR
      \/ b >= NDIR /\ b2 < NDIR
      \/ b2 >= NDIR /\ b3 < PTRS
      \/ b2 >= NDIR /\ b3 >= PTRS
  <2>1. b \in Nat
    BY Geometry
  <2> QED BY <1>1, <1>2, <2>1
<1>5. Len(o) > 0
  BY <1>3, <1>4
<1> QED BY <1>1, <1>5

(***************************************************************************)
(* The invariant.                                                          *)
(***************************************************************************)
\* What is known of a disk that is mounted
SbOK ==
    /\ sb.log_block_size \in 0 .. 2
    /\ sb.blocks \in Nat \ {0} /\ sb.blocks_per_group \in Nat \ {0}
    /\ sb.inodes_per_group \in Nat \ {0, 1}
    /\ 4 * block_size + sb.inodes_per_group * InodeSize <= sb.blocks_per_group * block_size
    /\ sb.blocks <= 4080 * sb.blocks_per_group

SizeOK == i_size \in Nat /\ i_size <= MaxBlocks * CELLS

DirOK == \A n \in DOMAIN dir : \A j \in DOMAIN dir[n] : dir[n][j].inode \in Nat

\* Outside of errors there is a number to look for, and nothing was read before a
\* call begins.
InoOK ==
    /\ op \notin {"panic", "garbage"} => ino \in Nat
    /\ op \in {"unmounted", "idle"} => got = 0

\* What the offsets bring to a cell of the buffer
Brought(p) ==
    IF p \div CELLS \in hole \/ Misplaced(p \div CELLS) THEN FOREIGN
    ELSE OnDisk(p \div CELLS, p % CELLS)

\* The blocks before i have been read, and no file without holes stopped the kernel.
ReadOK ==
    /\ op = "reading" =>
          /\ i \in 0 .. nblk /\ DOMAIN buf = 0 .. nblk * CELLS - 1
          /\ \A p \in DOMAIN buf : p < i * CELLS => buf[p] = Brought(p)
    /\ op = "read" =>
          /\ DOMAIN buf = 0 .. nblk * CELLS - 1
          /\ \A p \in DOMAIN buf : buf[p] = IF p >= i_size THEN ZERO ELSE Brought(p)
    /\ hole = {} /\ op = "panic" => ino = PANIC

Ext2Inv ==
    SbOK /\ SizeOK /\ DirOK /\ InoOK /\ InodeFound /\ CopiesInside /\ ReadOK

(***************************************************************************)
(* Finding inodes.                                                         *)
(***************************************************************************)
\* Blocks have 1, 2 or 4 KiB.
LEMMA BlockSize == ASSUME SbOK PROVE block_size \in {1024, 2048, 4096}
<1>1. 2^0 = 1 /\ 2^1 = 2 /\ 2^2 = 4
  OBVIOUS
<1>2. sb.log_block_size \in {0, 1, 2}
  BY DEF SbOK
<1>3. PICK n : n = sb.log_block_size
  OBVIOUS
<1>4. block_size = 1024 * 2^n
  BY <1>3 DEF block_size
<1>5. n = 0 => 1024 * 2^n = 1024
  BY <1>1
<1>6. n = 1 => 1024 * 2^n = 2048
  BY <1>1
<1>7. n = 2 => 1024 * 2^n = 4096
  BY <1>1
<1> QED BY <1>2, <1>3, <1>4, <1>5, <1>6, <1>7

\* The inodes of a disk are numbered from 1.
LEMMA InodesPositive == ASSUME SbOK PROVE \A n \in Inodes : n \in Nat \ {0}
<1>1. Cardinality(Groups) \in Nat
  <2>1. PICK x : x = (sb.blocks - FirstDataBlock - 1) \div sb.blocks_per_group
    OBVIOUS
  <2>2. x \in Int
    BY <2>1 DEF SbOK, FirstDataBlock
  <2>3. IsFiniteSet(0 .. x)
    BY <2>2, FS_Interval
  <2> QED BY <2>1, <2>3, FS_CardinalityType DEF Groups
<1>2. sb.inodes_per_group * Cardinality(Groups) \in Nat
  BY <1>1 DEF SbOK
<1> QED BY <1>2 DEF Inodes

\* Where the inode in entry k of group g is
LEMMA PlaceIs ==
    ASSUME SbOK, NEW n \in Nat \ {0}, NEW g, NEW k,
           g = (n - 1) \div sb.inodes_per_group, k = (n - 1) % sb.inodes_per_group
    PROVE  /\ g \in Nat /\ k \in 0 .. sb.inodes_per_group - 1
           /\ n - 1 = sb.inodes_per_group * g + k
           /\ PlaceOf(n) = (FirstDataBlock + 4) * block_size
                              + ((sb.blocks_per_group * block_size) * g + 128 * k)
<1>1. PICK I, G : I = sb.inodes_per_group /\ G = sb.blocks_per_group
  OBVIOUS
<1>2. I \in Nat \ {0, 1} /\ G \in Nat \ {0}
  BY <1>1 DEF SbOK
<1>3. g \in Nat /\ k \in 0 .. I - 1 /\ k = (n - 1) - I * g
  <2>1. n - 1 \in Nat
    OBVIOUS
  <2> QED BY <1>1, <1>2, <2>1, DivMod
<1>4. I * g \in Nat /\ n - 1 = I * g + k
  BY <1>2, <1>3
<1>5. PICK B, F : B = block_size /\ F = FirstDataBlock
  OBVIOUS
<1>6. B \in {1024, 2048, 4096} /\ F \in {0, 1}
  BY <1>5, BlockSize DEF FirstDataBlock
<1>7. PlaceOf(n) = (F + g * G + 4) * B + k * 128
  BY <1>1, <1>5 DEF PlaceOf, InodeTable, InodeSize
<1>8. (F + g * G + 4) * B = (F + 4) * B + (G * B) * g
  <2>1. PICK x : x = g * G
    OBVIOUS
  <2>2. x \in Nat
    BY <1>2, <1>3, <2>1
  <2>3. (F + x + 4) * B = (F + 4) * B + x * B
    BY <1>6, <2>2
  <2>4. (g * G) * B = (G * B) * g
    BY <1>2, <1>3, <1>6
  <2> QED BY <2>1, <2>3, <2>4
<1>9. (F + 4) * B \in Nat /\ (G * B) * g \in Nat
  BY <1>2, <1>3, <1>6
<1>10. PlaceOf(n) = (F + 4) * B + ((G * B) * g + 128 * k)
  BY <1>3, <1>7, <1>8, <1>9
<1> QED BY <1>1, <1>3, <1>4, <1>5, <1>10

\* No two inodes are in the same place.
LEMMA PlaceSame ==
    ASSUME SbOK, NEW m \in Nat \ {0}, NEW n \in Nat \ {0}, PlaceOf(m) = PlaceOf(n)
    PROVE  m = n
<1>1. PICK I, T, B, g, k, h, l :
         /\ I = sb.inodes_per_group /\ T = sb.blocks_per_group * block_size
         /\ B = (FirstDataBlock + 4) * block_size
         /\ g = (n - 1) \div sb.inodes_per_group /\ k = (n - 1) % sb.inodes_per_group
         /\ h = (m - 1) \div sb.inodes_per_group /\ l = (m - 1) % sb.inodes_per_group
  OBVIOUS
<1>2. /\ g \in Nat /\ k \in 0 .. I - 1 /\ n - 1 = I * g + k
      /\ PlaceOf(n) = B + (T * g + 128 * k)
  BY <1>1, PlaceIs
<1>3. /\ h \in Nat /\ l \in 0 .. I - 1 /\ m - 1 = I * h + l
      /\ PlaceOf(m) = B + (T * h + 128 * l)
  BY <1>1, PlaceIs
<1>4. I \in Nat \ {0, 1} /\ T \in Nat \ {0} /\ B \in Nat /\ 128 * I < T
  <2>1. block_size \in {1024, 2048, 4096} /\ FirstDataBlock \in {0, 1}
    BY BlockSize DEF FirstDataBlock
  <2>2. 4 * block_size + I * 128 <= T /\ I \in Nat \ {0, 1} /\ sb.blocks_per_group \in Nat \ {0}
    BY <1>1 DEF SbOK, InodeSize
  <2>3. T \in Nat
    BY <1>1, <2>1, <2>2
  <2> QED BY <1>1, <2>1, <2>2, <2>3
<1>5. T * g \in Nat /\ T * h \in Nat
  BY <1>2, <1>3, <1>4
<1>6. 128 * k \in 0 .. T - 1 /\ 128 * l \in 0 .. T - 1
  BY <1>2, <1>3, <1>4
<1>7. PICK x : x = T * g + 128 * k
  OBVIOUS
<1>8. x \in Nat /\ x = T * g + 128 * k /\ x = T * h + 128 * l
  BY <1>2, <1>3, <1>4, <1>5, <1>6, <1>7
<1>9. PICK u, v : u = 128 * k /\ v = 128 * l
  OBVIOUS
<1>10. u \in 0 .. T - 1 /\ v \in 0 .. T - 1 /\ x = T * g + u /\ x = T * h + v
  BY <1>6, <1>8, <1>9
<1>11. x \div T = g /\ x % T = u
  <2>1. x \in Nat /\ T \in Nat \ {0} /\ g \in Nat /\ u \in 0 .. T - 1 /\ x = T * g + u
    BY <1>2, <1>4, <1>8, <1>10
  <2> QED BY <2>1, DivIs
<1>12. x \div T = h /\ x % T = v
  <2>1. x \in Nat /\ T \in Nat \ {0} /\ h \in Nat /\ v \in 0 .. T - 1 /\ x = T * h + v
    BY <1>3, <1>4, <1>8, <1>10
  <2> QED BY <2>1, DivIs
<1>13. g = h /\ k = l
  BY <1>2, <1>3, <1>9, <1>11, <1>12
<1> QED BY <1>2, <1>3, <1>13

\* A read brings an inode if, and only if, it is made where that inode is.
LEMMA InodeAtOK ==
    ASSUME SbOK, NEW n \in Inodes, NEW off
    PROVE  InodeAt(off) = n <=> off = PlaceOf(n)
<1>1. \A m \in Inodes : m \in Nat \ {0}
  BY InodesPositive
<1>2. ASSUME off = PlaceOf(n) PROVE InodeAt(off) = n
  <2>1. PICK m : m = CHOOSE x \in Inodes : PlaceOf(x) = off
    OBVIOUS
  <2>2. m \in Inodes /\ PlaceOf(m) = off
    BY <1>2, <2>1
  <2>3. m = n
    BY <1>1, <1>2, <2>2, PlaceSame
  <2> QED BY <1>2, <2>1, <2>3 DEF InodeAt
<1>3. ASSUME InodeAt(off) = n PROVE off = PlaceOf(n)
  <2>1. n # 0
    BY <1>1
  <2> QED BY <1>3, <2>1 DEF InodeAt
<1> QED BY <1>2, <1>3

\* The descriptors of a group are read if they are in block 2.
LEMMA LoadedIs ==
    ASSUME SbOK, NEW g \in Nat
    PROVE  /\ Loaded(g) => /\ bgdt(g) = FirstDataBlock + g * sb.blocks_per_group + 4
                           /\ bgdt(g) # WILD /\ bgdt(g) \in Nat /\ block_size = 1024
           /\ ~Loaded(g) => bgdt(g) = WILD
<1>1. block_size \in {1024, 2048, 4096}
  BY BlockSize
<1>2. FirstDataBlock + g * sb.blocks_per_group + 4 \in Nat
  <2>1. FirstDataBlock \in {0, 1}
    BY DEF FirstDataBlock
  <2>2. g * sb.blocks_per_group \in Nat
    BY DEF SbOK
  <2> QED BY <2>1, <2>2
<1>3. BgdtBlock = 2 <=> block_size = 1024
  BY <1>1 DEF BgdtBlock, FirstDataBlock
<1>4. bgdt(g) = IF g < bgdt_elems /\ BgdtBlock = 2
                THEN FirstDataBlock + g * sb.blocks_per_group + 4 ELSE WILD
  BY DEF bgdt, InodeTable
<1>5. Loaded(g) <=> (g < bgdt_elems /\ BgdtBlock = 2)
  BY <1>3 DEF Loaded
<1>6. ASSUME NEW x \in Nat PROVE x # WILD
  BY DEF WILD
<1> QED BY <1>2, <1>3, <1>4, <1>5, <1>6 DEF Loaded

\* ext2_get_inode brings exactly the inodes that are not the last of their group
\* in groups whose descriptors were read.
LEMMA InodeReadOK ==
    ASSUME SbOK, NEW n \in Inodes
    PROVE  InodeRead(n) = n <=> Findable(n)
<1>1. PICK I, T, B, g, k, off :
         /\ I = sb.inodes_per_group /\ T = sb.blocks_per_group * block_size
         /\ B = (FirstDataBlock + 4) * block_size
         /\ g = (n - 1) \div sb.inodes_per_group /\ k = (n - 1) % sb.inodes_per_group
         /\ off = ext2_get_inode(n).off
  OBVIOUS
<1>2. n \in Nat \ {0}
  BY InodesPositive
<1>3. /\ g \in Nat /\ k \in 0 .. I - 1 /\ n - 1 = I * g + k
      /\ PlaceOf(n) = B + (T * g + 128 * k)
  BY <1>1, <1>2, PlaceIs
<1>4. I \in Nat \ {0, 1} /\ T \in Nat \ {0} /\ B \in Nat /\ 128 * I < T
  <2>1. block_size \in {1024, 2048, 4096} /\ FirstDataBlock \in {0, 1}
    BY BlockSize DEF FirstDataBlock
  <2>2. 4 * block_size + I * 128 <= T /\ I \in Nat \ {0, 1} /\ sb.blocks_per_group \in Nat \ {0}
    BY <1>1 DEF SbOK, InodeSize
  <2>3. T \in Nat
    BY <1>1, <2>1, <2>2
  <2> QED BY <1>1, <2>1, <2>2, <2>3
<1>5. T * g \in Nat /\ I * g \in Nat
  BY <1>3, <1>4
<1>6. InodeRead(n) = n <=> off = PlaceOf(n)
  BY <1>1, InodeAtOK DEF InodeRead
<1>7. PICK h, m : h = n \div I /\ m = n % I
  OBVIOUS
<1>8. h \in Nat /\ m \in 0 .. I - 1
  BY <1>2, <1>4, <1>7, DivMod
<1>9. Findable(n) <=> m # 0 /\ Loaded(h)
  BY <1>1, <1>7 DEF Findable
<1>10. off = IF bgdt(h) = WILD THEN WILD ELSE bgdt(h) * block_size + (m - 1) * 128
  BY <1>1, <1>7 DEF ext2_get_inode, Offset, InodeSize
<1>11. CASE ~Loaded(h)
  <2>1. off = -1
    BY <1>8, <1>10, <1>11, LoadedIs DEF WILD
  <2>2. PlaceOf(n) \in Nat
    BY <1>3, <1>4, <1>5
  <2> QED BY <1>6, <1>9, <1>11, <2>1, <2>2
<1>12. CASE Loaded(h)
  <2>1. /\ bgdt(h) = FirstDataBlock + h * sb.blocks_per_group + 4 /\ bgdt(h) # WILD
        /\ block_size = 1024
    BY <1>8, <1>12, LoadedIs
  <2>2. off = B + (T * h + 128 * (m - 1))
    <3>1. PICK G, x, F : G = sb.blocks_per_group /\ x = h * G /\ F = FirstDataBlock
      OBVIOUS
    <3>2. G \in Nat \ {0} /\ x \in Nat /\ F \in {0, 1}
      BY <1>8, <3>1 DEF SbOK, FirstDataBlock
    <3>3. off = (F + x + 4) * 1024 + (m - 1) * 128
      BY <1>10, <2>1, <3>1
    <3>4. T = G * 1024 /\ B = (F + 4) * 1024
      BY <1>1, <2>1, <3>1
    <3>5. T * h = x * 1024
      BY <1>8, <3>1, <3>2, <3>4
    <3> QED BY <1>8, <3>2, <3>3, <3>4, <3>5
  <2>3. CASE k + 1 < I
    <3>1. n = I * g + (k + 1) /\ k + 1 \in 0 .. I - 1
      BY <1>2, <1>3, <1>4, <1>5, <2>3
    <3>2. h = g /\ m = k + 1
      <4>1. n \in Nat /\ I \in Nat \ {0} /\ g \in Nat /\ k + 1 \in Nat
        BY <1>2, <1>3, <1>4, <3>1
      <4>2. n \div I = g /\ n % I = k + 1
        BY <3>1, <4>1, DivIs, Zenon
      <4> QED BY <1>7, <4>2
    <3>3. off = PlaceOf(n)
      BY <1>3, <1>4, <1>5, <2>2, <3>2
    <3> QED BY <1>3, <1>6, <1>9, <1>12, <3>2, <3>3
  <2>4. CASE k + 1 = I
    <3>1. n = I * (g + 1) + 0 /\ g + 1 \in Nat /\ 0 \in 0 .. I - 1
      <4>1. I * (g + 1) = I * g + I
        BY <1>3, <1>4
      <4> QED BY <1>2, <1>3, <1>4, <1>5, <2>4, <4>1
    <3>2. h = g + 1 /\ m = 0
      BY <1>2, <1>4, <1>7, <3>1, DivIs
    <3>3. T * h = T * g + T
      BY <1>3, <1>4, <3>2
    <3>4. off # PlaceOf(n)
      BY <1>3, <1>4, <1>5, <2>2, <2>4, <3>2, <3>3
    <3> QED BY <1>6, <1>9, <3>2, <3>4
  <2> QED BY <1>3, <1>4, <2>3, <2>4
<1> QED BY <1>11, <1>12

\* Mounting finds the root directory if, and only if, the first descriptor was read.
LEMMA RootOK ==
    ASSUME SbOK
    PROVE  root_inode = EXT2_ROOT_INO <=> Loaded(0)
<1>1. PICK I, T, B, g, k :
         /\ I = sb.inodes_per_group /\ T = sb.blocks_per_group * block_size
         /\ B = (FirstDataBlock + 4) * block_size
         /\ g = (2 - 1) \div sb.inodes_per_group /\ k = (2 - 1) % sb.inodes_per_group
  OBVIOUS
<1>2. /\ g \in Nat /\ k \in 0 .. I - 1 /\ 2 - 1 = I * g + k
      /\ PlaceOf(2) = B + (T * g + 128 * k)
  BY <1>1, PlaceIs
<1>3. I \in Nat \ {0, 1} /\ T \in Nat /\ B \in Nat
  <2>1. block_size \in {1024, 2048, 4096} /\ FirstDataBlock \in {0, 1}
    BY BlockSize DEF FirstDataBlock
  <2>2. I \in Nat \ {0, 1} /\ sb.blocks_per_group \in Nat \ {0}
    BY <1>1 DEF SbOK
  <2> QED BY <1>1, <2>1, <2>2
<1>4. g = 0 /\ k = 1
  <2>1. 1 \in 0 .. I - 1 /\ 2 - 1 = 1
    BY <1>3
  <2> QED BY <1>1, <1>3, <2>1, ModBelow
<1>5. PlaceOf(2) = B + 128
  BY <1>2, <1>3, <1>4
<1>6. root_inode = InodeAt(IF bgdt(0) = WILD THEN WILD ELSE bgdt(0) * block_size + 128)
  BY DEF root_inode, Offset, InodeSize
<1>7. CASE ~Loaded(0)
  <2>1. root_inode = InodeAt(-1)
    BY <1>6, <1>7, LoadedIs DEF WILD
  <2>2. 2 \in Inodes => root_inode # 2
    BY <1>3, <1>5, <2>1, InodeAtOK
  <2>3. root_inode \in Inodes \cup {0}
    BY <2>1 DEF InodeAt
  <2> QED BY <1>7, <2>2, <2>3 DEF EXT2_ROOT_INO
<1>8. CASE Loaded(0)
  <2>1. bgdt(0) = FirstDataBlock + 0 * sb.blocks_per_group + 4 /\ bgdt(0) # WILD /\ block_size = 1024
    BY <1>8, LoadedIs
  <2>2. bgdt(0) * block_size + 128 = PlaceOf(2)
    <3>1. 0 * sb.blocks_per_group = 0 /\ FirstDataBlock \in {0, 1}
      BY DEF SbOK, FirstDataBlock
    <3> QED BY <1>1, <1>5, <2>1, <3>1
  <2>3. 2 \in Inodes
    <3>1. PICK G, N, x : G = sb.blocks_per_group /\ N = sb.blocks
                         /\ x = (N - FirstDataBlock - 1) \div G
      OBVIOUS
    <3>2. G \in Nat \ {0} /\ N \in Nat \ {0} /\ FirstDataBlock = 1
      BY <2>1, <3>1 DEF SbOK, FirstDataBlock
    <3>3. 0 < N \div G
      BY <1>8, <3>1 DEF Loaded, bgdt_elems
    <3>4. N >= G
      <4>1. ~(N < G)
        BY <3>2, <3>3, ModBelow
      <4> QED BY <3>2, <4>1
    <3>5. N >= 2
      <4>1. 4 * 1024 + I * 128 <= G * 1024
        BY <1>1, <2>1, <3>1 DEF SbOK, InodeSize
      <4> QED BY <1>3, <3>2, <3>4, <4>1
    <3>6. x \in Nat
      <4>1. x = (N - 2) \div G /\ N - 2 \in Nat
        BY <3>1, <3>2, <3>5
      <4> QED BY <3>2, <4>1, DivMod
    <3>7. Cardinality(Groups) = x + 1
      <4>1. Groups = 0 .. x
        BY <3>1 DEF Groups
      <4>2. Cardinality(0 .. x) = x - 0 + 1
        BY <3>6, FS_Interval
      <4> QED BY <3>6, <4>1, <4>2
    <3>8. I * (x + 1) >= 2 /\ I * (x + 1) \in Nat
      <4>1. I * (x + 1) = I * x + I /\ I * x \in Nat
        BY <1>3, <3>6
      <4> QED BY <1>3, <4>1
    <3> QED BY <1>1, <3>7, <3>8 DEF Inodes
  <2> QED BY <1>6, <1>8, <2>1, <2>2, <2>3, InodeAtOK DEF EXT2_ROOT_INO
<1> QED BY <1>7, <1>8

(***************************************************************************)
(* The driver.                                                             *)
(***************************************************************************)
\* No byte is copied from behind the buffer.
Inside(r) == ata_read_bytes(r).copied <= ata_read_bytes(r).filled

\* A read of l bytes from o on, by the sectors that are read for it
LEMMA InsideIs ==
    ASSUME NEW o, NEW l, NEW m, NEW n,
           m = o % 512, n = ((l + 511) \div 512) % 256, m + l <= n * 512
    PROVE  Inside([off |-> o, len |-> l])
<1>1. PICK r : r = [off |-> o, len |-> l]
  OBVIOUS
<1>2. r.off = o /\ r.len = l
  BY <1>1
<1>3. nsectors(l) = (l + 512 - 1) \div 512
  BY DEF nsectors, SECTOR_SIZE
<1>4. ata_read_bytes(r).copied = m + l /\ ata_read_bytes(r).filled = n * 512
  BY <1>2 DEF ata_read_bytes, ata_read, nsectors, SECTOR_SIZE
<1> QED BY <1>1, <1>4 DEF Inside

\* From the beginning of a sector, no more bytes than 255 sectors have
LEMMA WholeSectors ==
    ASSUME NEW q \in Nat, NEW l \in Nat, NEW k \in 0 .. 255, l <= 512 * k
    PROVE  Inside([off |-> 512 * q, len |-> l])
<1>1. PICK a, n, r : a = l + 511 /\ n = a \div 512 /\ r = a % 512
  OBVIOUS
<1>2. n \in Nat /\ r \in 0 .. 511 /\ r = a - 512 * n
  <2>1. a \in Nat /\ 512 \in Nat \ {0}
    BY <1>1
  <2>2. n \in Nat /\ r \in 0 .. 512 - 1 /\ r = a - 512 * n
    BY <1>1, <2>1, DivMod
  <2> QED BY <2>2
<1>3. l <= 512 * n /\ n \in 0 .. 256 - 1
  <2>1. l + 511 = 512 * n + r
    BY <1>1, <1>2
  <2> QED BY <1>2, <2>1
<1>4. n % 256 = n
  <2>1. 256 \in Nat \ {0}
    OBVIOUS
  <2> QED BY <1>3, <2>1, ModBelow
<1>5. (512 * q) % 512 = 0
  OBVIOUS
<1>6. 0 + l <= n * 512
  BY <1>3
<1>7. n = ((l + 511) \div 512) % 256
  BY <1>1, <1>4
<1> QED BY <1>5, <1>6, <1>7, InsideIs

\* The part of a sector that an inode has
LEMMA PartOfSector ==
    ASSUME NEW q \in Nat, NEW w \in 0 .. 3
    PROVE  \A x : x = 512 * q + 128 * w => Inside([off |-> x, len |-> 128])
<1>1. (512 * q + 128 * w) % 512 = 128 * w
  OBVIOUS
<1>2. ((128 + 511) \div 512) % 256 = 1
  OBVIOUS
<1>3. 128 * w + 128 <= 1 * 512
  OBVIOUS
<1>4. Inside([off |-> 512 * q + 128 * w, len |-> 128])
  BY <1>1, <1>2, <1>3, InsideIs
<1> QED BY <1>4

\* The read of ext2_get_inode
LEMMA InodeInside ==
    ASSUME SbOK, NEW n \in Nat, ext2_get_inode(n).off # WILD
    PROVE  Inside(ext2_get_inode(n))
<1>1. PICK I, g, m : I = sb.inodes_per_group /\ g = n \div I /\ m = n % I
  OBVIOUS
<1>2. I \in Nat \ {0, 1} /\ g \in Nat /\ m \in 0 .. I - 1
  <2>1. I \in Nat \ {0, 1}
    BY <1>1 DEF SbOK
  <2> QED BY <1>1, <2>1, DivMod
<1>3. ext2_get_inode(n) =
         [off |-> IF bgdt(g) = WILD THEN WILD ELSE bgdt(g) * block_size + (m - 1) * 128,
          len |-> 128]
  BY <1>1 DEF ext2_get_inode, Offset, InodeSize
<1>4. bgdt(g) # WILD
  BY <1>3
<1>5. /\ Loaded(g)
      /\ bgdt(g) = FirstDataBlock + g * sb.blocks_per_group + 4 /\ block_size = 1024
  BY <1>2, <1>4, LoadedIs
<1>6. PICK b : b = bgdt(g)
  OBVIOUS
<1>7. b \in Nat /\ b >= 4
  <2>1. PICK x : x = g * sb.blocks_per_group
    OBVIOUS
  <2>2. x \in Nat
    BY <1>2, <2>1 DEF SbOK
  <2>3. FirstDataBlock \in {0, 1}
    BY DEF FirstDataBlock
  <2> QED BY <1>5, <1>6, <2>1, <2>2, <2>3
<1>8. PICK y, w : y = (m + 3) \div 4 /\ w = (m + 3) % 4
  OBVIOUS
<1>9. y \in Nat /\ w \in 0 .. 3 /\ m + 3 = 4 * y + w
  <2>1. m + 3 \in Nat /\ 4 \in Nat \ {0}
    BY <1>2
  <2>2. y \in Nat /\ w \in 0 .. 4 - 1 /\ w = (m + 3) - 4 * y
    BY <1>8, <2>1, DivMod
  <2> QED BY <1>2, <2>2
<1>10. PICK q : q = 2 * b + y - 1
  OBVIOUS
<1>11. q \in Nat /\ b * 1024 + (m - 1) * 128 = 512 * q + 128 * w
  BY <1>2, <1>7, <1>9, <1>10
<1>12. PICK x : x = 512 * q + 128 * w
  OBVIOUS
<1>13. ext2_get_inode(n) = [off |-> x, len |-> 128]
  BY <1>3, <1>4, <1>5, <1>6, <1>11, <1>12
<1>14. q \in Nat /\ w \in 0 .. 3
  BY <1>9, <1>11
<1>15. Inside([off |-> x, len |-> 128])
  BY <1>12, <1>14, PartOfSector
<1> QED BY <1>13, <1>15

\* The reads of ext2_mount_rootfs
LEMMA MountInside ==
    ASSUME SbOK
    PROVE  /\ Inside([off |-> SB_START_BYTES, len |-> SbSize])
           /\ Inside(read_blk(2, bgdt_elems * BgdSize))
           /\ bgdt(0) # WILD => Inside(read_blk(bgdt(0), 11 * InodeSize))
<1>1. Inside([off |-> SB_START_BYTES, len |-> SbSize])
  <2>1. 2 \in Nat /\ 264 \in Nat /\ 1 \in 0 .. 255 /\ 264 <= 512 * 1
    OBVIOUS
  <2>2. Inside([off |-> 512 * 2, len |-> 264])
    BY <2>1, WholeSectors
  <2>3. 512 * 2 = 1024
    OBVIOUS
  <2> QED BY <2>2, <2>3 DEF SB_START_BYTES, SbSize
<1>2. Inside(read_blk(2, bgdt_elems * BgdSize))
  <2>1. PICK B, E : B = block_size /\ E = bgdt_elems
    OBVIOUS
  <2>2. B \in {1024, 2048, 4096}
    BY <2>1, BlockSize
  <2>3. E \in Nat /\ E < 4080 + 1
    <3>1. PICK N, G, c : N = sb.blocks /\ G = sb.blocks_per_group /\ c = 4080 + 1
      OBVIOUS
    <3>2. N \in Nat /\ G \in Nat \ {0} /\ N <= 4080 * G
      BY <3>1 DEF SbOK
    <3>3. c \in Nat /\ N < G * c
      BY <3>1, <3>2
    <3>4. N \div G < c
      BY <3>2, <3>3, DivBelow
    <3>5. N \div G \in Nat
      BY <3>2, DivMod
    <3> QED BY <2>1, <3>1, <3>4, <3>5 DEF bgdt_elems
  <2>4. E * 32 \in Nat /\ 255 \in 0 .. 255 /\ E * 32 <= 512 * 255
    BY <2>3
  <2>5. PICK q \in Nat : 2 * B + 0 = 512 * q
    <3>1. 2 * 1024 + 0 = 512 * 4 /\ 2 * 2048 + 0 = 512 * 8 /\ 2 * 4096 + 0 = 512 * 16
      OBVIOUS
    <3> QED BY <2>2, <3>1
  <2>6. read_blk(2, E * 32) = [off |-> 512 * q, len |-> E * 32]
    <3>1. 2 # WILD
      BY DEF WILD
    <3>2. read_blk(2, E * 32) = [off |-> 2 * B + 0, len |-> E * 32]
      BY <2>1, <3>1 DEF read_blk, Offset
    <3> QED BY <2>5, <3>2
  <2>7. Inside([off |-> 512 * q, len |-> E * 32])
    BY <2>4, WholeSectors
  <2> QED BY <2>1, <2>6, <2>7 DEF BgdSize
<1>3. ASSUME bgdt(0) # WILD PROVE Inside(read_blk(bgdt(0), 11 * InodeSize))
  <2>1. PICK b : b = bgdt(0)
    OBVIOUS
  <2>2. b \in Nat /\ block_size = 1024
    BY <1>3, <2>1, LoadedIs
  <2>3. read_blk(b, 1408) = [off |-> b * 1024 + 0, len |-> 1408]
    BY <1>3, <2>1, <2>2 DEF read_blk, Offset
  <2>4. 2 * b \in Nat /\ b * 1024 + 0 = 512 * (2 * b)
    BY <2>2
  <2>5. Inside([off |-> 512 * (2 * b), len |-> 1408])
    <3>1. 1408 \in Nat /\ 3 \in 0 .. 255 /\ 1408 <= 512 * 3
      OBVIOUS
    <3> QED BY <2>4, <3>1, WholeSectors
  <2>6. 11 * InodeSize = 1408
    BY DEF InodeSize
  <2> QED BY <2>1, <2>3, <2>4, <2>5, <2>6
<1> QED BY <1>1, <1>2, <1>3

(***************************************************************************)
(* Reading a file.                                                         *)
(***************************************************************************)
\* The blocks of the file are those that its pointers reach.
LEMMA BlocksReached == ASSUME SizeOK PROVE nblk \in Nat /\ nblk <= MaxBlocks
<1>1. PICK M, a : M = MaxBlocks /\ a = i_size + CELLS - 1
  OBVIOUS
<1>2. M \in Nat /\ CELLS \in Nat \ {0}
  BY <1>1, Geometry, FileAssumption
<1>3. i_size \in Nat /\ i_size <= M * CELLS
  BY <1>1 DEF SizeOK
<1>4. a \in Nat
  BY <1>1, <1>2, <1>3
<1>5. M + 1 \in Nat /\ a < CELLS * (M + 1)
  <2>1. CELLS * (M + 1) = M * CELLS + CELLS /\ M * CELLS \in Nat
    BY <1>2
  <2> QED BY <1>1, <1>2, <1>3, <2>1
<1>6. a \div CELLS < M + 1
  BY <1>2, <1>4, <1>5, DivBelow
<1>7. a \div CELLS \in Nat
  BY <1>2, <1>4, DivMod
<1> QED BY <1>1, <1>2, <1>6, <1>7 DEF nblk

\* The positions of a block, and the cell of the block that each is
LEMMA CellsAre ==
    ASSUME NEW b \in Nat, NEW p \in Nat
    PROVE  /\ p \in Cells(b) <=> p \div CELLS = b
           /\ p \in Cells(b) <=> p >= b * CELLS /\ p < (b + 1) * CELLS
           /\ (p \div CELLS) * CELLS + (p % CELLS) = p
<1>1. PICK q, r : q = p \div CELLS /\ r = p % CELLS
  OBVIOUS
<1>2. CELLS \in Nat \ {0}
  BY FileAssumption
<1>3. q \in Nat /\ r \in 0 .. CELLS - 1 /\ r = p - CELLS * q
  BY <1>1, <1>2, DivMod
<1>4. CELLS * q \in Nat /\ q * CELLS = CELLS * q /\ b * CELLS \in Nat
  BY <1>2, <1>3
<1>5. (b + 1) * CELLS = b * CELLS + CELLS
  BY <1>2
<1>6. p \in Cells(b) <=> p >= b * CELLS /\ p < (b + 1) * CELLS
  BY <1>2, <1>4, <1>5 DEF Cells
<1>7. q * CELLS + r = p
  BY <1>3, <1>4
<1>8. q = b => p \in Cells(b)
  BY <1>2, <1>3, <1>4, <1>5, <1>6
<1>9. ASSUME p \in Cells(b) PROVE q = b
  <2>1. PICK d : d = p - b * CELLS
    OBVIOUS
  <2>2. d \in 0 .. CELLS - 1 /\ p = CELLS * b + d
    BY <1>2, <1>4, <1>5, <1>6, <1>9, <2>1
  <2>3. p \div CELLS = b
    BY <1>2, <2>2, DivIs
  <2> QED BY <1>1, <2>3
<1> QED BY <1>1, <1>6, <1>7, <1>8, <1>9

\* Following the offsets of a block
LEMMA ReadAtIs ==
    ASSUME SizeOK, NEW b \in 0 .. nblk - 1, NEW c
    PROVE  ReadAt(ext2_block_offsets(b), c) =
              IF b \in hole \/ Misplaced(b) THEN FOREIGN ELSE OnDisk(b, c)
<1>1. nblk \in Nat /\ nblk <= MaxBlocks /\ MaxBlocks \in Nat
  BY BlocksReached, Geometry
<1>2. b \in 0 .. MaxBlocks - 1 /\ b \in Nat
  BY <1>1
<1>3. PICK o : o = ext2_block_offsets(b)
  OBVIOUS
<1>4. \A d \in Written : d \in Nat /\ (PathTo(d) = o <=> d = b /\ ~Misplaced(b))
  <2>1. SUFFICES ASSUME NEW d \in Written
                 PROVE  d \in Nat /\ (PathTo(d) = o <=> d = b /\ ~Misplaced(b))
    OBVIOUS
  <2>2. d \in Nat
    BY <1>1 DEF Written
  <2>3. ext2_block_offsets(b) = PathTo(d) <=> b = d /\ ~Misplaced(b)
    BY <1>2, <2>2, OffsetsExact
  <2> QED BY <1>3, <2>2, <2>3
<1>5. b \in Written <=> b \notin hole
  BY DEF Written
<1>6. ReadAt(o, c) = IF \E d \in Written : PathTo(d) = o
                     THEN OnDisk(CHOOSE d \in Written : PathTo(d) = o, c) ELSE FOREIGN
  BY DEF ReadAt
<1>7. CASE b \in hole \/ Misplaced(b)
  <2>1. ~ \E d \in Written : PathTo(d) = o
    BY <1>4, <1>5, <1>7
  <2> QED BY <1>3, <1>6, <1>7, <2>1
<1>8. CASE ~(b \in hole \/ Misplaced(b))
  <2>1. b \in Written /\ PathTo(b) = o
    BY <1>4, <1>5, <1>8
  <2>2. PICK e : e = CHOOSE d \in Written : PathTo(d) = o
    OBVIOUS
  <2>3. e \in Written /\ PathTo(e) = o
    BY <2>1, <2>2
  <2>4. e = b
    BY <1>4, <2>3
  <2> QED BY <1>3, <1>6, <1>8, <2>1, <2>2, <2>4
<1> QED BY <1>7, <1>8

\* A path names one to four offsets.
LEMMA PathLength == ASSUME NEW b \in Nat PROVE Len(PathTo(b)) \in 1 .. 4
<1>1. PICK b1, b2, b3, p : /\ b1 = b - NDIR /\ b2 = b1 - PTRS /\ b3 = b2 - DoubleBlocks
                           /\ p = PathTo(b)
  OBVIOUS
<1>2. NDIR \in Nat /\ PTRS \in Nat \ {0} /\ DoubleBlocks \in Nat \ {0}
  BY Geometry
<1>3. /\ b1 < 0 => p = <<b>>
      /\ b1 >= 0 /\ b2 < 0 => p = <<NDIR, b1>>
      /\ b2 >= 0 /\ b3 < 0 => p = <<NDIR + 1, b2 \div PTRS, b2 % PTRS>>
      /\ b3 >= 0 => p = <<NDIR + 2, b3 \div DoubleBlocks, (b3 \div PTRS) % PTRS, b3 % PTRS>>
  BY <1>1, PathIs
<1>4. b1 < 0 \/ (b1 >= 0 /\ b2 < 0) \/ (b2 >= 0 /\ b3 < 0) \/ b3 >= 0
  BY <1>1, <1>2
<1>5. Len(p) \in 1 .. 4
  BY <1>3, <1>4
<1> QED BY <1>1, <1>5

\* i_blocks is at least the number of blocks of a file without holes.
LEMMA BlocksCounted ==
    ASSUME SizeOK, hole = {}
    PROVE  i_blocks \in Nat /\ nblk <= i_blocks
<1>1. nblk \in Nat
  BY BlocksReached
<1>2. Written = 0 .. nblk - 1
  BY DEF Written
<1>3. IsFiniteSet(Written) /\ Cardinality(Written) = nblk
  <2>1. /\ IsFiniteSet(0 .. nblk - 1)
        /\ Cardinality(0 .. nblk - 1) = IF 0 > nblk - 1 THEN 0 ELSE (nblk - 1) - 0 + 1
    BY <1>1, FS_Interval
  <2> QED BY <1>1, <1>2, <2>1
<1> DEFINE To(b) == {SubSeq(PathTo(b), 1, n) : n \in 1 .. Len(PathTo(b)) - 1}
           All   == {To(b) : b \in Written}
<1>4. \A b \in Written : IsFiniteSet(To(b))
  <2>1. SUFFICES ASSUME NEW b \in Written PROVE IsFiniteSet(To(b))
    OBVIOUS
  <2>2. b \in Nat
    BY <1>1, <1>2
  <2>3. PICK m : m = Len(PathTo(b)) - 1
    OBVIOUS
  <2>4. m \in Int
    BY <2>2, <2>3, PathLength
  <2>5. IsFiniteSet(1 .. m)
    BY <2>4, FS_Interval
  <2>6. PICK f : f = [n \in 1 .. m |-> SubSeq(PathTo(b), 1, n)]
    OBVIOUS
  <2>7. f \in Surjection(1 .. m, To(b))
    BY <2>3, <2>6 DEF Surjection
  <2> QED BY <2>5, <2>7, FS_Surjection DEF ExistsSurjection
<1>5. IsFiniteSet(All)
  <2>1. PICK f : f = [b \in Written |-> To(b)]
    OBVIOUS
  <2>2. f \in Surjection(Written, All)
    BY <2>1 DEF Surjection
  <2> QED BY <1>3, <2>2, FS_Surjection DEF ExistsSurjection
<1>6. PointerBlocks = UNION All
  BY DEF PointerBlocks
<1>7. IsFiniteSet(PointerBlocks)
  BY <1>4, <1>5, <1>6, FS_UNION
<1>8. PICK c : c = Cardinality(PointerBlocks)
  OBVIOUS
<1>9. c \in Nat
  BY <1>7, <1>8, FS_CardinalityType
<1>10. i_blocks = SECTORS * (nblk + c)
  BY <1>3, <1>8 DEF i_blocks
<1>11. SECTORS \in Nat \ {0}
  BY FileAssumption
<1>12. PICK t : t = nblk + c
  OBVIOUS
<1>13. t \in Nat /\ nblk <= t
  BY <1>1, <1>9, <1>12
<1>14. SECTORS * t \in Nat /\ t <= SECTORS * t
  BY <1>11, <1>13
<1> QED BY <1>1, <1>10, <1>12, <1>13, <1>14

(***************************************************************************)
(* What steps leave alone.                                                 *)
(***************************************************************************)
\* No step changes the disk.
LEMMA DiskKept ==
    ASSUME UNCHANGED <<sb, i_size, hole, dir>>
    PROVE  /\ (SbOK => SbOK') /\ (SizeOK => SizeOK') /\ (DirOK => DirOK')
           /\ Inodes' = Inodes /\ (Loaded(0)' <=> Loaded(0))
           /\ \A n : Findable(n)' <=> Findable(n)
           /\ nblk' = nblk /\ \A p : Brought(p)' = Brought(p)
<1>1. block_size' = block_size /\ bgdt_elems' = bgdt_elems
  BY DEF block_size, bgdt_elems
<1>2. Groups' = Groups
  BY <1>1 DEF Groups, FirstDataBlock
<1>3. Inodes' = Inodes
  BY <1>2 DEF Inodes
<1>4. ASSUME NEW g PROVE Loaded(g)' <=> Loaded(g)
  BY <1>1 DEF Loaded
<1>5. \A n : Findable(n)' <=> Findable(n)
  BY <1>4 DEF Findable
<1>6. SbOK => SbOK'
  BY <1>1 DEF SbOK
<1>7. (SizeOK => SizeOK') /\ (DirOK => DirOK') /\ nblk' = nblk
  BY DEF SizeOK, DirOK, nblk
<1>8. \A p : Brought(p)' = Brought(p)
  BY DEF Brought, OnDisk
<1> QED BY <1>3, <1>4, <1>5, <1>6, <1>7, <1>8

\* What a step that reads no inode and no block has to keep
LEMMA QuietStep ==
    ASSUME Ext2Inv, UNCHANGED <<sb, i_size, hole, dir, rooti, got, reads, comp_start, ino>>,
           op \notin {"unmounted", "idle", "panic", "garbage"},
           op' \notin {"unmounted", "idle", "garbage"}
    PROVE  SbOK' /\ SizeOK' /\ DirOK' /\ InoOK' /\ InodeFound' /\ CopiesInside'
<1>1. SbOK' /\ SizeOK' /\ DirOK'
  BY DiskKept DEF Ext2Inv
<1>2. InoOK'
  BY DEF Ext2Inv, InoOK
<1>3. InodeFound'
  <2>1. Inodes' = Inodes /\ (Loaded(0)' <=> Loaded(0)) /\ (Findable(ino)' <=> Findable(ino))
    BY DiskKept
  <2> QED BY <2>1 DEF Ext2Inv, InodeFound
<1>4. CopiesInside'
  BY DEF Ext2Inv, CopiesInside, ata_read_bytes, ata_read, nsectors
<1> QED BY <1>1, <1>2, <1>3, <1>4

\* What ext2_get_inode does
LEMMA GetInodeStep ==
    ASSUME SbOK, NEW n \in Nat, GetInode(n)
    PROVE  /\ n \in Inodes => (got' = n <=> Findable(n))
           /\ CopiesInside' /\ UNCHANGED <<sb, rooti>>
<1>1. n \in Inodes => (got' = n <=> Findable(n))
  BY InodeReadOK DEF GetInode
<1>2. ASSUME NEW r \in reads' PROVE Inside(r)
  <2>1. r = ext2_get_inode(n) /\ r.off # WILD
    BY <1>2 DEF GetInode, Known
  <2> QED BY <2>1, InodeInside
<1>3. CopiesInside'
  <2>1. ASSUME NEW r \in reads' PROVE ata_read_bytes(r).copied <= ata_read_bytes(r).filled
    BY <1>2, <2>1 DEF Inside
  <2> QED BY <2>1 DEF CopiesInside, ata_read_bytes, ata_read, nsectors
<1> QED BY <1>1, <1>3 DEF GetInode

\* A step that reads the inode ino' names
LEMMA InodeStep ==
    ASSUME Ext2Inv, GetInode(ino'), ino' \in Nat, UNCHANGED <<i_size, hole, dir>>,
           op \notin {"unmounted", "idle", "panic", "garbage"}, op' \notin {"unmounted", "idle"}
    PROVE  SbOK' /\ SizeOK' /\ DirOK' /\ InoOK' /\ InodeFound' /\ CopiesInside'
<1>1. /\ ino' \in Inodes => (got' = ino' <=> Findable(ino'))
      /\ CopiesInside' /\ UNCHANGED <<sb, rooti>>
  <2>1. PICK n \in Nat : n = ino'
    OBVIOUS
  <2>2. SbOK /\ GetInode(n)
    BY <2>1 DEF Ext2Inv
  <2>3. /\ n \in Inodes => (got' = n <=> Findable(n))
        /\ CopiesInside' /\ UNCHANGED <<sb, rooti>>
    BY <2>2, GetInodeStep
  <2> QED BY <2>1, <2>3
<1>2. SbOK' /\ SizeOK' /\ DirOK'
  BY <1>1, DiskKept DEF Ext2Inv
<1>3. InoOK'
  BY DEF InoOK
<1>4. InodeFound'
  <2>1. PICK n : n = ino'
    OBVIOUS
  <2>2. Inodes' = Inodes /\ (Loaded(0)' <=> Loaded(0)) /\ (Findable(n)' <=> Findable(n))
    BY <1>1, DiskKept
  <2>3. op' # "unmounted" => (rooti' = EXT2_ROOT_INO <=> Loaded(0)')
    BY <1>1, <2>2 DEF Ext2Inv, InodeFound
  <2>4. n \in Inodes' => (got' = n <=> Findable(n)')
    BY <1>1, <2>1, <2>2
  <2>5. Findable(n)' <=> Findable(ino)'
    BY <2>1 DEF Findable
  <2> QED BY <2>1, <2>3, <2>4, <2>5 DEF InodeFound
<1> QED BY <1>1, <1>2, <1>3, <1>4

\* While no block is read
LEMMA ReadIdle == ASSUME op' \notin {"reading", "read", "panic"} PROVE ReadOK'
BY DEF ReadOK

(***************************************************************************)
(* The steps.                                                              *)
(***************************************************************************)
\* A disk that is not mounted
LEMMA InitOK == Init => Ext2Inv
<1>1. SUFFICES ASSUME Init PROVE Ext2Inv
  OBVIOUS
<1>2. PICK d \in Disks : DiskInit(d.sb) /\ FileInit(d.file, d.size, d.hole) /\ DirInit(d.dir)
  BY <1>1 DEF Init
<1>3. /\ op = "unmounted" /\ sb = d.sb /\ got = 0 /\ reads = {} /\ i_size = d.size
      /\ dir = d.dir /\ ino = 0 /\ comp_start = 1
  BY <1>2 DEF DiskInit, FileInit, DirInit
<1>4. SbOK
  <2>1. /\ d.sb.blocks \in Nat \ {0} /\ d.sb.blocks_per_group \in Nat \ {0}
        /\ d.sb.inodes_per_group \in Nat \ {0, 1}
    BY Ext2Assumption
  <2>2. /\ d.sb.log_block_size \in 0 .. 2
        /\ 4 * (1024 * 2^d.sb.log_block_size) + d.sb.inodes_per_group * InodeSize
              <= d.sb.blocks_per_group * (1024 * 2^d.sb.log_block_size)
        /\ d.sb.blocks <= 4080 * d.sb.blocks_per_group
    BY DiskAssumption
  <2>3. block_size = 1024 * 2^d.sb.log_block_size
    BY <1>3 DEF block_size
  <2> QED BY <1>3, <2>1, <2>2, <2>3 DEF SbOK
<1>5. SizeOK
  BY <1>3, Ext2Assumption, DiskAssumption DEF SizeOK, MaxBlocks
<1>6. DirOK
  <2>1. ASSUME NEW n \in DOMAIN dir, NEW j \in DOMAIN dir[n] PROVE dir[n][j].inode \in Nat
    <3>1. PICK S : S = [inode : Nat, name : Seq(Nat \ {NUL}), behind : Nat]
      OBVIOUS
    <3>2. dir[n] \in Seq(S)
      BY <1>3, <3>1, NamesAssumption
    <3>3. dir[n][j] \in S
      BY <3>2
    <3> QED BY <3>1, <3>3
  <2> QED BY <2>1 DEF DirOK
<1>7. InoOK /\ CopiesInside /\ ReadOK
  BY <1>3 DEF InoOK, CopiesInside, ReadOK
<1>8. InodeFound
  BY <1>3 DEF InodeFound
<1> QED BY <1>4, <1>5, <1>6, <1>7, <1>8 DEF Ext2Inv

\* Mounting reads the superblock, the descriptors and the reserved inodes.
LEMMA MountStep == ASSUME Ext2Inv, Mount PROVE Ext2Inv'
<1>1. /\ op = "unmounted" /\ op' = "idle" /\ rooti' = root_inode
      /\ UNCHANGED <<sb, got, i_size, hole, dir, ino, comp_start>>
  BY DEF Mount, ext2_mount_rootfs, fileVars, dirVars
<1>2. SbOK' /\ SizeOK' /\ DirOK'
  BY <1>1, DiskKept DEF Ext2Inv
<1>3. InoOK' /\ ReadOK'
  BY <1>1, ReadIdle DEF Ext2Inv, InoOK
<1>4. InodeFound'
  <2>1. Inodes' = Inodes /\ (Loaded(0)' <=> Loaded(0)) /\ (Findable(ino)' <=> Findable(ino))
    BY <1>1, DiskKept
  <2>2. rooti' = EXT2_ROOT_INO <=> Loaded(0)'
    BY <1>1, <2>1, RootOK DEF Ext2Inv
  <2> QED BY <1>1, <2>1, <2>2 DEF Ext2Inv, InodeFound
<1>5. ASSUME NEW r \in reads' PROVE Inside(r)
  <2>1. \/ r = [off |-> SB_START_BYTES, len |-> SbSize]
        \/ r = read_blk(2, bgdt_elems * BgdSize)
        \/ r = read_blk(bgdt(0), 11 * InodeSize) /\ r.off # WILD
    BY <1>5 DEF Mount, ext2_mount_rootfs, Known
  <2>2. r = read_blk(bgdt(0), 11 * InodeSize) /\ r.off # WILD => bgdt(0) # WILD
    BY DEF read_blk, Offset
  <2> QED BY <2>1, <2>2, MountInside DEF Ext2Inv
<1>6. CopiesInside'
  <2>1. ASSUME NEW r \in reads' PROVE ata_read_bytes(r).copied <= ata_read_bytes(r).filled
    BY <1>5, <2>1 DEF Inside
  <2> QED BY <2>1 DEF CopiesInside, ata_read_bytes, ata_read, nsectors
<1> QED BY <1>2, <1>3, <1>4, <1>6 DEF Ext2Inv

\* A walk begins at the root, before any inode was read.
LEMMA NameiBegins ==
    ASSUME Ext2Inv, NEW p, NEW caller \in {"namei_exec", "namei_open"}, Namei(p, caller)
    PROVE  Ext2Inv'
<1>1. /\ op = "idle" /\ op' = caller /\ ino' = EXT2_ROOT_INO /\ comp_start' = 1
      /\ UNCHANGED <<sb, rooti, got, reads, i_size, hole, dir>>
  BY DEF Namei, fileVars
<1>2. SbOK' /\ SizeOK' /\ DirOK'
  BY <1>1, DiskKept DEF Ext2Inv
<1>3. InoOK' /\ ReadOK'
  BY <1>1, ReadIdle DEF InoOK, EXT2_ROOT_INO
<1>4. InodeFound'
  <2>1. Loaded(0)' <=> Loaded(0)
    BY <1>1, DiskKept
  <2>2. got' = 0 /\ op' # "garbage"
    BY <1>1 DEF Ext2Inv, InoOK
  <2> QED BY <1>1, <2>1, <2>2 DEF Ext2Inv, InodeFound
<1>5. CopiesInside'
  BY <1>1 DEF Ext2Inv, CopiesInside, ata_read_bytes, ata_read, nsectors
<1> QED BY <1>2, <1>3, <1>4, <1>5 DEF Ext2Inv

\* A component that is found has a number, and its inode is read; the error
\* values are no inodes.
LEMMA NameiStepOK == ASSUME Ext2Inv, NameiStep PROVE Ext2Inv'
<1>1. op \in {"namei_exec", "namei_open"} /\ UNCHANGED <<i_size, hole, dir>>
  BY DEF NameiStep, Then, fileVars
<1>2. CASE /\ op' \in {"garbage", "panic"} /\ ino' \in {NODIR, PANIC}
           /\ (op' = "panic" => ino' = PANIC) /\ UNCHANGED <<sb, rooti, got, reads>>
  <2>1. SbOK' /\ SizeOK' /\ DirOK'
    BY <1>1, <1>2, DiskKept DEF Ext2Inv
  <2>2. InoOK' /\ ReadOK'
    BY <1>2 DEF InoOK, ReadOK
  <2>3. InodeFound'
    <3>1. Inodes' = Inodes /\ (Loaded(0)' <=> Loaded(0))
      BY <1>1, <1>2, DiskKept
    <3>2. ino' \notin Inodes
      BY <1>2, InodesPositive DEF Ext2Inv, PANIC, NODIR
    <3> QED BY <1>1, <1>2, <3>1, <3>2 DEF Ext2Inv, InodeFound
  <2>4. CopiesInside'
    BY <1>2 DEF Ext2Inv, CopiesInside, ata_read_bytes, ata_read, nsectors
  <2> QED BY <2>1, <2>2, <2>3, <2>4 DEF Ext2Inv
<1>3. CASE op' = op /\ ino' \in Nat /\ GetInode(ino')
  <2>1. SbOK' /\ SizeOK' /\ DirOK' /\ InoOK' /\ InodeFound' /\ CopiesInside'
    BY <1>1, <1>3, InodeStep
  <2>2. ReadOK'
    BY <1>1, <1>3, ReadIdle
  <2> QED BY <2>1, <2>2 DEF Ext2Inv
<1>4. \/ /\ op' \in {"garbage", "panic"} /\ ino' \in {NODIR, PANIC}
         /\ (op' = "panic" => ino' = PANIC) /\ UNCHANGED <<sb, rooti, got, reads>>
      \/ op' = op /\ ino' \in Nat /\ GetInode(ino')
  <2>1. \/ op' = "garbage" /\ ino' = NODIR /\ UNCHANGED diskRest
        \/ op' = "panic" /\ ino' = PANIC /\ UNCHANGED diskRest
        \/ /\ in \in DOMAIN dir
           /\ \E j \in Hits(in, path[comp_start]) :
                 ino' = dir[in][j].inode /\ GetInode(dir[in][j].inode)
           /\ op' = op
    BY DEF NameiStep
  <2>2. ASSUME in \in DOMAIN dir, NEW j \in Hits(in, path[comp_start])
        PROVE  dir[in][j].inode \in Nat
    BY <2>2 DEF Ext2Inv, DirOK, Hits
  <2>3. CASE op' \in {"garbage", "panic"}
    BY <1>1, <2>1, <2>3 DEF diskRest
  <2>4. CASE op' \notin {"garbage", "panic"}
    <3>1. PICK j \in Hits(in, path[comp_start]) :
             ino' = dir[in][j].inode /\ GetInode(dir[in][j].inode)
      BY <2>1, <2>4
    <3>2. in \in DOMAIN dir /\ op' = op
      BY <2>1, <2>4
    <3>3. dir[in][j].inode \in Nat
      BY <2>2, <3>2
    <3> QED BY <3>1, <3>2, <3>3
  <2> QED BY <2>3, <2>4
<1> QED BY <1>2, <1>3, <1>4

\* The walk ends without reading.
LEMMA NameiReturnOK == ASSUME Ext2Inv, NameiReturn PROVE Ext2Inv'
<1>1. /\ op \in {"namei_exec", "namei_open"} /\ op' \in {"exec", "open"}
      /\ UNCHANGED <<sb, i_size, hole, dir, rooti, got, reads, comp_start, ino>>
  <2>1. op \in {"namei_exec", "namei_open"} /\ op' = Then[op]
    BY DEF NameiReturn, Then
  <2>2. op' \in {"exec", "open"}
    BY <2>1 DEF Then
  <2> QED BY <2>1, <2>2 DEF NameiReturn, diskRest, fileVars, dirVars
<1> QED BY <1>1, QuietStep, ReadIdle DEF Ext2Inv

\* The inode is read, and no block yet.
LEMMA ReadFileOK == ASSUME Ext2Inv, ReadFile PROVE Ext2Inv'
<1>1. /\ op = "exec" /\ op' \in {"reading", "garbage"} /\ ino' = ino /\ GetInode(ino)
      /\ UNCHANGED <<i_size, hole, dir>> /\ i' = 0
      /\ buf' = [p \in 0 .. nblk * CELLS - 1 |-> UNSET]
  BY DEF ReadFile, ext2_read_file
<1>2. ino \in Nat
  BY <1>1 DEF Ext2Inv, InoOK
<1>3. SbOK' /\ SizeOK' /\ DirOK' /\ InoOK' /\ InodeFound' /\ CopiesInside'
  BY <1>1, <1>2, InodeStep
<1>4. ReadOK'
  <2>1. nblk' = nblk /\ nblk \in Nat /\ CELLS \in Nat \ {0}
    <3>1. nblk' = nblk
      BY <1>1 DEF nblk
    <3> QED BY <3>1, BlocksReached, FileAssumption DEF Ext2Inv
  <2>2. i' \in 0 .. nblk /\ DOMAIN buf' = 0 .. nblk * CELLS - 1
    BY <1>1, <2>1
  <2>3. \A p \in DOMAIN buf' : ~(p < i' * CELLS)
    <3>1. nblk * CELLS \in Nat /\ i' * CELLS = 0
      BY <1>1, <2>1
    <3> QED BY <2>2, <3>1
  <2> QED BY <1>1, <2>1, <2>2, <2>3 DEF ReadOK
<1> QED BY <1>3, <1>4 DEF Ext2Inv

\* One more block is in its place; a file without holes passes both tests.
LEMMA GetBlockOK == ASSUME Ext2Inv, GetBlock, UNCHANGED dirVars PROVE Ext2Inv'
<1>1. /\ op = "reading" /\ i < nblk /\ op' \in {"reading", "panic"}
      /\ UNCHANGED <<sb, i_size, hole, dir, rooti, got, reads, comp_start, ino>>
  BY DEF GetBlock, diskRest, dirVars
<1>2. SbOK' /\ SizeOK' /\ DirOK' /\ InoOK' /\ InodeFound' /\ CopiesInside'
  BY <1>1, QuietStep
<1>3. /\ i \in 0 .. nblk - 1 /\ nblk \in Nat /\ nblk <= MaxBlocks /\ MaxBlocks \in Nat
      /\ CELLS \in Nat \ {0} /\ DOMAIN buf = 0 .. nblk * CELLS - 1
      /\ \A p \in DOMAIN buf : p < i * CELLS => buf[p] = Brought(p)
  <2>1. nblk \in Nat /\ nblk <= MaxBlocks /\ MaxBlocks \in Nat /\ CELLS \in Nat \ {0}
    BY BlocksReached, Geometry, FileAssumption DEF Ext2Inv
  <2> QED BY <1>1, <2>1 DEF Ext2Inv, ReadOK
<1>4. nblk' = nblk /\ \A p : Brought(p)' = Brought(p)
  BY <1>1, DiskKept
<1>5. CASE op' = "panic"
  <2>1. i > i_blocks \/ ext2_block_offsets(i) = <<>>
    BY <1>1, <1>5 DEF GetBlock
  <2>2. ext2_block_offsets(i) # <<>>
    <3>1. i \in 0 .. MaxBlocks - 1
      BY <1>3
    <3> QED BY <3>1, NeverTooBig
  <2>3. hole # {}
    <3>1. hole = {} => i_blocks \in Nat /\ nblk <= i_blocks
      BY BlocksCounted DEF Ext2Inv
    <3> QED BY <1>3, <2>1, <2>2, <3>1
  <2> QED BY <1>1, <1>2, <1>5, <2>3 DEF Ext2Inv, ReadOK
<1>6. CASE op' = "reading"
  <2>1. buf' = ext2_get_block(i) /\ i' = i + 1
    BY <1>1, <1>6 DEF GetBlock
  <2>2. DOMAIN buf' = DOMAIN buf /\ i' \in 0 .. nblk
    BY <1>3, <2>1 DEF ext2_get_block
  <2>3. ASSUME NEW p \in DOMAIN buf, p < i' * CELLS PROVE buf'[p] = Brought(p)
    <3>1. p \in Nat /\ i \in Nat
      <4>1. nblk * CELLS \in Nat
        BY <1>3
      <4> QED BY <1>3, <4>1
    <3>2. buf'[p] = IF p \in Cells(i) THEN ReadAt(ext2_block_offsets(i), p % CELLS) ELSE buf[p]
      BY <2>1 DEF ext2_get_block
    <3>3. p < (i + 1) * CELLS
      BY <2>1, <2>3
    <3>4. /\ p \in Cells(i) <=> p \div CELLS = i
          /\ p \in Cells(i) <=> p >= i * CELLS /\ p < (i + 1) * CELLS
      BY <3>1, CellsAre
    <3>5. CASE p \in Cells(i)
      <4>1. ReadAt(ext2_block_offsets(i), p % CELLS) =
               IF i \in hole \/ Misplaced(i) THEN FOREIGN ELSE OnDisk(i, p % CELLS)
        BY <1>3, ReadAtIs DEF Ext2Inv
      <4>2. p \div CELLS = i
        BY <3>4, <3>5
      <4> QED BY <3>2, <3>5, <4>1, <4>2 DEF Brought
    <3>6. CASE p \notin Cells(i)
      <4>1. p < i * CELLS
        <5>1. i * CELLS \in Nat
          BY <1>3, <3>1
        <5> QED BY <3>1, <3>3, <3>4, <3>6, <5>1
      <4> QED BY <1>3, <3>2, <3>6, <4>1
    <3> QED BY <3>5, <3>6
  <2>4. ReadOK'
    <3>1. \A p \in DOMAIN buf' : p < i' * CELLS => buf'[p] = Brought(p)'
      BY <1>4, <2>2, <2>3
    <3> QED BY <1>3, <1>4, <1>6, <2>2, <3>1 DEF ReadOK
  <2> QED BY <1>2, <2>4 DEF Ext2Inv
<1> QED BY <1>1, <1>5, <1>6

\* All blocks are in their place, and what is behind the end is zeroed.
LEMMA FinishOK == ASSUME Ext2Inv, Finish, UNCHANGED dirVars PROVE Ext2Inv'
<1>1. /\ op = "reading" /\ i >= nblk /\ op' = "read"
      /\ buf' = [p \in DOMAIN buf |-> IF p >= i_size THEN ZERO ELSE buf[p]]
      /\ UNCHANGED <<sb, i_size, hole, dir, rooti, got, reads, comp_start, ino>>
  BY DEF Finish, diskRest, dirVars
<1>2. SbOK' /\ SizeOK' /\ DirOK' /\ InoOK' /\ InodeFound' /\ CopiesInside'
  BY <1>1, QuietStep
<1>3. /\ nblk \in Nat /\ CELLS \in Nat \ {0} /\ i \in 0 .. nblk
      /\ DOMAIN buf = 0 .. nblk * CELLS - 1
      /\ \A p \in DOMAIN buf : p < i * CELLS => buf[p] = Brought(p)
  BY <1>1, BlocksReached, FileAssumption DEF Ext2Inv, ReadOK
<1>4. \A p \in DOMAIN buf : buf[p] = Brought(p)
  <2>1. i = nblk
    BY <1>1, <1>3
  <2>2. nblk * CELLS \in Nat
    BY <1>3
  <2> QED BY <1>3, <2>1, <2>2
<1>5. nblk' = nblk /\ i_size' = i_size /\ \A p : Brought(p)' = Brought(p)
  BY <1>1, DiskKept
<1>6. /\ DOMAIN buf' = 0 .. nblk' * CELLS - 1
      /\ \A p \in DOMAIN buf' : buf'[p] = IF p >= i_size' THEN ZERO ELSE Brought(p)'
  BY <1>1, <1>3, <1>4, <1>5
<1>7. ReadOK'
  BY <1>1, <1>6 DEF ReadOK
<1> QED BY <1>2, <1>7 DEF Ext2Inv

\* The directory's inode is read.
LEMMA GetdentsOK == ASSUME Ext2Inv, Getdents PROVE Ext2Inv'
<1>1. /\ op = "open" /\ op' \in {"getdents", "garbage"} /\ ino' = ino /\ GetInode(ino)
      /\ UNCHANGED <<i_size, hole, dir>>
  BY DEF Getdents, fileVars, dirVars
<1>2. ino \in Nat
  BY <1>1 DEF Ext2Inv, InoOK
<1>3. SbOK' /\ SizeOK' /\ DirOK' /\ InoOK' /\ InodeFound' /\ CopiesInside'
  BY <1>1, <1>2, InodeStep
<1>4. ReadOK'
  BY <1>1, ReadIdle
<1> QED BY <1>3, <1>4 DEF Ext2Inv

\* Listing touches neither the disk nor the file.
LEMMA ListStepOK == ASSUME Ext2Inv, ListStep PROVE Ext2Inv'
<1>1. /\ op \in {"getdents", "ls"} /\ op' \in {"getdents", "ls", "listed", "overrun"}
      /\ UNCHANGED <<sb, i_size, hole, dir, rooti, got, reads, comp_start, ino>>
  BY DEF ListStep, GetdentsStep, GetdentsReturn, LsStep, diskVars, diskRest, fileVars
<1> QED BY <1>1, QuietStep, ReadIdle DEF Ext2Inv

\* Nothing changes.
LEMMA StutterOK == ASSUME Ext2Inv, UNCHANGED vars PROVE Ext2Inv'
<1>1. UNCHANGED <<op, sb, i_size, hole, dir, rooti, got, reads, comp_start, ino, buf, i>>
  BY DEF vars, diskVars, diskRest, fileVars, dirVars
<1>2. SbOK' /\ SizeOK' /\ DirOK'
  BY <1>1, DiskKept DEF Ext2Inv
<1>3. InoOK'
  BY <1>1 DEF Ext2Inv, InoOK
<1>4. InodeFound'
  <2>1. Inodes' = Inodes /\ (Loaded(0)' <=> Loaded(0)) /\ (Findable(ino)' <=> Findable(ino))
    BY <1>1, DiskKept
  <2> QED BY <1>1, <2>1 DEF Ext2Inv, InodeFound
<1>5. CopiesInside'
  BY <1>1 DEF Ext2Inv, CopiesInside, ata_read_bytes, ata_read, nsectors
<1>6. ReadOK'
  <2>1. nblk' = nblk /\ \A p : Brought(p)' = Brought(p)
    BY <1>1, DiskKept
  <2> QED BY <1>1, <2>1 DEF Ext2Inv, ReadOK
<1> QED BY <1>2, <1>3, <1>4, <1>5, <1>6 DEF Ext2Inv

\* A buffer that was filled this way has the file's contents, but for the blocks
\* that were not written or are misplaced.
LEMMA ReadOKExact == ASSUME Ext2Inv PROVE ReadExact
<1>1. hole = {} /\ op = "panic" => ino = PANIC
  BY DEF Ext2Inv, ReadOK
<1>2. ASSUME op = "read", NEW p \in DOMAIN buf
      PROVE  /\ buf[p] # UNSET
             /\ buf[p] = Expected(p) <=>
                    p >= i_size \/ ~(Misplaced(p \div CELLS) \/ p \div CELLS \in hole)
  <2>1. DOMAIN buf = 0 .. nblk * CELLS - 1 /\ buf[p] = IF p >= i_size THEN ZERO ELSE Brought(p)
    BY <1>2 DEF Ext2Inv, ReadOK
  <2>2. CASE p >= i_size
    BY <2>1, <2>2 DEF ZERO, UNSET, Expected
  <2>3. CASE ~(p >= i_size)
    <3>1. p \in Nat /\ i_size \in Nat
      <4>1. nblk \in Nat /\ CELLS \in Nat \ {0} /\ i_size \in Nat
        BY BlocksReached, FileAssumption DEF Ext2Inv, SizeOK
      <4>2. nblk * CELLS \in Nat
        BY <4>1
      <4> QED BY <2>1, <4>1, <4>2
    <3>2. PICK q, r : q = p \div CELLS /\ r = p % CELLS
      OBVIOUS
    <3>3. q * CELLS + r = p /\ q \in Nat
      BY <3>1, <3>2, CellsAre, DivMod, FileAssumption
    <3>4. q * CELLS + r < i_size
      BY <2>3, <3>1, <3>3
    <3>5. OnDisk(q, r) = <<q, r>> /\ Expected(p) = <<q, r>>
      BY <2>3, <3>2, <3>4 DEF OnDisk, Expected
    <3>6. buf[p] = IF q \in hole \/ Misplaced(q) THEN FOREIGN ELSE <<q, r>>
      BY <2>1, <2>3, <3>2, <3>5 DEF Brought
    <3>7. FOREIGN # <<q, r>> /\ UNSET # FOREIGN /\ UNSET # <<q, r>>
      BY <3>3 DEF FOREIGN, UNSET
    <3> QED BY <2>3, <3>2, <3>5, <3>6, <3>7
  <2> QED BY <2>2, <2>3
<1> QED BY <1>1, <1>2 DEF ReadExact

(***************************************************************************)
(* The theorems.                                                           *)
(***************************************************************************)
\* The invariant holds in every state the file system reaches.
LEMMA Ext2Correct == Spec => []Ext2Inv
<1>1. ASSUME Ext2Inv, [Next]_vars PROVE Ext2Inv'
  <2>1. CASE Mount
    BY <1>1, <2>1, MountStep
  <2>2. CASE \E p \in Paths : exec_elf(p)
    BY <1>1, <2>2, NameiBegins DEF exec_elf
  <2>3. CASE Walk
    BY <1>1, <2>3, NameiStepOK, NameiReturnOK DEF Walk
  <2>4. CASE ReadFile
    BY <1>1, <2>4, ReadFileOK
  <2>5. CASE ReadStep
    BY <1>1, <2>5, GetBlockOK, FinishOK DEF ReadStep
  <2>6. CASE OpenRoot
    BY <1>1, <2>6, NameiBegins DEF OpenRoot
  <2>7. CASE Getdents
    BY <1>1, <2>7, GetdentsOK
  <2>8. CASE ListStep
    BY <1>1, <2>8, ListStepOK
  <2>9. CASE UNCHANGED vars
    BY <1>1, <2>9, StutterOK
  <2> QED BY <1>1, <2>1, <2>2, <2>3, <2>4, <2>5, <2>6, <2>7, <2>8, <2>9 DEF Next
<1> QED BY <1>1, InitOK, PTL DEF Spec

\* On every geometry that mke2fs makes, ext2_get_inode brings the inode it was
\* asked for if, and only if, that is not the last of its group and the group's
\* descriptor was read; and mounting finds the root directory exactly when there
\* is a whole group of 1024-byte blocks.
THEOREM InodesCorrect == Spec => []InodeFound
<1>1. Ext2Inv => InodeFound
  BY DEF Ext2Inv
<1> QED BY <1>1, Ext2Correct, PTL

\* No read of the file system makes ata_read_bytes copy from behind its buffer,
\* although it leaves the offset in the sector out of its count of sectors.
THEOREM CopiesCorrect == Spec => []CopiesInside
<1>1. Ext2Inv => CopiesInside
  BY DEF Ext2Inv
<1> QED BY <1>1, Ext2Correct, PTL

\* Whole blocks, which ext2_get_block, ext2_namei and ext2_getdents read at any
\* block number that a pointer holds, are whole sectors, 255 at the most.
BlocksInside == \A n \in Nat : Inside(read_blk(n, block_size))

\* The reads of whole blocks, which the model does not note one by one, do not
\* copy from behind the buffer of ata_read_bytes either, whatever their number.
THEOREM BlocksCorrect == Spec => []BlocksInside
<1>1. Ext2Inv => BlocksInside
  <2> SUFFICES ASSUME Ext2Inv, NEW n \in Nat
               PROVE  Inside(read_blk(n, block_size))
    BY DEF BlocksInside
  <2>1. PICK B : B = block_size
    OBVIOUS
  <2>2. B \in {1024, 2048, 4096}
    BY <2>1, BlockSize DEF Ext2Inv
  <2>3. PICK k \in 0 .. 255 : B = 512 * k
    <3>1. 2 \in 0 .. 255 /\ 4 \in 0 .. 255 /\ 8 \in 0 .. 255
      OBVIOUS
    <3>2. 1024 = 512 * 2 /\ 2048 = 512 * 4 /\ 4096 = 512 * 8
      OBVIOUS
    <3> QED BY <2>2, <3>1, <3>2
  <2>4. PICK q \in Nat : n * B + 0 = 512 * q
    <3>1. CASE B = 1024
      <4>1. 2 * n \in Nat /\ n * 1024 + 0 = 512 * (2 * n)
        OBVIOUS
      <4> QED BY <3>1, <4>1
    <3>2. CASE B = 2048
      <4>1. 4 * n \in Nat /\ n * 2048 + 0 = 512 * (4 * n)
        OBVIOUS
      <4> QED BY <3>2, <4>1
    <3>3. CASE B = 4096
      <4>1. 8 * n \in Nat /\ n * 4096 + 0 = 512 * (8 * n)
        OBVIOUS
      <4> QED BY <3>3, <4>1
    <3> QED BY <2>2, <3>1, <3>2, <3>3
  <2>5. read_blk(n, B) = [off |-> 512 * q, len |-> B]
    <3>1. n # WILD
      BY DEF WILD
    <3>2. read_blk(n, B) = [off |-> n * B + 0, len |-> B]
      BY <2>1, <3>1 DEF read_blk, Offset
    <3> QED BY <2>4, <3>2
  <2>6. B \in Nat /\ B <= 512 * k
    BY <2>2, <2>3
  <2>7. Inside([off |-> 512 * q, len |-> B])
    BY <2>3, <2>6, WholeSectors
  <2> QED BY <2>1, <2>5, <2>7
<1> QED BY <1>1, Ext2Correct, PTL

\* For every number of direct blocks, of pointers in a block and of cells, a file
\* of any size its pointers reach is read exactly but for the misplaced blocks
\* and those never written; and one without holes never stops the kernel.
THEOREM ReadCorrect == Spec => []ReadExact
BY ReadOKExact, Ext2Correct, PTL

(***************************************************************************)
(* Least elements, in place of induction.                                  *)
(***************************************************************************)
\* A set of natural numbers has a least element, and Min is that.
LEMMA LeastIn ==
    ASSUME NEW T \in SUBSET Nat, T # {}
    PROVE  Min(T) \in T /\ \A y \in T : Min(T) <= y
<1> DEFINE R == {ss \in Nat \X Nat : ss[1] < ss[2]}
<1>1. IsWellFoundedOn(R, Nat)
  BY NatLessThanWellFounded DEF OpToRel
<1>2. \A x, y \in Nat : x < y => <<x, y>> \in R
  OBVIOUS
<1> HIDE DEF R
<1>3. PICK x \in T : \A y \in T : ~ (<<y, x>> \in R)
  BY <1>1, WFMin
<1>4. \A y \in T : x <= y
  <2> TAKE y \in T
  <2>1. x \in Nat /\ y \in Nat /\ ~ (y < x)
    BY <1>2, <1>3
  <2> QED BY <2>1
<1> QED BY <1>4 DEF Min

\* A walk as a relation: h is the walk of p up to its n-th component.
IsWalk(h, tree, p, n) ==
    h = [k \in 0 .. n |-> IF k = 0 THEN EXT2_ROOT_INO ELSE RefLookup(tree, h[k - 1], p[k])]

\* Every path has a walk: one that ends goes one component further.
LEMMA WalkExists ==
    ASSUME NEW tree, NEW p, NEW n \in Nat
    PROVE  \E h : IsWalk(h, tree, p, n)
<1> DEFINE T == {m \in Nat : ~\E h : IsWalk(h, tree, p, m)}
<1>1. SUFFICES ASSUME T # {} PROVE FALSE
  OBVIOUS
<1>2. PICK m \in T : \A y \in T : m <= y
  BY <1>1, LeastIn
<1>3. CASE m = 0
  <2> DEFINE h == [k \in 0 .. 0 |-> EXT2_ROOT_INO]
  <2>1. h = [k \in 0 .. 0 |-> IF k = 0 THEN EXT2_ROOT_INO ELSE RefLookup(tree, h[k - 1], p[k])]
    OBVIOUS
  <2>2. IsWalk(h, tree, p, 0)
    BY <2>1 DEF IsWalk
  <2> QED BY <1>3, <2>2
<1>4. CASE m # 0
  <2>1. m - 1 \in Nat /\ m - 1 \notin T /\ m \in Nat
    BY <1>2, <1>4
  <2>2. PICK g : IsWalk(g, tree, p, m - 1)
    BY <2>1
  <2> DEFINE h == [k \in 0 .. m |-> IF k = m THEN RefLookup(tree, g[m - 1], p[m]) ELSE g[k]]
  <2>3. ASSUME NEW k \in 0 .. m
        PROVE  h[k] = IF k = 0 THEN EXT2_ROOT_INO ELSE RefLookup(tree, h[k - 1], p[k])
    <3>1. CASE k = m
      BY <1>4, <2>1, <3>1
    <3>2. CASE k # m
      <4>1. k \in 0 .. m - 1 /\ h[k] = g[k] /\ (k # 0 => h[k - 1] = g[k - 1])
        BY <2>1, <3>2
      <4>2. g[k] = IF k = 0 THEN EXT2_ROOT_INO ELSE RefLookup(tree, g[k - 1], p[k])
        BY <2>2, <4>1 DEF IsWalk
      <4> QED BY <4>1, <4>2
    <3> QED BY <3>1, <3>2
  <2>4. IsWalk(h, tree, p, m)
    BY <2>3 DEF IsWalk
  <2> QED BY <2>4
<1> QED BY <1>3, <1>4

\* So the reference walk begins at the root and looks up one component after another.
LEMMA WalkIs ==
    ASSUME NEW tree, NEW p, Len(p) \in Nat
    PROVE  /\ RefWalk(tree, p)[0] = EXT2_ROOT_INO
           /\ \A k \in 1 .. Len(p) :
                 RefWalk(tree, p)[k] = RefLookup(tree, RefWalk(tree, p)[k - 1], p[k])
<1>1. \E h : IsWalk(h, tree, p, Len(p))
  BY WalkExists
<1>2. IsWalk(RefWalk(tree, p), tree, p, Len(p))
  BY <1>1, Zenon DEF IsWalk, RefWalk
<1> QED BY <1>2 DEF IsWalk

\* What does not exist stays missing.
LEMMA PanicStays ==
    ASSUME NEW tree, NEW p, Len(p) \in Nat, NEW k \in 0 .. Len(p),
           RefWalk(tree, p)[k] = PANIC
    PROVE  RefWalk(tree, p)[Len(p)] = PANIC
<1> DEFINE T == {m \in Nat : k <= m /\ m <= Len(p) /\ RefWalk(tree, p)[m] # PANIC}
<1>1. SUFFICES ASSUME T # {} PROVE FALSE
  OBVIOUS
<1>2. PICK m \in T : \A y \in T : m <= y
  BY <1>1, LeastIn
<1>3. m # k /\ m \in Nat /\ k \in Nat /\ k <= m /\ m <= Len(p)
  BY <1>2
<1>4. m - 1 \in Nat /\ k <= m - 1 /\ m - 1 <= Len(p) /\ m - 1 \notin T
  BY <1>2, <1>3
<1>5. RefWalk(tree, p)[m - 1] = PANIC
  BY <1>4
<1>6. RefWalk(tree, p)[m] = RefLookup(tree, RefWalk(tree, p)[m - 1], p[m])
  BY <1>3, WalkIs
<1> QED BY <1>2, <1>5, <1>6 DEF RefLookup

(***************************************************************************)
(* Comparing names.                                                        *)
(***************************************************************************)
Strings  == Seq(Nat \ {NUL})
DirEntry == [inode : Nat, name : Strings, behind : Nat]

\* The strings agree up to the end of the first or to the first difference.
LEMMA AgreeingIs ==
    ASSUME NEW s1, NEW s2, Len(s1) \in Nat
    PROVE  /\ Agreeing(s1, s2) \in 0 .. Len(s1)
           /\ \A k \in 1 .. Agreeing(s1, s2) : s1[k] = s2[k]
           /\ Agreeing(s1, s2) = Len(s1)
                \/ s1[Agreeing(s1, s2) + 1] # s2[Agreeing(s1, s2) + 1]
<1> DEFINE Good(j) == /\ \A k \in 1 .. j : s1[k] = s2[k]
                      /\ j = Len(s1) \/ s1[j + 1] # s2[j + 1]
           T == {j \in Nat : j < Len(s1) /\ s1[j + 1] # s2[j + 1]}
<1>1. \E j \in 0 .. Len(s1) : Good(j)
  <2>1. CASE T = {}
    <3>1. ASSUME NEW k \in 1 .. Len(s1) PROVE s1[k] = s2[k]
      <4>1. PICK i0 \in Nat : i0 + 1 = k
        OBVIOUS
      <4>2. i0 < Len(s1)
        BY <4>1
      <4>3. i0 \notin T
        BY <2>1
      <4> QED BY <4>1, <4>2, <4>3
    <3> QED BY <3>1
  <2>2. CASE T # {}
    <3>1. PICK j \in T : \A y \in T : j <= y
      BY <2>2, LeastIn
    <3>2. ASSUME NEW k \in 1 .. j PROVE s1[k] = s2[k]
      <4>1. j \in Nat /\ j < Len(s1)
        BY <3>1
      <4>2. PICK i0 \in Nat : i0 + 1 = k
        BY <4>1
      <4>3. i0 < Len(s1) /\ i0 < j
        BY <4>1, <4>2
      <4>4. i0 \notin T
        BY <3>1, <4>1, <4>3
      <4> QED BY <4>2, <4>3, <4>4
    <3> QED BY <3>1, <3>2
  <2> QED BY <2>1, <2>2
<1>2. Agreeing(s1, s2) = CHOOSE j \in 0 .. Len(s1) : Good(j)
  BY DEF Agreeing
<1> HIDE DEF Good
<1>3. Agreeing(s1, s2) \in 0 .. Len(s1) /\ Good(Agreeing(s1, s2))
  BY <1>1, <1>2
<1> QED BY <1>3 DEF Good

\* The bytes of an entry are its name and what stands behind it.
LEMMA BytesAre ==
    ASSUME NEW e \in DirEntry
    PROVE  /\ Len(e.name) \in Nat
           /\ \A k \in 1 .. Len(e.name) : Bytes(e)[k] = e.name[k] /\ e.name[k] # NUL
           /\ Bytes(e)[Len(e.name) + 1] = e.behind
           /\ Bytes(e)[Len(e.name) + 2] = NUL
<1>1. e.name \in Strings /\ <<e.behind, NUL>> \in Seq(Nat)
  BY DEF DirEntry, NUL
<1>2. e.name \in Seq(Nat) /\ Len(e.name) \in Nat /\ \A k \in 1 .. Len(e.name) : e.name[k] # NUL
  BY <1>1 DEF Strings
<1> QED BY <1>1, <1>2 DEF Bytes

\* A name that agrees with the beginning of the component begins it.
LEMMA Begins ==
    ASSUME NEW s \in Strings, NEW c \in Strings, Len(s) <= Len(c),
           \A k \in 1 .. Len(s) : c[k] = s[k]
    PROVE  s = c \/ IsStrictPrefix(s, c)
<1>1. Len(s) \in Nat /\ Len(c) \in Nat /\ s \in Seq(Nat) /\ c \in Seq(Nat)
  BY DEF Strings
<1>2. SubSeq(s, 1, Len(s)) = SubSeq(c, 1, Len(s))
  BY <1>1
<1> QED BY <1>1, <1>2 DEF IsStrictPrefix, IsPrefix

\* A name that begins another is shorter.
LEMMA StrictlyShorter ==
    ASSUME NEW s \in Strings, NEW c \in Strings, Len(s) = Len(c)
    PROVE  ~IsStrictPrefix(s, c)
<1>1. s \in Seq(Nat) /\ c \in Seq(Nat)
  BY DEF Strings
<1>2. SubSeq(s, 1, Len(s)) = s /\ SubSeq(c, 1, Len(c)) = c
  BY <1>1
<1> QED BY <1>2 DEF IsStrictPrefix, IsPrefix

\* An entry whose name does not begin the component compares equal exactly if it
\* has the name.
LEMMA MatchExact ==
    ASSUME NEW c \in Strings, NEW e \in DirEntry, ~IsStrictPrefix(e.name, c)
    PROVE  strncmp_equal(c, e) <=> e.name = c
<1> DEFINE j == Agreeing(c, Bytes(e))
<1>1. Len(c) \in Nat /\ e.name \in Strings /\ \A k \in 1 .. Len(c) : c[k] # NUL
  BY DEF Strings, DirEntry
<1>2. /\ j \in 0 .. Len(c) /\ \A k \in 1 .. j : c[k] = Bytes(e)[k]
      /\ j = Len(c) \/ c[j + 1] # Bytes(e)[j + 1]
  <2>1. Len(c) \in Nat
    BY <1>1
  <2> QED BY <2>1, AgreeingIs
<1>3. strncmp_equal(c, e) <=> j = Len(e.name) \/ (j = Len(c) /\ Bytes(e)[j + 1] = NUL)
  BY DEF strncmp_equal
<1> HIDE DEF j
<1>4. /\ Len(e.name) \in Nat /\ \A k \in 1 .. Len(e.name) : Bytes(e)[k] = e.name[k] /\ e.name[k] # NUL
  BY BytesAre
<1>5. ASSUME Len(e.name) <= j PROVE e.name = c
  <2>1. \A k \in 1 .. Len(e.name) : c[k] = e.name[k]
    BY <1>2, <1>4, <1>5
  <2>2. Len(e.name) <= Len(c)
    BY <1>1, <1>2, <1>4, <1>5
  <2> QED BY <1>1, <2>1, <2>2, Begins
<1>6. ASSUME j < Len(e.name), j = Len(c), Bytes(e)[j + 1] = NUL PROVE FALSE
  <2>1. j + 1 \in 1 .. Len(e.name)
    BY <1>2, <1>4, <1>6
  <2> QED BY <1>4, <1>6, <2>1
<1>7. ASSUME e.name = c PROVE j = Len(e.name)
  <2>1. CASE j # Len(c)
    <3>1. j + 1 \in 1 .. Len(c)
      BY <1>1, <1>2, <2>1
    <3>2. c[j + 1] = Bytes(e)[j + 1]
      BY <1>4, <1>7, <3>1
    <3> QED BY <1>2, <2>1, <3>2
  <2> QED BY <1>7, <2>1
<1>8. j \in Nat
  BY <1>1, <1>2
<1> QED BY <1>3, <1>4, <1>5, <1>6, <1>7, <1>8

\* strncmp compares the first j bytes of a line and an entry, and decides on them.
Compared(c, e, j) ==
    /\ j \in 0 .. Len(c)
    /\ \A k \in 1 .. j : c[k] = Bytes(e)[k]
    /\ j = Len(c) \/ c[j + 1] # Bytes(e)[j + 1]
    /\ strncmp_equal(c, e) <=> j = Len(e.name) \/ (j = Len(c) /\ Bytes(e)[j + 1] = NUL)

\* There is such a j for every line.
LEMMA ComparedIs ==
    ASSUME NEW c, Len(c) \in Nat, NEW e
    PROVE  \E j : Compared(c, e, j)
<1>1. PICK j : j = Agreeing(c, Bytes(e))
  OBVIOUS
<1>2. /\ j \in 0 .. Len(c) /\ \A k \in 1 .. j : c[k] = Bytes(e)[k]
      /\ j = Len(c) \/ c[j + 1] # Bytes(e)[j + 1]
  BY <1>1, AgreeingIs
<1>3. strncmp_equal(c, e) <=> j = Len(e.name) \/ (j = Len(c) /\ Bytes(e)[j + 1] = NUL)
  BY <1>1 DEF strncmp_equal
<1> QED BY <1>2, <1>3 DEF Compared

\* A line that ends with a newline compares equal to the entry of its program, ...
LEMMA LineHits ==
    ASSUME NEW e \in DirEntry, NEW c, c = Append(e.name, NL)
    PROVE  strncmp_equal(c, e)
<1>1. /\ Len(e.name) \in Nat /\ Len(c) = Len(e.name) + 1
      /\ \A k \in 1 .. Len(e.name) : c[k] = e.name[k]
      /\ c[Len(e.name) + 1] = NL
  <2>1. e.name \in Seq(Nat)
    BY DEF DirEntry, Strings
  <2> QED BY <2>1
<1>0. Len(c) \in Nat
  BY <1>1
<1> PICK j : Compared(c, e, j)
  BY <1>0, ComparedIs
<1>2. /\ j \in 0 .. Len(c) /\ \A k \in 1 .. j : c[k] = Bytes(e)[k]
      /\ j = Len(c) \/ c[j + 1] # Bytes(e)[j + 1]
  BY DEF Compared
<1>3. strncmp_equal(c, e) <=> j = Len(e.name) \/ (j = Len(c) /\ Bytes(e)[j + 1] = NUL)
  BY DEF Compared
<1>4. /\ \A k \in 1 .. Len(e.name) : Bytes(e)[k] = e.name[k]
      /\ Bytes(e)[Len(e.name) + 2] = NUL
  BY BytesAre
<1>5. CASE j < Len(e.name)
  <2>1. j + 1 \in 1 .. Len(e.name) /\ j # Len(c)
    BY <1>1, <1>2, <1>5
  <2> QED BY <1>1, <1>2, <1>4, <2>1
<1>6. CASE j = Len(c)
  <2>1. j + 1 = Len(e.name) + 2
    BY <1>1, <1>6
  <2> QED BY <1>3, <1>4, <1>6, <2>1
<1>7. j < Len(e.name) \/ j = Len(e.name) \/ j = Len(c)
  BY <1>1, <1>2
<1> QED BY <1>3, <1>5, <1>6, <1>7

\* ... and to no other, if no shorter name begins that of the program and none is
\* the line itself.
LEMMA LineHitsOnly ==
    ASSUME NEW e \in DirEntry, NEW f \in DirEntry, NEW c, c = Append(e.name, NL),
           ~IsStrictPrefix(f.name, e.name), f.name # c, strncmp_equal(c, f)
    PROVE  f.name = e.name
<1>1. /\ Len(e.name) \in Nat /\ Len(c) = Len(e.name) + 1
      /\ \A k \in 1 .. Len(e.name) : c[k] = e.name[k]
      /\ c[Len(e.name) + 1] = NL /\ c \in Strings
      /\ e.name \in Strings /\ f.name \in Strings
  <2>1. e.name \in Seq(Nat) /\ e.name \in Seq(Nat \ {NUL}) /\ NL \in Nat \ {NUL} /\ f.name \in Strings
    BY DEF DirEntry, Strings, NL, NUL
  <2> QED BY <2>1 DEF Strings
<1>0. Len(c) \in Nat
  BY <1>1
<1> PICK j : Compared(c, f, j)
  BY <1>0, ComparedIs
<1>2. /\ j \in 0 .. Len(c) /\ \A k \in 1 .. j : c[k] = Bytes(f)[k]
      /\ j = Len(c) \/ c[j + 1] # Bytes(f)[j + 1]
  BY DEF Compared
<1>3. j = Len(f.name) \/ (j = Len(c) /\ Bytes(f)[j + 1] = NUL)
  BY DEF Compared
<1>4. /\ Len(f.name) \in Nat /\ \A k \in 1 .. Len(f.name) : Bytes(f)[k] = f.name[k] /\ f.name[k] # NUL
  BY BytesAre
<1>5. Len(f.name) <= j
  <2>1. CASE j < Len(f.name)
    <3>1. j + 1 \in 1 .. Len(f.name)
      BY <1>1, <1>2, <1>4, <2>1
    <3> QED BY <1>2, <1>3, <1>4, <2>1, <3>1
  <2>2. j \in Nat
    BY <1>1, <1>2
  <2> QED BY <1>4, <2>1, <2>2
<1>6. \A k \in 1 .. Len(f.name) : c[k] = f.name[k]
  BY <1>1, <1>2, <1>4, <1>5
<1>7. Len(f.name) <= Len(c)
  BY <1>1, <1>2, <1>4, <1>5
<1>8. CASE Len(f.name) = Len(c)
  <2>1. f.name = c \/ IsStrictPrefix(f.name, c)
    <3>1. Len(f.name) <= Len(c)
      BY <1>4, <1>8
    <3> QED BY <1>1, <1>6, <3>1, Begins
  <2>2. ~IsStrictPrefix(f.name, c)
    BY <1>1, <1>8, StrictlyShorter
  <2> QED BY <2>1, <2>2
<1>9. CASE Len(f.name) <= Len(e.name)
  <2>1. \A k \in 1 .. Len(f.name) : e.name[k] = f.name[k]
    BY <1>1, <1>4, <1>6, <1>9
  <2> QED BY <1>1, <1>9, <2>1, Begins
<1> QED BY <1>1, <1>4, <1>7, <1>8, <1>9

(***************************************************************************)
(* The walk.                                                               *)
(***************************************************************************)
\* Every inode that can be found is on the disk.
LEMMA FindableOnDisk ==
    ASSUME SbOK, NEW n \in Nat, Findable(n)
    PROVE  n \in Inodes
<1>1. PICK I, G, N, x, g, r :
         /\ I = sb.inodes_per_group /\ G = sb.blocks_per_group /\ N = sb.blocks
         /\ x = (N - FirstDataBlock - 1) \div G /\ g = n \div I /\ r = n % I
  OBVIOUS
<1>2. /\ I \in Nat \ {0, 1} /\ G \in Nat \ {0} /\ N \in Nat \ {0}
      /\ block_size = 1024 /\ FirstDataBlock = 1
      /\ g < N \div G /\ r # 0
  BY <1>1 DEF SbOK, Findable, Loaded, bgdt_elems, FirstDataBlock
<1>3. g \in Nat /\ r \in 0 .. I - 1 /\ r = n - I * g /\ I * g \in Nat
  <2>1. g \in Nat /\ r \in 0 .. I - 1 /\ r = n - I * g
    BY <1>1, <1>2, DivMod
  <2> QED BY <1>2, <2>1
<1>4. G * (g + 1) <= N
  <2>1. ~(N \div G < g + 1)
    <3>1. N \div G \in Nat
      BY <1>2, DivMod
    <3> QED BY <1>2, <1>3, <3>1
  <2>2. g + 1 \in Nat /\ G * (g + 1) \in Nat
    BY <1>2, <1>3
  <2>3. ~(N < G * (g + 1))
    BY <1>2, <2>1, <2>2, DivBelow
  <2> QED BY <1>2, <2>2, <2>3
<1>5. G >= 5
  <2>1. 4 * 1024 + I * 128 <= G * 1024
    BY <1>1, <1>2 DEF SbOK, InodeSize
  <2> QED BY <1>2, <2>1
<1>6. N - 2 \in Nat /\ G * g <= N - 2 /\ x = (N - 2) \div G
  <2>1. G * (g + 1) = G * g + G /\ G * g \in Nat
    BY <1>2, <1>3
  <2> QED BY <1>1, <1>2, <1>4, <1>5, <2>1
<1>7. x \in Nat /\ g <= x
  <2>1. x \in Nat
    BY <1>2, <1>6, DivMod
  <2>2. ~(x < g)
    <3>1. x < g <=> N - 2 < G * g
      BY <1>2, <1>3, <1>6, DivBelow
    <3>2. G * g \in Nat
      BY <1>2, <1>3
    <3> QED BY <1>6, <3>1, <3>2
  <2> QED BY <1>3, <2>1, <2>2
<1>8. Cardinality(Groups) = x + 1
  <2>1. Groups = 0 .. x
    BY <1>1 DEF Groups
  <2>2. Cardinality(0 .. x) = x - 0 + 1
    BY <1>7, FS_Interval
  <2> QED BY <1>7, <2>1, <2>2
<1>9. n <= I * (x + 1) /\ I * (x + 1) \in Nat
  <2>1. I * g <= I * x /\ I * x \in Nat /\ I * (x + 1) = I * x + I
    BY <1>2, <1>3, <1>7
  <2> QED BY <1>2, <1>3, <2>1
<1>10. n >= 1
  BY <1>2, <1>3
<1> QED BY <1>1, <1>8, <1>9, <1>10 DEF Inodes

Walking == {"namei_exec", "namei_open"}

NamesOK ==
    /\ EXT2_ROOT_INO \in DOMAIN dir
    /\ \A n \in DOMAIN dir :
          /\ dir[n] \in Seq(DirEntry)
          /\ \A j, k \in DOMAIN dir[n] :
                /\ dir[n][j].inode # 0 /\ dir[n][k].inode # 0
                /\ dir[n][j].name = dir[n][k].name
                => j = k

Clear(p) == Walkable(p) /\ ~Shadowed(p)

\* The entry that a line which ends with a newline names
Typed(j) ==
    /\ j \in DOMAIN dir[EXT2_ROOT_INO]
    /\ dir[EXT2_ROOT_INO][j].inode # 0
    /\ path[1] = Append(dir[EXT2_ROOT_INO][j].name, NL)
    /\ ~ShadowedIn(EXT2_ROOT_INO, dir[EXT2_ROOT_INO][j].name)
    /\ Named(dir, EXT2_ROOT_INO, path[1]) = {}

LineFound == Loaded(0) /\ Len(path) = 1 => \A j : Typed(j) => ino = dir[EXT2_ROOT_INO][j].inode

\* The walk is where a walk that compares names as they are would be.
OnTheWay ==
    op \in Walking =>
       /\ comp_start \in 1 .. Len(path) + 1 /\ ino \in Nat \ {0}
       /\ Clear(path) => ino = RefWalk(dir, path)[comp_start - 1]
       /\ comp_start > 1 => LineFound

WalkInv ==
    /\ path \in Seq(Strings) /\ NamesOK
    /\ OnTheWay /\ NameiExactUnlessShadowed
    /\ (op = "exec" \/ ino = PANIC => LineFound)

\* What a directory entry is
LEMMA EntryIs ==
    ASSUME NamesOK, NEW n \in DOMAIN dir, NEW j \in DOMAIN dir[n]
    PROVE  dir[n][j] \in DirEntry /\ j \in Nat \ {0}
<1>1. dir[n] \in Seq(DirEntry)
  BY DEF NamesOK
<1> QED BY <1>1

\* Where no name begins the component, the entries that compare equal are those
\* that have the name.
LEMMA HitsAre ==
    ASSUME NamesOK, NEW n \in DOMAIN dir, NEW c \in Strings, ~ShadowedIn(n, c)
    PROVE  Hits(n, c) = Named(dir, n, c)
<1>1. ASSUME NEW j \in DOMAIN dir[n], dir[n][j].inode # 0
      PROVE  strncmp_equal(c, dir[n][j]) <=> dir[n][j].name = c
  <2>1. ~IsStrictPrefix(dir[n][j].name, c)
    BY <1>1 DEF ShadowedIn
  <2> QED BY <2>1, EntryIs, MatchExact
<1> QED BY <1>1 DEF Hits, Named

\* The least of the entries that compare equal
LEMMA HitsLeast ==
    ASSUME NamesOK, NEW n \in DOMAIN dir, NEW c, NEW j \in Hits(n, c),
           \A k \in Hits(n, c) : j <= k
    PROVE  Min(Hits(n, c)) = j
<1>1. \A k \in Hits(n, c) : k \in Nat
  BY EntryIs DEF Hits
<1>2. PICK m : m = Min(Hits(n, c))
  OBVIOUS
<1>3. m \in Hits(n, c) /\ \A k \in Hits(n, c) : m <= k
  BY <1>1, <1>2, LeastIn
<1>4. m <= j /\ j <= m /\ m \in Nat /\ j \in Nat
  BY <1>1, <1>3
<1> QED BY <1>2, <1>4

\* A clear walk is in the directory it should be in.
LEMMA InIs ==
    ASSUME Ext2Inv, WalkInv, op \in Walking, comp_start <= Len(path), Clear(path)
    PROVE  /\ in = ino /\ in = RefWalk(dir, path)[comp_start - 1]
           /\ ~ShadowedIn(in, path[comp_start])
<1>1. /\ comp_start \in 1 .. Len(path) /\ ino \in Nat \ {0} /\ Len(path) \in Nat
      /\ ino = RefWalk(dir, path)[comp_start - 1]
  BY DEF WalkInv, OnTheWay, Strings
<1>2. in = ino
  <2>1. CASE comp_start = 1
    <3>1. rooti = EXT2_ROOT_INO
      BY DEF Ext2Inv, InodeFound, Clear, Walkable, Walking
    <3>2. RefWalk(dir, path)[0] = EXT2_ROOT_INO
      BY <1>1, WalkIs
    <3> QED BY <1>1, <2>1, <3>1, <3>2 DEF in
  <2>2. CASE comp_start # 1
    <3>1. comp_start - 1 \in 1 .. Len(path) - 1 /\ comp_start > 1
      BY <1>1, <2>2
    <3>2. ino > 0
      BY <1>1
    <3>3. Findable(ino)
      BY <1>1, <3>1, <3>2 DEF Clear, Walkable
    <3>4. ino \in Inodes
      BY <1>1, <3>3, FindableOnDisk DEF Ext2Inv
    <3>5. got = ino
      BY <3>1, <3>3, <3>4 DEF Ext2Inv, InodeFound
    <3> QED BY <2>2, <3>5 DEF in
  <2> QED BY <2>1, <2>2
<1>3. ~ShadowedIn(RefWalk(dir, path)[comp_start - 1], path[comp_start])
  <2>1. comp_start \in DOMAIN path
    BY <1>1 DEF WalkInv
  <2> QED BY <2>1 DEF Clear, Shadowed
<1> QED BY <1>1, <1>2, <1>3

\* What depends on the disk and the path only
LEMMA PathKept ==
    ASSUME UNCHANGED <<sb, i_size, hole, dir, path>>
    PROVE  /\ (Clear(path)' <=> Clear(path)) /\ (Loaded(0)' <=> Loaded(0))
           /\ RefWalk(dir, path)' = RefWalk(dir, path) /\ RefNamei(path)' = RefNamei(path)
           /\ (NamesOK' <=> NamesOK) /\ \A j : Typed(j)' <=> Typed(j)
<1>1. (Loaded(0)' <=> Loaded(0)) /\ \A n : Findable(n)' <=> Findable(n)
  BY DiskKept
<1>2. RefWalk(dir, path)' = RefWalk(dir, path)
  OBVIOUS
<1>3. RefNamei(path)' = RefNamei(path)
  BY <1>2 DEF RefNamei
<1>4. ASSUME NEW n, NEW c PROVE ShadowedIn(n, c)' <=> ShadowedIn(n, c)
  BY DEF ShadowedIn
<1>5. NamesOK' <=> NamesOK
  BY DEF NamesOK
<1>6. Walkable(path)' <=> Walkable(path)
  BY <1>1, <1>2 DEF Walkable
<1>7. Shadowed(path)' <=> Shadowed(path)
  BY <1>2, <1>4 DEF Shadowed
<1>8. ASSUME NEW j PROVE Typed(j)' <=> Typed(j)
  <2>1. PICK c : c = dir[EXT2_ROOT_INO][j].name
    OBVIOUS
  <2>2. ShadowedIn(EXT2_ROOT_INO, c)' <=> ShadowedIn(EXT2_ROOT_INO, c)
    BY <1>4
  <2>3. Named(dir, EXT2_ROOT_INO, path[1])' = Named(dir, EXT2_ROOT_INO, path[1])
    OBVIOUS
  <2> QED BY <2>1, <2>2, <2>3 DEF Typed
<1> QED BY <1>1, <1>2, <1>3, <1>5, <1>6, <1>7, <1>8 DEF Clear

\* Outside of a walk the path no longer matters.
LEMMA WalkOver ==
    ASSUME WalkInv, UNCHANGED dir, path' \in Seq(Strings),
           op' \notin Walking \cup {"exec"}, ino' # PANIC
    PROVE  WalkInv'
<1>1. NamesOK'
  BY DEF WalkInv, NamesOK
<1> QED BY <1>1 DEF WalkInv, OnTheWay, NameiExactUnlessShadowed

\* A walk begins where the reference begins.
LEMMA WalkBegins ==
    ASSUME WalkInv, NEW p \in Seq(Strings), NEW caller \in Walking, Namei(p, caller)
    PROVE  WalkInv'
<1>1. /\ op' = caller /\ path' = p /\ ino' = EXT2_ROOT_INO /\ comp_start' = 1 /\ dir' = dir
  BY DEF Namei
<1>2. NamesOK'
  BY <1>1 DEF WalkInv, NamesOK
<1>3. RefWalk(dir, path)'[0] = EXT2_ROOT_INO
  <2>1. Len(p) \in Nat
    OBVIOUS
  <2>2. RefWalk(dir, p)[0] = EXT2_ROOT_INO
    BY <2>1, WalkIs
  <2> QED BY <1>1, <2>2
<1>4. OnTheWay'
  BY <1>1, <1>3 DEF OnTheWay, EXT2_ROOT_INO
<1>5. op' # "exec" /\ ino' # PANIC
  BY <1>1 DEF Walking, EXT2_ROOT_INO, PANIC
<1> QED BY <1>1, <1>2, <1>4, <1>5 DEF WalkInv, NameiExactUnlessShadowed

\* An entry that was typed is among those that compare equal to the line, ...
LEMMA TypedHits ==
    ASSUME NamesOK, NEW j, Typed(j)
    PROVE  j \in Hits(EXT2_ROOT_INO, path[1])
<1>1. dir[EXT2_ROOT_INO][j] \in DirEntry
  BY EntryIs DEF Typed, NamesOK
<1> QED BY <1>1, LineHits DEF Typed, Hits

\* ... and the only one.
LEMMA TypedOnly ==
    ASSUME NamesOK, NEW j, Typed(j), NEW k \in Hits(EXT2_ROOT_INO, path[1])
    PROVE  k = j
<1>1. PICK r, e, f, c : /\ r = EXT2_ROOT_INO /\ e = dir[r][j] /\ f = dir[r][k] /\ c = path[1]
  OBVIOUS
<1>2. /\ r \in DOMAIN dir /\ j \in DOMAIN dir[r] /\ e.inode # 0 /\ c = Append(e.name, NL)
      /\ ~ShadowedIn(r, e.name) /\ Named(dir, r, c) = {}
      /\ k \in DOMAIN dir[r] /\ f.inode # 0 /\ strncmp_equal(c, f)
  BY <1>1 DEF NamesOK, Typed, Hits
<1>3. e \in DirEntry /\ f \in DirEntry
  BY <1>1, <1>2, EntryIs
<1>4. ~IsStrictPrefix(f.name, e.name) /\ f.name # c
  BY <1>1, <1>2 DEF ShadowedIn, Named
<1>5. f.name = e.name
  BY <1>2, <1>3, <1>4, LineHitsOnly
<1> QED BY <1>1, <1>2, <1>5 DEF NamesOK

\* The first component of a walk is looked up in the root directory.
LEMMA FirstInRoot ==
    ASSUME Ext2Inv, op \in Walking, comp_start = 1, Loaded(0)
    PROVE  in = EXT2_ROOT_INO
BY DEF Ext2Inv, InodeFound, Walking, in

\* One component: what is found, and what is missing, is so for the reference.
LEMMA WalkStep == ASSUME Ext2Inv, WalkInv, NameiStep PROVE WalkInv'
<1>1. /\ op \in Walking /\ comp_start \in 1 .. Len(path) /\ Len(path) \in Nat
      /\ path \in Seq(Strings) /\ NamesOK /\ path[comp_start] \in Strings
      /\ UNCHANGED <<i_size, hole, dir, path>>
  BY DEF NameiStep, Then, Walking, fileVars, WalkInv, OnTheWay
<1>2. CASE op' = "garbage" /\ ino' = NODIR
  BY <1>1, <1>2, WalkOver DEF Walking, NODIR, PANIC
<1>3. CASE /\ in \in DOMAIN dir /\ Hits(in, path[comp_start]) = {}
           /\ op' = "panic" /\ ino' = PANIC /\ UNCHANGED diskRest
  <2>1. /\ (Clear(path)' <=> Clear(path)) /\ (Loaded(0)' <=> Loaded(0))
        /\ RefNamei(path)' = RefNamei(path) /\ NamesOK' /\ \A j : Typed(j)' <=> Typed(j)
    BY <1>1, <1>3, PathKept DEF diskRest
  <2>2. ASSUME Clear(path) PROVE RefNamei(path) = PANIC
    <3>1. in = RefWalk(dir, path)[comp_start - 1] /\ ~ShadowedIn(in, path[comp_start])
      BY <1>1, <2>2, InIs
    <3>2. Named(dir, in, path[comp_start]) = {}
      BY <1>1, <1>3, <3>1, HitsAre
    <3>3. RefWalk(dir, path)[comp_start] = RefLookup(dir, in, path[comp_start])
      BY <1>1, <3>1, WalkIs
    <3>4. RefWalk(dir, path)[comp_start] = PANIC
      BY <1>3, <3>2, <3>3 DEF RefLookup
    <3>5. RefWalk(dir, path)[Len(path)] = PANIC
      <4>1. comp_start \in 0 .. Len(path)
        BY <1>1
      <4> QED BY <1>1, <3>4, <4>1, PanicStays
    <3> QED BY <3>5 DEF RefNamei
  <2>3. NameiExactUnlessShadowed'
    BY <1>1, <1>3, <2>1, <2>2 DEF NameiExactUnlessShadowed, Clear
  <2>4. LineFound'
    <3>1. ASSUME Loaded(0), Len(path) = 1, NEW j, Typed(j) PROVE FALSE
      <4>1. comp_start = 1
        BY <1>1, <3>1
      <4>2. in = EXT2_ROOT_INO
        BY <1>1, <3>1, <4>1, FirstInRoot
      <4> QED BY <1>1, <1>3, <3>1, <4>1, <4>2, TypedHits
    <3> QED BY <1>1, <2>1, <3>1 DEF LineFound
  <2>5. OnTheWay'
    BY <1>3 DEF OnTheWay, Walking
  <2> QED BY <1>1, <2>1, <2>3, <2>4, <2>5 DEF WalkInv
<1>4. ASSUME in \in DOMAIN dir, NEW j \in Hits(in, path[comp_start]),
             \A k \in Hits(in, path[comp_start]) : j <= k,
             ino' = dir[in][j].inode, GetInode(dir[in][j].inode),
             comp_start' = comp_start + 1, op' = op
      PROVE  WalkInv'
  <2>1. /\ (Clear(path)' <=> Clear(path)) /\ (Loaded(0)' <=> Loaded(0))
        /\ RefWalk(dir, path)' = RefWalk(dir, path)
        /\ NamesOK' /\ \A k : Typed(k)' <=> Typed(k)
    BY <1>1, <1>4, PathKept DEF GetInode
  <2>2. j \in DOMAIN dir[in] /\ dir[in][j].inode # 0
    BY <1>4 DEF Hits
  <2>3. ino' \in Nat \ {0} /\ ino' # PANIC
    <3>1. dir[in][j] \in DirEntry
      BY <1>1, <1>4, <2>2, EntryIs
    <3> QED BY <1>4, <2>2, <3>1 DEF DirEntry, PANIC
  <2>4. comp_start' \in 1 .. Len(path) + 1 /\ comp_start' - 1 = comp_start
    BY <1>1, <1>4
  <2>5. ASSUME Clear(path) PROVE ino' = RefWalk(dir, path)[comp_start]
    <3>1. /\ in = ino /\ in = RefWalk(dir, path)[comp_start - 1]
          /\ ~ShadowedIn(in, path[comp_start])
      BY <1>1, <2>5, InIs
    <3>2. Hits(in, path[comp_start]) = Named(dir, in, path[comp_start])
      BY <1>1, <1>4, <3>1, HitsAre
    <3>3. Min(Hits(in, path[comp_start])) = j
      BY <1>1, <1>4, HitsLeast
    <3>4. RefWalk(dir, path)[comp_start] = RefLookup(dir, in, path[comp_start])
      BY <1>1, <3>1, WalkIs
    <3>5. in # PANIC
      BY <1>1, <3>1 DEF WalkInv, OnTheWay, PANIC
    <3>6. Named(dir, in, path[comp_start]) # {} /\ Min(Named(dir, in, path[comp_start])) = j
      BY <1>4, <3>2, <3>3
    <3>7. RefLookup(dir, in, path[comp_start]) = dir[in][j].inode
      BY <1>4, <3>5, <3>6 DEF RefLookup
    <3> QED BY <1>4, <3>4, <3>7
  <2>6. LineFound'
    <3>1. ASSUME Loaded(0), Len(path) = 1, NEW k, Typed(k)
          PROVE  ino' = dir[EXT2_ROOT_INO][k].inode
      <4>1. comp_start = 1
        BY <1>1, <3>1
      <4>2. in = EXT2_ROOT_INO
        BY <1>1, <3>1, <4>1, FirstInRoot
      <4>3. j = k
        BY <1>1, <1>4, <3>1, <4>1, <4>2, TypedOnly
      <4> QED BY <1>4, <4>2, <4>3
    <3> QED BY <1>1, <2>1, <3>1 DEF LineFound
  <2>7. OnTheWay'
    BY <1>1, <2>1, <2>3, <2>4, <2>5, <2>6 DEF OnTheWay
  <2>8. op' # "exec"
    BY <1>1, <1>4 DEF Walking
  <2> QED BY <1>1, <2>1, <2>3, <2>7, <2>8 DEF WalkInv, NameiExactUnlessShadowed
<1> QED BY <1>2, <1>3, <1>4 DEF NameiStep

\* The walk ends with the last component.
LEMMA WalkReturns == ASSUME WalkInv, NameiReturn PROVE WalkInv'
<1>1. /\ op \in Walking /\ op' \in {"exec", "open"} /\ comp_start > Len(path)
      /\ UNCHANGED <<sb, i_size, hole, dir, path, ino, comp_start>>
  <2>1. op \in Walking /\ op' = Then[op]
    BY DEF NameiReturn, Then, Walking
  <2>2. op' \in {"exec", "open"}
    BY <2>1 DEF Then, Walking
  <2> QED BY <2>1, <2>2 DEF NameiReturn, diskRest, fileVars, dirVars
<1>2. /\ (Clear(path)' <=> Clear(path)) /\ (Loaded(0)' <=> Loaded(0))
      /\ RefNamei(path)' = RefNamei(path)
      /\ (NamesOK' <=> NamesOK) /\ \A j : Typed(j)' <=> Typed(j)
  BY <1>1, PathKept
<1>3. /\ Len(path) \in Nat /\ comp_start \in 1 .. Len(path) + 1 /\ ino \in Nat \ {0}
      /\ Clear(path) => ino = RefWalk(dir, path)[comp_start - 1]
      /\ comp_start > 1 => LineFound
  BY <1>1 DEF WalkInv, OnTheWay
<1>4. comp_start - 1 = Len(path)
  BY <1>1, <1>3
<1>5. NameiExactUnlessShadowed'
  BY <1>1, <1>2, <1>3, <1>4 DEF NameiExactUnlessShadowed, Clear, RefNamei
<1>6. LineFound'
  <2>1. Len(path) = 1 => LineFound
    BY <1>3, <1>4
  <2> QED BY <1>1, <1>2, <2>1 DEF LineFound
<1>7. OnTheWay'
  BY <1>1 DEF OnTheWay, Walking
<1> QED BY <1>1, <1>2, <1>5, <1>6, <1>7 DEF WalkInv

\* A file system that is not mounted
LEMMA WalkInit == Init => WalkInv
<1>1. SUFFICES ASSUME Init PROVE WalkInv
  OBVIOUS
<1>2. PICK d \in Disks : DiskInit(d.sb) /\ FileInit(d.file, d.size, d.hole) /\ DirInit(d.dir)
  BY <1>1 DEF Init
<1>3. op = "unmounted" /\ dir = d.dir /\ path = <<>> /\ ino = 0
  BY <1>2 DEF DiskInit, DirInit
<1>4. NamesOK
  <2>1. EXT2_ROOT_INO \in DOMAIN dir
    BY <1>3, Ext2Assumption
  <2> QED BY <1>3, <2>1, NamesAssumption DEF NamesOK, DirEntry, Strings
<1> QED BY <1>3, <1>4 DEF WalkInv, OnTheWay, Walking, NameiExactUnlessShadowed, PANIC

\* Outside of an error and of a walk
LEMMA WalkNext == ASSUME Ext2Inv, WalkInv, [Next]_vars PROVE WalkInv'
<1>1. path \in Seq(Strings) /\ <<>> \in Seq(Strings)
  BY DEF WalkInv
<1>2. ASSUME op \notin {"panic", "garbage"}, ino' = ino, dir' = dir, path' \in {path, <<>>},
             op' \notin Walking \cup {"exec"}
      PROVE  WalkInv'
  <2>1. ino' # PANIC
    BY <1>2 DEF Ext2Inv, InoOK, PANIC
  <2> QED BY <1>1, <1>2, <2>1, WalkOver
<1>3. CASE Mount
  BY <1>2, <1>3 DEF Mount, ext2_mount_rootfs, dirVars, Walking
<1>4. ASSUME NEW p \in Paths, exec_elf(p) PROVE WalkInv'
  <2>1. p \in Seq(Strings)
    BY NamesAssumption DEF Strings
  <2> QED BY <1>4, <2>1, WalkBegins DEF exec_elf, Walking
<1>5. CASE Walk
  BY <1>5, WalkStep, WalkReturns DEF Walk
<1>6. CASE ReadFile
  BY <1>2, <1>6 DEF ReadFile, ext2_read_file, Walking
<1>7. CASE ReadStep
  BY <1>2, <1>7 DEF ReadStep, GetBlock, Finish, dirVars, Walking
<1>8. CASE OpenRoot
  BY <1>1, <1>8, WalkBegins DEF OpenRoot, Walking
<1>9. CASE Getdents
  BY <1>2, <1>9 DEF Getdents, dirVars, Walking
<1>10. CASE ListStep
  BY <1>2, <1>10 DEF ListStep, GetdentsStep, GetdentsReturn, LsStep, diskVars, Walking
<1>11. CASE UNCHANGED vars
  <2>1. UNCHANGED <<op, sb, i_size, hole, dir, path, ino, comp_start>>
    BY <1>11 DEF vars, diskVars, diskRest, fileVars, dirVars
  <2>2. /\ (Clear(path)' <=> Clear(path)) /\ (Loaded(0)' <=> Loaded(0))
        /\ RefWalk(dir, path)' = RefWalk(dir, path) /\ RefNamei(path)' = RefNamei(path)
        /\ (NamesOK' <=> NamesOK) /\ \A j : Typed(j)' <=> Typed(j)
    BY <2>1, PathKept
  <2>3. LineFound' <=> LineFound
    BY <2>1, <2>2 DEF LineFound
  <2>4. NameiExactUnlessShadowed'
    BY <2>1, <2>2 DEF WalkInv, NameiExactUnlessShadowed, Clear
  <2>5. OnTheWay'
    BY <2>1, <2>2, <2>3 DEF WalkInv, OnTheWay
  <2> QED BY <2>1, <2>2, <2>3, <2>4, <2>5 DEF WalkInv
<1> QED BY <1>3, <1>4, <1>5, <1>6, <1>7, <1>8, <1>9, <1>10, <1>11 DEF Next

\* The walk agrees with the reference in every state.
LEMMA WalkCorrect == Spec => []WalkInv
<1>1. Ext2Inv /\ WalkInv /\ [Next]_vars => WalkInv'
  BY WalkNext
<1> QED BY <1>1, WalkInit, Ext2Correct, PTL DEF Spec

\* On any tree and for any path, ext2_namei finds what the path names and panics
\* when there is nothing of that name, unless a directory on the way has an entry
\* whose name begins the component or whose inode is not found.
THEOREM NameiCorrect == Spec => []NameiExactUnlessShadowed
<1>1. WalkInv => NameiExactUnlessShadowed
  BY DEF WalkInv
<1> QED BY <1>1, WalkCorrect, PTL

\* In any root directory a line that the shell hands over with its newline finds
\* its program, whatever stands behind the name on the disk.
THEOREM TypedCorrect == Spec => []TypedCommandFound
<1>1. WalkInv => TypedCommandFound
  BY DEF WalkInv, LineFound, Typed, TypedCommandFound
<1> QED BY <1>1, WalkCorrect, PTL
=============================================================================
