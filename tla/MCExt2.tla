------------------------------- MODULE MCExt2 -------------------------------
(***************************************************************************)
(* File systems and paths for module Ext2.  One part of the disk varies at *)
(* a time around a plain one: its groups and the number of the file's      *)
(* inode; its names, which begin one another or with a dot and are in use  *)
(* or deleted; the size of the file and where it was written.              *)
(***************************************************************************)
EXTENDS Ext2

CONSTANTS
    MaxSize,     \* bound: the largest file, in cells
    MaxSparse    \* bound: the largest file with blocks that were not written

A == 3
B == 4
SUB  == 12
FILE == 13

Entry(n, name, b) == [inode |-> n, name |-> name, behind |-> b]

Dots(self) == <<Entry(self, <<DOT>>, NUL), Entry(EXT2_ROOT_INO, <<DOT, DOT>>, NUL)>>

Names == {<<A>>, <<A, B>>, <<B>>, <<DOT, A>>}

\* Root directories with two entries of different names, or one, or none
Contents ==
    LET es == {Entry(n, name, b) : n \in {0, SUB, FILE}, name \in Names, b \in {NUL, NL, B}}
    IN  {<<>>} \cup {<<e>> : e \in es}
            \cup {<<e, f>> : e \in es, f \in es}

\* Root directories that just fit the buffer of ls, with the NUL of the last name
\* and without, and that do not
Large ==
    LET long == [k : 7 .. 9, n : {0, FILE}]
        e(l) == Entry(l.n, [i1 \in 1 .. l.k |-> A], NUL)
    IN  {<<e(l)>> : l \in long} \cup {<<e(l), Entry(SUB, <<B>>, NUL)>> : l \in long}

Tree(root, sub) ==
    (EXT2_ROOT_INO :> (Dots(EXT2_ROOT_INO) \o root)) @@ (SUB :> (Dots(SUB) \o sub))

PlainSb      == [log_block_size |-> 0, blocks |-> 48, blocks_per_group |-> 16,
                 inodes_per_group |-> 16]
PlainTree(n) == Tree(<<Entry(n, <<A>>, NUL), Entry(SUB, <<B>>, NUL)>>,
                     <<Entry(n, <<A>>, NUL)>>)

Disk(s, d, n, size, h) == [sb |-> s, dir |-> d, file |-> n, size |-> size, hole |-> h]

Superblocks ==
    [log_block_size : {0, 1}, blocks : {15, 16, 17, 40, 48, 49},
     blocks_per_group : {16}, inodes_per_group : {8, 16}]

FilesOn(s) == (3 .. s.inodes_per_group * ((s.blocks + 15) \div 16)) \ {SUB}

\* The blocks of a file of a size from some block on
Holes(size) ==
    LET n == (size + CELLS - 1) \div CELLS
    IN  {k .. n - 1 : k \in IF size <= MaxSparse THEN 0 .. n ELSE {n}}

MCDisks ==
    UNION {{Disk(s, PlainTree(n), n, 3, {}) : n \in FilesOn(s)} : s \in Superblocks}
    \cup {Disk(PlainSb, Tree(r, s), FILE, 3, {}) :
            r \in {c \in Contents : Len(c) = 2 => c[1].name # c[2].name},
            s \in {<<>>, <<Entry(FILE, <<B>>, NUL)>>}}
    \cup {Disk(PlainSb, Tree(r, <<>>), FILE, 3, {}) : r \in Large}
    \cup UNION {{Disk(PlainSb, PlainTree(FILE), FILE, n, h) : h \in Holes(n)} : n \in 0 .. MaxSize}

Components == Names \cup {<<>>, <<DOT>>, <<DOT, DOT>>, <<A, NL>>, <<A, B, NL>>}

MCPaths == {<<>>} \cup {<<c>> : c \in Components} \cup {<<c, d>> : c, d \in Components}
====
