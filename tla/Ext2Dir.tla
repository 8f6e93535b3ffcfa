------------------------------ MODULE Ext2Dir ------------------------------
(***************************************************************************)
(* Directories: ext2_namei and ext2_getdents of fs/ext2.c with strncmp and *)
(* strlcpy of lib/string.c, and the listing that zigprogs/src/ls.zig makes *)
(* of the answer.                                                          *)
(*                                                                         *)
(* A directory is the sequence of the entries in its first block, the only *)
(* one the code reads.  Names are sequences of characters without a NUL at *)
(* their end: what stands behind one on the disk is padding or the number  *)
(* of the next entry's inode.  A path is the sequence of its components;   *)
(* the character before the first one is skipped, whatever it is.          *)
(***************************************************************************)
EXTENDS Ext2File, SequencesExt

CONSTANT BufLen    \* length of the buffer of ls

ASSUME DirAssumption == BufLen \in Nat

NUL == 0
NL  == 1
DOT == 2

EXT2_ROOT_INO == 2
PANIC  == -1       \* "path %s does not exist"
NODIR  == -2       \* a component was looked up in what is no directory

VARIABLES
    dir,       \* inode |-> the entries [inode, name, behind]
    path,      \* of ext2_namei, its next component and its result
    comp_start,
    ino,
    doff,      \* ext2_getdents: the entry it is at and the place in dents
    us_doff,
    dents,     \* the buffer of ls
    sz,        \* ls: what is left, where it is, and what it has written
    de,
    written

listVars == <<doff, us_doff, dents, sz, de, written>>
dirVars  == <<dir, path, comp_start, ino, listVars>>

----------------------------------------------------------------------------
\* The bytes of an entry from its name on
Bytes(e) == e.name \o <<e.behind, NUL>>

\* The number of characters in which s1 and the bytes s2 agree
Agreeing(s1, s2) ==
    CHOOSE j \in 0 .. Len(s1) :
        /\ \A k \in 1 .. j : s1[k] = s2[k]
        /\ j = Len(s1) \/ s1[j + 1] # s2[j + 1]

\* Mutant: the comparison ends with the component instead of the entry's name.
same_up_to_component(comp, e) == Agreeing(comp, Bytes(e)) = Len(comp)

\* Mutant: names are compared as they should be.
same_name(comp, e) == comp = e.name

\* strncmp(comp, de->name, de->name_len) == 0.  The loop does not look at n: it
\* ends with comp or where the strings differ, and n counts down past 0.
strncmp_equal(comp, e) ==
    LET j == Agreeing(comp, Bytes(e))
    IN  j = Len(e.name) \/ (j = Len(comp) /\ Bytes(e)[j + 1] = NUL)

\* The entries of the directory block of an inode that are in use and compare equal
Hits(n, c) == {j \in DOMAIN dir[n] : dir[n][j].inode # 0 /\ strncmp_equal(c, dir[n][j])}

\* The inode ext2_namei is at: the root's, then the one it read last.  It is not
\* the one it asked for when ext2_get_inode errs.
in == IF comp_start = 1 THEN rooti ELSE got

\* What the callers of ext2_namei go on with
Then == [namei_exec |-> "exec", namei_open |-> "open"]

\* ext2_namei begins at the root directory.
Namei(p, caller) ==
    /\ op = "idle"
    /\ op' = caller
    /\ path' = p
    /\ ino' = EXT2_ROOT_INO
    /\ comp_start' = 1
    /\ UNCHANGED <<sb, rooti, got, reads, fileVars, dir, listVars>>

\* One component: the first entry that compares equal is taken.
NameiStep ==
    /\ op \in DOMAIN Then /\ comp_start <= Len(path)
    /\ \/ /\ in \notin DOMAIN dir
          /\ op' = "garbage" /\ ino' = NODIR
          /\ UNCHANGED <<diskRest, comp_start>>
       \/ /\ in \in DOMAIN dir /\ Hits(in, path[comp_start]) = {}
          /\ op' = "panic" /\ ino' = PANIC
          /\ UNCHANGED <<diskRest, comp_start>>
       \/ /\ in \in DOMAIN dir
          /\ \E j \in Hits(in, path[comp_start]) :
                /\ \A k \in Hits(in, path[comp_start]) : j <= k
                /\ ino' = dir[in][j].inode
                /\ GetInode(dir[in][j].inode)
          /\ comp_start' = comp_start + 1
          /\ UNCHANGED op
    /\ UNCHANGED <<fileVars, dir, path, listVars>>

NameiReturn ==
    /\ op \in DOMAIN Then /\ comp_start > Len(path)
    /\ op' = Then[op]
    /\ UNCHANGED <<diskRest, fileVars, dirVars>>

----------------------------------------------------------------------------
\* struct dirent is one cell of dents, HEAD and the record's length.
HEAD == 100

rec_len(e) == 1 + Len(e.name) + 1

\* The header and strlcpy, which writes name_len characters and no NUL.
PutEntry(b, off, e) ==
    [c \in DOMAIN b |-> IF c = off THEN HEAD + rec_len(e)
                        ELSE IF c \in off + 1 .. off + Len(e.name)
                        THEN e.name[c - off] ELSE b[c]]

\* ls has cleared its buffer and opened "/"; ext2_getdents reads the directory.
Getdents ==
    /\ op = "open"
    /\ GetInode(ino)
    /\ op' = IF got' \in DOMAIN dir THEN "getdents" ELSE "garbage"
    /\ UNCHANGED <<fileVars, dirVars>>

\* Mutant: the entry "." is left out in the same way.
advance_not_past_dot(e) ==
    IF e.inode = 0 \/ e.name = <<DOT>> THEN UNCHANGED <<doff, us_doff>>
    ELSE doff' = doff + 1 /\ us_doff' = us_doff + rec_len(e)

\* An unused entry is left out without going on to the next.
advance(e) ==
    IF e.inode = 0 THEN UNCHANGED <<doff, us_doff>>
    ELSE doff' = doff + 1 /\ us_doff' = us_doff + rec_len(e)

Listed == dir[got]

\* One turn of the loop.  The length of the buffer is not looked at: behind it
\* the memory of ls is overwritten, and the model stops.
GetdentsStep ==
    /\ op = "getdents" /\ doff <= Len(Listed)
    /\ \/ /\ Listed[doff].inode = 0
          /\ advance(Listed[doff])
          /\ UNCHANGED <<op, dents>>
       \/ /\ Listed[doff].inode # 0 /\ us_doff + Len(Listed[doff].name) < BufLen
          /\ dents' = PutEntry(dents, us_doff, Listed[doff])
          /\ advance(Listed[doff])
          /\ UNCHANGED op
       \/ /\ Listed[doff].inode # 0 /\ us_doff + Len(Listed[doff].name) >= BufLen
          /\ op' = "overrun"
          /\ UNCHANGED <<dents, doff, us_doff>>
    /\ UNCHANGED <<diskRest, fileVars, dir, path, comp_start, ino, sz, de, written>>

GetdentsReturn ==
    /\ op = "getdents" /\ doff > Len(Listed)
    /\ op' = "ls"
    /\ sz' = us_doff
    /\ UNCHANGED <<diskRest, fileVars, dir, path, comp_start, ino, doff, us_doff,
                   dents, de, written>>

\* The name that ls finds behind a header: strlen looks for a NUL, and goes on
\* behind the buffer when there is none.
EndsAt(at) == {c \in at .. BufLen - 1 : dents[c] = NUL}

NameAt(at) == [k \in 1 .. Min(EndsAt(at)) - at |-> dents[at + k - 1]]

LsStep ==
    /\ op = "ls"
    /\ \/ /\ sz > 0 /\ EndsAt(de + 1) # {}
          /\ written' = Append(written, NameAt(de + 1))
          /\ sz' = sz - (dents[de] - HEAD)
          /\ de' = de + (dents[de] - HEAD)
          /\ UNCHANGED op
       \/ /\ sz > 0 /\ EndsAt(de + 1) = {}
          /\ op' = "overrun"
          /\ UNCHANGED <<written, sz, de>>
       \/ /\ sz <= 0
          /\ op' = "listed"
          /\ UNCHANGED <<written, sz, de>>
    /\ UNCHANGED <<diskRest, fileVars, dir, path, comp_start, ino, doff, us_doff, dents>>

DirInit(d) ==
    /\ dir = d
    /\ path = <<>> /\ comp_start = 1 /\ ino = 0
    /\ doff = 1 /\ us_doff = 0
    /\ dents = [c \in 0 .. BufLen - 1 |-> NUL]
    /\ sz = 0 /\ de = 0 /\ written = <<>>
====
