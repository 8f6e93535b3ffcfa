------------------------------- MODULE Files -------------------------------
(***************************************************************************)
(* Open files: fs/open.c, the file system calls of kernel/sys.c, the two   *)
(* files of kernel/tty.c, and what fork (kernel/fork.c) and the reaping of *)
(* a task (task_free in kernel/sched.c) do to file tables.                 *)
(*                                                                         *)
(* A struct file is a slot of the kernel heap.  System calls run with      *)
(* interrupts disabled, so each is one step of the task that makes it, and *)
(* the tasks interleave freely.  The programs may make any call.           *)
(***************************************************************************)
EXTENDS Integers, FiniteSetsExt

CONSTANTS
    NTasks,          \* bound: task_structs; task 1 is init
    NFiles,          \* bound: struct files that fit in the kernel heap
    TASK_FILE_MAX,
    Kinds            \* bound: the kinds of inodes that paths lead to, if any

ASSUME FilesAssumption ==
    /\ NTasks \in Nat \ {0}
    /\ NFiles \in Nat /\ NFiles >= 2
    /\ TASK_FILE_MAX \in Nat /\ TASK_FILE_MAX >= 2
    /\ Kinds \subseteq {"reg", "dir", "lnk", "sock", "blk", "chr", "fifo",
                  "missing"}

Tasks == 1 .. NTasks
Slots == 1 .. NFiles
Fds   == 0 .. TASK_FILE_MAX - 1
NULL  == 0

stdin  == 1          \* the slots of global_tty->stdin and ->stdout
stdout == 2

\* The bits of i_mode that tell the kinds of inodes apart
ModeBits == [reg |-> {15}, dir |-> {14}, lnk |-> {15, 13}, sock |-> {15, 14},
             blk |-> {14, 13}, chr |-> {13}, fifo |-> {12}]

EXT2_S_IFREG == 15
EXT2_S_IFDIR == 14

Free == [live |-> FALSE, ops |-> "none", kind |-> "none", refcnt |-> 0]

VARIABLES
    files,     \* slot |-> struct file; live until it is freed
    fdtab,     \* task |-> descriptor |-> slot or NULL
    task,      \* task |-> "none", "alive" or "zombie"
    parent,
    opened,    \* history: task |-> descriptor |-> what the task believes it is
    misused,   \* history: a program forked with a file of its own open, or
               \* closed a file that another task has open too
    outcome    \* "running", "panic", or "undefined": a freed file was used

vars == <<files, fdtab, task, parent, opened, misused, outcome>>

Alive(t) == outcome = "running" /\ task[t] = "alive"

\* Bound: after a misuse files are still used and closed and tasks reaped, but
\* nothing new is opened, forked or ended; no property says more of it.
AliveAndCareful(t) == Alive(t) /\ ~misused

HoldersOf(f) == {h \in Tasks \X Fds : task[h[1]] # "none" /\ fdtab[h[1]][h[2]] = f}

OfTty(f) == files[f].kind \in {"stdin", "stdout"}

Nothing == [d \in Fds |-> NULL]

----------------------------------------------------------------------------
\* Panics and wild uses stop the machine.
Stop(o) ==
    /\ outcome' = o
    /\ UNCHANGED <<files, fdtab, task, parent, opened, misused>>

\* The test for a regular file comes first and looks at one bit.
ops(kind) ==
    IF EXT2_S_IFREG \in ModeBits[kind] THEN "file"
    ELSE IF EXT2_S_IFDIR \in ModeBits[kind] THEN "dir"
    ELSE "none"

\* kcalloc leaves refcnt at 0.
initial_refcnt == 0

\* ext2_namei panics for a missing path, before a descriptor is looked for; the
\* lowest free one is taken, and a kind without operations is refused last.
do_open(t, kind) ==
    LET f  == Min({s \in Slots : ~files[s].live})
        ds == {d \in Fds : fdtab[t][d] = NULL}
    IN  IF kind = "missing" \/ ds = {} \/ ops(kind) = "none"
        THEN Stop("panic")
        ELSE /\ files' = [files EXCEPT ![f] = [live |-> TRUE, ops |-> ops(kind),
                                               kind |-> kind, refcnt |-> initial_refcnt]]
             /\ fdtab' = [fdtab EXCEPT ![t][Min(ds)] = f]
             /\ opened' = [opened EXCEPT ![t][Min(ds)] = kind]
             /\ UNCHANGED <<task, parent, misused, outcome>>

Open(t, kind) ==
    /\ AliveAndCareful(t)
    /\ \E s \in Slots : ~files[s].live
    /\ do_open(t, kind)

\* Mutant: the file is freed and its descriptor kept.
close_keeps_entry(t, d) ==
    /\ files' = [files EXCEPT ![fdtab[t][d]] = Free]
    /\ UNCHANGED <<fdtab, opened>>

\* The file is freed whoever else refers to it.
close(t, d) ==
    /\ files' = [files EXCEPT ![fdtab[t][d]] = Free]
    /\ fdtab' = [fdtab EXCEPT ![t][d] = NULL]
    /\ opened' = [opened EXCEPT ![t][d] = "none"]

do_close(t, d) ==
    IF fdtab[t][d] = NULL THEN Stop("panic")
    ELSE IF ~files[fdtab[t][d]].live THEN Stop("undefined")
    ELSE /\ close(t, d)
         /\ misused' = (misused \/ HoldersOf(fdtab[t][d]) # {<<t, d>>})
         /\ UNCHANGED <<task, parent, outcome>>

Close(t, d) == Alive(t) /\ do_close(t, d)

\* sys_read, sys_write and sys_getdents: the operation each kind of file has
Operation == [stdin |-> "read", stdout |-> "write", file |-> "nothing", dir |-> "getdents"]

Use(t, d, call) ==
    /\ Alive(t)
    /\ IF fdtab[t][d] = NULL THEN Stop("panic")
       ELSE IF ~files[fdtab[t][d]].live THEN Stop("undefined")
       ELSE IF Operation[files[fdtab[t][d]].ops] # call THEN Stop("panic")
       ELSE UNCHANGED vars

\* Mutant: the files of the child are not counted.
fork_uncounted(t) == files

fork_refcnt(t) ==
    [f \in Slots |-> [files[f] EXCEPT !.refcnt =
                        @ + Cardinality({d \in Fds : fdtab[t][d] = f})]]

do_fork(t, c) ==
    /\ AliveAndCareful(t)
    /\ task[c] = "none"
    /\ files' = fork_refcnt(t)
    /\ fdtab' = [fdtab EXCEPT ![c] = fdtab[t]]
    /\ opened' = [opened EXCEPT ![c] = opened[t]]
    /\ task' = [task EXCEPT ![c] = "alive"]
    /\ parent' = [parent EXCEPT ![c] = t]
    /\ misused' = (misused \/ \E d \in Fds : fdtab[t][d] # NULL /\ ~OfTty(fdtab[t][d]))
    /\ UNCHANGED outcome

do_exit(t) ==
    /\ AliveAndCareful(t)
    /\ t # 1
    /\ task' = [task EXCEPT ![t] = "zombie"]
    /\ UNCHANGED <<files, fdtab, parent, opened, misused, outcome>>

\* Each of the child's descriptors takes one reference away, and the last one
\* frees the file.  A file that was opened starts at 0, so its count is -1.
Released(f, z) ==
    LET n == files[f].refcnt - Cardinality({d \in Fds : fdtab[z][d] = f})
    IN  IF \E d \in Fds : fdtab[z][d] = f
        THEN IF n = 0 THEN Free ELSE [files[f] EXCEPT !.refcnt = n]
        ELSE files[f]

\* do_wait finds a zombie child and task_free frees it.
Wait(t, z) ==
    /\ Alive(t)
    /\ task[z] = "zombie" /\ parent[z] = t
    /\ IF \E d \in Fds : fdtab[z][d] # NULL /\ ~files[fdtab[z][d]].live
       THEN Stop("undefined")
       ELSE /\ files' = [f \in Slots |-> Released(f, z)]
            /\ fdtab' = [fdtab EXCEPT ![z] = Nothing]
            /\ opened' = [opened EXCEPT ![z] = [d \in Fds |-> "none"]]
            /\ task' = [task EXCEPT ![z] = "none"]
            /\ UNCHANGED <<parent, misused, outcome>>

\* tty_init, and tty_install_stdin_stdout for init
Init ==
    /\ files = [f \in Slots |->
            IF f = stdin THEN [live |-> TRUE, ops |-> "stdin", kind |-> "stdin", refcnt |-> 1]
            ELSE IF f = stdout
            THEN [live |-> TRUE, ops |-> "stdout", kind |-> "stdout", refcnt |-> 1]
            ELSE Free]
    /\ fdtab = [t \in Tasks |-> IF t = 1 THEN [Nothing EXCEPT ![0] = stdin, ![1] = stdout]
                                ELSE Nothing]
    /\ task = [t \in Tasks |-> IF t = 1 THEN "alive" ELSE "none"]
    /\ parent = [t \in Tasks |-> 1]
    /\ opened = [t \in Tasks |-> IF t = 1
                    THEN [d \in Fds |-> IF d = 0 THEN "stdin" ELSE IF d = 1 THEN "stdout"
                                        ELSE "none"]
                    ELSE [d \in Fds |-> "none"]]
    /\ misused = FALSE
    /\ outcome = "running"

Next ==
    \/ \E t \in Tasks, k \in Kinds : Open(t, k)
    \/ \E t \in Tasks, d \in Fds : Close(t, d)
    \/ \E t \in Tasks, d \in Fds, c \in {"read", "write", "getdents"} : Use(t, d, c)
    \/ \E t, c \in Tasks : do_fork(t, c) \/ Wait(t, c)
    \/ \E t \in Tasks : do_exit(t)

Spec == Init /\ [][Next]_vars

----------------------------------------------------------------------------
\* Every descriptor leads to the file it was opened for, which has not been
\* freed, and no call ever uses a freed file, in all programs that neither fork
\* with a file of their own open nor close a file that others have open: close
\* and task_free free files without a count that tells who else has them.
DescriptorsSound ==
    ~misused =>
        /\ outcome # "undefined"
        /\ \A t \in Tasks, d \in Fds :
                fdtab[t][d] # NULL =>
                    files[fdtab[t][d]].live /\ files[fdtab[t][d]].kind = opened[t][d]

\* The counts, for the same programs: stdin and stdout count the tasks that
\* have them, zombies included, so no child that is reaped takes them away from
\* the shell; a file that was opened counts one less than that, and one that
\* nobody closed before the exit stays allocated with a count of -1.
RefcntExact ==
    ~misused =>
        \A f \in Slots :
            files[f].live =>
                files[f].refcnt = Cardinality(HoldersOf(f))
                                    - (IF OfTty(f) THEN 0 ELSE 1)
====
