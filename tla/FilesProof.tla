----------------------------- MODULE FilesProof -----------------------------
(***************************************************************************)
(* Proofs about Files, for any number of tasks, files and descriptors: the *)
(* descriptors stay sound and the counts exact in every program that       *)
(* neither forks with a file of its own open nor closes a file that others *)
(* have open.                                                              *)
(***************************************************************************)
EXTENDS Files, FiniteSetTheorems, TLAPS

FileOps   == {"none", "stdin", "stdout", "file", "dir"}
FileKinds == {"none", "stdin", "stdout", "reg", "dir", "lnk", "sock", "blk", "chr", "fifo", "missing"}
FileType  == [live : BOOLEAN, ops : FileOps, kind : FileKinds, refcnt : Int]

FilesType ==
    /\ files \in [Slots -> FileType]
    /\ fdtab \in [Tasks -> [Fds -> Slots \cup {NULL}]]
    /\ task \in [Tasks -> {"none", "alive", "zombie"}]
    /\ opened \in [Tasks -> [Fds -> FileKinds]]
    /\ misused \in BOOLEAN

\* A task that is gone has no descriptors.
NoDescriptors == \A t \in Tasks : task[t] = "none" => fdtab[t] = Nothing

\* A file of the disk is behind one descriptor at most.
OwnFiles ==
    \A t, u \in Tasks, d, e \in Fds :
        fdtab[t][d] # NULL /\ fdtab[t][d] = fdtab[u][e] /\ ~OfTty(fdtab[t][d])
            => t = u /\ d = e

\* The inductive invariant.
FilesInv ==
    /\ FilesType
    /\ DescriptorsSound
    /\ RefcntExact
    /\ ~misused => NoDescriptors /\ OwnFiles

LEMMA Constants ==
    /\ NULL \notin Slots /\ stdin \in Slots /\ stdout \in Slots
    /\ stdin # stdout /\ 0 \in Fds /\ 1 \in Fds /\ 1 \in Tasks
BY FilesAssumption DEF NULL, Slots, Fds, stdin, stdout, Tasks

\* A holder is a task and a descriptor.
LEMMA Pairs ==
    ASSUME NEW h \in Tasks \X Fds
    PROVE  h = <<h[1], h[2]>> /\ h[1] \in Tasks /\ h[2] \in Fds
OBVIOUS

\* Min picks an element of a set of natural numbers.
LEMMA MinIn ==
    ASSUME NEW T \in SUBSET Nat, T # {}
    PROVE  Min(T) \in T
<1> DEFINE R == {ss \in Nat \X Nat : ss[1] < ss[2]}
<1>1. IsWellFoundedOn(R, Nat)
  BY NatLessThanWellFounded DEF OpToRel
<1>2. \A x, y \in Nat : x < y => <<x, y>> \in R
  OBVIOUS
<1> HIDE DEF R
<1>3. PICK x \in T : \A y \in T : ~ (<<y, x>> \in R)
  BY <1>1, WFMin
<1>4. \A y \in T : x <= y
  <2> TAKE y \in T
  <2>1. x \in Nat /\ y \in Nat /\ ~ (y < x)
    BY <1>2, <1>3
  <2> QED BY <2>1
<1> QED BY <1>4 DEF Min

(***************************************************************************)
(* Counting holders.                                                       *)
(***************************************************************************)
\* The descriptors of task t that lead to file f
Refs(t, f) == {d \in Fds : fdtab[t][d] = f}

LEMMA FiniteSets ==
    /\ IsFiniteSet(Fds) /\ IsFiniteSet(Tasks \X Fds)
    /\ \A f : IsFiniteSet(HoldersOf(f)) /\ Cardinality(HoldersOf(f)) \in Nat
    /\ \A t, f : IsFiniteSet(Refs(t, f)) /\ Cardinality(Refs(t, f)) \in Nat
<1>1. IsFiniteSet(Fds) /\ IsFiniteSet(Tasks)
  BY FS_Interval, FilesAssumption DEF Fds, Tasks
<1>2. IsFiniteSet(Tasks \X Fds)
  BY <1>1, FS_Product
<1>3. ASSUME NEW f PROVE IsFiniteSet(HoldersOf(f)) /\ Cardinality(HoldersOf(f)) \in Nat
  <2>1. HoldersOf(f) \in SUBSET (Tasks \X Fds)
    BY DEF HoldersOf
  <2> QED BY <1>2, <2>1, FS_Subset, FS_CardinalityType
<1>4. ASSUME NEW t, NEW f PROVE IsFiniteSet(Refs(t, f)) /\ Cardinality(Refs(t, f)) \in Nat
  <2>1. Refs(t, f) \in SUBSET Fds
    BY DEF Refs
  <2> QED BY <1>1, <2>1, FS_Subset, FS_CardinalityType
<1> QED BY <1>1, <1>2, <1>3, <1>4

\* As many holders as descriptors
LEMMA PairsOf ==
    ASSUME NEW t, NEW D \in SUBSET Fds
    PROVE  /\ IsFiniteSet({t} \X D)
           /\ Cardinality({t} \X D) = Cardinality(D)
<1>1. IsFiniteSet(D) /\ Cardinality(D) \in Nat
  BY FiniteSets, FS_Subset, FS_CardinalityType
<1>2. IsFiniteSet({t}) /\ Cardinality({t}) = 1
  BY FS_Singleton
<1>3. IsFiniteSet({t} \X D) /\ Cardinality({t} \X D) = 1 * Cardinality(D)
  BY <1>1, <1>2, FS_Product
<1> QED BY <1>1, <1>3

\* Whoever has a descriptor for a file is one of its holders.
LEMMA HolderListed ==
    ASSUME FilesType, NoDescriptors, NEW t \in Tasks, NEW d \in Fds, fdtab[t][d] # NULL
    PROVE  task[t] # "none" /\ <<t, d>> \in HoldersOf(fdtab[t][d])
<1>1. task[t] # "none"
  BY DEF NoDescriptors, Nothing
<1> QED BY <1>1 DEF HoldersOf

(***************************************************************************)
(* One lemma per operation.                                                *)
(***************************************************************************)
LEMMA InitOK == Init => FilesInv
<1> SUFFICES ASSUME Init PROVE FilesInv
  OBVIOUS
<1> USE Constants
<1>1. FilesType
  <2>1. files \in [Slots -> FileType]
    BY DEF Init, FileType, FileOps, FileKinds, Free
  <2>2. fdtab \in [Tasks -> [Fds -> Slots \cup {NULL}]]
    BY DEF Init, Nothing
  <2>3. opened \in [Tasks -> [Fds -> FileKinds]]
    BY DEF Init, FileKinds
  <2> QED BY <2>1, <2>2, <2>3 DEF Init, FilesType
<1>2. /\ fdtab[1][0] = stdin /\ fdtab[1][1] = stdout /\ task[1] = "alive"
      /\ \A d \in Fds : fdtab[1][d] # NULL => d \in {0, 1}
      /\ \A t \in Tasks \ {1}, d \in Fds : fdtab[t][d] = NULL
  BY DEF Init, Nothing
<1>3. /\ \A f \in Slots : files[f].live => f \in {stdin, stdout}
      /\ files[stdin].live /\ files[stdin].kind = "stdin" /\ files[stdin].refcnt = 1
      /\ files[stdout].live /\ files[stdout].kind = "stdout" /\ files[stdout].refcnt = 1
      /\ opened[1][0] = "stdin" /\ opened[1][1] = "stdout"
  BY DEF Init, Free
<1>4. \A t \in Tasks, d \in Fds : fdtab[t][d] # NULL => t = 1 /\ d \in {0, 1}
  BY <1>2
<1>5. DescriptorsSound
  <2>1. outcome # "undefined"
    BY DEF Init
  <2> QED BY <1>2, <1>3, <1>4, <2>1 DEF DescriptorsSound
<1>6. RefcntExact
  <2>1. /\ \A h \in Tasks \X Fds : h = <<h[1], h[2]>> /\ h[1] \in Tasks /\ h[2] \in Fds
        /\ <<1, 0>> \in Tasks \X Fds /\ <<1, 1>> \in Tasks \X Fds
    OBVIOUS
  <2>2. HoldersOf(stdin) = {<<1, 0>>}
    BY <1>2, <1>4, <2>1 DEF HoldersOf
  <2>3. HoldersOf(stdout) = {<<1, 1>>}
    BY <1>2, <1>4, <2>1 DEF HoldersOf
  <2>4. Cardinality(HoldersOf(stdin)) = 1 /\ Cardinality(HoldersOf(stdout)) = 1
    BY <2>2, <2>3, FS_Singleton
  <2> QED BY <1>3, <2>4 DEF RefcntExact, OfTty
<1>7. NoDescriptors
  BY DEF Init, NoDescriptors
<1>8. OwnFiles
  <2>1. \A t \in Tasks, d \in Fds : fdtab[t][d] # NULL => OfTty(fdtab[t][d])
    BY <1>2, <1>3, <1>4 DEF OfTty
  <2> QED BY <2>1 DEF OwnFiles
<1> QED BY <1>1, <1>5, <1>6, <1>7, <1>8 DEF FilesInv

\* A panic or a wild use changes nothing else.
LEMMA StopOK ==
    ASSUME FilesInv, NEW o, Stop(o), o # "undefined" \/ misused
    PROVE  FilesInv'
<1> USE DEF Stop
<1>1. FilesType' /\ (misused' => misused) /\ (misused => misused')
  BY DEF FilesInv, FilesType
<1>2. \A f : HoldersOf(f)' = HoldersOf(f)
  BY DEF HoldersOf
<1>3. DescriptorsSound'
  BY DEF FilesInv, DescriptorsSound
<1>4. RefcntExact'
  BY <1>2 DEF FilesInv, RefcntExact, OfTty
<1>5. ~misused' => NoDescriptors' /\ OwnFiles'
  BY DEF FilesInv, NoDescriptors, OwnFiles, OfTty
<1> QED BY <1>1, <1>3, <1>4, <1>5 DEF FilesInv

\* open: a slot nobody refers to, behind a descriptor that was free.
LEMMA OpenOK ==
    ASSUME FilesInv, NEW t \in Tasks, NEW k \in Kinds, Open(t, k)
    PROVE  FilesInv'
<1> USE Constants
<1>0. ~misused /\ task[t] = "alive" /\ outcome = "running" /\ FilesType /\ OwnFiles
      /\ NoDescriptors
  BY DEF Open, AliveAndCareful, Alive, FilesInv
<1>1. CASE Stop("panic")
  BY <1>1, StopOK
<1>2. CASE ~Stop("panic")
  <2>1. PICK f \in Slots : ~files[f].live /\ f = Min({s \in Slots : ~files[s].live})
    <3> DEFINE S == {s \in Slots : ~files[s].live}
    <3>1. S \in SUBSET Nat /\ S # {}
      BY FilesAssumption DEF Slots, Open
    <3>2. Min(S) \in S
      BY <3>1, MinIn
    <3> QED BY <3>2
  <2> DEFINE ds == {e \in Fds : fdtab[t][e] = NULL}
  <2>2. PICK d \in Fds : fdtab[t][d] = NULL /\ d = Min(ds)
    <3>1. ds # {}
      BY <1>2 DEF Open, do_open
    <3>2. ds \in SUBSET Nat
      BY FilesAssumption DEF Fds
    <3>3. Min(ds) \in ds
      BY <3>1, <3>2, MinIn
    <3> QED BY <3>3
  <2>3. /\ files' = [files EXCEPT ![f] = [live |-> TRUE, ops |-> ops(k),
                                          kind |-> k, refcnt |-> 0]]
        /\ fdtab' = [fdtab EXCEPT ![t][d] = f]
        /\ opened' = [opened EXCEPT ![t][d] = k]
        /\ UNCHANGED <<task, parent, misused, outcome>>
    BY <1>2, <2>1, <2>2 DEF Open, do_open, initial_refcnt
  <2>4. k \in FileKinds /\ k # "stdin" /\ k # "stdout" /\ ops(k) \in FileOps
    BY FilesAssumption DEF ops, FileKinds, FileOps
  <2>5. FilesType'
    BY <1>0, <2>1, <2>2, <2>3, <2>4 DEF FilesType, FileType
  <2>6. /\ fdtab'[t][d] = f /\ opened'[t][d] = k
        /\ \A u \in Tasks, e \in Fds :
              <<u, e>> # <<t, d>> => fdtab'[u][e] = fdtab[u][e] /\ opened'[u][e] = opened[u][e]
    BY <1>0, <2>2, <2>3 DEF FilesType
  <2>7. /\ files'[f].live /\ files'[f].kind = k /\ files'[f].refcnt = 0
        /\ \A g \in Slots \ {f} : files'[g] = files[g]
    BY <1>0, <2>1, <2>3 DEF FilesType
  <2>8. \A u \in Tasks, e \in Fds :
           /\ fdtab[u][e] # f
           /\ fdtab[u][e] # NULL => files[fdtab[u][e]].live /\ fdtab[u][e] \in Slots
    BY <1>0, <2>1 DEF FilesInv, DescriptorsSound, FilesType
  <2>9. DescriptorsSound'
    <3> SUFFICES ASSUME NEW u \in Tasks, NEW e \in Fds, fdtab'[u][e] # NULL
                 PROVE  /\ files'[fdtab'[u][e]].live
                        /\ files'[fdtab'[u][e]].kind = opened'[u][e]
      BY <1>0, <2>3 DEF DescriptorsSound
    <3>1. CASE <<u, e>> = <<t, d>>
      BY <2>6, <2>7, <3>1
    <3>2. CASE <<u, e>> # <<t, d>>
      BY <1>0, <2>6, <2>7, <2>8, <3>2 DEF FilesInv, DescriptorsSound
    <3> QED BY <3>1, <3>2
  <2>10. RefcntExact'
    <3>0. <<t, d>> \in Tasks \X Fds /\ task'[t] # "none" /\ task' = task
      BY <1>0, <2>2, <2>3
    <3>1. HoldersOf(f)' = {<<t, d>>}
      <4>1. \A h \in HoldersOf(f)' : h = <<t, d>>
        BY <2>6, <2>8, Pairs DEF HoldersOf
      <4>2. <<t, d>> \in HoldersOf(f)'
        BY <2>6, <3>0 DEF HoldersOf
      <4> QED BY <4>1, <4>2
    <3>2. Cardinality(HoldersOf(f)') = 1
      BY <3>1, FS_Singleton
    <3>3. \A g \in Slots \ {f} : HoldersOf(g)' = HoldersOf(g)
      <4> TAKE g \in Slots \ {f}
      <4>1. \A h \in Tasks \X Fds : fdtab'[h[1]][h[2]] = g <=> fdtab[h[1]][h[2]] = g
        BY <2>2, <2>6, Pairs
      <4> QED BY <2>3, <4>1 DEF HoldersOf
    <3>4. \A g \in Slots \ {f} : OfTty(g)' = OfTty(g)
      BY <2>7 DEF OfTty
    <3>5. ~OfTty(f)'
      BY <2>4, <2>7 DEF OfTty
    <3>6. ASSUME NEW g \in Slots, files'[g].live
          PROVE  files'[g].refcnt = Cardinality(HoldersOf(g)') - (IF OfTty(g)' THEN 0 ELSE 1)
      <4>1. CASE g = f
        BY <2>7, <3>2, <3>5, <4>1
      <4>2. CASE g # f
        BY <1>0, <2>7, <3>3, <3>4, <3>6, <4>2 DEF FilesInv, RefcntExact
      <4> QED BY <4>1, <4>2
    <3> QED BY <3>6 DEF RefcntExact
  <2>11. NoDescriptors'
    BY <1>0, <2>2, <2>3 DEF NoDescriptors, FilesType
  <2>12. OwnFiles'
    <3>1. \A g \in Slots \ {f} : OfTty(g)' = OfTty(g)
      BY <2>7 DEF OfTty
    <3> QED BY <1>0, <2>1, <2>6, <2>8, <3>1 DEF OwnFiles
  <2> QED BY <2>5, <2>9, <2>10, <2>11, <2>12 DEF FilesInv
<1> QED BY <1>1, <1>2

\* close: without misuse nobody else refers to the file that is freed.
LEMMA CloseOK ==
    ASSUME FilesInv, NEW t \in Tasks, NEW d \in Fds, Close(t, d)
    PROVE  FilesInv'
<1> USE Constants
<1>0. PICK f : f = fdtab[t][d]
  OBVIOUS
<1>1. CASE Stop("panic")
  BY <1>1, StopOK
<1>2. CASE f # NULL /\ ~files[f].live /\ Stop("undefined")
  BY <1>0, <1>2, StopOK DEF FilesInv, DescriptorsSound
<1>3. CASE /\ f # NULL /\ files[f].live /\ close(t, d)
           /\ misused' = (misused \/ HoldersOf(f) # {<<t, d>>})
           /\ UNCHANGED <<task, parent, outcome>>
  <2>1. FilesType /\ f \in Slots
    BY <1>0, <1>3 DEF FilesInv, FilesType
  <2>2. /\ files' = [files EXCEPT ![f] = Free]
        /\ fdtab' = [fdtab EXCEPT ![t][d] = NULL]
        /\ opened' = [opened EXCEPT ![t][d] = "none"]
    BY <1>0, <1>3 DEF close
  <2>3. FilesType'
    BY <1>3, <2>1, <2>2 DEF FilesType, FileType, FileOps, FileKinds, Free
  <2>4. CASE ~misused'
    <3>1. ~misused /\ HoldersOf(f) = {<<t, d>>} /\ NoDescriptors /\ OwnFiles
      BY <1>3, <2>1, <2>4 DEF FilesInv, FilesType
    <3>2. \A u \in Tasks, e \in Fds : <<u, e>> # <<t, d>> => fdtab[u][e] # f
      BY <1>3, <2>1, <3>1, HolderListed
    <3>3. /\ fdtab'[t][d] = NULL /\ opened'[t][d] = "none"
          /\ \A u \in Tasks, e \in Fds :
                <<u, e>> # <<t, d>> =>
                   fdtab'[u][e] = fdtab[u][e] /\ opened'[u][e] = opened[u][e]
      BY <2>1, <2>2 DEF FilesType
    <3>4. ~files'[f].live /\ \A g \in Slots \ {f} : files'[g] = files[g]
      BY <2>1, <2>2 DEF Free, FilesType
    <3>5. \A u \in Tasks, e \in Fds : fdtab[u][e] \in Slots \cup {NULL}
      BY <2>1 DEF FilesType
    <3>6. DescriptorsSound'
      <4>1. outcome' # "undefined"
        BY <1>3, <3>1 DEF FilesInv, DescriptorsSound
      <4>2. ASSUME NEW u \in Tasks, NEW e \in Fds, fdtab'[u][e] # NULL
            PROVE  /\ files'[fdtab'[u][e]].live
                   /\ files'[fdtab'[u][e]].kind = opened'[u][e]
        <5>1. <<u, e>> # <<t, d>>
          BY <3>3, <4>2
        <5> QED BY <3>1, <3>2, <3>3, <3>4, <3>5, <4>2, <5>1 DEF FilesInv, DescriptorsSound
      <4> QED BY <4>1, <4>2 DEF DescriptorsSound
    <3>7. \A g \in Slots \ {f} : HoldersOf(g)' = HoldersOf(g)
      BY <1>3, <2>1, <2>2, <3>3, <1>0 DEF HoldersOf
    <3>8. \A g \in Slots \ {f} : OfTty(g)' = OfTty(g)
      BY <3>4 DEF OfTty
    <3>9. RefcntExact'
      BY <3>1, <3>4, <3>7, <3>8 DEF FilesInv, RefcntExact
    <3>10. NoDescriptors'
      BY <1>3, <2>1, <2>2, <3>1 DEF NoDescriptors, FilesType, Nothing
    <3>11. OwnFiles'
      BY <2>1, <3>1, <3>2, <3>3, <3>5, <3>8 DEF OwnFiles
    <3> QED BY <2>3, <3>6, <3>9, <3>10, <3>11 DEF FilesInv
  <2>5. CASE misused'
    BY <2>3, <2>5 DEF FilesInv, DescriptorsSound, RefcntExact
  <2> QED BY <2>4, <2>5
<1> QED BY <1>0, <1>1, <1>2, <1>3 DEF Close, do_close

\* read, write and getdents change no table; without misuse the file is live.
LEMMA UseOK ==
    ASSUME FilesInv, NEW t \in Tasks, NEW d \in Fds, NEW call, Use(t, d, call)
    PROVE  FilesInv' \/ UNCHANGED vars
<1>1. CASE Stop("panic")
  BY <1>1, StopOK
<1>2. CASE fdtab[t][d] # NULL /\ ~files[fdtab[t][d]].live /\ Stop("undefined")
  BY <1>2, StopOK DEF FilesInv, DescriptorsSound
<1> QED BY <1>1, <1>2 DEF Use

\* fork: the child holds what the parent holds, and every reference is counted.
LEMMA ForkOK ==
    ASSUME FilesInv, NEW t \in Tasks, NEW c \in Tasks, do_fork(t, c)
    PROVE  FilesInv'
<1> USE Constants
<1>0. /\ ~misused /\ task[t] = "alive" /\ task[c] = "none" /\ t # c /\ outcome = "running"
      /\ FilesType /\ OwnFiles /\ NoDescriptors
  BY DEF do_fork, AliveAndCareful, Alive, FilesInv
<1>1. /\ files' = fork_refcnt(t)
      /\ fdtab' = [fdtab EXCEPT ![c] = fdtab[t]]
      /\ opened' = [opened EXCEPT ![c] = opened[t]]
      /\ task' = [task EXCEPT ![c] = "alive"]
      /\ misused' = (misused \/ \E d \in Fds : fdtab[t][d] # NULL /\ ~OfTty(fdtab[t][d]))
      /\ UNCHANGED outcome
  BY DEF do_fork
<1>2. \A f \in Slots :
         /\ files[f] \in FileType /\ files'[f] \in FileType
         /\ files'[f].live = files[f].live /\ files'[f].kind = files[f].kind
         /\ files'[f].refcnt = files[f].refcnt + Cardinality(Refs(t, f))
  <2> TAKE f \in Slots
  <2>1. files[f] \in FileType
    BY <1>0 DEF FilesType
  <2>2. files'[f] = [files[f] EXCEPT !.refcnt = @ + Cardinality(Refs(t, f))]
    BY <1>1 DEF fork_refcnt, Refs
  <2>3. Cardinality(Refs(t, f)) \in Nat
    BY FiniteSets
  <2> QED BY <2>1, <2>2, <2>3 DEF FileType
<1>3. FilesType'
  <2>1. files' \in [Slots -> FileType]
    BY <1>1, <1>2 DEF fork_refcnt
  <2> QED BY <1>0, <1>1, <2>1 DEF FilesType
<1>4. CASE misused'
  BY <1>3, <1>4 DEF FilesInv, DescriptorsSound, RefcntExact
<1>5. CASE ~misused'
  <2>1. \A d \in Fds : fdtab[t][d] # NULL => OfTty(fdtab[t][d])
    BY <1>1, <1>5
  <2>2. /\ fdtab'[c] = fdtab[t] /\ opened'[c] = opened[t] /\ task'[c] = "alive"
        /\ \A u \in Tasks \ {c} : /\ fdtab'[u] = fdtab[u] /\ opened'[u] = opened[u]
                                  /\ task'[u] = task[u]
    BY <1>0, <1>1 DEF FilesType
  <2>3. \A u \in Tasks, d \in Fds : fdtab[u][d] # NULL => fdtab[u][d] \in Slots
    BY <1>0 DEF FilesType
  <2>4. \A f \in Slots : OfTty(f)' = OfTty(f)
    BY <1>2 DEF OfTty
  <2>5. DescriptorsSound'
    BY <1>0, <1>1, <1>2, <2>2, <2>3 DEF FilesInv, DescriptorsSound
  <2>6. ASSUME NEW f \in Slots, files'[f].live
        PROVE  files'[f].refcnt = Cardinality(HoldersOf(f)') - (IF OfTty(f)' THEN 0 ELSE 1)
    <3> DEFINE H == HoldersOf(f)
               new == {c} \X Refs(t, f)
    <3>1. \A h : h \in new <=> h \in Tasks \X Fds /\ h[1] = c /\ fdtab[t][h[2]] = f
      <4> TAKE h
      <4>1. ASSUME h \in new PROVE h \in Tasks \X Fds /\ h[1] = c /\ fdtab[t][h[2]] = f
        BY <4>1 DEF Refs
      <4>2. ASSUME h \in Tasks \X Fds, h[1] = c, fdtab[t][h[2]] = f PROVE h \in new
        BY <4>2, Pairs DEF Refs
      <4> QED BY <4>1, <4>2
    <3>2. HoldersOf(f)' = H \cup new
      BY <1>0, <2>2, <3>1, Pairs DEF HoldersOf
    <3>3. H \cap new = {}
      BY <1>0, <3>1 DEF HoldersOf
    <3>4. IsFiniteSet(H) /\ Cardinality(H) \in Nat /\ Cardinality(Refs(t, f)) \in Nat
      BY FiniteSets
    <3>5. IsFiniteSet(new) /\ Cardinality(new) = Cardinality(Refs(t, f))
      BY PairsOf DEF Refs
    <3> HIDE DEF H, new
    <3>6. Cardinality(H \cap new) = 0 /\ Cardinality(HoldersOf(f)') = Cardinality(H \cup new)
      BY <3>2, <3>3, FS_EmptySet
    <3>7. Cardinality(H \cup new) = Cardinality(H) + Cardinality(new) - Cardinality(H \cap new)
      BY <3>4, <3>5, FS_Union
    <3>8. Cardinality(HoldersOf(f)') = Cardinality(H) + Cardinality(Refs(t, f))
      BY <3>4, <3>5, <3>6, <3>7
    <3>9. files[f].refcnt = Cardinality(H) - (IF OfTty(f) THEN 0 ELSE 1)
      BY <1>0, <1>2, <2>6 DEF FilesInv, RefcntExact, H
    <3> QED BY <1>2, <2>4, <3>4, <3>8, <3>9
  <2>7. RefcntExact'
    BY <2>6 DEF RefcntExact
  <2>8. NoDescriptors'
    BY <1>0, <2>2 DEF NoDescriptors
  <2>9. OwnFiles'
    BY <1>0, <2>1, <2>2, <2>3, <2>4 DEF OwnFiles
  <2> QED BY <1>3, <2>5, <2>7, <2>8, <2>9 DEF FilesInv
<1> QED BY <1>4, <1>5

\* exit leaves the descriptors to the zombie.
LEMMA ExitOK ==
    ASSUME FilesInv, NEW t \in Tasks, do_exit(t)
    PROVE  FilesInv'
<1>0. /\ ~misused /\ task[t] = "alive" /\ FilesType /\ OwnFiles /\ NoDescriptors
      /\ task' = [task EXCEPT ![t] = "zombie"]
      /\ UNCHANGED <<files, fdtab, parent, opened, misused, outcome>>
  BY DEF do_exit, AliveAndCareful, Alive, FilesInv
<1>1. FilesType' /\ \A u \in Tasks : task'[u] = "none" <=> task[u] = "none"
  BY <1>0 DEF FilesType
<1>2. \A f : HoldersOf(f)' = HoldersOf(f)
  BY <1>0, <1>1 DEF HoldersOf
<1>3. DescriptorsSound'
  BY <1>0 DEF FilesInv, DescriptorsSound
<1>4. RefcntExact'
  BY <1>0, <1>2 DEF FilesInv, RefcntExact, OfTty
<1>5. NoDescriptors' /\ OwnFiles'
  BY <1>0, <1>1 DEF NoDescriptors, OwnFiles, OfTty
<1> QED BY <1>1, <1>3, <1>4, <1>5 DEF FilesInv

\* wait: the zombie's references are counted down; a file is freed only when
\* nobody else holds it.
LEMMA WaitOK ==
    ASSUME FilesInv, NEW t \in Tasks, NEW z \in Tasks, Wait(t, z)
    PROVE  FilesInv'
<1> USE Constants
<1>0. FilesType /\ outcome = "running"
  BY DEF Wait, Alive, FilesInv
<1>1. CASE /\ \E d \in Fds : fdtab[z][d] # NULL /\ ~files[fdtab[z][d]].live
           /\ Stop("undefined")
  BY <1>1, StopOK DEF FilesInv, DescriptorsSound
<1>2. CASE /\ files' = [f \in Slots |-> Released(f, z)]
           /\ fdtab' = [fdtab EXCEPT ![z] = Nothing]
           /\ opened' = [opened EXCEPT ![z] = [d \in Fds |-> "none"]]
           /\ task' = [task EXCEPT ![z] = "none"]
           /\ UNCHANGED <<parent, misused, outcome>>
  <2>1. \A f \in Slots :
           /\ files[f] \in FileType /\ files'[f] \in FileType
           /\ Refs(z, f) = {} => files'[f] = files[f]
           /\ Refs(z, f) # {} /\ files[f].refcnt = Cardinality(Refs(z, f)) => files'[f] = Free
           /\ Refs(z, f) # {} /\ files[f].refcnt # Cardinality(Refs(z, f)) =>
                /\ files'[f].live = files[f].live /\ files'[f].kind = files[f].kind
                /\ files'[f].refcnt = files[f].refcnt - Cardinality(Refs(z, f))
    <3> TAKE f \in Slots
    <3> DEFINE n == files[f].refcnt - Cardinality(Refs(z, f))
    <3>1. files[f] \in FileType /\ Cardinality(Refs(z, f)) \in Nat
      BY <1>0, FiniteSets DEF FilesType
    <3>2. n \in Int /\ (n = 0 <=> files[f].refcnt = Cardinality(Refs(z, f)))
      BY <3>1 DEF FileType
    <3>3. files'[f] = IF Refs(z, f) # {}
                      THEN IF n = 0 THEN Free ELSE [files[f] EXCEPT !.refcnt = n]
                      ELSE files[f]
      BY <1>2 DEF Released, Refs
    <3>4. Free \in FileType
      BY DEF Free, FileType, FileOps, FileKinds
    <3> HIDE DEF n
    <3>5. LET g == [files[f] EXCEPT !.refcnt = n]
          IN  g \in FileType /\ g.live = files[f].live /\ g.kind = files[f].kind /\ g.refcnt = n
      BY <3>1, <3>2 DEF FileType
    <3> QED BY <3>1, <3>2, <3>3, <3>4, <3>5 DEF n
  <2>2. FilesType'
    <3>1. files' \in [Slots -> FileType]
      BY <1>2, <2>1
    <3>2. Nothing \in [Fds -> Slots \cup {NULL}] /\ [d \in Fds |-> "none"] \in [Fds -> FileKinds]
      BY DEF Nothing, FileKinds
    <3> QED BY <1>0, <1>2, <3>1, <3>2 DEF FilesType
  <2>3. CASE misused'
    BY <2>2, <2>3 DEF FilesInv, DescriptorsSound, RefcntExact
  <2>4. CASE ~misused'
    <3>0. ~misused /\ NoDescriptors /\ OwnFiles
      BY <1>2, <2>4 DEF FilesInv
    <3>1. /\ \A d \in Fds : fdtab'[z][d] = NULL
          /\ task'[z] = "none"
          /\ \A u \in Tasks \ {z} : /\ fdtab'[u] = fdtab[u] /\ opened'[u] = opened[u]
                                    /\ task'[u] = task[u]
      BY <1>0, <1>2 DEF FilesType, Nothing
    <3>2. \A u \in Tasks, d \in Fds :
             fdtab[u][d] # NULL =>
                /\ fdtab[u][d] \in Slots /\ files[fdtab[u][d]].live
                /\ files[fdtab[u][d]].kind = opened[u][d]
                /\ <<u, d>> \in HoldersOf(fdtab[u][d])
      BY <1>0, <3>0, HolderListed DEF FilesInv, DescriptorsSound, FilesType
    <3>3. ASSUME NEW f \in Slots
          PROVE  /\ HoldersOf(f)' = HoldersOf(f) \ ({z} \X Refs(z, f))
                 /\ IsFiniteSet(HoldersOf(f)') /\ Cardinality(HoldersOf(f)') \in Nat
                 /\ Cardinality(HoldersOf(f)')
                       = Cardinality(HoldersOf(f)) - Cardinality(Refs(z, f))
      <4> DEFINE H == HoldersOf(f)
                 old == {z} \X Refs(z, f)
      <4>1. \A h : h \in old <=> h \in Tasks \X Fds /\ h[1] = z /\ fdtab[z][h[2]] = f
        <5> TAKE h
        <5>1. ASSUME h \in old PROVE h \in Tasks \X Fds /\ h[1] = z /\ fdtab[z][h[2]] = f
          BY <5>1 DEF Refs
        <5>2. ASSUME h \in Tasks \X Fds, h[1] = z, fdtab[z][h[2]] = f PROVE h \in old
          BY <5>2, Pairs DEF Refs
        <5> QED BY <5>1, <5>2
      <4>2. HoldersOf(f)' = H \ old
        BY <3>1, <4>1, Pairs DEF HoldersOf
      <4>3. H \cap old = old
        <5>1. \A h \in old : fdtab[h[1]][h[2]] # NULL /\ h \in H
          BY <1>0, <3>0, <4>1, HolderListed, Pairs DEF HoldersOf
        <5> QED BY <5>1
      <4>4. IsFiniteSet(H) /\ Cardinality(H) \in Nat /\ Cardinality(Refs(z, f)) \in Nat
        BY FiniteSets
      <4>5. Cardinality(old) = Cardinality(Refs(z, f))
        BY PairsOf DEF Refs
      <4> HIDE DEF H, old
      <4>6. IsFiniteSet(H \ old) /\ Cardinality(H \ old) = Cardinality(H) - Cardinality(H \cap old)
        BY <4>4, FS_Difference
      <4>7. Cardinality(H \ old) \in Nat
        BY <4>6, FS_CardinalityType
      <4>8. Cardinality(H \ old) = Cardinality(H) - Cardinality(Refs(z, f))
        BY <4>3, <4>5, <4>6
      <4> QED BY <4>2, <4>6, <4>7, <4>8 DEF H, old
    <3>4. ASSUME NEW f \in Slots, Refs(z, f) # {}, ~OfTty(f)
          PROVE  HoldersOf(f)' = {}
      <4>1. PICK d \in Fds : fdtab[z][d] = f
        BY <3>4 DEF Refs
      <4>2. ASSUME NEW h \in HoldersOf(f)' PROVE FALSE
        <5>1. h[1] \in Tasks /\ h[2] \in Fds /\ fdtab'[h[1]][h[2]] = f
          BY Pairs DEF HoldersOf
        <5>2. h[1] # z /\ fdtab[h[1]][h[2]] = f
          BY <3>1, <5>1
        <5> QED BY <3>0, <3>4, <4>1, <5>1, <5>2 DEF OwnFiles
      <4> QED BY <4>2
    <3>5. ASSUME NEW f \in Slots, files[f].live
          PROVE  files[f].refcnt = Cardinality(HoldersOf(f)) - (IF OfTty(f) THEN 0 ELSE 1)
      BY <3>0, <3>5 DEF FilesInv, RefcntExact
    <3>6. ASSUME NEW f \in Slots, files[f].live, Refs(z, f) # {},
                 files[f].refcnt = Cardinality(Refs(z, f))
          PROVE  HoldersOf(f)' = {}
      <4>1. CASE OfTty(f)
        <5>1. Cardinality(HoldersOf(f)') = 0
          BY <3>3, <3>5, <3>6, <4>1, FiniteSets
        <5> QED BY <3>3, <5>1, FS_EmptySet
      <4> QED BY <3>4, <3>6, <4>1
    <3>7. \A f \in Slots : files'[f].live => /\ files[f].live /\ files'[f].kind = files[f].kind
                                             /\ OfTty(f)' = OfTty(f)
      BY <2>1 DEF Free, OfTty
    <3>8. DescriptorsSound'
      <4>1. outcome' # "undefined"
        BY <1>0, <1>2
      <4>2. ASSUME NEW u \in Tasks, NEW d \in Fds, fdtab'[u][d] # NULL
            PROVE  /\ files'[fdtab'[u][d]].live
                   /\ files'[fdtab'[u][d]].kind = opened'[u][d]
        <5>1. u # z /\ fdtab'[u][d] = fdtab[u][d] /\ opened'[u][d] = opened[u][d]
          BY <3>1, <4>2
        <5>2. PICK f \in Slots : f = fdtab[u][d] /\ files[f].live /\ files[f].kind = opened[u][d]
                                 /\ <<u, d>> \in HoldersOf(f)
          BY <3>2, <4>2, <5>1
        <5>3. <<u, d>> \in HoldersOf(f)'
          BY <3>1, <5>1, <5>2 DEF HoldersOf
        <5>4. ~(Refs(z, f) # {} /\ files[f].refcnt = Cardinality(Refs(z, f)))
          BY <3>6, <5>2, <5>3
        <5> QED BY <2>1, <5>1, <5>2, <5>4
      <4> QED BY <4>1, <4>2 DEF DescriptorsSound
    <3>9. RefcntExact'
      <4>1. ASSUME NEW f \in Slots, files'[f].live
            PROVE  files'[f].refcnt = Cardinality(HoldersOf(f)') - (IF OfTty(f)' THEN 0 ELSE 1)
        <5>1. files[f].live /\ OfTty(f)' = OfTty(f)
          BY <3>7, <4>1
        <5>2. Cardinality(HoldersOf(f)) \in Nat /\ Cardinality(Refs(z, f)) \in Nat
          BY FiniteSets
        <5>3. files'[f].refcnt = files[f].refcnt - Cardinality(Refs(z, f))
          <6>1. CASE Refs(z, f) = {}
            <7>1. Cardinality(Refs(z, f)) = 0 /\ files'[f] = files[f] /\ files[f].refcnt \in Int
              BY <2>1, <6>1, FS_EmptySet DEF FileType
            <7> QED BY <7>1
          <6>2. CASE Refs(z, f) # {}
            BY <2>1, <4>1, <6>2 DEF Free
          <6> QED BY <6>1, <6>2
        <5> QED BY <3>3, <3>5, <5>1, <5>2, <5>3
      <4> QED BY <4>1 DEF RefcntExact
    <3>10. NoDescriptors'
      <4>1. fdtab'[z] = Nothing
        BY <1>0, <1>2 DEF FilesType
      <4> QED BY <3>0, <3>1, <4>1 DEF NoDescriptors
    <3>11. OwnFiles'
      <4>1. \A u \in Tasks, d \in Fds :
               fdtab'[u][d] # NULL => /\ u # z /\ fdtab'[u][d] = fdtab[u][d]
                                      /\ fdtab[u][d] \in Slots
        BY <3>1, <3>2
      <4>2. \A u \in Tasks, d \in Fds :
               fdtab'[u][d] # NULL => (OfTty(fdtab[u][d])' <=> OfTty(fdtab[u][d]))
        BY <3>7, <3>8, <2>4, <4>1 DEF DescriptorsSound, OfTty
      <4> QED BY <3>0, <4>1, <4>2 DEF OwnFiles
    <3> QED BY <2>2, <3>8, <3>9, <3>10, <3>11 DEF FilesInv
  <2> QED BY <2>3, <2>4
<1> QED BY <1>1, <1>2 DEF Wait

LEMMA StutterOK == FilesInv /\ UNCHANGED vars => FilesInv'
<1> SUFFICES ASSUME FilesInv, UNCHANGED vars PROVE FilesInv'
  OBVIOUS
<1> USE DEF vars
<1>1. \A f : HoldersOf(f)' = HoldersOf(f)
  BY DEF HoldersOf
<1>2. FilesType' /\ DescriptorsSound'
  BY DEF FilesInv, FilesType, DescriptorsSound
<1>3. RefcntExact'
  BY <1>1 DEF FilesInv, RefcntExact, OfTty
<1>4. ~misused' => NoDescriptors' /\ OwnFiles'
  BY DEF FilesInv, NoDescriptors, OwnFiles, OfTty
<1> QED BY <1>2, <1>3, <1>4 DEF FilesInv

LEMMA NextOK == FilesInv /\ [Next]_vars => FilesInv'
<1> SUFFICES ASSUME FilesInv, [Next]_vars PROVE FilesInv'
  OBVIOUS
<1>1. ASSUME NEW t \in Tasks, NEW k \in Kinds, Open(t, k) PROVE FilesInv'
  BY <1>1, OpenOK
<1>2. ASSUME NEW t \in Tasks, NEW d \in Fds, Close(t, d) PROVE FilesInv'
  BY <1>2, CloseOK
<1>3. ASSUME NEW t \in Tasks, NEW d \in Fds, NEW c, Use(t, d, c) PROVE FilesInv'
  BY <1>3, UseOK, StutterOK
<1>4. ASSUME NEW t \in Tasks, NEW c \in Tasks, do_fork(t, c) PROVE FilesInv'
  BY <1>4, ForkOK
<1>5. ASSUME NEW t \in Tasks, NEW z \in Tasks, Wait(t, z) PROVE FilesInv'
  BY <1>5, WaitOK
<1>6. ASSUME NEW t \in Tasks, do_exit(t) PROVE FilesInv'
  BY <1>6, ExitOK
<1> QED BY <1>1, <1>2, <1>3, <1>4, <1>5, <1>6, StutterOK DEF Next

LEMMA FilesInvariance == Spec => []FilesInv
BY InitOK, NextOK, PTL DEF Spec

\* A descriptor leads to the live file it was opened for, and no call uses a
\* freed file, in programs that share no file but the terminal's.
THEOREM DescriptorsCorrect == Spec => []DescriptorsSound
<1>1. FilesInv => DescriptorsSound
  BY DEF FilesInv
<1> QED BY <1>1, FilesInvariance, PTL

\* The terminal's files count their holders exactly; a file that was opened
\* counts one less, so that it is never freed by the exit of its task.
THEOREM CountsCorrect == Spec => []RefcntExact
<1>1. FilesInv => RefcntExact
  BY DEF FilesInv
<1> QED BY <1>1, FilesInvariance, PTL
=============================================================================
