---------------------------- MODULE ContextProof ----------------------------
(***************************************************************************)
(* Proofs about Context, for any number of tasks and any depth of          *)
(* preemption.                                                             *)
(***************************************************************************)
EXTENDS Context, SequenceTheorems, TLAPS

(***************************************************************************)
(* The stack machine.                                                      *)
(***************************************************************************)
\* Machine k stands on the stack of t, whose words lie above depth e.
On(k, t, e) ==
    /\ k.of = t /\ t \in Tasks /\ DOMAIN k.mem = Tasks
    /\ k.d \in Nat /\ e \in Nat /\ e <= k.d
    /\ DOMAIN k.mem[t] = e + 1 .. k.d

\* The stacks of the other tasks are as in k.
OthersAs(p, k, t) == \A u \in Tasks \ {t} : p.mem[u] = k.mem[u]

Words(words, n) == Len(words) = n

\* Names are the different registers of a sequence of length n.
Names(names, n) ==
    /\ n \in Nat /\ DOMAIN names = 1 .. n /\ Len(names) = n
    /\ \A i \in 1 .. n : names[i] \in Reg
    /\ \A i, j \in 1 .. n : names[i] = names[j] => i = j

\* The registers of p are what lies on the stack of k.
Popped(p, k, names, n) == \A j \in 1 .. n : p.r[names[j]] = Word(k, j - 1)

NotPopped(p, k, names) == \A m \in Reg \ Range(names) : p.r[m] = k.r[m]

\* New registers leave the stacks alone.
LEMMA WithRegsOK ==
    ASSUME NEW k, NEW t, NEW e, On(k, t, e), NEW r
    PROVE  /\ On(WithRegs(k, r), t, e) /\ WithRegs(k, r).d = k.d /\ WithRegs(k, r).r = r
           /\ WithRegs(k, r).mem = k.mem
           /\ \A i \in Nat : Word(WithRegs(k, r), i) = Word(k, i)
BY DEF WithRegs, Machine, On, Word

\* Pushed words are the topmost ones; the others move down, those of other tasks stay.
LEMMA PushOK ==
    ASSUME NEW k, NEW t, NEW e, On(k, t, e), NEW words, NEW n \in Nat, Words(words, n)
    PROVE  LET p == Push(k, words)
           IN  /\ On(p, t, e) /\ p.d = k.d + n /\ p.r = k.r /\ OthersAs(p, k, t)
               /\ \A i \in 0 .. n - 1 : Word(p, i) = words[n - i]
               /\ \A i \in Nat : i >= n => Word(p, i) = Word(k, i - n)
<1> DEFINE p == Push(k, words)
           new == k.d + 1 .. k.d + n
           old == k.mem[t]
           s == [d \in DOMAIN old \cup new |-> IF d \in new THEN words[d - k.d] ELSE old[d]]
<1>1. k.of = t /\ t \in Tasks /\ DOMAIN k.mem = Tasks /\ k.d \in Nat /\ e \in Nat /\ e <= k.d
      /\ DOMAIN old = e + 1 .. k.d
  BY DEF On
<1>2. p = Machine([k.mem EXCEPT ![t] = s], t, k.d + n, k.r)
  BY <1>1 DEF Push, Words
<1>3. /\ p.mem = [k.mem EXCEPT ![t] = s] /\ p.of = t /\ p.d = k.d + n /\ p.r = k.r
  BY <1>2 DEF Machine
<1>4. p.mem[t] = s /\ DOMAIN p.mem = Tasks /\ OthersAs(p, k, t)
  BY <1>1, <1>3 DEF OthersAs
<1>5. DOMAIN s = e + 1 .. k.d + n
  BY <1>1
<1>6. On(p, t, e)
  <2> HIDE DEF p, s
  <2>1. p.d \in Nat /\ e <= p.d /\ DOMAIN p.mem[t] = e + 1 .. p.d
    BY <1>1, <1>3, <1>4, <1>5
  <2> QED BY <1>1, <1>3, <1>4, <2>1 DEF On
<1>7. ASSUME NEW i \in 0 .. n - 1 PROVE Word(p, i) = words[n - i]
  <2>1. (k.d + n) - i \in DOMAIN s /\ (k.d + n) - i \in new /\ ((k.d + n) - i) - k.d = n - i
    BY <1>1, <1>5
  <2>2. s[(k.d + n) - i] = words[n - i]
    BY <2>1
  <2> HIDE DEF p, s
  <2> QED BY <1>3, <1>4, <2>1, <2>2 DEF Word
<1>8. ASSUME NEW i \in Nat, i >= n PROVE Word(p, i) = Word(k, i - n)
  <2>1. (k.d + n) - i = k.d - (i - n) /\ (k.d + n) - i \notin new
    BY <1>1, <1>8
  <2>2. (k.d + n) - i \in DOMAIN s <=> k.d - (i - n) \in DOMAIN old
    BY <2>1
  <2>3. k.d - (i - n) \in DOMAIN old => s[(k.d + n) - i] = old[k.d - (i - n)]
    BY <2>1, <2>2
  <2> HIDE DEF p, s
  <2> QED BY <1>1, <1>3, <1>4, <2>1, <2>2, <2>3 DEF Word
<1> QED BY <1>3, <1>4, <1>6, <1>7, <1>8

\* After n pops the words below are on top, and none is left if n were there.
LEMMA DropOK ==
    ASSUME NEW k, NEW t, NEW e, On(k, t, e), NEW n \in Nat, n <= k.d - e
    PROVE  LET p == Drop(k, n)
           IN  /\ On(p, t, e) /\ p.d = k.d - n /\ p.r = k.r /\ OthersAs(p, k, t)
               /\ \A i \in Nat : Word(p, i) = Word(k, n + i)
               /\ n = k.d - e => p.mem[t] = <<>>
<1> DEFINE p == Drop(k, n)
           old == k.mem[t]
           s == [d \in DOMAIN old \cap 1 .. k.d - n |-> old[d]]
<1>1. k.of = t /\ t \in Tasks /\ DOMAIN k.mem = Tasks /\ k.d \in Nat /\ e \in Nat /\ e <= k.d
      /\ DOMAIN old = e + 1 .. k.d
  BY DEF On
<1>2. p = Machine([k.mem EXCEPT ![t] = s], t, k.d - n, k.r)
  BY <1>1 DEF Drop
<1>3. /\ p.mem = [k.mem EXCEPT ![t] = s] /\ p.of = t /\ p.d = k.d - n /\ p.r = k.r
  BY <1>2 DEF Machine
<1>4. p.mem[t] = s /\ DOMAIN p.mem = Tasks /\ OthersAs(p, k, t)
  BY <1>1, <1>3 DEF OthersAs
<1>5. DOMAIN s = e + 1 .. k.d - n
  BY <1>1
<1>6. On(p, t, e)
  <2> HIDE DEF p, s
  <2>1. p.d \in Nat /\ e <= p.d /\ DOMAIN p.mem[t] = e + 1 .. p.d
    BY <1>1, <1>3, <1>4, <1>5
  <2> QED BY <1>1, <1>3, <1>4, <2>1 DEF On
<1>7. ASSUME NEW i \in Nat PROVE Word(p, i) = Word(k, n + i)
  <2>1. (k.d - n) - i = k.d - (n + i) /\ (k.d - (n + i) \in DOMAIN old <=> (k.d - n) - i \in DOMAIN s)
    BY <1>1, <1>5
  <2>2. (k.d - n) - i \in DOMAIN s => s[(k.d - n) - i] = old[k.d - (n + i)]
    BY <2>1
  <2> HIDE DEF p, s
  <2> QED BY <1>1, <1>3, <1>4, <2>1, <2>2 DEF Word
<1>8. ASSUME n = k.d - e PROVE s = <<>>
  <2>1. DOMAIN s = {}
    BY <1>1, <1>5, <1>8
  <2> QED BY <2>1
<1> HIDE DEF p, s
<1> QED BY <1>3, <1>4, <1>6, <1>7, <1>8 DEF p

\* Pushed registers lie on the stack with the last one topmost.
LEMMA PushRegsOK ==
    ASSUME NEW k, NEW t, NEW e, On(k, t, e), NEW names, NEW n \in Nat, Names(names, n)
    PROVE  LET p == PushRegs(k, names)
           IN  /\ On(p, t, e) /\ p.d = k.d + n /\ p.r = k.r /\ OthersAs(p, k, t)
               /\ \A i \in 0 .. n - 1 : Word(p, i) = k.r[names[n - i]]
               /\ \A i \in Nat : i >= n => Word(p, i) = Word(k, i - n)
<1> DEFINE words == [i \in DOMAIN names |-> k.r[names[i]]]
<1>1. DOMAIN names = 1 .. n
  BY DEF Names
<1>2. Len(words) = n /\ \A i \in 0 .. n - 1 : words[n - i] = k.r[names[n - i]]
  BY <1>1
<1> HIDE DEF words
<1>3. /\ On(Push(k, words), t, e) /\ Push(k, words).d = k.d + n
      /\ Push(k, words).r = k.r /\ OthersAs(Push(k, words), k, t)
      /\ \A i \in 0 .. n - 1 : Word(Push(k, words), i) = words[n - i]
      /\ \A i \in Nat : i >= n => Word(Push(k, words), i) = Word(k, i - n)
  BY <1>2, PushOK DEF Words
<1>4. PushRegs(k, names) = Push(k, words)
  BY DEF PushRegs, words
<1> QED BY <1>2, <1>3, <1>4

\* A register popped gets the word of its place; the others keep theirs.
LEMMA PopRegsOK ==
    ASSUME NEW k, NEW t, NEW e, On(k, t, e), NEW names, NEW n \in Nat, Names(names, n),
           n <= k.d - e
    PROVE  LET p == PopRegs(k, names)
           IN  /\ On(p, t, e) /\ p.d = k.d - n /\ OthersAs(p, k, t) /\ DOMAIN p.r = Reg
               /\ Popped(p, k, names, n)
               /\ NotPopped(p, k, names)
               /\ \A i \in Nat : Word(p, i) = Word(k, n + i)
               /\ n = k.d - e => p.mem[t] = <<>>
<1> DEFINE PoppedInto(m) == Word(k, CHOOSE i \in 0 .. Len(names) - 1 : names[i + 1] = m)
           r == [m \in Reg |-> IF m \in Range(names) THEN PoppedInto(m) ELSE k.r[m]]
           q == Drop(k, n)
           p == PopRegs(k, names)
<1>1. Len(names) = n /\ DOMAIN names = 1 .. n
  BY DEF Names
<1>2. /\ On(q, t, e) /\ q.d = k.d - n /\ OthersAs(q, k, t)
      /\ \A i \in Nat : Word(q, i) = Word(k, n + i)
      /\ n = k.d - e => q.mem[t] = <<>>
  BY DropOK
<1>3. p = WithRegs(q, r)
  BY <1>1 DEF PopRegs
<1>4. ASSUME NEW i \in 0 .. n - 1 PROVE r[names[i + 1]] = Word(k, i)
  <2> DEFINE j == CHOOSE j \in 0 .. n - 1 : names[j + 1] = names[i + 1]
  <2>1. j \in 0 .. n - 1 /\ names[j + 1] = names[i + 1]
    OBVIOUS
  <2>2. i + 1 \in 1 .. n /\ names[i + 1] \in Reg
    BY DEF Names
  <2>3. names[i + 1] \in Range(names)
    BY <1>1, <2>2 DEF Range
  <2>4. j = i
    <3> HIDE DEF j
    <3>1. j + 1 \in 1 .. n
      BY <2>1
    <3>2. j + 1 = i + 1
      BY <2>1, <2>2, <3>1 DEF Names
    <3> QED BY <2>1, <3>2
  <2>5. PoppedInto(names[i + 1]) = Word(k, j)
    BY <1>1
  <2> HIDE DEF j, PoppedInto
  <2> QED BY <2>2, <2>3, <2>4, <2>5
<1>8. ASSUME NEW j \in 1 .. n PROVE r[names[j]] = Word(k, j - 1)
  <2>1. j - 1 \in 0 .. n - 1 /\ (j - 1) + 1 = j
    OBVIOUS
  <2> HIDE DEF r
  <2> QED BY <1>4, <2>1
<1>5. DOMAIN r = Reg /\ \A m \in Reg \ Range(names) : r[m] = k.r[m]
  OBVIOUS
<1> HIDE DEF q, r
<1>6. /\ On(p, t, e) /\ p.d = q.d /\ p.r = r /\ p.mem = q.mem
      /\ \A i \in Nat : Word(p, i) = Word(q, i)
  BY <1>2, <1>3, WithRegsOK
<1> HIDE DEF p
<1>7. OthersAs(p, k, t)
  BY <1>2, <1>6 DEF OthersAs
<1>9. Popped(p, k, names, n) /\ NotPopped(p, k, names)
  BY <1>5, <1>6, <1>8 DEF Popped, NotPopped
<1> QED BY <1>2, <1>5, <1>6, <1>7, <1>9 DEF p

\* A call into C leaves its return address and the callee-saved registers.
LEMMA CallOK ==
    ASSUME NEW k, NEW t, NEW e, On(k, t, e), NEW ret
    PROVE  LET p == Call(k, ret)
           IN  /\ On(p, t, e) /\ p.d = k.d + 1 /\ OthersAs(p, k, t)
               /\ \A n \in CalleeSaved : p.r[n] = k.r[n]
               /\ Word(p, 0) = K(ret)
               /\ \A i \in Nat : i >= 1 => Word(p, i) = Word(k, i - 1)
<1> DEFINE w == <<K(ret)>>
           q == Push(k, w)
           r == [n \in Reg |-> IF n \in Scratch THEN JUNK ELSE k.r[n]]
           p == Call(k, ret)
<1>1. Words(w, 1) /\ w[1] = K(ret) /\ 1 \in Nat
  BY DEF Words
<1>5. p = WithRegs(q, r)
  BY DEF Call
<1> HIDE DEF w
<1>2. /\ On(q, t, e) /\ q.d = k.d + 1 /\ OthersAs(q, k, t)
      /\ \A i \in 0 .. 1 - 1 : Word(q, i) = w[1 - i]
      /\ \A i \in Nat : i >= 1 => Word(q, i) = Word(k, i - 1)
  BY <1>1, PushOK
<1>3. Word(q, 0) = K(ret)
  BY <1>1, <1>2
<1>4. \A n \in CalleeSaved : r[n] = k.r[n]
  BY DEF CalleeSaved, Scratch, Reg
<1> HIDE DEF q, r
<1>6. /\ On(p, t, e) /\ p.d = q.d /\ p.r = r /\ p.mem = q.mem
      /\ \A i \in Nat : Word(p, i) = Word(q, i)
  BY <1>2, <1>5, WithRegsOK
<1> HIDE DEF p
<1>7. OthersAs(p, k, t)
  BY <1>2, <1>6 DEF OthersAs
<1> QED BY <1>2, <1>3, <1>4, <1>6, <1>7 DEF p

(***************************************************************************)
(* The sequences of registers.                                             *)
(***************************************************************************)
\* isr_common saves and restores nine different registers.
LEMMA IsrNames == Names(IsrSaved, 9) /\ Names(IsrRestored, 9)
BY DEF Names, IsrSaved, IsrRestored, Reg, Scratch, CalleeSaved

\* switch_to_asm pushes six different registers and pops them in reverse order.
LEMMA SwitchedNames ==
    /\ Names(Switched, 6) /\ Names(Reverse(Switched), 6)
    /\ \A i \in 0 .. 5 : Reverse(Switched)[i + 1] = Switched[6 - i]
<1>1. Names(Switched, 6)
  BY DEF Names, Switched, Reg, Scratch, CalleeSaved
<1>2. /\ Reverse(Switched) = [i \in 1 .. 6 |-> Switched[(6 - i) + 1]]
  BY <1>1 DEF Reverse, Names
<1>3. \A i \in 0 .. 5 : Reverse(Switched)[i + 1] = Switched[6 - i]
  BY <1>2
<1>4. DOMAIN Reverse(Switched) = 1 .. 6 /\ Len(Reverse(Switched)) = 6
  BY <1>2
<1>5. \A i \in 1 .. 6 : Reverse(Switched)[i] = Switched[7 - i] /\ 7 - i \in 1 .. 6
  BY <1>2
<1>6. \A i \in 1 .. 6 : Switched[i] \in Reg
  BY <1>1 DEF Names
<1>7. \A i, j \in 1 .. 6 : Switched[i] = Switched[j] => i = j
  BY <1>1 DEF Names
<1> HIDE DEF Reverse
<1>8. \A i \in 1 .. 6 : Reverse(Switched)[i] \in Reg
  BY <1>5, <1>6
<1>9. \A i, j \in 1 .. 6 : Reverse(Switched)[i] = Reverse(Switched)[j] => i = j
  <2> TAKE i, j \in 1 .. 6
  <2>1. Reverse(Switched)[i] = Reverse(Switched)[j] => 7 - i = 7 - j
    BY <1>5, <1>7
  <2> QED BY <2>1
<1>10. Names(Reverse(Switched), 6)
  BY <1>4, <1>8, <1>9 DEF Names
<1> QED BY <1>1, <1>3, <1>10

\* struct regs has 17 different members.
LEMMA RegsNames == Names(Regs, 17)
BY DEF Names, Regs, Reg, Scratch, CalleeSaved

\* Both returns pop what the entry pushed.
LEMMA PopNames == Names(PopOrder, 15) /\ \A i \in 0 .. 14 : PopOrder[i + 1] = Regs[17 - i]
BY DEF Names, PopOrder, Regs, Reg, Scratch, CalleeSaved

(***************************************************************************)
(* Entering the kernel.                                                    *)
(***************************************************************************)
\* A user-mode state: nothing on the stack of the current task
UserMode ==
    /\ current \in Tasks /\ DOMAIN mem = Tasks /\ mem[current] = <<>>
    /\ syscall_sp = <<current, 0>>
    /\ tss_rsp0[1] = current /\ tss_rsp0[2] \in Nat

\* What isr_common has put on the stack of the interrupted task when it calls C.
LEMMA IsrEntered ==
    ASSUME UserMode
    PROVE  LET k == isr_common
               e == tss_rsp0[2]
           IN  /\ On(k, current, e) /\ k.d = e + 16
               /\ \A u \in Tasks \ {current} : k.mem[u] = mem[u]
               /\ \A n \in CalleeSaved : k.r[n] = cpu[n]
               /\ Word(k, 0) = K("isr_common")
               /\ \A i \in 1 .. 9 : Word(k, i) = cpu[IsrSaved[10 - i]]
               /\ Word(k, 11) = cpu["rip"] /\ Word(k, 14) = cpu["rsp"]
<1> DEFINE k0 == At(tss_rsp0)
           e  == tss_rsp0[2]
           w  == <<K("ss"), cpu["rsp"], FLAGS, K("cs"), cpu["rip"]>>
           v  == <<K("info")>>
           k1 == Push(k0, w)
           k2 == Push(k1, v)
           k3 == PushRegs(k2, IsrSaved)
           k4 == Call(k3, "isr_common")
<1>1. isr_common = k4
  BY DEF isr_common, isr_stub, interrupt
<1>2. k0.mem = mem /\ k0.of = current /\ k0.d = e /\ k0.r = cpu
  BY DEF At, Machine, UserMode
<1>3. On(k0, current, e)
  <2>1. DOMAIN k0.mem[current] = e + 1 .. e
    BY <1>2 DEF UserMode
  <2> QED BY <1>2, <2>1 DEF UserMode, On
<1>4. Words(w, 5) /\ w[5] = cpu["rip"] /\ w[2] = cpu["rsp"] /\ 5 \in Nat
  BY DEF Words
<1>5. Words(v, 1) /\ 1 \in Nat
  BY DEF Words
<1> HIDE DEF k0, w, v
<1>6. /\ On(k1, current, e) /\ k1.d = e + 5 /\ k1.r = cpu /\ OthersAs(k1, k0, current)
      /\ \A i \in 0 .. 5 - 1 : Word(k1, i) = w[5 - i]
  BY <1>2, <1>3, <1>4, PushOK
<1>7. Word(k1, 0) = cpu["rip"] /\ Word(k1, 3) = cpu["rsp"]
  BY <1>4, <1>6
<1> HIDE DEF k1
<1>8. /\ On(k2, current, e) /\ k2.d = (e + 5) + 1 /\ k2.r = cpu /\ OthersAs(k2, k1, current)
      /\ \A i \in Nat : i >= 1 => Word(k2, i) = Word(k1, i - 1)
  BY <1>5, <1>6, PushOK
<1> HIDE DEF k2
<1>9. /\ On(k3, current, e) /\ k3.d = ((e + 5) + 1) + 9 /\ k3.r = cpu /\ OthersAs(k3, k2, current)
      /\ \A i \in 0 .. 9 - 1 : Word(k3, i) = k2.r[IsrSaved[9 - i]]
      /\ \A i \in Nat : i >= 9 => Word(k3, i) = Word(k2, i - 9)
  BY <1>8, IsrNames, PushRegsOK
<1> HIDE DEF k3
<1>10. /\ On(k4, current, e) /\ k4.d = (((e + 5) + 1) + 9) + 1 /\ OthersAs(k4, k3, current)
       /\ \A n \in CalleeSaved : k4.r[n] = k3.r[n]
       /\ Word(k4, 0) = K("isr_common")
       /\ \A i \in Nat : i >= 1 => Word(k4, i) = Word(k3, i - 1)
  BY <1>9, CallOK
<1> HIDE DEF k4
<1>11. \A u \in Tasks \ {current} : k4.mem[u] = mem[u]
  BY <1>2, <1>6, <1>8, <1>9, <1>10 DEF OthersAs
<1>12. ASSUME NEW i \in 1 .. 9 PROVE Word(k4, i) = cpu[IsrSaved[10 - i]]
  <2>1. i - 1 \in 0 .. 9 - 1 /\ 9 - (i - 1) = 10 - i
    OBVIOUS
  <2>2. Word(k3, i - 1) = cpu[IsrSaved[10 - i]]
    BY <1>8, <1>9, <2>1
  <2> QED BY <1>10, <2>2
<1>13. Word(k4, 11) = cpu["rip"] /\ Word(k4, 14) = cpu["rsp"]
  <2>1. Word(k4, 11) = Word(k3, 10) /\ Word(k4, 14) = Word(k3, 13)
    BY <1>10
  <2>2. Word(k3, 10) = Word(k2, 1) /\ Word(k3, 13) = Word(k2, 4)
    BY <1>9
  <2>3. Word(k2, 1) = Word(k1, 0) /\ Word(k2, 4) = Word(k1, 3)
    BY <1>8
  <2> QED BY <1>7, <2>1, <2>2, <2>3
<1>14. k4.d = e + 16 /\ \A n \in CalleeSaved : k4.r[n] = cpu[n]
  <2>1. k4.d = e + 16
    BY <1>10 DEF UserMode
  <2>2. ASSUME NEW n \in CalleeSaved PROVE k4.r[n] = cpu[n]
    <3>1. k4.r[n] = k3.r[n]
      BY <1>10
    <3>2. k3.r = cpu
      BY <1>9
    <3> QED BY <3>1, <3>2
  <2> QED BY <2>1, <2>2
<1> QED BY <1>1, <1>10, <1>11, <1>12, <1>13, <1>14

\* The struct regs with the registers r lies below the s topmost words.
HasRegs(k, s, r) == \A j \in 1 .. 17 : Word(k, (s + 17) - j) = r[Regs[j]]

\* What syscall_entry has put on the stack of the calling task when it calls C.
LEMMA SyscallEntered ==
    ASSUME UserMode
    PROVE  LET k == syscall_entry
           IN  /\ On(k, current, 0) /\ k.d = 18
               /\ \A u \in Tasks \ {current} : k.mem[u] = mem[u]
               /\ Word(k, 0) = K("syscall_entry")
               /\ HasRegs(k, 1, RegsAfterEntry)
<1> DEFINE k0 == At(syscall_sp)
           k1 == WithRegs(k0, RegsAfterEntry)
           k2 == PushRegs(k1, Regs)
           k3 == Call(k2, "syscall_entry")
<1>1. syscall_entry = k3
  BY DEF syscall_entry
<1>2. k0.mem = mem /\ k0.of = current /\ k0.d = 0
  BY DEF At, Machine, UserMode
<1>3. On(k0, current, 0)
  <2>1. DOMAIN k0.mem[current] = 0 + 1 .. 0
    BY <1>2 DEF UserMode
  <2> QED BY <1>2, <2>1 DEF UserMode, On
<1> HIDE DEF k0
<1>4. On(k1, current, 0) /\ k1.d = 0 /\ k1.r = RegsAfterEntry /\ k1.mem = mem
  BY <1>2, <1>3, WithRegsOK
<1> HIDE DEF k1
<1>5. /\ On(k2, current, 0) /\ k2.d = 0 + 17 /\ OthersAs(k2, k1, current)
      /\ \A i \in 0 .. 17 - 1 : Word(k2, i) = k1.r[Regs[17 - i]]
  BY <1>4, RegsNames, PushRegsOK
<1> HIDE DEF k2
<1>6. /\ On(k3, current, 0) /\ k3.d = (0 + 17) + 1 /\ OthersAs(k3, k2, current)
      /\ Word(k3, 0) = K("syscall_entry")
      /\ \A i \in Nat : i >= 1 => Word(k3, i) = Word(k2, i - 1)
  BY <1>5, CallOK
<1> HIDE DEF k3
<1>7. \A u \in Tasks \ {current} : k3.mem[u] = mem[u]
  BY <1>4, <1>5, <1>6 DEF OthersAs
<1>8. ASSUME NEW j \in 1 .. 17 PROVE Word(k3, (1 + 17) - j) = RegsAfterEntry[Regs[j]]
  <2>1. /\ (1 + 17) - j \in Nat /\ (1 + 17) - j >= 1
        /\ ((1 + 17) - j) - 1 = 17 - j /\ 17 - j \in 0 .. 17 - 1 /\ 17 - (17 - j) = j
    OBVIOUS
  <2>2. Word(k3, (1 + 17) - j) = Word(k2, 17 - j)
    BY <1>6, <2>1
  <2>3. Word(k2, 17 - j) = RegsAfterEntry[Regs[j]]
    BY <1>4, <1>5, <2>1
  <2> QED BY <2>2, <2>3
<1> QED BY <1>1, <1>6, <1>7, <1>8 DEF HasRegs

(***************************************************************************)
(* Leaving the kernel.                                                     *)
(***************************************************************************)
KeptRegs == (CalleeSaved \ {"rbp"}) \cup {"rip", "rsp", "rax"}

\* Registers r are what a program may find that is to find W.
Given(r, W) ==
    /\ DOMAIN r = Reg
    /\ \A n \in KeptRegs : r[n] = W[n]
    /\ \A n \in Reg : r[n] \in Range(W) \cup {ZERO}

\* The struct regs below the s topmost words makes a return give W, but for the
\* registers X that are yet to be set.  rcx and r11 are spoilt by sysret.
RegsFor(k, s, W, X) ==
    /\ DOMAIN W = Reg /\ W["rcx"] = W["rip"] /\ W["r11"] = FLAGS
    /\ \A j \in 1 .. 17 :
          Regs[j] \notin {"rcx", "r11"} \cup X =>
              Word(k, (s + 17) - j) = IF Regs[j] = "rbp" THEN ZERO ELSE W[Regs[j]]

\* Every register has its place in struct regs.
LEMMA RegsAtOK == \A n \in Reg : RegsAt(n) \in 1 .. 17 /\ Regs[RegsAt(n)] = n
<1>1. DOMAIN Regs = 1 .. 17
  BY RegsNames DEF Names
<1>2. ASSUME NEW n \in Reg PROVE \E i \in 1 .. 17 : Regs[i] = n
  BY DEF Regs, Reg, Scratch, CalleeSaved
<1> QED BY <1>1, <1>2 DEF RegsAt

\* An assignment to a member of struct regs settles that register.
LEMMA SetRegOK ==
    ASSUME NEW k, NEW t, On(k, t, 0), k.d = 18, NEW W, NEW X, RegsFor(k, 1, W, X),
           NEW n \in Reg \ {"rbp"}
    PROVE  LET p == SetReg(k, n, W[n])
           IN  /\ On(p, t, 0) /\ p.d = 18 /\ OthersAs(p, k, t)
               /\ RegsFor(p, 1, W, X \ {n})
<1> DEFINE p == SetReg(k, n, W[n])
           h == RegsAt(n)
           s == [k.mem[t] EXCEPT ![h] = W[n]]
<1>1. h \in 1 .. 17 /\ Regs[h] = n
  BY RegsAtOK
<1>2. k.of = t /\ t \in Tasks /\ DOMAIN k.mem = Tasks /\ DOMAIN k.mem[t] = 1 .. 18
  BY DEF On
<1>3. k.d - 1 - Len(Regs) + h = h
  BY <1>1, RegsNames DEF Names
<1> HIDE DEF h
<1>4. p = WithMem(k, [k.mem EXCEPT ![t] = s])
  BY <1>2, <1>3 DEF SetReg, h
<1>5. p.mem = [k.mem EXCEPT ![t] = s] /\ p.of = t /\ p.d = 18
  BY <1>2, <1>4 DEF WithMem, Machine
<1>6. p.mem[t] = s /\ DOMAIN p.mem = Tasks /\ DOMAIN s = 1 .. 18 /\ OthersAs(p, k, t)
  BY <1>2, <1>5 DEF OthersAs
<1>7. ASSUME NEW j \in 1 .. 17
      PROVE  Word(p, 18 - j) = IF j = h THEN W[n] ELSE Word(k, 18 - j)
  <2>1. 18 - (18 - j) = j /\ j \in 1 .. 18
    OBVIOUS
  <2>2. s[j] = IF j = h THEN W[n] ELSE k.mem[t][j]
    BY <1>2, <2>1
  <2> HIDE DEF p, s
  <2> QED BY <1>2, <1>5, <1>6, <2>1, <2>2 DEF Word
<1> HIDE DEF p, s
<1>8. On(p, t, 0)
  BY <1>2, <1>5, <1>6 DEF On
<1>9. RegsFor(p, 1, W, X \ {n})
  <2>1. ASSUME NEW j \in 1 .. 17, Regs[j] \notin {"rcx", "r11"} \cup (X \ {n})
        PROVE  Word(p, 18 - j) = IF Regs[j] = "rbp" THEN ZERO ELSE W[Regs[j]]
    <3>1. CASE j = h
      BY <1>1, <1>7, <3>1
    <3>2. CASE j # h
      <4>1. Regs[j] # n
        BY <1>1, <3>2, RegsNames DEF Names
      <4>2. Word(k, 18 - j) = IF Regs[j] = "rbp" THEN ZERO ELSE W[Regs[j]]
        BY <2>1, <4>1 DEF RegsFor
      <4> QED BY <1>7, <3>2, <4>2
    <3> QED BY <3>1, <3>2
  <2> QED BY <2>1 DEF RegsFor
<1> QED BY <1>5, <1>6, <1>8, <1>9 DEF p

\* Every register but rsp and rip is popped.
LEMMA AllPopped == \A n \in Reg \ {"rsp", "rip"} : \E i \in 0 .. 14 : PopOrder[i + 1] = n
<1>1. /\ PopOrder[0 + 1] = "r15" /\ PopOrder[1 + 1] = "r14" /\ PopOrder[2 + 1] = "r13"
      /\ PopOrder[3 + 1] = "r12" /\ PopOrder[4 + 1] = "r11" /\ PopOrder[5 + 1] = "r10"
      /\ PopOrder[6 + 1] = "r9" /\ PopOrder[7 + 1] = "r8" /\ PopOrder[8 + 1] = "rbp"
      /\ PopOrder[9 + 1] = "rsi" /\ PopOrder[10 + 1] = "rdi" /\ PopOrder[11 + 1] = "rdx"
      /\ PopOrder[12 + 1] = "rcx" /\ PopOrder[13 + 1] = "rbx" /\ PopOrder[14 + 1] = "rax"
  BY DEF PopOrder
<1> QED BY <1>1 DEF Reg, Scratch, CalleeSaved

\* The way out of a system call
LEMMA ReturnOK ==
    ASSUME NEW k, NEW t, On(k, t, 0), k.d = 18, NEW W, RegsFor(k, 1, W, {})
    PROVE  LET u == sysret(PopFrame(Drop(k, 1)))
           IN  /\ u.mem[t] = <<>> /\ DOMAIN u.mem = Tasks /\ OthersAs(u, k, t)
               /\ Given(u.r, W)
<1> DEFINE k1 == Drop(k, 1)
           p  == PopRegs(k1, PopOrder)
           q  == Drop(p, 2)
           r2 == [p.r EXCEPT !["rcx"] = Word(p, 0), !["rsp"] = Word(p, 1), !["r11"] = FLAGS]
           f  == WithRegs(q, r2)
           r3 == [r2 EXCEPT !["rip"] = r2["rcx"]]
           u  == sysret(PopFrame(k1))
<1>1. PopFrame(k1) = f
  BY DEF PopFrame
<1>2. /\ On(k1, t, 0) /\ k1.d = 18 - 1 /\ OthersAs(k1, k, t)
      /\ \A i \in Nat : Word(k1, i) = Word(k, 1 + i)
  <2>1. 1 \in Nat /\ 1 <= k.d - 0
    OBVIOUS
  <2>2. /\ On(k1, t, 0) /\ k1.d = k.d - 1 /\ OthersAs(k1, k, t)
        /\ \A i \in Nat : Word(k1, i) = Word(k, 1 + i)
    BY <2>1, DropOK, Zenon
  <2> QED BY <2>2
<1> HIDE DEF k1
<1>3. /\ On(p, t, 0) /\ p.d = (18 - 1) - 15 /\ OthersAs(p, k1, t) /\ DOMAIN p.r = Reg
      /\ \A j \in 1 .. 15 : p.r[PopOrder[j]] = Word(k1, j - 1)
      /\ \A i \in Nat : Word(p, i) = Word(k1, 15 + i)
  <2>1. 15 \in Nat /\ 15 <= k1.d - 0 /\ k1.d - 15 = (18 - 1) - 15
    BY <1>2
  <2>2. Names(PopOrder, 15)
    BY PopNames
  <2>3. On(k1, t, 0)
    BY <1>2
  <2>4. Popped(p, k1, PopOrder, 15)
    BY <2>1, <2>2, <2>3, PopRegsOK
  <2>5. \A j \in 1 .. 15 : p.r[PopOrder[j]] = Word(k1, j - 1)
    BY <2>4 DEF Popped
  <2>6. /\ On(p, t, 0) /\ p.d = k1.d - 15 /\ OthersAs(p, k1, t) /\ DOMAIN p.r = Reg
        /\ \A i \in Nat : Word(p, i) = Word(k1, 15 + i)
    BY <2>1, <2>2, <2>3, PopRegsOK
  <2> HIDE DEF p
  <2> QED BY <2>1, <2>5, <2>6
<1> HIDE DEF p
<1>4. On(q, t, 0) /\ OthersAs(q, p, t) /\ q.mem[t] = <<>>
  <2>1. 2 \in Nat /\ 2 <= p.d - 0 /\ 2 = p.d - 0
    BY <1>3
  <2>2. On(p, t, 0)
    BY <1>3
  <2> QED BY <2>1, <2>2, DropOK
<1> HIDE DEF q
<1>5. On(f, t, 0) /\ f.mem = q.mem /\ f.r = r2
  BY <1>4, WithRegsOK
<1>6. u = WithRegs(f, r3)
  BY <1>1, <1>5 DEF sysret
<1> HIDE DEF f, u, r2, r3
<1>7. On(u, t, 0) /\ u.mem = q.mem /\ u.r = r3
  BY <1>5, <1>6, WithRegsOK
<1>8. OthersAs(u, k, t) /\ DOMAIN u.mem = Tasks
  BY <1>2, <1>3, <1>4, <1>7 DEF OthersAs, On
<1>9. /\ \A j \in 1 .. 17 :
            Regs[j] \notin {"rcx", "r11"} =>
                Word(k, 18 - j) = IF Regs[j] = "rbp" THEN ZERO ELSE W[Regs[j]]
      /\ DOMAIN W = Reg /\ W["rcx"] = W["rip"] /\ W["r11"] = FLAGS
  BY DEF RegsFor
<1>10. Word(p, 0) = W["rip"] /\ Word(p, 1) = W["rsp"]
  <2>1. Word(p, 0) = Word(k, 16) /\ Word(p, 1) = Word(k, 17)
    BY <1>2, <1>3
  <2>2. Regs[2] = "rip" /\ Regs[1] = "rsp"
    BY DEF Regs
  <2>3. Word(k, 16) = W["rip"] /\ Word(k, 17) = W["rsp"]
    BY <1>9, <2>2
  <2> QED BY <2>1, <2>3
<1>11. ASSUME NEW n \in Reg \ {"rsp", "rip", "rcx", "r11"}
       PROVE  p.r[n] = IF n = "rbp" THEN ZERO ELSE W[n]
  <2>1. PICK i \in 0 .. 14 : PopOrder[i + 1] = n
    BY AllPopped
  <2>2. /\ Regs[17 - i] = n /\ 17 - i \in 1 .. 17 /\ 18 - (17 - i) = 1 + i
        /\ i + 1 \in 1 .. 15 /\ (i + 1) - 1 = i
    BY <2>1, PopNames
  <2>3. p.r[n] = Word(k, 1 + i)
    BY <1>2, <1>3, <2>1, <2>2
  <2> QED BY <1>9, <2>2, <2>3
<1>12. /\ DOMAIN r3 = Reg
       /\ \A n \in Reg \ {"rsp", "rip", "rcx", "r11"} : r3[n] = p.r[n]
       /\ r3["rsp"] = W["rsp"] /\ r3["rip"] = W["rip"] /\ r3["rcx"] = W["rip"] /\ r3["r11"] = FLAGS
  <2>1. {"rsp", "rip", "rcx", "r11"} \subseteq Reg
    BY DEF Reg, Scratch
  <2>2. /\ DOMAIN r2 = Reg /\ \A n \in Reg \ {"rsp", "rcx", "r11"} : r2[n] = p.r[n]
        /\ r2["rsp"] = W["rsp"] /\ r2["rcx"] = W["rip"] /\ r2["r11"] = FLAGS
    BY <1>3, <1>10, <2>1 DEF r2
  <2> QED BY <2>1, <2>2 DEF r3
<1>13. Given(r3, W)
  <2>1. \A n \in Reg : W[n] \in Range(W)
    BY <1>9 DEF Range
  <2>2. \A n \in KeptRegs : n \in Reg \ {"rbp", "rcx", "r11"}
    BY DEF KeptRegs, Reg, CalleeSaved, Scratch
  <2>3. \A n \in Reg \ {"rbp", "rcx", "r11"} : r3[n] = W[n]
    BY <1>11, <1>12
  <2>4. r3["rcx"] = W["rcx"] /\ r3["r11"] = W["r11"] /\ r3["rbp"] = ZERO
    <3>1. "rbp" \in Reg
      BY DEF Reg, CalleeSaved
    <3> QED BY <1>9, <1>11, <1>12, <3>1
  <2>5. \A n \in Reg : r3[n] \in Range(W) \cup {ZERO}
    BY <2>1, <2>3, <2>4
  <2> QED BY <1>12, <2>2, <2>3, <2>5 DEF Given
<1> QED BY <1>4, <1>7, <1>8, <1>13 DEF u, k1

\* An interrupt of a program with the registers W, in C
InIsr(k, t, e, W) ==
    /\ On(k, t, e) /\ k.d = e + 16 /\ DOMAIN W = Reg
    /\ \A n \in CalleeSaved : k.r[n] = W[n]
    /\ \A i \in 1 .. 9 : Word(k, i) = W[IsrSaved[10 - i]]
    /\ Word(k, 11) = W["rip"] /\ Word(k, 14) = W["rsp"]

\* The way out of an interrupt
LEMMA IsrReturnOK ==
    ASSUME NEW k, NEW t, NEW e, NEW W, InIsr(k, t, e, W)
    PROVE  LET u == isr_return(k)
           IN  /\ u.mem[t] = <<>> /\ DOMAIN u.mem = Tasks /\ OthersAs(u, k, t)
               /\ Given(u.r, W)
<1> DEFINE k1 == Drop(k, 1)
           p  == PopRegs(k1, IsrRestored)
           p2 == Drop(p, 1)
           q  == Drop(p2, 5)
           r2 == [p2.r EXCEPT !["rip"] = Word(p2, 0), !["rsp"] = Word(p2, 3)]
           u  == isr_return(k)
<1>a. /\ On(k, t, e) /\ k.d = e + 16 /\ DOMAIN W = Reg
      /\ \A n \in CalleeSaved : k.r[n] = W[n]
      /\ \A i \in 1 .. 9 : Word(k, i) = W[IsrSaved[10 - i]]
      /\ Word(k, 11) = W["rip"] /\ Word(k, 14) = W["rsp"]
  BY DEF InIsr
<1> USE <1>a
<1>0. e \in Nat
  BY DEF On
<1>1. u = WithRegs(q, r2)
  BY DEF isr_return, iretq
<1>2. /\ On(k1, t, e) /\ k1.d = (e + 16) - 1 /\ OthersAs(k1, k, t) /\ k1.r = k.r
      /\ \A i \in Nat : Word(k1, i) = Word(k, 1 + i)
  <2>1. 1 \in Nat /\ 1 <= k.d - e /\ k.d - 1 = (e + 16) - 1
    BY <1>0
  <2> QED BY <2>1, DropOK
<1> HIDE DEF k1
<1>3. /\ On(p, t, e) /\ p.d = ((e + 16) - 1) - 9 /\ OthersAs(p, k1, t) /\ DOMAIN p.r = Reg
      /\ \A j \in 1 .. 9 : p.r[IsrRestored[j]] = Word(k1, j - 1)
      /\ \A m \in Reg \ Range(IsrRestored) : p.r[m] = k1.r[m]
      /\ \A i \in Nat : Word(p, i) = Word(k1, 9 + i)
  <2>1. 9 \in Nat /\ 9 <= k1.d - e /\ k1.d - 9 = ((e + 16) - 1) - 9
    BY <1>0, <1>2
  <2>2. Names(IsrRestored, 9)
    BY IsrNames
  <2>3. On(k1, t, e)
    BY <1>2
  <2>4. Popped(p, k1, IsrRestored, 9) /\ NotPopped(p, k1, IsrRestored)
    BY <2>1, <2>2, <2>3, PopRegsOK
  <2>5. /\ \A j \in 1 .. 9 : p.r[IsrRestored[j]] = Word(k1, j - 1)
        /\ \A m \in Reg \ Range(IsrRestored) : p.r[m] = k1.r[m]
    BY <2>4 DEF Popped, NotPopped
  <2>6. /\ On(p, t, e) /\ p.d = k1.d - 9 /\ OthersAs(p, k1, t) /\ DOMAIN p.r = Reg
        /\ \A i \in Nat : Word(p, i) = Word(k1, 9 + i)
    BY <2>1, <2>2, <2>3, PopRegsOK
  <2> HIDE DEF p
  <2> QED BY <2>1, <2>5, <2>6
<1> HIDE DEF p
<1>4. /\ On(p2, t, e) /\ p2.d = e + 5 /\ OthersAs(p2, p, t) /\ p2.r = p.r
      /\ \A i \in Nat : Word(p2, i) = Word(p, 1 + i)
  <2>1. p.d - 1 = e + 5 /\ 1 \in Nat /\ 1 <= p.d - e
    BY <1>0, <1>3
  <2>2. On(p, t, e)
    BY <1>3
  <2> QED BY <2>1, <2>2, DropOK
<1> HIDE DEF p2
<1>5. On(q, t, e) /\ OthersAs(q, p2, t) /\ q.mem[t] = <<>>
  <2>1. 5 \in Nat /\ 5 <= p2.d - e /\ 5 = p2.d - e
    BY <1>0, <1>4
  <2> QED BY <1>4, <2>1, DropOK
<1> HIDE DEF q, r2, u
<1>6. On(u, t, e) /\ u.mem = q.mem /\ u.r = r2
  BY <1>1, <1>5, WithRegsOK
<1>7. OthersAs(u, k, t) /\ DOMAIN u.mem = Tasks
  BY <1>2, <1>3, <1>4, <1>5, <1>6 DEF OthersAs, On
<1>8. Word(p2, 0) = W["rip"] /\ Word(p2, 3) = W["rsp"]
  <2>1. Word(p2, 0) = Word(p, 1) /\ Word(p2, 3) = Word(p, 4)
    BY <1>4
  <2>2. Word(p, 1) = Word(k1, 10) /\ Word(p, 4) = Word(k1, 13)
    BY <1>3
  <2>3. Word(k1, 10) = Word(k, 11) /\ Word(k1, 13) = Word(k, 14)
    BY <1>2
  <2> QED BY <2>1, <2>2, <2>3
<1>9. ASSUME NEW i \in 0 .. 8 PROVE p.r[IsrRestored[i + 1]] = W[IsrSaved[9 - i]]
  <2>1. 1 + i \in 1 .. 9 /\ 10 - (1 + i) = 9 - i /\ i + 1 \in 1 .. 9 /\ (i + 1) - 1 = i
    OBVIOUS
  <2>2. Word(k, 1 + i) = W[IsrSaved[9 - i]]
    BY <2>1
  <2> QED BY <1>2, <1>3, <2>1, <2>2
<1>10. Range(IsrRestored) = Scratch
  <2>1. DOMAIN IsrRestored = 1 .. 9
    BY IsrNames DEF Names
  <2> QED BY <2>1 DEF Range, IsrRestored, Scratch
<1>11. /\ DOMAIN r2 = Reg /\ r2["rip"] = W["rip"] /\ r2["rsp"] = W["rsp"]
       /\ \A n \in Reg \ {"rip", "rsp"} : r2[n] = p.r[n]
  <2>1. {"rip", "rsp"} \subseteq Reg
    BY DEF Reg
  <2> QED BY <1>3, <1>4, <1>8, <2>1 DEF r2
<1>12. \A n \in CalleeSaved : r2[n] = W[n]
  <2>1. \A n \in CalleeSaved : n \in Reg /\ n \notin {"rip", "rsp"} /\ n \notin Scratch
    BY DEF CalleeSaved, Reg, Scratch
  <2> QED BY <1>2, <1>3, <1>10, <1>11, <2>1
<1>13. r2["rax"] = W["rax"]
  <2>1. IsrRestored[4 + 1] = "rax" /\ IsrSaved[9 - 4] = "rax"
    BY DEF IsrRestored, IsrSaved
  <2>2. "rax" \in Reg \ {"rip", "rsp"}
    BY DEF Reg, Scratch
  <2> QED BY <1>9, <1>11, <2>1, <2>2
<1>14. ASSUME NEW n \in Reg PROVE r2[n] \in Range(W)
  <2>1. \A m \in Reg : W[m] \in Range(W)
    BY DEF Range
  <2>2. CASE n \in Scratch
    <3>1. PICK j \in DOMAIN IsrRestored : n = IsrRestored[j]
      BY <1>10, <2>2 DEF Range
    <3>2. j \in 1 .. 9
      BY <3>1, IsrNames DEF Names
    <3>3. j - 1 \in 0 .. 8 /\ (j - 1) + 1 = j /\ 9 - (j - 1) \in 1 .. 9
      BY <3>2
    <3>4. p.r[n] = W[IsrSaved[9 - (j - 1)]] /\ IsrSaved[9 - (j - 1)] \in Reg
      BY <1>9, <3>1, <3>3, IsrNames DEF Names
    <3>5. n \notin {"rip", "rsp"}
      BY <2>2 DEF Scratch
    <3> QED BY <1>11, <2>1, <3>4, <3>5
  <2>3. CASE n \notin Scratch
    BY <1>11, <1>12, <2>1, <2>3 DEF Reg
  <2> QED BY <2>2, <2>3
<1>15. Given(r2, W)
  BY <1>11, <1>12, <1>13, <1>14 DEF Given, KeptRegs
<1> QED BY <1>5, <1>6, <1>7, <1>15 DEF u

(***************************************************************************)
(* The stack of a task that lost the CPU.                                  *)
(***************************************************************************)
\* The six topmost words are the callee-saved registers of r.
CalleeOn(k, r) == \A j \in 1 .. 6 : Word(k, j - 1) = r[Reverse(Switched)[j]]

\* It was interrupted at any depth,
IsrFrame(k, t, W) ==
    /\ k.d >= 23 /\ On(k, t, k.d - 23) /\ DOMAIN W = Reg
    /\ CalleeOn(k, W)
    /\ Word(k, 6) = K("switch_to") /\ Word(k, 7) = K("isr_common")
    /\ \A i \in 1 .. 9 : Word(k, 7 + i) = W[IsrSaved[10 - i]]
    /\ Word(k, 18) = W["rip"] /\ Word(k, 21) = W["rsp"]

\* or sleeps in a system call, which has its result still to store,
SyscallFrame(k, t, W) ==
    /\ On(k, t, 0) /\ k.d = 25
    /\ Word(k, 6) = K("switch_to") /\ Word(k, 7) = K("syscall_entry")
    /\ RegsFor(k, 8, W, {"rax"}) /\ W["rax"] = K("result")

\* or was forked and has not run yet.
ForkFrame(k, t, W) ==
    /\ On(k, t, 0) /\ k.d = 24
    /\ Word(k, 6) = K("pop_regs_and_sysret")
    /\ RegsFor(k, 7, W, {})

Frame(k, t, W) == IsrFrame(k, t, W) \/ SyscallFrame(k, t, W) \/ ForkFrame(k, t, W)

\* A frame lies on the stack of its task, just below its stack pointer.
LEMMA FrameOn ==
    ASSUME NEW k, NEW t, NEW W, Frame(k, t, W)
    PROVE  /\ k.of = t /\ t \in Tasks /\ DOMAIN k.mem = Tasks /\ k.d \in Nat
           /\ k.d \in DOMAIN k.mem[t] /\ \A d \in DOMAIN k.mem[t] : d <= k.d
<1>1. PICK e : On(k, t, e) /\ e < k.d
  <2>1. CASE IsrFrame(k, t, W)
    <3>1. k.d >= 23 /\ On(k, t, k.d - 23)
      BY <2>1 DEF IsrFrame
    <3>2. k.d \in Nat
      BY <3>1 DEF On
    <3>3. k.d - 23 < k.d
      BY <3>2
    <3> QED BY <3>1, <3>3
  <2>2. CASE SyscallFrame(k, t, W)
    <3>1. On(k, t, 0) /\ 0 < k.d
      BY <2>2 DEF SyscallFrame
    <3> QED BY <3>1
  <2>3. CASE ForkFrame(k, t, W)
    <3>1. On(k, t, 0) /\ 0 < k.d
      BY <2>3 DEF ForkFrame
    <3> QED BY <3>1
  <2> QED BY <2>1, <2>2, <2>3 DEF Frame
<1> QED BY <1>1 DEF On

\* What lies on the stack does not depend on the rest of the machine.
LEMMA FrameSame ==
    ASSUME NEW k, NEW t, NEW W, Frame(k, t, W), NEW p,
           p.of = k.of, p.d = k.d, p.mem[t] = k.mem[t], DOMAIN p.mem = Tasks
    PROVE  Frame(p, t, W)
<1>1. k.of = t
  BY FrameOn
<1>2. \A i : Word(p, i) = Word(k, i)
  BY <1>1 DEF Word
<1>3. \A e : On(k, t, e) => On(p, t, e)
  BY DEF On
<1>4. CASE IsrFrame(k, t, W)
  BY <1>2, <1>3, <1>4 DEF Frame, IsrFrame, CalleeOn
<1>5. CASE SyscallFrame(k, t, W)
  BY <1>2, <1>3, <1>5 DEF Frame, SyscallFrame, RegsFor
<1>6. CASE ForkFrame(k, t, W)
  BY <1>2, <1>3, <1>6 DEF Frame, ForkFrame, RegsFor
<1> QED BY <1>4, <1>5, <1>6 DEF Frame

\* What switch_to_asm pops are the callee-saved registers.
LEMMA CalleeNames ==
    /\ \A j \in 1 .. 6 : Reverse(Switched)[j] \in CalleeSaved
    /\ \A n \in CalleeSaved : \E j \in 1 .. 6 : Reverse(Switched)[j] = n
<1>1. Reverse(Switched) = [i \in 1 .. 6 |-> Switched[(6 - i) + 1]]
  BY SwitchedNames DEF Reverse, Names
<1>2. /\ Reverse(Switched)[1] = "r15" /\ Reverse(Switched)[2] = "r14"
      /\ Reverse(Switched)[3] = "r13" /\ Reverse(Switched)[4] = "r12"
      /\ Reverse(Switched)[5] = "rbx" /\ Reverse(Switched)[6] = "rbp"
  BY <1>1 DEF Switched
<1> HIDE DEF Reverse
<1> QED BY <1>2 DEF CalleeSaved

\* switch_to leaves the callee-saved registers and its return address.
LEMMA SwitchOut ==
    ASSUME NEW k, NEW t, NEW e, On(k, t, e)
    PROVE  LET out == PushRegs(Call(k, "switch_to"), Switched)
           IN  /\ On(out, t, e) /\ out.d = k.d + 7 /\ OthersAs(out, k, t)
               /\ CalleeOn(out, k.r) /\ Word(out, 6) = K("switch_to")
               /\ \A i \in Nat : Word(out, 7 + i) = Word(k, i)
<1> DEFINE q == Call(k, "switch_to")
           out == PushRegs(q, Switched)
<1>1. /\ On(q, t, e) /\ q.d = k.d + 1 /\ OthersAs(q, k, t)
      /\ \A n \in CalleeSaved : q.r[n] = k.r[n]
      /\ Word(q, 0) = K("switch_to")
      /\ \A i \in Nat : i >= 1 => Word(q, i) = Word(k, i - 1)
  BY CallOK
<1> HIDE DEF q
<1>2. /\ On(out, t, e) /\ out.d = q.d + 6 /\ OthersAs(out, q, t)
      /\ \A i \in 0 .. 6 - 1 : Word(out, i) = q.r[Switched[6 - i]]
      /\ \A i \in Nat : i >= 6 => Word(out, i) = Word(q, i - 6)
  BY <1>1, SwitchedNames, PushRegsOK
<1> HIDE DEF out
<1>3. ASSUME NEW j \in 1 .. 6 PROVE Word(out, j - 1) = k.r[Reverse(Switched)[j]]
  <2>1. j - 1 \in 0 .. 6 - 1 /\ j - 1 \in 0 .. 5 /\ (j - 1) + 1 = j
    OBVIOUS
  <2>2. Reverse(Switched)[j] = Switched[6 - (j - 1)] /\ Reverse(Switched)[j] \in CalleeSaved
    BY <2>1, SwitchedNames, CalleeNames
  <2> QED BY <1>1, <1>2, <2>1, <2>2
<1>4. Word(out, 6) = K("switch_to")
  BY <1>1, <1>2
<1>5. ASSUME NEW i \in Nat PROVE Word(out, 7 + i) = Word(k, i)
  <2>1. (7 + i) - 6 = 1 + i /\ (1 + i) - 1 = i
    OBVIOUS
  <2>2. Word(out, 7 + i) = Word(q, 1 + i)
    BY <1>2, <2>1
  <2> QED BY <1>1, <2>1, <2>2
<1>6. OthersAs(out, k, t)
  BY <1>1, <1>2 DEF OthersAs
<1>7. out.d = k.d + 7
  BY <1>1, <1>2 DEF On
<1> QED BY <1>2, <1>3, <1>4, <1>5, <1>6, <1>7 DEF CalleeOn, q, out

\* struct regs is where it was, seen from a stack pointer c words up.
LEMMA RegsMoved ==
    ASSUME NEW k, NEW p, NEW W, NEW X, NEW c \in Nat, RegsFor(k, c + 1, W, X),
           \A i \in Nat : Word(p, i) = Word(k, c + i)
    PROVE  RegsFor(p, 1, W, X)
<1>1. \A j \in 1 .. 17 : Word(p, (1 + 17) - j) = Word(k, ((c + 1) + 17) - j)
  <2> TAKE j \in 1 .. 17
  <2>1. (1 + 17) - j \in Nat /\ c + ((1 + 17) - j) = ((c + 1) + 17) - j
    OBVIOUS
  <2> QED BY <2>1
<1> QED BY <1>1 DEF RegsFor

\* The case of do_syscall that ends a call: the result is stored.
LEMMA ResultOK ==
    ASSUME NEW k, NEW t, On(k, t, 0), k.d = 18, NEW W, RegsFor(k, 1, W, {"rax"})
    PROVE  LET u == syscall_return(do_syscall(k, W["rax"]))
           IN  /\ u.mem[t] = <<>> /\ DOMAIN u.mem = Tasks /\ OthersAs(u, k, t)
               /\ Given(u.r, W)
<1> DEFINE p == SetReg(k, "rax", W["rax"])
           u == sysret(PopFrame(Drop(p, 1)))
<1>1. "rax" \in Reg \ {"rbp"} /\ {"rax"} \ {"rax"} = {}
  BY DEF Reg, Scratch
<1>2. /\ On(p, t, 0) /\ p.d = 18 /\ OthersAs(p, k, t) /\ RegsFor(p, 1, W, {"rax"} \ {"rax"})
  BY <1>1, SetRegOK
<1> HIDE DEF p
<1>3. u.mem[t] = <<>> /\ DOMAIN u.mem = Tasks /\ OthersAs(u, p, t) /\ Given(u.r, W)
  BY <1>1, <1>2, ReturnOK
<1>4. syscall_return(do_syscall(k, W["rax"])) = u
  BY DEF syscall_return, do_syscall, p
<1> HIDE DEF u
<1>5. OthersAs(u, k, t)
  BY <1>2, <1>3 DEF OthersAs
<1> QED BY <1>3, <1>4, <1>5

\* The return address is popped.
LEMMA DropOne ==
    ASSUME NEW k, NEW t, NEW e, On(k, t, e), 1 <= k.d - e
    PROVE  /\ On(Drop(k, 1), t, e) /\ Drop(k, 1).d = k.d - 1 /\ OthersAs(Drop(k, 1), k, t)
           /\ Drop(k, 1).r = k.r
           /\ \A i \in Nat : Word(Drop(k, 1), i) = Word(k, 1 + i)
<1>1. 1 \in Nat
  OBVIOUS
<1> QED BY <1>1, DropOK

\* Whatever way a task left the CPU, it comes back with its registers.
LEMMA ResumeOK ==
    ASSUME NEW k, NEW t, NEW W, Frame(k, t, W)
    PROVE  LET u == Resume(PopRegs(k, Reverse(Switched)))
           IN  /\ u.mem[t] = <<>> /\ DOMAIN u.mem = Tasks /\ OthersAs(u, k, t)
               /\ Given(u.r, W)
<1> DEFINE in == PopRegs(k, Reverse(Switched))
           u  == Resume(in)
           k2 == Drop(in, 1)
<1>1. ASSUME NEW e, On(k, t, e), k.d - e >= 7
      PROVE  /\ On(in, t, e) /\ in.d = k.d - 6 /\ OthersAs(in, k, t)
             /\ Popped(in, k, Reverse(Switched), 6)
             /\ \A i \in Nat : Word(in, i) = Word(k, 6 + i)
             /\ On(k2, t, e) /\ k2.d = k.d - 7 /\ OthersAs(k2, k, t) /\ k2.r = in.r
             /\ \A i \in Nat : Word(k2, i) = Word(k, 7 + i)
  <2>1. 6 \in Nat /\ 6 <= k.d - e /\ Names(Reverse(Switched), 6) /\ k.d \in Nat /\ e \in Nat
    BY <1>1, SwitchedNames DEF On
  <2>2. /\ On(in, t, e) /\ in.d = k.d - 6 /\ OthersAs(in, k, t)
        /\ Popped(in, k, Reverse(Switched), 6)
        /\ \A i \in Nat : Word(in, i) = Word(k, 6 + i)
    BY <1>1, <2>1, PopRegsOK
  <2> HIDE DEF in
  <2>3. On(in, t, e) /\ 1 <= in.d - e
    BY <1>1, <2>1, <2>2
  <2>4. /\ On(k2, t, e) /\ k2.d = in.d - 1 /\ OthersAs(k2, in, t) /\ k2.r = in.r
        /\ \A i \in Nat : Word(k2, i) = Word(in, 1 + i)
    BY <2>3, DropOne
  <2> HIDE DEF k2
  <2>5. \A i \in Nat : Word(k2, i) = Word(k, 7 + i)
    <3> TAKE i \in Nat
    <3>1. 6 + (1 + i) = 7 + i /\ 1 + i \in Nat
      OBVIOUS
    <3> QED BY <2>2, <2>4, <3>1
  <2>6. OthersAs(k2, k, t)
    BY <2>2, <2>4 DEF OthersAs
  <2> QED BY <2>1, <2>2, <2>4, <2>5, <2>6
<1>2. /\ K("switch_to") # K("pop_regs_and_sysret")
      /\ K("isr_common") # K("syscall_entry")
  BY DEF K
<1> HIDE DEF k2, in
<1>3. CASE IsrFrame(k, t, W)
  <2>1. PICK e : e = k.d - 23
    OBVIOUS
  <2>2. On(k, t, e) /\ k.d \in Nat /\ e \in Nat /\ k.d = e + 23 /\ k.d - e >= 7
    <3>1. k.d >= 23 /\ On(k, t, k.d - 23)
      BY <1>3 DEF IsrFrame
    <3>2. On(k, t, e)
      BY <2>1, <3>1
    <3>3. k.d \in Nat /\ e \in Nat
      BY <3>2 DEF On
    <3> QED BY <2>1, <3>1, <3>2, <3>3
  <2>3. /\ OthersAs(in, k, t) /\ Popped(in, k, Reverse(Switched), 6)
        /\ \A i \in Nat : Word(in, i) = Word(k, 6 + i)
        /\ On(k2, t, e) /\ k2.d = k.d - 7 /\ OthersAs(k2, k, t) /\ k2.r = in.r
        /\ \A i \in Nat : Word(k2, i) = Word(k, 7 + i)
    BY <1>1, <2>2
  <2>4. Word(in, 0) = K("switch_to") /\ Word(in, 1) = K("isr_common")
    BY <1>3, <2>3 DEF IsrFrame
  <2>5. u = isr_return(k2)
    BY <1>2, <2>4 DEF Resume, k2
  <2>6. \A n \in CalleeSaved : k2.r[n] = W[n]
    <3> TAKE n \in CalleeSaved
    <3>1. PICK j \in 1 .. 6 : Reverse(Switched)[j] = n
      BY CalleeNames
    <3>2. in.r[n] = Word(k, j - 1)
      BY <2>3, <3>1 DEF Popped
    <3>3. Word(k, j - 1) = W[n]
      BY <1>3, <3>1 DEF IsrFrame, CalleeOn
    <3> QED BY <2>3, <3>2, <3>3
  <2>7. /\ \A i \in 1 .. 9 : Word(k2, i) = W[IsrSaved[10 - i]]
        /\ Word(k2, 11) = W["rip"] /\ Word(k2, 14) = W["rsp"]
    <3>1. Word(k2, 11) = Word(k, 18) /\ Word(k2, 14) = Word(k, 21)
      BY <2>3
    <3>2. \A i \in 1 .. 9 : Word(k2, i) = Word(k, 7 + i)
      BY <2>3
    <3> QED BY <1>3, <3>1, <3>2 DEF IsrFrame
  <2>8. k2.d = e + 16 /\ DOMAIN W = Reg /\ On(k2, t, e)
    BY <1>3, <2>2, <2>3 DEF IsrFrame
  <2> HIDE DEF u
  <2>9. PICK v : v = isr_return(k2)
    OBVIOUS
  <2>10. v.mem[t] = <<>> /\ DOMAIN v.mem = Tasks /\ OthersAs(v, k2, t) /\ Given(v.r, W)
    <3>1. InIsr(k2, t, e, W)
      BY <2>6, <2>7, <2>8 DEF InIsr
    <3> QED BY <2>9, <3>1, IsrReturnOK
  <2>11. OthersAs(v, k, t)
    BY <2>3, <2>10 DEF OthersAs
  <2> QED BY <2>5, <2>9, <2>10, <2>11 DEF u, in
<1>4. CASE SyscallFrame(k, t, W)
  <2>1. On(k, t, 0) /\ k.d = 25 /\ k.d - 0 >= 7
    BY <1>4 DEF SyscallFrame
  <2>2. /\ \A i \in Nat : Word(in, i) = Word(k, 6 + i)
        /\ On(k2, t, 0) /\ k2.d = k.d - 7 /\ OthersAs(k2, k, t)
        /\ \A i \in Nat : Word(k2, i) = Word(k, 7 + i)
    BY <1>1, <2>1
  <2>3. Word(in, 0) = K("switch_to") /\ Word(in, 1) = K("syscall_entry")
    BY <1>4, <2>2 DEF SyscallFrame
  <2>4. RegsFor(k, 7 + 1, W, {"rax"}) /\ W["rax"] = K("result")
    BY <1>4 DEF SyscallFrame
  <2>5. RegsFor(k2, 1, W, {"rax"}) /\ k2.d = 18
    <3>1. 7 \in Nat /\ RegsFor(k, 7 + 1, W, {"rax"}) /\ \A i \in Nat : Word(k2, i) = Word(k, 7 + i)
      BY <2>2, <2>4
    <3>2. RegsFor(k2, 1, W, {"rax"})
      BY <3>1, RegsMoved
    <3> QED BY <2>1, <2>2, <3>2
  <2>6. u = syscall_return(do_syscall(k2, W["rax"]))
    BY <1>2, <2>3, <2>4 DEF Resume, k2
  <2> HIDE DEF u
  <2>7. u.mem[t] = <<>> /\ DOMAIN u.mem = Tasks /\ OthersAs(u, k2, t) /\ Given(u.r, W)
    BY <2>2, <2>5, <2>6, ResultOK
  <2>8. OthersAs(u, k, t)
    BY <2>2, <2>7 DEF OthersAs
  <2> QED BY <2>7, <2>8 DEF u, in
<1>5. CASE ForkFrame(k, t, W)
  <2>1. On(k, t, 0) /\ k.d = 24 /\ k.d - 0 >= 7
    BY <1>5 DEF ForkFrame
  <2>2. /\ On(in, t, 0) /\ in.d = k.d - 6 /\ OthersAs(in, k, t)
        /\ \A i \in Nat : Word(in, i) = Word(k, 6 + i)
    BY <1>1, <2>1
  <2>3. Word(in, 0) = K("pop_regs_and_sysret") /\ RegsFor(k, 6 + 1, W, {})
    BY <1>5, <2>2 DEF ForkFrame
  <2>4. RegsFor(in, 1, W, {}) /\ in.d = 18
    BY <2>1, <2>2, <2>3, RegsMoved
  <2>5. u = sysret(PopFrame(Drop(in, 1)))
    BY <1>2, <2>3 DEF Resume, pop_regs_and_sysret
  <2> HIDE DEF u
  <2>6. u.mem[t] = <<>> /\ DOMAIN u.mem = Tasks /\ OthersAs(u, in, t) /\ Given(u.r, W)
    BY <2>2, <2>4, <2>5, ReturnOK
  <2>7. OthersAs(u, k, t)
    BY <2>2, <2>6 DEF OthersAs
  <2> QED BY <2>6, <2>7 DEF u, in
<1> QED BY <1>3, <1>4, <1>5 DEF Frame

(***************************************************************************)
(* The invariant.                                                          *)
(***************************************************************************)
Alive == {"ready", "asleep"}

\* The current task is in user mode with its registers; every other one that
\* is alive has a frame on its stack that will give it its own.
ContextInv ==
    /\ UserMode
    /\ state \in [Tasks -> {"unused", "ready", "asleep", "zombie"}]
    /\ DOMAIN want = Tasks
    /\ DOMAIN sp = Tasks /\ \A t \in Tasks : sp[t][1] = t /\ sp[t][2] \in Nat
    /\ state[current] = "ready"
    /\ Given(cpu, want[current])
    /\ \A t \in Tasks \ {current} :
          state[t] \in Alive => Frame(Machine(mem, t, sp[t][2], cpu), t, want[t])

\* The parts of a machine.
LEMMA MachineIs ==
    ASSUME NEW M, NEW o, NEW d, NEW r
    PROVE  /\ Machine(M, o, d, r).mem = M /\ Machine(M, o, d, r).of = o
           /\ Machine(M, o, d, r).d = d /\ Machine(M, o, d, r).r = r
BY DEF Machine

\* A step in which the current task keeps the CPU
LEMMA StayOK ==
    ASSUME ContextInv, UNCHANGED <<current, sp, tss_rsp0, syscall_sp>>,
           DOMAIN mem' = Tasks, mem'[current] = <<>>,
           DOMAIN want' = Tasks, Given(cpu', want'[current]),
           state' \in [Tasks -> {"unused", "ready", "asleep", "zombie"}],
           state'[current] = "ready",
           \A t \in Tasks \ {current} :
              state'[t] \in Alive =>
                 state[t] \in Alive /\ mem'[t] = mem[t] /\ want'[t] = want[t]
    PROVE  ContextInv'
<1>1. UserMode'
  BY DEF ContextInv, UserMode
<1>2. ASSUME NEW t \in Tasks \ {current}, state'[t] \in Alive
      PROVE  Frame(Machine(mem', t, sp'[t][2], cpu'), t, want'[t])
  <2>1. Frame(Machine(mem, t, sp[t][2], cpu), t, want[t])
    BY <1>2 DEF ContextInv
  <2>2. /\ Machine(mem', t, sp'[t][2], cpu').of = Machine(mem, t, sp[t][2], cpu).of
        /\ Machine(mem', t, sp'[t][2], cpu').d = Machine(mem, t, sp[t][2], cpu).d
        /\ Machine(mem', t, sp'[t][2], cpu').mem[t] = Machine(mem, t, sp[t][2], cpu).mem[t]
        /\ DOMAIN Machine(mem', t, sp'[t][2], cpu').mem = Tasks
    BY <1>2, MachineIs
  <2>3. Frame(Machine(mem', t, sp'[t][2], cpu'), t, want[t])
    BY <2>1, <2>2, FrameSame
  <2> QED BY <1>2, <2>3
<1> QED BY <1>1, <1>2 DEF ContextInv

\* A step in which the CPU goes to task t: the stack of the current task has
\* a frame, unless it has exited.
LEMMA SwitchOK ==
    ASSUME ContextInv, NEW t \in Tasks \ {current}, state[t] \in Alive,
           NEW k, NEW e, On(k, current, e), \A u \in Tasks \ {current} : k.mem[u] = mem[u],
           SwitchTo(k, t), NEW W, want' = [want EXCEPT ![current] = W],
           state'[current] \in Alive =>
              Frame(PushRegs(Call(k, "switch_to"), Switched), current, W),
           state' \in [Tasks -> {"unused", "ready", "asleep", "zombie"}],
           state'[t] = "ready",
           \A u \in Tasks \ {current, t} : state'[u] \in Alive => state[u] \in Alive
    PROVE  ContextInv'
<1> DEFINE out == PushRegs(Call(k, "switch_to"), Switched)
           kt  == OnStack(out, sp[t])
           res == Resume(PopRegs(kt, Reverse(Switched)))
<1>1. PICK x, y, v : x = out /\ y = kt /\ v = res
  OBVIOUS
<1>2. /\ current' = t /\ syscall_sp' = <<t, 0>> /\ tss_rsp0' = sp[t]
      /\ sp' = [sp EXCEPT ![current] = <<x.of, x.d>>]
      /\ mem' = v.mem /\ cpu' = v.r
  BY <1>1 DEF SwitchTo, StackForSyscalls, StackForInterrupts
<1>3. On(x, current, e) /\ OthersAs(x, k, current)
  BY <1>1, SwitchOut
<1>4. /\ current \in Tasks /\ DOMAIN mem = Tasks /\ DOMAIN want = Tasks
      /\ DOMAIN sp = Tasks /\ \A u \in Tasks : sp[u][1] = u /\ sp[u][2] \in Nat
  BY DEF ContextInv, UserMode
<1>5. /\ x.of = current /\ x.d \in Nat /\ DOMAIN x.mem = Tasks
      /\ \A u \in Tasks \ {current} : x.mem[u] = mem[u]
  BY <1>3 DEF On, OthersAs
<1>6. y = Machine(x.mem, t, sp[t][2], x.r)
  BY <1>1, <1>4 DEF OnStack
<1>7. Frame(Machine(mem, t, sp[t][2], cpu), t, want[t])
  BY DEF ContextInv
<1>8. Frame(y, t, want[t])
  <2>1. /\ y.of = t /\ y.d = sp[t][2] /\ y.mem = x.mem
    BY <1>6, MachineIs
  <2>2. PICK z : z = Machine(mem, t, sp[t][2], cpu)
    OBVIOUS
  <2>3. z.of = t /\ z.d = sp[t][2] /\ z.mem = mem
    BY <2>2, MachineIs
  <2>4. Frame(z, t, want[t])
    BY <1>7, <2>2
  <2> QED BY <1>5, <2>1, <2>3, <2>4, FrameSame
<1>9. v.mem[t] = <<>> /\ DOMAIN v.mem = Tasks /\ OthersAs(v, y, t) /\ Given(v.r, want[t])
  <2>1. v = Resume(PopRegs(y, Reverse(Switched)))
    BY <1>1
  <2> QED BY <1>8, <2>1, ResumeOK
<1>10. \A u \in Tasks \ {t} : v.mem[u] = x.mem[u]
  BY <1>6, <1>9, MachineIs DEF OthersAs
<1>11. UserMode'
  BY <1>2, <1>4, <1>9 DEF UserMode
<1>12. /\ DOMAIN sp' = Tasks /\ \A u \in Tasks : sp'[u][1] = u /\ sp'[u][2] \in Nat
       /\ sp'[current] = <<current, x.d>> /\ \A u \in Tasks \ {current} : sp'[u] = sp[u]
  BY <1>2, <1>4, <1>5
<1>13. DOMAIN want' = Tasks /\ want'[current] = W /\ \A u \in Tasks \ {current} : want'[u] = want[u]
  BY <1>4
<1>14. ASSUME NEW u \in Tasks \ {t}, state'[u] \in Alive
       PROVE  Frame(Machine(mem', u, sp'[u][2], cpu'), u, want'[u])
  <2>0. PICK z : z = Machine(mem', u, sp'[u][2], cpu')
    OBVIOUS
  <2>1. z.of = u /\ z.d = sp'[u][2] /\ z.mem = mem'
    BY <2>0, MachineIs
  <2>2. CASE u = current
    <3>1. Frame(x, current, W)
      BY <1>1, <1>14, <2>2
    <3>2. z.of = x.of /\ z.d = x.d /\ z.mem[current] = x.mem[current] /\ DOMAIN z.mem = Tasks
      BY <1>2, <1>5, <1>9, <1>10, <1>12, <2>1, <2>2
    <3>3. Frame(z, current, W)
      BY <3>1, <3>2, FrameSame
    <3> QED BY <1>13, <2>0, <2>2, <3>3
  <2>3. CASE u # current
    <3>1. PICK w : w = Machine(mem, u, sp[u][2], cpu)
      OBVIOUS
    <3>2. w.of = u /\ w.d = sp[u][2] /\ w.mem = mem
      BY <3>1, MachineIs
    <3>3. Frame(w, u, want[u])
      BY <1>14, <2>3, <3>1 DEF ContextInv
    <3>4. z.of = w.of /\ z.d = w.d /\ z.mem[u] = w.mem[u] /\ DOMAIN z.mem = Tasks
      BY <1>2, <1>5, <1>9, <1>10, <1>12, <2>1, <2>3, <3>2
    <3>5. Frame(z, u, want[u])
      BY <3>3, <3>4, FrameSame
    <3> QED BY <1>13, <2>0, <2>3, <3>5
  <2> QED BY <2>2, <2>3
<1>15. Given(cpu', want'[t])
  BY <1>2, <1>9, <1>13
<1> QED BY <1>2, <1>11, <1>12, <1>13, <1>14, <1>15 DEF ContextInv

(***************************************************************************)
(* Interrupts.                                                             *)
(***************************************************************************)
\* Only what the current task must find has changed.
LEMMA WantsCpu ==
    ASSUME ContextInv, NEW W, want' = [want EXCEPT ![current] = W]
    PROVE  /\ DOMAIN want' = Tasks /\ want'[current] = W
           /\ \A t \in Tasks \ {current} : want'[t] = want[t]
BY DEF ContextInv, UserMode

\* An interrupt that returns to the interrupted program keeps the invariant.
LEMMA InterruptOK ==
    ASSUME ContextInv, NEW v, Interrupt(v)
    PROVE  ContextInv'
<1>1. UserMode /\ DOMAIN cpu = Reg /\ current \in Tasks
  BY DEF ContextInv, Given, UserMode
<1>2. PICK k, e, u : k = isr_common /\ e = tss_rsp0[2] /\ u = isr_return(k)
  OBVIOUS
<1>3. /\ On(k, current, e) /\ k.d = e + 16
      /\ \A t \in Tasks \ {current} : k.mem[t] = mem[t]
      /\ \A n \in CalleeSaved : k.r[n] = cpu[n]
      /\ \A i \in 1 .. 9 : Word(k, i) = cpu[IsrSaved[10 - i]]
      /\ Word(k, 11) = cpu["rip"] /\ Word(k, 14) = cpu["rsp"]
  BY <1>1, <1>2, IsrEntered
<1>4. /\ u.mem[current] = <<>> /\ DOMAIN u.mem = Tasks /\ OthersAs(u, k, current)
      /\ Given(u.r, cpu)
  <2>1. InIsr(k, current, e, cpu)
    BY <1>1, <1>3 DEF InIsr
  <2>2. u = isr_return(k)
    BY <1>2
  <2> QED BY <2>1, <2>2, IsrReturnOK
<1>5. /\ mem' = u.mem /\ cpu' = u.r /\ UNCHANGED <<current, sp, tss_rsp0, syscall_sp>>
      /\ want' = [want EXCEPT ![current] = cpu]
  BY <1>2 DEF Interrupt, Interrupted, BackToUser
<1>6. /\ DOMAIN want' = Tasks /\ want'[current] = cpu
      /\ \A t \in Tasks \ {current} : want'[t] = want[t]
  BY <1>5, WantsCpu
<1>7. /\ state' \in [Tasks -> {"unused", "ready", "asleep", "zombie"}]
      /\ state'[current] = "ready"
      /\ \A t \in Tasks \ {current} : state'[t] \in Alive => state[t] \in Alive
  BY <1>1 DEF Interrupt, ContextInv, Alive
<1>8. \A t \in Tasks \ {current} : mem'[t] = mem[t]
  BY <1>3, <1>4, <1>5 DEF OthersAs
<1> QED BY <1>4, <1>5, <1>6, <1>7, <1>8, StayOK

\* A preemption keeps it: it leaves an interrupt frame, at whatever depth.
LEMMA PreemptOK ==
    ASSUME ContextInv, NEW t \in Tasks, Preempt(t)
    PROVE  ContextInv'
<1>1. UserMode /\ DOMAIN cpu = Reg /\ current \in Tasks
  BY DEF ContextInv, Given, UserMode
<1>2. PICK k, e, out : /\ k = isr_common /\ e = tss_rsp0[2]
                       /\ out = PushRegs(Call(k, "switch_to"), Switched)
  OBVIOUS
<1>3. /\ On(k, current, e) /\ k.d = e + 16
      /\ \A u \in Tasks \ {current} : k.mem[u] = mem[u]
      /\ \A n \in CalleeSaved : k.r[n] = cpu[n]
      /\ Word(k, 0) = K("isr_common")
      /\ \A i \in 1 .. 9 : Word(k, i) = cpu[IsrSaved[10 - i]]
      /\ Word(k, 11) = cpu["rip"] /\ Word(k, 14) = cpu["rsp"]
  BY <1>1, <1>2, IsrEntered
<1>4. /\ On(out, current, e) /\ out.d = k.d + 7
      /\ CalleeOn(out, k.r) /\ Word(out, 6) = K("switch_to")
      /\ \A i \in Nat : Word(out, 7 + i) = Word(k, i)
  BY <1>2, <1>3, SwitchOut
<1>5. IsrFrame(out, current, cpu)
  <2>1. e \in Nat
    BY <1>3 DEF On
  <2>2. out.d >= 23 /\ out.d - 23 = e
    BY <1>3, <1>4, <2>1
  <2>3. CalleeOn(out, cpu)
    BY <1>3, <1>4, CalleeNames DEF CalleeOn
  <2>4. Word(out, 7) = Word(k, 0) /\ Word(out, 18) = Word(k, 11) /\ Word(out, 21) = Word(k, 14)
    <3>1. /\ 7 + 0 = 7 /\ 7 + 11 = 18 /\ 7 + 14 = 21
      OBVIOUS
    <3> QED BY <1>4, <3>1
  <2>5. \A i \in 1 .. 9 : Word(out, 7 + i) = cpu[IsrSaved[10 - i]]
    BY <1>3, <1>4
  <2> QED BY <1>1, <1>3, <1>4, <2>2, <2>3, <2>4, <2>5 DEF IsrFrame
<1>6. /\ t \in Tasks \ {current} /\ state[t] = "ready" /\ SwitchTo(k, t)
      /\ want' = [want EXCEPT ![current] = cpu] /\ UNCHANGED state
  BY <1>2 DEF Preempt, Interrupted, Ready
<1>7. Frame(PushRegs(Call(k, "switch_to"), Switched), current, cpu)
  BY <1>2, <1>5 DEF Frame
<1>8. state' \in [Tasks -> {"unused", "ready", "asleep", "zombie"}] /\ state[t] \in Alive
  BY <1>6 DEF ContextInv, Alive
<1> QED BY <1>3, <1>6, <1>7, <1>8, SwitchOK

(***************************************************************************)
(* System calls.                                                           *)
(***************************************************************************)
\* The entry saves what the program has, but for rbp.
LEMMA EntryRegs ==
    ASSUME UserMode, DOMAIN cpu = Reg, NEW W, NEW X,
           DOMAIN W = Reg, W["rcx"] = W["rip"], W["r11"] = FLAGS,
           \A n \in Reg \ ({"rcx", "r11", "rbp"} \cup X) : W[n] = cpu[n]
    PROVE  RegsFor(syscall_entry, 1, W, X)
<1>1. HasRegs(syscall_entry, 1, RegsAfterEntry)
  BY SyscallEntered
<1>2. RegsAfterEntry["rbp"] = ZERO /\ \A n \in Reg \ {"rcx", "r11", "rbp"} : RegsAfterEntry[n] = cpu[n]
  BY DEF RegsAfterEntry, syscall, Reg, CalleeSaved, Scratch
<1>3. ASSUME NEW j \in 1 .. 17, Regs[j] \notin {"rcx", "r11"} \cup X
      PROVE  Word(syscall_entry, (1 + 17) - j) = IF Regs[j] = "rbp" THEN ZERO ELSE W[Regs[j]]
  <2>1. Word(syscall_entry, (1 + 17) - j) = RegsAfterEntry[Regs[j]]
    BY <1>1 DEF HasRegs
  <2>2. Regs[j] \in Reg
    BY RegsNames DEF Names
  <2> QED BY <1>2, <1>3, <2>1, <2>2
<1> QED BY <1>3 DEF RegsFor

\* So a call that sets rax gives the program what it is promised.
LEMMA PromisedRegs ==
    ASSUME UserMode, DOMAIN cpu = Reg, NEW v
    PROVE  RegsFor(syscall_entry, 1, Promised(v), {"rax"}) /\ Promised(v)["rax"] = v
<1>1. /\ DOMAIN Promised(v) = Reg /\ Promised(v)["rcx"] = Promised(v)["rip"]
      /\ Promised(v)["r11"] = FLAGS /\ Promised(v)["rax"] = v
      /\ \A n \in Reg \ ({"rcx", "r11", "rbp"} \cup {"rax"}) : Promised(v)[n] = cpu[n]
  BY DEF Promised, syscall, Reg, CalleeSaved, Scratch
<1> HIDE DEF Promised
<1> QED BY <1>1, EntryRegs

\* Only the stack of t counts for its system call.
LEMMA SameStack ==
    ASSUME NEW k, NEW t, On(k, t, 0), k.d = 18, NEW W, NEW X, RegsFor(k, 1, W, X),
           NEW M, DOMAIN M = Tasks, M[t] = k.mem[t]
    PROVE  /\ On(WithMem(k, M), t, 0) /\ WithMem(k, M).d = 18 /\ WithMem(k, M).mem = M
           /\ RegsFor(WithMem(k, M), 1, W, X)
<1>1. PICK p : p = WithMem(k, M)
  OBVIOUS
<1>2. p.mem = M /\ p.of = t /\ k.of = t /\ p.d = k.d
  BY <1>1 DEF WithMem, Machine, On
<1>3. \A i : Word(p, i) = Word(k, i)
  BY <1>2 DEF Word
<1>4. On(p, t, 0)
  BY <1>2 DEF On
<1>5. RegsFor(p, 1, W, X)
  BY <1>3 DEF RegsFor
<1> QED BY <1>1, <1>2, <1>4, <1>5

\* A system call that does not sleep keeps the invariant.
LEMMA SyscallOK ==
    ASSUME ContextInv, Syscall
    PROVE  ContextInv'
<1>1. UserMode /\ DOMAIN cpu = Reg /\ current \in Tasks
  BY DEF ContextInv, Given, UserMode
<1>2. PICK k, W : k = syscall_entry /\ W = Promised(K("result"))
  OBVIOUS
<1>3. On(k, current, 0) /\ k.d = 18 /\ \A t \in Tasks \ {current} : k.mem[t] = mem[t]
  BY <1>1, <1>2, SyscallEntered
<1>4. RegsFor(k, 1, W, {"rax"}) /\ W["rax"] = K("result")
  BY <1>1, <1>2, PromisedRegs
<1>5. PICK u : u = syscall_return(do_syscall(k, W["rax"]))
  OBVIOUS
<1>6. /\ u.mem[current] = <<>> /\ DOMAIN u.mem = Tasks /\ OthersAs(u, k, current)
      /\ Given(u.r, W)
  BY <1>3, <1>4, <1>5, ResultOK
<1>7. /\ mem' = u.mem /\ cpu' = u.r /\ UNCHANGED <<current, sp, tss_rsp0, syscall_sp>>
      /\ want' = [want EXCEPT ![current] = W] /\ UNCHANGED state
  BY <1>2, <1>4, <1>5 DEF Syscall, Called, BackToUser
<1>8. /\ DOMAIN want' = Tasks /\ want'[current] = W
      /\ \A t \in Tasks \ {current} : want'[t] = want[t]
  BY <1>7, WantsCpu
<1>9. \A t \in Tasks \ {current} : mem'[t] = mem[t]
  BY <1>3, <1>6, <1>7 DEF OthersAs
<1>10. state' \in [Tasks -> {"unused", "ready", "asleep", "zombie"}] /\ state'[current] = "ready"
  BY <1>7 DEF ContextInv
<1> QED BY <1>6, <1>7, <1>8, <1>9, <1>10, StayOK

\* So does a wait: the stack it frees is that of a zombie.
LEMMA WaitOK ==
    ASSUME ContextInv, NEW z \in Tasks, Wait(z)
    PROVE  ContextInv'
<1>1. UserMode /\ DOMAIN cpu = Reg /\ current \in Tasks
  BY DEF ContextInv, Given, UserMode
<1>2. PICK k, W : k = syscall_entry /\ W = Promised(K("result"))
  OBVIOUS
<1>3. On(k, current, 0) /\ k.d = 18 /\ \A t \in Tasks \ {current} : k.mem[t] = mem[t]
  BY <1>1, <1>2, SyscallEntered
<1>4. RegsFor(k, 1, W, {"rax"}) /\ W["rax"] = K("result")
  BY <1>1, <1>2, PromisedRegs
<1>5. z # current
  BY DEF Wait, ContextInv
<1>6. PICK M, p : M = [k.mem EXCEPT ![z] = <<>>] /\ p = WithMem(k, M)
  OBVIOUS
<1>7. DOMAIN M = Tasks /\ M[current] = k.mem[current] /\ \A t \in Tasks \ {z} : M[t] = k.mem[t]
  BY <1>1, <1>3, <1>5, <1>6 DEF On
<1>8. On(p, current, 0) /\ p.d = 18 /\ p.mem = M /\ RegsFor(p, 1, W, {"rax"})
  <2>1. p = WithMem(k, M)
    BY <1>6
  <2> QED BY <1>3, <1>4, <1>7, <2>1, SameStack
<1>9. PICK u : u = syscall_return(do_syscall(p, W["rax"]))
  OBVIOUS
<1>10. /\ u.mem[current] = <<>> /\ DOMAIN u.mem = Tasks /\ OthersAs(u, p, current)
       /\ Given(u.r, W)
  BY <1>8, <1>9, ResultOK
<1>11. /\ mem' = u.mem /\ cpu' = u.r /\ UNCHANGED <<current, sp, tss_rsp0, syscall_sp>>
       /\ want' = [want EXCEPT ![current] = W] /\ state' = [state EXCEPT ![z] = "unused"]
  BY <1>2, <1>4, <1>6, <1>9 DEF Wait, Called, BackToUser
<1>12. /\ DOMAIN want' = Tasks /\ want'[current] = W
       /\ \A t \in Tasks \ {current} : want'[t] = want[t]
  BY <1>11, WantsCpu
<1>13. \A t \in Tasks \ {current, z} : mem'[t] = mem[t]
  BY <1>3, <1>7, <1>8, <1>10, <1>11 DEF OthersAs
<1>14. /\ state' \in [Tasks -> {"unused", "ready", "asleep", "zombie"}] /\ state'[current] = "ready"
       /\ state'[z] = "unused" /\ \A t \in Tasks \ {z} : state'[t] = state[t]
  BY <1>1, <1>5, <1>11 DEF ContextInv
<1>15. \A t \in Tasks \ {current} :
          state'[t] \in Alive =>
             state[t] \in Alive /\ mem'[t] = mem[t] /\ want'[t] = want[t]
  BY <1>12, <1>13, <1>14 DEF Alive
<1> QED BY <1>10, <1>11, <1>12, <1>14, <1>15, StayOK

\* A call that sleeps leaves a frame for its result.
LEMMA SleepFrame ==
    ASSUME ContextInv
    PROVE  /\ On(syscall_entry, current, 0)
           /\ \A u \in Tasks \ {current} : syscall_entry.mem[u] = mem[u]
           /\ Frame(PushRegs(Call(syscall_entry, "switch_to"), Switched), current,
                    Promised(K("result")))
<1>1. UserMode /\ DOMAIN cpu = Reg /\ current \in Tasks
  BY DEF ContextInv, Given, UserMode
<1>2. PICK k, W, out : /\ k = syscall_entry /\ W = Promised(K("result"))
                       /\ out = PushRegs(Call(k, "switch_to"), Switched)
  OBVIOUS
<1>3. /\ On(k, current, 0) /\ k.d = 18 /\ \A t \in Tasks \ {current} : k.mem[t] = mem[t]
      /\ Word(k, 0) = K("syscall_entry")
  BY <1>1, <1>2, SyscallEntered
<1>4. RegsFor(k, 1, W, {"rax"}) /\ W["rax"] = K("result")
  BY <1>1, <1>2, PromisedRegs
<1>5. /\ On(out, current, 0) /\ out.d = k.d + 7 /\ Word(out, 6) = K("switch_to")
      /\ \A i \in Nat : Word(out, 7 + i) = Word(k, i)
  BY <1>2, <1>3, SwitchOut
<1>6. RegsFor(out, 8, W, {"rax"})
  <2>1. ASSUME NEW j \in 1 .. 17 PROVE Word(out, (8 + 17) - j) = Word(k, (1 + 17) - j)
    <3>1. (1 + 17) - j \in Nat /\ 7 + ((1 + 17) - j) = (8 + 17) - j
      OBVIOUS
    <3> QED BY <1>5, <3>1
  <2> QED BY <1>4, <2>1 DEF RegsFor
<1>7. Word(out, 7) = K("syscall_entry")
  <2>1. 7 + 0 = 7
    OBVIOUS
  <2> QED BY <1>3, <1>5, <2>1
<1>8. SyscallFrame(out, current, W)
  BY <1>3, <1>4, <1>5, <1>6, <1>7 DEF SyscallFrame
<1> QED BY <1>2, <1>3, <1>8 DEF Frame

\* A call that sleeps keeps the invariant.
LEMMA SleepOK ==
    ASSUME ContextInv, NEW t \in Tasks, Sleep(t)
    PROVE  ContextInv'
<1>1. /\ t \in Tasks \ {current} /\ state[t] = "ready" /\ SwitchTo(syscall_entry, t)
      /\ state' = [state EXCEPT ![current] = "asleep"]
      /\ want' = [want EXCEPT ![current] = Promised(K("result"))]
  BY DEF Sleep, Ready, Called
<1>2. /\ state' \in [Tasks -> {"unused", "ready", "asleep", "zombie"}] /\ state[t] \in Alive
      /\ state'[t] = "ready" /\ \A u \in Tasks \ {current, t} : state'[u] = state[u]
  BY <1>1 DEF ContextInv, Alive
<1> QED BY <1>1, <1>2, SleepFrame, SwitchOK

\* An exit keeps it: the frame of the zombie is never resumed.
LEMMA ExitOK ==
    ASSUME ContextInv, NEW t \in Tasks, Exit(t)
    PROVE  ContextInv'
<1>1. /\ SwitchTo(syscall_entry, t)
      /\ state' = [state EXCEPT ![current] = "zombie", ![t] = "ready"]
      /\ want' = [want EXCEPT ![current] = Promised(K("result"))]
  BY DEF Exit, Called
<1>2. t \in Tasks \ {current} /\ state[t] \in Alive
  BY DEF Exit, Ready, ContextInv, Alive
<1>3. /\ state' \in [Tasks -> {"unused", "ready", "asleep", "zombie"}]
      /\ state'[t] = "ready" /\ state'[current] = "zombie"
      /\ \A u \in Tasks \ {current, t} : state'[u] = state[u]
  BY <1>1, <1>2 DEF ContextInv, UserMode
<1> QED BY <1>1, <1>2, <1>3, SleepFrame, SwitchOK

\* An exec keeps it, with the rip and rsp of the new program.
LEMMA ExecOK ==
    ASSUME ContextInv, Exec
    PROVE  ContextInv'
<1>1. UserMode /\ DOMAIN cpu = Reg /\ current \in Tasks
  BY DEF ContextInv, Given, UserMode
<1>2. PICK k, W : /\ k = syscall_entry
                  /\ W = [Promised(ZERO) EXCEPT !["rip"] = K("e_entry"), !["rcx"] = K("e_entry"),
                                                !["rsp"] = K("user_stack")]
  OBVIOUS
<1>3. On(k, current, 0) /\ k.d = 18 /\ \A t \in Tasks \ {current} : k.mem[t] = mem[t]
  BY <1>1, <1>2, SyscallEntered
<1>4. /\ DOMAIN W = Reg /\ W["rcx"] = W["rip"] /\ W["r11"] = FLAGS /\ W["rax"] = ZERO
      /\ W["rip"] = K("e_entry") /\ W["rsp"] = K("user_stack")
      /\ \A n \in Reg \ ({"rcx", "r11", "rbp"} \cup {"rip", "rsp", "rax"}) : W[n] = cpu[n]
  BY <1>1, <1>2 DEF Promised, syscall, Reg, CalleeSaved, Scratch
<1>5. RegsFor(k, 1, W, {"rip", "rsp", "rax"})
  <2>1. RegsFor(syscall_entry, 1, W, {"rip", "rsp", "rax"})
    BY <1>1, <1>4, EntryRegs
  <2> QED BY <1>2, <2>1
<1>6. PICK p, q : p = SetReg(k, "rip", W["rip"]) /\ q = SetReg(p, "rsp", W["rsp"])
  OBVIOUS
<1>7. "rip" \in Reg \ {"rbp"} /\ "rsp" \in Reg \ {"rbp"}
  BY DEF Reg
<1>8. /\ On(p, current, 0) /\ p.d = 18 /\ OthersAs(p, k, current)
      /\ RegsFor(p, 1, W, {"rip", "rsp", "rax"} \ {"rip"})
  <2>1. p = SetReg(k, "rip", W["rip"])
    BY <1>6
  <2> QED BY <1>3, <1>5, <1>7, <2>1, SetRegOK
<1>9. /\ On(q, current, 0) /\ q.d = 18 /\ OthersAs(q, p, current)
      /\ RegsFor(q, 1, W, ({"rip", "rsp", "rax"} \ {"rip"}) \ {"rsp"})
  <2>1. q = SetReg(p, "rsp", W["rsp"])
    BY <1>6
  <2> QED BY <1>7, <1>8, <2>1, SetRegOK
<1>10. RegsFor(q, 1, W, {"rax"})
  <2>1. ({"rip", "rsp", "rax"} \ {"rip"}) \ {"rsp"} = {"rax"}
    OBVIOUS
  <2> QED BY <1>9, <2>1
<1>11. PICK u : u = syscall_return(do_syscall(q, W["rax"]))
  OBVIOUS
<1>12. /\ u.mem[current] = <<>> /\ DOMAIN u.mem = Tasks /\ OthersAs(u, q, current)
       /\ Given(u.r, W)
  BY <1>9, <1>10, <1>11, ResultOK
<1>13. /\ mem' = u.mem /\ cpu' = u.r /\ UNCHANGED <<current, sp, tss_rsp0, syscall_sp>>
       /\ want' = [want EXCEPT ![current] = W] /\ UNCHANGED state
  <2>1. ExecRegs(syscall_entry) = q
    BY <1>2, <1>4, <1>6 DEF ExecRegs
  <2> QED BY <1>2, <1>4, <1>11, <2>1 DEF Exec, BackToUser
<1>14. /\ DOMAIN want' = Tasks /\ want'[current] = W
       /\ \A t \in Tasks \ {current} : want'[t] = want[t]
  BY <1>13, WantsCpu
<1>15. \A t \in Tasks \ {current} : mem'[t] = mem[t]
  BY <1>3, <1>8, <1>9, <1>12, <1>13 DEF OthersAs
<1>16. state' \in [Tasks -> {"unused", "ready", "asleep", "zombie"}] /\ state'[current] = "ready"
  BY <1>13 DEF ContextInv
<1> QED BY <1>12, <1>13, <1>14, <1>15, <1>16, StayOK

(***************************************************************************)
(* New tasks.                                                              *)
(***************************************************************************)
\* The words of a new stack, from the deepest to the topmost
LEMMA NewWords ==
    ASSUME NEW regs, DOMAIN regs = 1 .. 17, regs = [i \in 1 .. 17 |-> regs[i]],
           NEW w, w = regs \o <<K("pop_regs_and_sysret")>> \o [i \in 1 .. 6 |-> ZERO]
    PROVE  /\ Words(w, 24) /\ w[18] = K("pop_regs_and_sysret")
           /\ \A j \in 1 .. 17 : w[j] = regs[j]
<1>1. PICK a, b, S : /\ a = <<K("pop_regs_and_sysret")>> /\ b = [i \in 1 .. 6 |-> ZERO]
                     /\ S = {regs[i] : i \in 1 .. 17} \cup {K("pop_regs_and_sysret"), ZERO}
  OBVIOUS
<1>2. regs \in [1 .. 17 -> S]
  <2>1. \A i \in 1 .. 17 : regs[i] \in S
    BY <1>1
  <2> QED BY <2>1
<1>3. regs \in Seq(S) /\ Len(regs) = 17
  BY <1>2
<1>4. a \in Seq(S) /\ Len(a) = 1 /\ a[1] = K("pop_regs_and_sysret")
  BY <1>1
<1>5. b \in Seq(S) /\ Len(b) = 6
  <2>1. b \in [1 .. 6 -> S] /\ DOMAIN b = 1 .. 6 /\ 6 \in Nat
    BY <1>1
  <2>2. b \in Seq(S)
    BY <2>1, SeqDef
  <2>3. Len(b) = 6
    BY <2>1
  <2> QED BY <2>2, <2>3
<1>6. PICK f : f = regs \o a
  OBVIOUS
<1>7. f \in Seq(S) /\ Len(f) = 18 /\ \A i \in 1 .. 18 : f[i] = IF i <= 17 THEN regs[i] ELSE a[i - 17]
  <2>1. /\ regs \o a \in Seq(S) /\ Len(regs \o a) = Len(regs) + Len(a)
        /\ \A i \in 1 .. Len(regs) + Len(a) :
              (regs \o a)[i] = IF i <= Len(regs) THEN regs[i] ELSE a[i - Len(regs)]
    BY <1>3, <1>4, ConcatProperties
  <2> QED BY <1>3, <1>4, <1>6, <2>1
<1>8. Len(w) = 24 /\ \A i \in 1 .. 24 : w[i] = IF i <= 18 THEN f[i] ELSE b[i - 18]
  <2>1. w = f \o b
    BY <1>1, <1>6
  <2>2. /\ Len(f \o b) = Len(f) + Len(b)
        /\ \A i \in 1 .. Len(f) + Len(b) :
              (f \o b)[i] = IF i <= Len(f) THEN f[i] ELSE b[i - Len(f)]
    BY <1>5, <1>7, ConcatProperties
  <2>3. Len(f) = 18 /\ Len(b) = 6 /\ Len(w) = Len(f) + Len(b)
    BY <1>5, <1>7, <2>1, <2>2
  <2>4. \A i \in 1 .. 18 + 6 : w[i] = IF i <= 18 THEN f[i] ELSE b[i - 18]
    BY <2>1, <2>2, <2>3
  <2>5. 18 + 6 = 24
    OBVIOUS
  <2> QED BY <2>3, <2>4, <2>5
<1>9. w[18] = f[18] /\ f[18] = a[1]
  BY <1>7, <1>8
<1>10. \A j \in 1 .. 17 : w[j] = f[j] /\ f[j] = regs[j]
  <2> TAKE j \in 1 .. 17
  <2>1. j \in 1 .. 24 /\ j \in 1 .. 18 /\ j <= 17 /\ j <= 18
    OBVIOUS
  <2>2. w[j] = f[j]
    BY <1>8, <2>1
  <2>3. f[j] = regs[j]
    BY <1>7, <2>1
  <2> QED BY <2>2, <2>3
<1> QED BY <1>4, <1>8, <1>9, <1>10 DEF Words

\* init_task_stack puts the struct regs below the address of its return.
LEMMA InitStack ==
    ASSUME NEW k, DOMAIN k.mem = Tasks, NEW t \in Tasks,
           NEW regs, DOMAIN regs = 1 .. 17, regs = [i \in 1 .. 17 |-> regs[i]]
    PROVE  LET n == init_task_stack(k, t, regs)
           IN  /\ On(n, t, 0) /\ n.d = 24 /\ OthersAs(n, k, t)
               /\ Word(n, 6) = K("pop_regs_and_sysret")
               /\ \A j \in 1 .. 17 : Word(n, (7 + 17) - j) = regs[j]
<1>1. PICK w, q, n : /\ w = regs \o <<K("pop_regs_and_sysret")>> \o [i \in 1 .. 6 |-> ZERO]
                     /\ q = Machine([k.mem EXCEPT ![t] = <<>>], t, 0, k.r)
                     /\ n = Push(q, w)
  OBVIOUS
<1>2. Words(w, 24) /\ w[18] = K("pop_regs_and_sysret") /\ \A j \in 1 .. 17 : w[j] = regs[j]
  <2>1. w = regs \o <<K("pop_regs_and_sysret")>> \o [i \in 1 .. 6 |-> ZERO]
    BY <1>1
  <2> QED BY <2>1, NewWords
<1>3. q.mem = [k.mem EXCEPT ![t] = <<>>] /\ q.of = t /\ q.d = 0
  BY <1>1, MachineIs
<1>4. q.mem[t] = <<>> /\ DOMAIN q.mem = Tasks /\ OthersAs(q, k, t)
  BY <1>3 DEF OthersAs
<1>5. On(q, t, 0)
  <2>1. DOMAIN q.mem[t] = 0 + 1 .. 0
    BY <1>4
  <2> QED BY <1>3, <1>4, <2>1 DEF On
<1>6. /\ On(n, t, 0) /\ n.d = q.d + 24 /\ OthersAs(n, q, t)
      /\ \A i \in 0 .. 24 - 1 : Word(n, i) = w[24 - i]
  <2>1. 24 \in Nat /\ Words(w, 24) /\ n = Push(q, w)
    BY <1>1, <1>2
  <2> QED BY <1>5, <2>1, PushOK
<1>7. n.d = 24 /\ Word(n, 6) = K("pop_regs_and_sysret")
  BY <1>2, <1>3, <1>6
<1>8. ASSUME NEW j \in 1 .. 17 PROVE Word(n, (7 + 17) - j) = regs[j]
  <2>1. (7 + 17) - j \in 0 .. 24 - 1 /\ 24 - ((7 + 17) - j) = j
    OBVIOUS
  <2> QED BY <1>2, <1>6, <2>1
<1>9. OthersAs(n, k, t)
  BY <1>4, <1>6 DEF OthersAs
<1>10. init_task_stack(k, t, regs) = n
  BY <1>1 DEF init_task_stack
<1> QED BY <1>6, <1>7, <1>8, <1>9, <1>10

\* The struct regs that a new task is given makes it start with W.
StartsWith(regs, W) ==
    /\ DOMAIN regs = 1 .. 17 /\ regs = [i \in 1 .. 17 |-> regs[i]]
    /\ DOMAIN W = Reg /\ W["rcx"] = W["rip"] /\ W["r11"] = FLAGS
    /\ \A j \in 1 .. 17 : Regs[j] \notin {"rcx", "r11"} =>
          regs[j] = IF Regs[j] = "rbp" THEN ZERO ELSE W[Regs[j]]

\* So a new task has a frame that gives it W.
LEMMA NewFrame ==
    ASSUME NEW k, DOMAIN k.mem = Tasks, NEW t \in Tasks,
           NEW regs, NEW W, StartsWith(regs, W)
    PROVE  LET n == init_task_stack(k, t, regs)
           IN  ForkFrame(n, t, W) /\ n.d = 24 /\ OthersAs(n, k, t) /\ DOMAIN n.mem = Tasks
<1>1. PICK n : n = init_task_stack(k, t, regs)
  OBVIOUS
<1>2. DOMAIN regs = 1 .. 17 /\ regs = [i \in 1 .. 17 |-> regs[i]]
  BY DEF StartsWith
<1>3. /\ On(n, t, 0) /\ n.d = 24 /\ OthersAs(n, k, t)
      /\ Word(n, 6) = K("pop_regs_and_sysret")
      /\ \A j \in 1 .. 17 : Word(n, (7 + 17) - j) = regs[j]
  BY <1>1, <1>2, InitStack
<1>4. RegsFor(n, 7, W, {})
  BY <1>3 DEF RegsFor, StartsWith
<1>5. DOMAIN n.mem = Tasks
  BY <1>3 DEF On
<1> QED BY <1>1, <1>3, <1>4, <1>5 DEF ForkFrame

\* The struct that fork copies gives the child what its parent will find, and 0.
LEMMA ForkRegsOK ==
    ASSUME UserMode, DOMAIN cpu = Reg
    PROVE  StartsWith(ForkRegs(syscall_entry), Promised(ZERO))
<1>1. PICK k, W, regs : k = syscall_entry /\ W = Promised(ZERO) /\ regs = ForkRegs(k)
  OBVIOUS
<1>2. RegsFor(k, 1, W, {"rax"}) /\ W["rax"] = ZERO
  BY <1>1, PromisedRegs
<1>3. DOMAIN Regs = 1 .. 17 /\ Len(Regs) = 17
  BY RegsNames DEF Names
<1>4. RegsAt("rax") \in 1 .. 17 /\ Regs[RegsAt("rax")] = "rax"
  BY RegsAtOK DEF Reg, Scratch
<1>5. PICK h : h = RegsAt("rax")
  OBVIOUS
<1>6. regs = [i \in 1 .. 17 |-> IF i = h THEN ZERO ELSE Word(k, (1 + 17) - i)]
  BY <1>1, <1>3, <1>5 DEF ForkRegs
<1>7. ASSUME NEW j \in 1 .. 17, Regs[j] \notin {"rcx", "r11"}
      PROVE  regs[j] = IF Regs[j] = "rbp" THEN ZERO ELSE W[Regs[j]]
  <2>1. CASE j = h
    BY <1>2, <1>4, <1>5, <1>6, <2>1
  <2>2. CASE j # h
    <3>1. Regs[j] # "rax"
      BY <1>4, <1>5, <2>2, RegsNames DEF Names
    <3>2. Word(k, (1 + 17) - j) = IF Regs[j] = "rbp" THEN ZERO ELSE W[Regs[j]]
      BY <1>2, <1>7, <3>1 DEF RegsFor
    <3> QED BY <1>6, <2>2, <3>2
  <2> QED BY <2>1, <2>2
<1>8. DOMAIN regs = 1 .. 17 /\ regs = [i \in 1 .. 17 |-> regs[i]]
  BY <1>6
<1>9. StartsWith(regs, W)
  BY <1>2, <1>7, <1>8 DEF StartsWith, RegsFor
<1> QED BY <1>1, <1>9

\* A fork keeps the invariant, for the parent and for the child.
LEMMA ForkOK ==
    ASSUME ContextInv, NEW c \in Tasks, Fork(c)
    PROVE  ContextInv'
<1>1. UserMode /\ DOMAIN cpu = Reg /\ current \in Tasks
  BY DEF ContextInv, Given, UserMode
<1>2. PICK k, W, V, n, M, p, u :
         /\ k = syscall_entry /\ W = Promised(K("pid")) /\ V = Promised(ZERO)
         /\ n = init_task_stack(k, c, ForkRegs(k)) /\ M = n.mem /\ p = WithMem(k, M)
         /\ u = syscall_return(do_syscall(p, W["rax"]))
  OBVIOUS
<1>3. c # current
  BY DEF Fork, ContextInv
<1>4. On(k, current, 0) /\ k.d = 18 /\ \A t \in Tasks \ {current} : k.mem[t] = mem[t]
  BY <1>1, <1>2, SyscallEntered
<1>5. RegsFor(k, 1, W, {"rax"}) /\ W["rax"] = K("pid")
  BY <1>1, <1>2, PromisedRegs
<1>6. ForkFrame(n, c, V) /\ n.d = 24 /\ OthersAs(n, k, c) /\ DOMAIN n.mem = Tasks
  <2>1. StartsWith(ForkRegs(k), V)
    BY <1>1, <1>2, ForkRegsOK
  <2>2. DOMAIN k.mem = Tasks
    BY <1>4 DEF On
  <2>3. n = init_task_stack(k, c, ForkRegs(k))
    BY <1>2
  <2> QED BY <2>1, <2>2, <2>3, NewFrame
<1>7. DOMAIN M = Tasks /\ M[current] = k.mem[current]
  BY <1>1, <1>2, <1>3, <1>6 DEF OthersAs
<1>8. On(p, current, 0) /\ p.d = 18 /\ p.mem = M /\ RegsFor(p, 1, W, {"rax"})
  <2>1. p = WithMem(k, M)
    BY <1>2
  <2> QED BY <1>4, <1>5, <1>7, <2>1, SameStack
<1>9. /\ u.mem[current] = <<>> /\ DOMAIN u.mem = Tasks /\ OthersAs(u, p, current)
      /\ Given(u.r, W)
  <2>1. u = syscall_return(do_syscall(p, W["rax"]))
    BY <1>2
  <2> QED BY <1>8, <2>1, ResultOK
<1>10. /\ mem' = u.mem /\ cpu' = u.r /\ UNCHANGED <<current, tss_rsp0, syscall_sp>>
       /\ sp' = [sp EXCEPT ![c] = <<c, n.d>>]
       /\ want' = [want EXCEPT ![current] = W, ![c] = V]
       /\ state' = [state EXCEPT ![c] = "ready"]
  BY <1>2, <1>5 DEF Fork
<1>11. /\ DOMAIN want' = Tasks /\ want'[current] = W /\ want'[c] = V
       /\ \A t \in Tasks \ {current, c} : want'[t] = want[t]
  BY <1>1, <1>3, <1>10 DEF ContextInv
<1>12. /\ mem'[c] = n.mem[c] /\ \A t \in Tasks \ {current, c} : mem'[t] = mem[t]
  BY <1>2, <1>3, <1>4, <1>6, <1>8, <1>9, <1>10 DEF OthersAs
<1>13. /\ DOMAIN sp' = Tasks /\ \A t \in Tasks : sp'[t][1] = t /\ sp'[t][2] \in Nat
       /\ sp'[c][2] = n.d /\ \A t \in Tasks \ {c} : sp'[t] = sp[t]
  BY <1>6, <1>10 DEF ContextInv
<1>14. /\ state' \in [Tasks -> {"unused", "ready", "asleep", "zombie"}] /\ state'[current] = "ready"
       /\ \A t \in Tasks \ {c} : state'[t] = state[t]
  BY <1>1, <1>3, <1>10 DEF ContextInv
<1>15. UserMode'
  BY <1>1, <1>9, <1>10 DEF UserMode
<1>16. ASSUME NEW t \in Tasks \ {current}, state'[t] \in Alive
       PROVE  Frame(Machine(mem', t, sp'[t][2], cpu'), t, want'[t])
  <2>0. PICK z : z = Machine(mem', t, sp'[t][2], cpu')
    OBVIOUS
  <2>1. z.of = t /\ z.d = sp'[t][2] /\ z.mem = mem' /\ DOMAIN z.mem = Tasks
    BY <1>9, <1>10, <2>0, MachineIs
  <2>2. CASE t = c
    <3>1. Frame(n, c, V) /\ n.of = c
      BY <1>6 DEF Frame, ForkFrame, On
    <3>2. z.of = n.of /\ z.d = n.d /\ z.mem[c] = n.mem[c]
      BY <1>12, <1>13, <2>1, <2>2, <3>1
    <3>3. Frame(z, c, V)
      BY <2>1, <3>1, <3>2, FrameSame
    <3> QED BY <1>11, <2>0, <2>2, <3>3
  <2>3. CASE t # c
    <3>1. PICK w : w = Machine(mem, t, sp[t][2], cpu)
      OBVIOUS
    <3>2. w.of = t /\ w.d = sp[t][2] /\ w.mem = mem
      BY <3>1, MachineIs
    <3>3. Frame(w, t, want[t])
      BY <1>14, <1>16, <2>3, <3>1 DEF ContextInv
    <3>4. z.of = w.of /\ z.d = w.d /\ z.mem[t] = w.mem[t]
      BY <1>12, <1>13, <1>16, <2>1, <2>3, <3>2
    <3>5. Frame(z, t, want[t])
      BY <2>1, <3>3, <3>4, FrameSame
    <3> QED BY <1>11, <2>0, <2>3, <3>5
  <2> QED BY <2>2, <2>3
<1>17. Given(cpu', want'[current])
  BY <1>9, <1>10, <1>11
<1> QED BY <1>10, <1>11, <1>13, <1>14, <1>15, <1>16, <1>17 DEF ContextInv

\* What create_init gives init: it starts at e_entry on user_stack, and every
\* register it does not start with is 0 (or the flags).
InitWants ==
    [n \in Reg |-> IF n \in {"rip", "rcx"} THEN K("e_entry")
                   ELSE IF n = "rsp" THEN K("user_stack")
                   ELSE IF n = "r11" THEN FLAGS
                   ELSE ZERO]

\* init leaves the kernel with an empty stack and these registers.
LEMMA InitStarts ==
    /\ start_init.mem[1] = <<>> /\ DOMAIN start_init.mem = Tasks
    /\ Given(start_init.r, InitWants)
<1>1. PICK k, W, regs, n : /\ k = Machine([t \in Tasks |-> <<>>], 1, 0, [m \in Reg |-> JUNK])
                           /\ W = InitWants /\ regs = InitRegs
                           /\ n = init_task_stack(k, 1, regs)
  OBVIOUS
<1>2. 1 \in Tasks
  BY ContextAssumption DEF Tasks
<1>3. DOMAIN k.mem = Tasks
  BY <1>1, MachineIs
<1>4. DOMAIN Regs = 1 .. 17 /\ \A j \in 1 .. 17 : Regs[j] \in Reg
  BY RegsNames DEF Names
<1>5. /\ DOMAIN W = Reg /\ W["rcx"] = W["rip"] /\ W["r11"] = FLAGS
      /\ \A m \in Reg \ {"rcx", "r11"} : W[m] = IF m = "rip" THEN K("e_entry")
                                              ELSE IF m = "rsp" THEN K("user_stack") ELSE ZERO
  BY <1>1 DEF InitWants, Reg, CalleeSaved, Scratch
<1>6. regs = [i \in 1 .. 17 |-> IF Regs[i] = "rip" THEN K("e_entry")
                                ELSE IF Regs[i] = "rsp" THEN K("user_stack") ELSE ZERO]
  BY <1>1, <1>4 DEF InitRegs
<1>7. StartsWith(regs, W)
  <2>1. DOMAIN regs = 1 .. 17 /\ regs = [i \in 1 .. 17 |-> regs[i]]
    BY <1>6
  <2>2. ASSUME NEW j \in 1 .. 17, Regs[j] \notin {"rcx", "r11"}
        PROVE  regs[j] = IF Regs[j] = "rbp" THEN ZERO ELSE W[Regs[j]]
    BY <1>4, <1>5, <1>6, <2>2
  <2> QED BY <1>5, <2>1, <2>2 DEF StartsWith
<1>8. ForkFrame(n, 1, W)
  BY <1>1, <1>2, <1>3, <1>7, NewFrame
<1>9. start_init = Resume(PopRegs(n, Reverse(Switched)))
  BY <1>1 DEF start_init
<1>10. Frame(n, 1, W)
  BY <1>8 DEF Frame
<1>11. PICK u : u = Resume(PopRegs(n, Reverse(Switched)))
  OBVIOUS
<1>12. u.mem[1] = <<>> /\ DOMAIN u.mem = Tasks /\ Given(u.r, W)
  BY <1>10, <1>11, ResumeOK
<1> QED BY <1>1, <1>9, <1>11, <1>12

\* The invariant holds when init has started.
LEMMA InitOK == Init => ContextInv
<1> SUFFICES ASSUME Init PROVE ContextInv
  OBVIOUS
<1>1. PICK u : u = start_init
  OBVIOUS
<1>2. u.mem[1] = <<>> /\ DOMAIN u.mem = Tasks /\ DOMAIN u.r = Reg
  BY <1>1, InitStarts DEF Given
<1>3. /\ current = 1 /\ mem = u.mem /\ tss_rsp0 = <<1, 24>> /\ syscall_sp = <<1, 0>>
      /\ cpu = u.r /\ want = [t \in Tasks |-> u.r] /\ sp = [t \in Tasks |-> <<t, 24>>]
      /\ state = [t \in Tasks |-> IF t = 1 THEN "ready" ELSE "unused"]
  <2>1. Len(Regs) + 7 = 24
    BY RegsNames DEF Names
  <2> QED BY <1>1, <2>1 DEF Init
<1>4. 1 \in Tasks
  BY ContextAssumption DEF Tasks
<1>5. UserMode
  BY <1>2, <1>3, <1>4 DEF UserMode
<1>6. Given(cpu, want[current])
  <2>1. want[current] = u.r /\ cpu = u.r
    BY <1>3, <1>4
  <2>2. \A m \in Reg : u.r[m] \in Range(u.r)
    BY <1>2 DEF Range
  <2> QED BY <1>2, <2>1, <2>2 DEF Given
<1>7. \A t \in Tasks \ {current} : state[t] \notin Alive
  BY <1>3 DEF Alive
<1> QED BY <1>3, <1>4, <1>5, <1>6, <1>7 DEF ContextInv

\* User code keeps the invariant.
LEMMA ComputeOK ==
    ASSUME ContextInv, NEW v, Compute(v)
    PROVE  ContextInv'
<1>1. current \in Tasks /\ DOMAIN want = Tasks
  BY DEF ContextInv, UserMode
<1>2. /\ UNCHANGED <<current, sp, tss_rsp0, syscall_sp, mem, state>>
      /\ cpu' = UserRegs(v) /\ want' = [want EXCEPT ![current] = cpu']
  BY DEF Compute
<1>3. DOMAIN cpu' = Reg
  BY <1>2 DEF UserRegs
<1>4. /\ DOMAIN want' = Tasks /\ want'[current] = cpu'
      /\ \A t \in Tasks \ {current} : want'[t] = want[t]
  BY <1>1, <1>2
<1>5. Given(cpu', want'[current])
  <2>1. \A m \in Reg : cpu'[m] \in Range(cpu')
    BY <1>3 DEF Range
  <2> QED BY <1>3, <1>4, <2>1 DEF Given
<1>6. /\ DOMAIN mem' = Tasks /\ mem'[current] = <<>> /\ state'[current] = "ready"
      /\ state' \in [Tasks -> {"unused", "ready", "asleep", "zombie"}]
  BY <1>2 DEF ContextInv, UserMode
<1> QED BY <1>2, <1>4, <1>5, <1>6, StayOK

\* Every step keeps the invariant.
LEMMA StepOK == ContextInv /\ [Next]_vars => ContextInv'
<1> SUFFICES ASSUME ContextInv, [Next]_vars PROVE ContextInv'
  OBVIOUS
<1>1. CASE UNCHANGED vars
  BY <1>1 DEF vars, ContextInv, UserMode
<1>2. ASSUME NEW v \in Versions, Compute(v) PROVE ContextInv'
  BY <1>2, ComputeOK
<1>3. ASSUME NEW v, Interrupt(v) PROVE ContextInv'
  BY <1>3, InterruptOK
<1>4. CASE Fault
  BY <1>4 DEF Fault, ContextInv, UserMode
<1>5. CASE Syscall
  BY <1>5, SyscallOK
<1>6. CASE Exec
  BY <1>6, ExecOK
<1>7. ASSUME NEW t \in Tasks, Preempt(t) \/ Sleep(t) \/ Exit(t) \/ Wait(t) \/ Fork(t)
      PROVE  ContextInv'
  BY <1>7, PreemptOK, SleepOK, ExitOK, WaitOK, ForkOK
<1> QED BY <1>1, <1>2, <1>3, <1>4, <1>5, <1>6, <1>7 DEF Next

\* The invariant that the stacks and registers rest on holds in every run.
THEOREM FramesCorrect == Spec => []ContextInv
BY InitOK, StepOK, PTL DEF Spec

(***************************************************************************)
(* What follows.                                                           *)
(***************************************************************************)
\* A program that is interrupted, preempted, asleep in a call or freshly forked
\* comes back with its callee-saved registers but rbp, with its rip and rsp and
\* with the result of its call in rax: any number of tasks, stacks of any depth.
THEOREM RegistersCorrect == Spec => []RegistersKept
<1>1. ContextInv => RegistersKept
  BY DEF ContextInv, Given, KeptRegs, RegistersKept
<1> QED BY <1>1, FramesCorrect, PTL

\* The returns of syscall.asm and int_table.asm show a program no word that
\* another task or the kernel left behind.
THEOREM NoForeignCorrect == Spec => []NoForeignRegisters
<1>1. ContextInv => NoForeignRegisters
  BY DEF ContextInv, Given, NoForeignRegisters
<1> QED BY <1>1, FramesCorrect, PTL

\* A program in user mode has left nothing on its kernel stack, and switch_to
\* finds a task's words exactly below the stack pointer it saved.
THEOREM BalanceCorrect == Spec => []StackBalanced
<1>1. ContextInv => StackBalanced
  <2> SUFFICES ASSUME ContextInv PROVE StackBalanced
    OBVIOUS
  <2>1. mem[current] = <<>> /\ \A t \in Tasks : sp[t][1] = t
    BY DEF ContextInv, UserMode
  <2>2. ASSUME NEW t \in Tasks \ {current}, state[t] \in {"ready", "asleep"}
        PROVE  sp[t][2] \in DOMAIN mem[t] /\ \A d \in DOMAIN mem[t] : d <= sp[t][2]
    <3>1. PICK z : z = Machine(mem, t, sp[t][2], cpu)
      OBVIOUS
    <3>2. z.d = sp[t][2] /\ z.mem = mem
      BY <3>1, MachineIs
    <3>3. Frame(z, t, want[t])
      BY <2>2, <3>1 DEF ContextInv, Alive
    <3>4. z.d \in DOMAIN z.mem[t] /\ \A d \in DOMAIN z.mem[t] : d <= z.d
      BY <3>3, FrameOn
    <3> QED BY <3>2, <3>4
  <2> QED BY <2>1, <2>2 DEF StackBalanced
<1> QED BY <1>1, FramesCorrect, PTL

(***************************************************************************)
(* The PICs.                                                               *)
(***************************************************************************)
\* When nothing was in service, send_eoi ends what a vector raised: one interrupt
\* of the first PIC, or one of the second and its line of the first.
LEMMA EoiOfOne ==
    ASSUME NEW v \in Vectors, NEW t, inService = {}
    PROVE  Acknowledged(v, t) = {}
<1>1. CASE v = 0
  BY <1>1 DEF Acknowledged, send_eoi, Eoi, Raised, LineOf, PIC1, PIC2
<1>2. CASE v \in PIC1
  <2>0. v \notin PIC2 /\ ~(v >= 40) /\ LineOf(v) = v
    BY <1>2 DEF LineOf, PIC1, PIC2
  <2>1. Raised(v) = {v} /\ ~(v >= 40)
    BY <1>2, <2>0 DEF Raised
  <2>2. Eoi({v}, PIC1) = {}
    BY <1>2 DEF Eoi, PIC1
  <2> QED BY <2>1, <2>2 DEF Acknowledged, send_eoi
<1>3. CASE v \in PIC2
  <2>0. v >= 40 /\ v \notin PIC1 /\ 34 \in PIC1 /\ 34 \notin PIC2 /\ LineOf(v) = 34
    BY <1>3 DEF LineOf, CASCADE, PIC1, PIC2
  <2>1. Raised(v) = {34, v} /\ v >= 40 /\ v \notin PIC1 /\ 34 \in PIC1 /\ 34 \notin PIC2
    BY <1>3, <2>0 DEF Raised
  <2>2. Eoi({34, v}, PIC2) = {34}
    BY <1>3, <2>1 DEF Eoi, PIC2
  <2>3. Eoi({34}, PIC1) = {}
    BY <2>1 DEF Eoi
  <2> QED BY <2>1, <2>2, <2>3 DEF Acknowledged, send_eoi
<1> QED BY <1>1, <1>2, <1>3 DEF Vectors

\* Every step leaves no interrupt in service.
LEMMA EoiStep == NoneInService /\ [Next]_vars => NoneInService'
<1> SUFFICES ASSUME NoneInService, [Next]_vars PROVE NoneInService'
  OBVIOUS
<1>1. CASE UNCHANGED vars
  BY <1>1 DEF vars, NoneInService
<1>2. ASSUME NEW v, Compute(v) PROVE NoneInService'
  BY <1>2 DEF Compute, NoneInService
<1>3. ASSUME NEW v \in Vectors, Interrupt(v) PROVE NoneInService'
  <2>1. inService = {} /\ inService' = Acknowledged(v, current)
    BY <1>3 DEF Interrupt, Interrupted, Entered, NoneInService
  <2> QED BY <2>1, EoiOfOne DEF NoneInService
<1>4. ASSUME NEW t, Preempt(t) PROVE NoneInService'
  <2>1. inService = {} /\ inService' = Acknowledged(32, t)
    BY <1>4 DEF Preempt, Interrupted, Entered, NoneInService
  <2>2. 32 \in Vectors
    BY DEF Vectors, PIC1
  <2> QED BY <2>1, <2>2, EoiOfOne DEF NoneInService
<1>5. CASE Fault \/ Syscall \/ Exec
  BY <1>5 DEF Fault, Syscall, Exec, Called, NoneInService
<1>6. ASSUME NEW t, Sleep(t) \/ Exit(t) \/ Wait(t) \/ Fork(t) PROVE NoneInService'
  BY <1>6 DEF Sleep, Exit, Wait, Fork, Called, NoneInService
<1> QED BY <1>1, <1>2, <1>3, <1>4, <1>5, <1>6 DEF Next

\* isr_main_entry sends its EOI before it calls a handler that may switch away,
\* so no interrupt is left in service when any program runs again.
THEOREM EoiCorrect == Spec => []NoneInService
<1>1. Init => NoneInService
  BY DEF Init, NoneInService
<1> QED BY <1>1, EoiStep, PTL DEF Spec
=============================================================================
