------------------------------ MODULE Context ------------------------------
(***************************************************************************)
(* Registers and kernel stacks across interrupts, system calls and task    *)
(* switches: kernel/syscall.asm, drivers/int_table.asm, the dispatch in    *)
(* drivers/int.c, the fork frame of kernel/fork.c and switch_to of         *)
(* kernel/sched.c.                                                         *)
(*                                                                         *)
(* A kernel stack is a map from depths to words: depth 1 is the word just  *)
(* below stack_top.  The kernel runs with interrupts disabled (interrupt   *)
(* gates, FMASK), so a step goes from user mode to user mode: the entry of *)
(* one task and, when the kernel switches, the way out of another.  Inside *)
(* a step a machine k is passed along: the stacks, the stack pointer (the  *)
(* task whose stack it points into and a depth) and the registers.  Popped *)
(* words are forgotten; they read as JUNK.  Which task runs next and who   *)
(* is woken is left open here: modules Sched and Kernel say so.            *)
(***************************************************************************)
EXTENDS Integers, SequencesExt

CONSTANTS
    NTasks,              \* bound: tasks; task 1 is init
    KERNEL_STACK_WORDS,  \* KERNEL_STACK_SIZE in words
    MaxDepth,            \* bound: an interrupt is cut off when the stack
                         \* pointer it starts from is deeper
    Versions             \* bound: contents user code gives its registers

ASSUME ContextAssumption ==
    /\ NTasks \in Nat \ {0}
    /\ KERNEL_STACK_WORDS \in Nat /\ MaxDepth \in Nat

Tasks == 1 .. NTasks

CalleeSaved == {"rbx", "rbp", "r12", "r13", "r14", "r15"}
Scratch     == {"rax", "rcx", "rdx", "rsi", "rdi", "r8", "r9", "r10", "r11"}
Reg         == CalleeSaved \cup Scratch \cup {"rip", "rsp"}

\* Words: what user code of a task put in a register, or a kernel word.
User(t, n, v) == <<t, n, v>>
K(name)       == <<0, name, 0>>
ZERO  == K("0")
FLAGS == K("0x202")
JUNK  == K("junk")

VARIABLES
    cpu,        \* the registers, in user mode
    current,
    state,      \* task |-> "unused", "ready", "asleep" or "zombie"
    mem,        \* task |-> depth |-> word, its kernel stack
    sp,         \* task->sp: <<task, depth>>
    tss_rsp0,   \* __tss.rsp0
    syscall_sp, \* __current_task_stack
    inService,  \* interrupts the PICs have delivered and seen no EOI for
    halted,     \* a panic stopped the machine
    want        \* history: task |-> the registers its program must find

vars == <<cpu, current, state, mem, sp, tss_rsp0, syscall_sp, inService,
          halted, want>>

----------------------------------------------------------------------------
\* The stack machine.

Machine(stacks, of, d, r) == [mem |-> stacks, of |-> of, d |-> d, r |-> r]

WithRegs(k, r)     == Machine(k.mem, k.of, k.d, r)
WithMem(k, stacks) == Machine(stacks, k.of, k.d, k.r)
OnStack(k, ptr)    == Machine(k.mem, ptr[1], ptr[2], k.r)

At(ptr) == Machine(mem, ptr[1], ptr[2], cpu)

Word(k, i) ==
    LET d == k.d - i
    IN  IF d \in DOMAIN k.mem[k.of] THEN k.mem[k.of][d] ELSE JUNK

Push(k, words) ==
    LET new == k.d + 1 .. k.d + Len(words)
        old == k.mem[k.of]
    IN  Machine([k.mem EXCEPT ![k.of] = [d \in DOMAIN old \cup new |->
                    IF d \in new THEN words[d - k.d] ELSE old[d]]],
                k.of, k.d + Len(words), k.r)

Drop(k, n) ==
    LET old == k.mem[k.of]
    IN  Machine([k.mem EXCEPT ![k.of] = [d \in DOMAIN old \cap 1 .. k.d - n |-> old[d]]],
                k.of, k.d - n, k.r)

PushRegs(k, names) == Push(k, [i \in DOMAIN names |-> k.r[names[i]]])

PopRegs(k, names) ==
    LET Popped(n) == Word(k, CHOOSE i \in 0 .. Len(names) - 1 : names[i + 1] = n)
    IN  WithRegs(Drop(k, Len(names)),
                 [n \in Reg |-> IF n \in Range(names) THEN Popped(n) ELSE k.r[n]])

\* A call into C: it keeps the callee-saved registers and spoils the others.
Call(k, ret) ==
    WithRegs(Push(k, <<K(ret)>>), [n \in Reg |-> IF n \in Scratch THEN JUNK ELSE k.r[n]])

----------------------------------------------------------------------------
\* Interrupts: drivers/int_table.asm.

IsrSaved == <<"rdi", "rsi", "rdx", "rcx", "rax", "r8", "r9", "r10", "r11">>

IsrRestored == <<"rdi", "rsi", "rdx", "rcx", "rax", "r8", "r9", "r10", "r11">>

\* The frame the processor pushes on tss_rsp0
interrupt ==
    Push(At(tss_rsp0), <<K("ss"), cpu["rsp"], FLAGS, K("cs"), cpu["rip"]>>)

\* The stubs leave one info word on the stack, with or without an error code.
isr_stub(k) == Push(k, <<K("info")>>)

isr_common == Call(PushRegs(isr_stub(interrupt), IsrSaved), "isr_common")

iretq(k) ==
    WithRegs(Drop(k, 5), [k.r EXCEPT !["rip"] = Word(k, 0), !["rsp"] = Word(k, 3)])

isr_return(k) == iretq(Drop(PopRegs(Drop(k, 1), IsrRestored), 1))

----------------------------------------------------------------------------
\* System calls: kernel/syscall.asm.

\* struct regs, from its last member to its first
Regs == <<"rsp", "rip", "rax", "rbx", "rcx", "rdx", "rdi", "rsi", "rbp",
          "r8", "r9", "r10", "r11", "r12", "r13", "r14", "r15">>

RegsAt(n) == CHOOSE i \in DOMAIN Regs : Regs[i] = n

\* The syscall instruction: rcx becomes rip and r11 the flags.
syscall == [cpu EXCEPT !["rcx"] = cpu["rip"], !["r11"] = FLAGS]

sysret(k) == WithRegs(k, [k.r EXCEPT !["rip"] = k.r["rcx"]])

\* The user's rsp goes through rsp_scratch; rbp is zeroed before it is saved.
RegsAfterEntry == [syscall EXCEPT !["rbp"] = ZERO]

syscall_entry ==
    Call(PushRegs(WithRegs(At(syscall_sp), RegsAfterEntry), Regs), "syscall_entry")

\* Both returns pop the struct and take rip from its slot into rcx.
PopOrder == <<"r15", "r14", "r13", "r12", "r11", "r10", "r9", "r8", "rbp",
              "rsi", "rdi", "rdx", "rcx", "rbx", "rax">>

PopFrame(k) ==
    LET p == PopRegs(k, PopOrder)
    IN  WithRegs(Drop(p, 2), [p.r EXCEPT !["rcx"] = Word(p, 0), !["rsp"] = Word(p, 1),
                                         !["r11"] = FLAGS])

pop_regs_and_sysret(k) == sysret(PopFrame(Drop(k, 1)))

syscall_return(k) == sysret(PopFrame(Drop(k, 1)))

\* regs->n = v, in the struct that do_syscall was given
SetReg(k, n, v) ==
    WithMem(k, [k.mem EXCEPT ![k.of][k.d - 1 - Len(Regs) + RegsAt(n)] = v])

\* The case of do_syscall that was called has come to its end: regs->rax = ...
do_syscall(k, result) == SetReg(k, "rax", result)

----------------------------------------------------------------------------
\* kernel/fork.c: the stack of a new task

init_task_stack(k, t, regs) ==
    Push(Machine([k.mem EXCEPT ![t] = <<>>], t, 0, k.r),
         regs \o <<K("pop_regs_and_sysret")>> \o [i \in 1 .. 6 |-> ZERO])

\* *new->regs = *t->regs; new->regs->rax = 0
ForkRegs(k) ==
    [i \in DOMAIN Regs |-> IF i = RegsAt("rax") THEN ZERO
                           ELSE Word(k, 1 + Len(Regs) - i)]

----------------------------------------------------------------------------
\* kernel/sched.c: switch_to

\* Mutant: rbx is saved twice and r12 not at all.
SwitchedForgetsR12 == <<"rbp", "rbx", "rbx", "r13", "r14", "r15">>

Switched == <<"rbp", "rbx", "r12", "r13", "r14", "r15">>

\* The end of switch_to_asm: ret, and the returns up to user mode
Resume(k) ==
    CASE Word(k, 0) = K("pop_regs_and_sysret") -> pop_regs_and_sysret(k)
      [] Word(k, 0) = K("switch_to") /\ Word(k, 1) = K("isr_common") ->
            isr_return(Drop(k, 1))
      [] Word(k, 0) = K("switch_to") /\ Word(k, 1) = K("syscall_entry") ->
            syscall_return(do_syscall(Drop(k, 1), K("result")))
      [] OTHER -> WithRegs(k, [n \in Reg |-> JUNK])

\* Mutant: __current_task_stack stays that of the last task.
StackForSyscallsNotSet(t) == syscall_sp

\* Where the system calls of t will start on its stack
StackForSyscalls(t) == <<t, 0>>

\* Mutant: __tss.rsp0 stays that of the last task.
StackForInterruptsNotSet(t) == tss_rsp0

\* Where its interrupts will start: at the saved stack pointer
StackForInterrupts(t) == sp[t]

SwitchTo(k, t) ==
    LET out == PushRegs(Call(k, "switch_to"), Switched)
        in  == PopRegs(OnStack(out, sp[t]), Reverse(Switched))
        u   == Resume(in)
    IN  /\ current' = t
        /\ syscall_sp' = StackForSyscalls(t)
        /\ tss_rsp0' = StackForInterrupts(t)
        /\ sp' = [sp EXCEPT ![current] = <<out.of, out.d>>]
        /\ mem' = u.mem
        /\ cpu' = u.r

BackToUser(k) ==
    /\ mem' = k.mem
    /\ cpu' = k.r
    /\ UNCHANGED <<current, sp, tss_rsp0, syscall_sp>>

----------------------------------------------------------------------------
\* The two PICs, the second on a line of the first.  Each delivers an interrupt
\* unless one of the same or a higher priority is in service with it; an EOI
\* ends the one of highest priority.

PIC1 == 32 .. 39
PIC2 == 40 .. 47
CASCADE == 34

LineOf(v) == IF v \in PIC2 THEN CASCADE ELSE v

Deliverable(v) ==
    \A w \in inService : IF w \in PIC2 THEN v \in PIC2 => v < w ELSE LineOf(v) < w

Raised(v) == inService \cup ({LineOf(v), v} \cap (PIC1 \cup PIC2))

Eoi(s, pic) == {v \in s : v \in pic => \E w \in s \cap pic : w < v}

\* The first PIC gets an EOI for every vector, the second for its own.
send_eoi(s, vec) == Eoi(IF vec >= 40 THEN Eoi(s, PIC2) ELSE s, PIC1)

\* Mutant: the EOI comes behind the handler; only a task switched to in its interrupt sends it.
EoiAfterHandler(vec, t) ==
    IF t = current \/ Word(At(sp[t]), 7) = K("isr_common") THEN send_eoi(Raised(vec), vec)
    ELSE Raised(vec)

\* What isr_main_entry leaves in service.  send_eoi comes before the handler,
\* so it does not matter which task t the handler ends up in.
Acknowledged(vec, t) == send_eoi(Raised(vec), vec)

\* Bound: the kernel is entered with something different in every register, the
\* most telling contents for a program that the kernel treats alike with any.
UserRegs(v) == [n \in Reg |-> User(current, n, v)]
Entered     == ~halted /\ \E v \in Versions : cpu = UserRegs(v)

Ready == {t \in Tasks : state[t] = "ready"}

Interrupted(v) ==
    /\ Entered
    /\ tss_rsp0[2] <= MaxDepth
    /\ Deliverable(v)
    /\ want' = [want EXCEPT ![current] = cpu]
    /\ UNCHANGED halted

\* Vector 0x20 with alive_ticks at its limit and another task in the ring
Preempt(t) ==
    /\ t \in Ready \ {current}
    /\ Interrupted(32)
    /\ SwitchTo(isr_common, t)
    /\ inService' = Acknowledged(32, t)
    /\ UNCHANGED state

\* Vectors that return to the interrupted program: a tick within the time
\* slice, a key (which may wake a reader), and every vector without a case.
Interrupt(v) ==
    /\ Interrupted(v)
    /\ \/ UNCHANGED state
       \/ \E t \in Tasks : /\ v = 33
                           /\ state[t] = "asleep"
                           /\ state' = [state EXCEPT ![t] = "ready"]
    /\ BackToUser(isr_return(isr_common))
    /\ inService' = Acknowledged(v, current)

\* Those of the PICs, and one of the exceptions without a case
Vectors == {0} \cup PIC1 \cup PIC2

\* Vectors 6, 13 and 14: panic
Fault ==
    /\ Entered
    /\ halted' = TRUE
    /\ UNCHANGED <<cpu, current, state, mem, sp, tss_rsp0, syscall_sp,
                   inService, want>>

----------------------------------------------------------------------------
\* System calls

\* What the program finds after a system call: the syscall instruction spoils
\* rcx and r11, rax is the result, and nothing else has changed.
Promised(result) == [syscall EXCEPT !["rax"] = result]

Called(result) ==
    /\ Entered
    /\ want' = [want EXCEPT ![current] = Promised(result)]
    /\ UNCHANGED <<inService, halted>>

\* A call that does not sleep.  A wait frees a zombie and its stack.
Syscall ==
    /\ Called(K("result"))
    /\ BackToUser(syscall_return(do_syscall(syscall_entry, K("result"))))
    /\ UNCHANGED state

Wait(z) ==
    /\ state[z] = "zombie"
    /\ state' = [state EXCEPT ![z] = "unused"]
    /\ Called(K("result"))
    /\ BackToUser(syscall_return(do_syscall(
            WithMem(syscall_entry, [syscall_entry.mem EXCEPT ![z] = <<>>]), K("result"))))

\* A read or a wait that sleeps; the call completes when the task is resumed.
Sleep(t) ==
    /\ t \in Ready \ {current}
    /\ state' = [state EXCEPT ![current] = "asleep"]
    /\ Called(K("result"))
    /\ SwitchTo(syscall_entry, t)

\* exit; the parent may be waiting
Exit(t) ==
    /\ t \in Ready \ {current} \/ state[t] = "asleep"
    /\ state' = [state EXCEPT ![current] = "zombie", ![t] = "ready"]
    /\ Called(K("result"))
    /\ SwitchTo(syscall_entry, t)

Fork(c) ==
    /\ state[c] = "unused"
    /\ state' = [state EXCEPT ![c] = "ready"]
    /\ LET k   == syscall_entry
           new == init_task_stack(k, c, ForkRegs(k))
           u   == syscall_return(do_syscall(WithMem(k, new.mem), K("pid")))
       IN  /\ sp' = [sp EXCEPT ![c] = <<c, new.d>>]
           /\ mem' = u.mem
           /\ cpu' = u.r
    /\ want' = [want EXCEPT ![current] = Promised(K("pid")), ![c] = Promised(ZERO)]
    /\ Entered
    /\ UNCHANGED <<current, tss_rsp0, syscall_sp, inService, halted>>

\* exec_elf sets rip and rsp in task->regs; sched_exec returns 0.
ExecRegs(k) == SetReg(SetReg(k, "rip", K("e_entry")), "rsp", K("user_stack"))

Exec ==
    /\ Entered
    /\ BackToUser(syscall_return(do_syscall(ExecRegs(syscall_entry), ZERO)))
    /\ want' = [want EXCEPT ![current] =
            [Promised(ZERO) EXCEPT !["rip"] = K("e_entry"), !["rcx"] = K("e_entry"),
                                   !["rsp"] = K("user_stack")]]
    /\ UNCHANGED <<state, inService, halted>>

\* Any amount of user code
Compute(v) ==
    /\ ~halted
    /\ cpu' = UserRegs(v)
    /\ want' = [want EXCEPT ![current] = cpu']
    /\ UNCHANGED <<current, state, mem, sp, tss_rsp0, syscall_sp, inService, halted>>

----------------------------------------------------------------------------
\* create_init and start_init: init starts from the frame of a new task.

InitRegs == [i \in DOMAIN Regs |-> IF Regs[i] = "rip" THEN K("e_entry")
                                   ELSE IF Regs[i] = "rsp" THEN K("user_stack")
                                   ELSE ZERO]

\* The stack of init, and the registers it starts with
start_init ==
    LET k == Machine([t \in Tasks |-> <<>>], 1, 0, [n \in Reg |-> JUNK])
    IN  Resume(PopRegs(init_task_stack(k, 1, InitRegs), Reverse(Switched)))

Init ==
    /\ current = 1
    /\ state = [t \in Tasks |-> IF t = 1 THEN "ready" ELSE "unused"]
    /\ mem = start_init.mem
    /\ sp = [t \in Tasks |-> <<t, Len(Regs) + 7>>]
    /\ tss_rsp0 = <<1, Len(Regs) + 7>>
    /\ syscall_sp = <<1, 0>>
    /\ inService = {}
    /\ halted = FALSE
    /\ cpu = start_init.r
    /\ want = [t \in Tasks |-> start_init.r]

Next ==
    \/ \E v \in Versions : Compute(v)
    \/ \E v \in Vectors : Interrupt(v)
    \/ Fault \/ Syscall \/ Exec
    \/ \E t \in Tasks : Preempt(t) \/ Sleep(t) \/ Exit(t) \/ Wait(t) \/ Fork(t)

Spec == Init /\ [][Next]_vars

----------------------------------------------------------------------------

\* A program never notices that it was interrupted, preempted or put to sleep
\* by what the calling convention lets it keep in the callee-saved registers,
\* in rip and in rsp, and a system call returns its result in rax: to a forked
\* child 0, on whatever way and however long after the task gets the CPU back
\* (isr_common, syscall_entry, pop_regs_and_sysret).  rbp is the exception.
RegistersKept ==
    ~halted => \A n \in (CalleeSaved \ {"rbp"}) \cup {"rip", "rsp", "rax"} :
                    cpu[n] = want[current][n]

\* No register ever shows a program what another task or the kernel had in it:
\* what the returns to user mode pop is what this task's entry pushed.
NoForeignRegisters ==
    ~halted => \A n \in Reg : cpu[n] \in Range(want[current]) \cup {ZERO}

\* Entries and exits balance: a task in user mode has left nothing on its
\* kernel stack, and a task that lost the CPU has its words, on its own stack,
\* exactly below the stack pointer it will be resumed with.
StackBalanced ==
    ~halted =>
        /\ mem[current] = <<>>
        /\ \A t \in Tasks : sp[t][1] = t
        /\ \A t \in Tasks \ {current} :
                state[t] \in {"ready", "asleep"} =>
                    /\ sp[t][2] \in DOMAIN mem[t]
                    /\ \A d \in DOMAIN mem[t] : d <= sp[t][2]

\* In user mode neither PIC waits for an EOI, so the timer and the keyboard can
\* come, whatever interrupted the program and whichever task the handler ended
\* up in (send_eoi before the switch of isr_main_entry, which may not return,
\* and to both PICs for the vectors of the second).
NoneInService == ~halted => inService = {}

\* What struct isr_ctx says: r11 is on top of the stack and rdi deepest, so an
\* interrupt gives every register back.  isr_common pops in the push order.
InterruptsTransparent ==
    ~halted => \A n \in Reg \ {"rbp"} : cpu[n] = want[current][n]

\* What the comments of struct task_struct say of the stack: it has
\* KERNEL_STACK_SIZE bytes below stack_top.  switch_to gives the processor the
\* task's saved stack pointer, not stack_top, for its next interrupt, so every
\* preemption of a program that makes no system call starts further down.
StackInside ==
    \A t \in Tasks : state[t] # "unused" => sp[t][2] <= KERNEL_STACK_WORDS
====
