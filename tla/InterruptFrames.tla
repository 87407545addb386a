-------------------------- MODULE InterruptFrames --------------------------
(***************************************************************************)
(* From an interrupt to its handler and back: the gates of                 *)
(* src/src/arch/idt.rs, the entry stubs of src/boot/long_mode.asm and      *)
(* src/src/sched/context_switch.asm, the two Rust handlers of              *)
(* src/src/interrupts.rs, and the first frame of a task from               *)
(* src/src/sched/task.rs.                                                  *)
(*                                                                         *)
(* The machine executes a stub one instruction per step on a stack of      *)
(* words, so what a handler reads and what iretq restores follow from the  *)
(* order of pushes and pops.  A word is a tuple: a register's own value, a *)
(* selector, flags, a code address, a stack depth or an immediate.  Code   *)
(* outside the stubs is one address per context.  The Rust handlers are    *)
(* one step each.  External: the CPU (gates, the frame it pushes, iretq)   *)
(* and the interrupt controller (requests, in-service bits; one EOI        *)
(* acknowledges the highest line in service, as PIC and LAPIC both do).    *)
(***************************************************************************)
EXTENDS Integers, Sequences, FiniteSets

CONSTANTS
  Exceptions,   \* the CPU exceptions that happen, out of 0 .. 31
  MaxNesting    \* bound: interrupts in progress at a time

ASSUME FrameConstants == Exceptions \subseteq 0 .. 31 /\ MaxNesting \in Nat

GPRs == <<"rax", "rbx", "rcx", "rdx", "rsi", "rdi", "rbp", "r8", "r9", "r10",
          "r11", "r12", "r13", "r14", "r15">>

Last(s) == s[Len(s)]
Front(s) == SubSeq(s, 1, Len(s) - 1)
Backwards(s) == [k \in 1 .. Len(s) |-> s[Len(s) + 1 - k]]

Imm(n) == <<"imm", n>>
Code(stub, n, k) == <<"code", stub, n, k>>
Boot == Code("boot", 0, 0)          \* kernel_main and the shell it ends in
Entry == Code("entry_point", 0, 0)  \* the entry point of a new task
KernelCS == <<"sel", 8>>
KernelDS == <<"sel", 16>>
Flags(on) == <<"flags", on>>
Depth(n) == <<"rsp", n>>
Lost == <<"lost">>                  \* a scratch register after a Rust call

VARIABLES
  regs,             \* the general registers and ds
  rip,              \* the next instruction
  IF_flag,          \* RFLAGS.IF
  stack,            \* the words on the running stack, the top last
  cpu,              \* "on", "halted" or "fault" (a fault of iretq itself)
  irr,              \* lines requesting an interrupt
  isr,              \* lines in service
  key,              \* a scancode waits in the keyboard controller
  preempt_enabled,  \* Scheduler::preempt_enabled, with a task in the queue
  shadow            \* history: registers, rip and stack of each interrupted context

vars == <<regs, rip, IF_flag, stack, cpu, irr, isr, key, preempt_enabled, shadow>>
machine == <<regs, rip, IF_flag, stack, cpu, shadow>>
devices == <<irr, isr, key>>

-----------------------------------------------------------------------------
(* The stubs, as sequences of instructions *)

Push(s) == [k \in 1 .. Len(s) |-> <<"push", s[k]>>]
Pop(s) == [k \in 1 .. Len(s) |-> <<"pop", s[k]>>]

\* Fault: vector 17 is given a dummy error code on top of the CPU's.
ISR_ERRWithout17 == {8, 10, 11, 12, 13, 14, 21, 30}

\* ISR_ERR is used for these vectors, ISR_NOERR (with its dummy 0) for others.
ISR_ERR == {8, 10, 11, 12, 13, 14, 17, 21, 30}

isr_common ==
  Push(GPRs) \o <<<<"call", "rust_isr_handler">>>> \o Pop(Backwards(GPRs))
    \o <<<<"add rsp", 2>>, <<"iretq", 0>>>>

isr_stub(n) ==
  (IF n \in ISR_ERR THEN <<>> ELSE <<<<"push imm", 0>>>>) \o <<<<"push imm", n>>>> \o isr_common

\* Fault: the registers are popped in the order they were pushed.
timer_isrSameOrder ==
  Push(GPRs) \o <<<<"push", "ds">>, <<"load ds", 16>>, <<"call", "rust_timer_handler">>>>
    \o <<<<"pop", "ds">>>> \o Pop(GPRs) \o <<<<"iretq", 0>>>>

timer_isr ==
  Push(GPRs) \o <<<<"push", "ds">>, <<"load ds", 16>>, <<"call", "rust_timer_handler">>>>
    \o <<<<"pop", "ds">>>> \o Pop(Backwards(GPRs)) \o <<<<"iretq", 0>>>>

spurious_isr == <<<<"iretq", 0>>>>

Program(stub, n) ==
  CASE stub = "isr" -> isr_stub(n)
    [] stub = "timer_isr" -> timer_isr
    [] stub = "spurious_isr" -> spurious_isr

\* isr_stub_table, as the number each of its 49 stubs pushes.
isr_stub_table == [i \in 0 .. 48 |-> IF i = 48 THEN 128 ELSE i]

\* idt::init: the stub behind each vector.
IDT(v) ==
  CASE v \in 0 .. 31 -> Code("isr", isr_stub_table[v], 1)
    [] v = 32 -> Code("timer_isr", 0, 1)
    [] v \in 33 .. 47 -> Code("isr", isr_stub_table[v - 1], 1)
    [] v = 128 -> Code("isr", isr_stub_table[48], 1)
    [] v = 255 -> Code("spurious_isr", 0, 1)

InterruptGate(v) == v # 128

\* The rows of InterruptContext, lowest address first.
InterruptContext ==
  Backwards(GPRs) \o <<"vector", "error_code", "rip", "cs", "rflags", "rsp", "ss">>

FieldAt(s, f) == Len(s) + 1 - CHOOSE k \in 1 .. Len(InterruptContext) : InterruptContext[k] = f
ctx(f) == stack[FieldAt(stack, f)]

-----------------------------------------------------------------------------
(* The CPU *)

ErrorCodeVectors == {8, 10, 11, 12, 13, 14, 17, 21, 30}

Deliver(v) ==
  /\ cpu = "on" /\ Len(shadow) < MaxNesting
  /\ stack' = stack \o <<KernelDS, Depth(Len(stack)), Flags(IF_flag), KernelCS, rip>>
                    \o (IF v \in ErrorCodeVectors THEN <<<<"err", v>>>> ELSE <<>>)
  /\ shadow' = Append(shadow, [regs |-> regs, rip |-> rip, stack |-> stack, vector |-> v])
  /\ rip' = IDT(v)
  /\ IF_flag' = (IF_flag /\ ~ InterruptGate(v))
  /\ UNCHANGED <<regs, cpu, preempt_enabled>>

\* Exceptions and int 0x80 come from the code outside the handlers.
Exception(v) == rip = Boot /\ Deliver(v) /\ UNCHANGED devices
Syscall == rip = Boot /\ Deliver(128) /\ UNCHANGED devices

\* Lines 0 (timer) and 1 (keyboard) are unmasked by init_pic.
Irq(i) ==
  /\ IF_flag /\ i \in irr /\ \A j \in irr \cup isr : i <= j
  /\ Deliver(32 + i)
  /\ irr' = irr \ {i} /\ isr' = isr \cup {i} /\ UNCHANGED key

\* A spurious interrupt sets no in-service bit: line 7, or vector 255.
Spurious(v) == IF_flag /\ Deliver(v) /\ UNCHANGED devices

TimerFires == irr' = irr \cup {0} /\ UNCHANGED <<machine, isr, key, preempt_enabled>>

\* The controller holds one scancode until it is read.
KeyPress ==
  /\ ~ key
  /\ key' = TRUE /\ irr' = irr \cup {1}
  /\ UNCHANGED <<machine, isr, preempt_enabled>>

Instruction == Program(rip[2], rip[3])[rip[4]]
InStub == cpu = "on" /\ rip[2] \in {"isr", "timer_isr", "spurious_isr"}
Advance == rip' = [rip EXCEPT ![4] = @ + 1]
Plain == UNCHANGED <<IF_flag, cpu, preempt_enabled, shadow>>

PushReg ==
  /\ InStub /\ Instruction[1] = "push"
  /\ stack' = Append(stack, regs[Instruction[2]])
  /\ Advance /\ Plain /\ UNCHANGED <<regs, devices>>

PushImm ==
  /\ InStub /\ Instruction[1] = "push imm"
  /\ stack' = Append(stack, Imm(Instruction[2]))
  /\ Advance /\ Plain /\ UNCHANGED <<regs, devices>>

\* mov ax, 0x10; mov ds, ax (rax is on the stack already)
LoadDs ==
  /\ InStub /\ Instruction[1] = "load ds"
  /\ regs' = [regs EXCEPT !["ds"] = KernelDS, !["rax"] = Lost]
  /\ Advance /\ Plain /\ UNCHANGED <<stack, devices>>

PopReg ==
  /\ InStub /\ Instruction[1] = "pop"
  /\ regs' = [regs EXCEPT ![Instruction[2]] = Last(stack)]
  /\ stack' = Front(stack)
  /\ Advance /\ Plain /\ UNCHANGED devices

AddRsp ==
  /\ InStub /\ Instruction[1] = "add rsp"
  /\ stack' = SubSeq(stack, 1, Len(stack) - Instruction[2])
  /\ Advance /\ Plain /\ UNCHANGED <<regs, devices>>

\* A code selector other than the kernel's faults; otherwise execution goes
\* on where the frame says, on the stack it names.
iretq ==
  /\ InStub /\ Instruction[1] = "iretq"
  /\ LET n == Len(stack)
     IN  IF stack[n - 1] # KernelCS
         THEN cpu' = "fault" /\ UNCHANGED <<regs, rip, IF_flag, stack, shadow>>
         ELSE /\ rip' = stack[n]
              /\ IF_flag' = stack[n - 2][2]
              /\ stack' = SubSeq(stack, 1, stack[n - 3][2])
              /\ shadow' = Front(shadow)
              /\ UNCHANGED <<regs, cpu>>
  /\ UNCHANGED <<devices, preempt_enabled>>

-----------------------------------------------------------------------------
(* The Rust handlers *)

\* The registers a call does not preserve.
Scratch == {"rax", "rcx", "rdx", "rsi", "rdi", "r8", "r9", "r10", "r11"}
Clobbered == [r \in DOMAIN regs |-> IF r \in Scratch THEN Lost ELSE regs[r]]

\* send_eoi: the highest line in service is acknowledged.
send_eoi == isr' = {i \in isr : \E j \in isr : j < i}

\* The vector comes from the stub's push.  Line 1 alone reads port 0x60.  The
\* tick of vector 32 changes nothing here: there is no current task before the
\* first switch, nobody has asked for a reschedule, and tick leaves the frame.
rust_isr_handler ==
  /\ InStub /\ Instruction = <<"call", "rust_isr_handler">>
  /\ LET vector == ctx("vector")[2]
     IN  /\ IF vector \in 32 .. 47 THEN send_eoi ELSE UNCHANGED isr
         /\ key' = (key /\ vector # 33)
         /\ IF vector = 8
            THEN cpu' = "halted" /\ UNCHANGED <<regs, rip, stack>>
            ELSE /\ UNCHANGED cpu
                 /\ regs' = Clobbered
                 /\ stack' = IF vector = 128
                             THEN [stack EXCEPT ![FieldAt(stack, "rax")] = <<"result">>]
                             ELSE stack
                 /\ Advance
  /\ UNCHANGED <<IF_flag, irr, preempt_enabled, shadow>>

\* Task::setup_initial_stack: the words it writes, the first one deepest.
setup_initial_stack ==
  <<KernelDS, Depth(0), Flags(TRUE), KernelCS, Entry, Imm(0), Imm(32), KernelDS>>
    \o [k \in 1 .. 15 |-> Imm(0)]

\* Fault: the timer's line is not acknowledged.
rust_timer_handlerNoEoi ==
  /\ InStub /\ Instruction = <<"call", "rust_timer_handler">>
  /\ regs' = Clobbered
  /\ stack' = IF preempt_enabled THEN setup_initial_stack ELSE stack
  /\ Advance
  /\ UNCHANGED <<IF_flag, cpu, devices, preempt_enabled, shadow>>

\* on_timer_tick and send_eoi, then preempt_schedule: current is still None,
\* so nothing is saved and the queued task's saved_rsp becomes the stack.
rust_timer_handler ==
  /\ InStub /\ Instruction = <<"call", "rust_timer_handler">>
  /\ send_eoi
  /\ regs' = Clobbered
  /\ stack' = IF preempt_enabled THEN setup_initial_stack ELSE stack
  /\ Advance
  /\ UNCHANGED <<IF_flag, cpu, irr, key, preempt_enabled, shadow>>

enable_preemption ==
  /\ rip = Boot /\ ~ preempt_enabled
  /\ preempt_enabled' = TRUE
  /\ UNCHANGED <<machine, devices>>

-----------------------------------------------------------------------------
(* Specifications *)

Init ==
  /\ regs = [r \in {GPRs[k] : k \in 1 .. Len(GPRs)} \cup {"ds"} |->
               IF r = "ds" THEN KernelDS ELSE <<"own", r>>]
  /\ rip = Boot
  /\ IF_flag = TRUE
  /\ stack = <<>>
  /\ cpu = "on"
  /\ irr = {} /\ isr = {} /\ key = FALSE
  /\ preempt_enabled = FALSE
  /\ shadow = <<>>

Step == PushReg \/ PushImm \/ LoadDs \/ PopReg \/ AddRsp \/ iretq
          \/ rust_isr_handler \/ rust_timer_handler

Next ==
  \/ \E v \in Exceptions : Exception(v)
  \/ Syscall
  \/ \E i \in {0, 1} : Irq(i)
  \/ \E v \in {39, 255} : Spurious(v)
  \/ TimerFires
  \/ KeyPress
  \/ Step
  \/ enable_preemption

Spec == Init /\ [][Next]_vars

-----------------------------------------------------------------------------
(* Properties *)

\* The CPU and device state have the types their names say, and execution never
\* runs off the end of a stub.
TypeOK ==
  /\ IF_flag \in BOOLEAN /\ key \in BOOLEAN /\ preempt_enabled \in BOOLEAN
  /\ cpu \in {"on", "halted", "fault"}
  /\ irr \subseteq {0, 1} /\ isr \subseteq {0, 1}
  /\ Len(shadow) <= MaxNesting
  /\ InStub => rip[4] \in 1 .. Len(Program(rip[2], rip[3]))

\* An interrupt is transparent: when iretq leaves a stub, through whatever
\* interrupts nested inside it, the interrupted code goes on at its own
\* instruction with its own registers and stack; only int 0x80 changes rax.
Transparent ==
  [][(iretq /\ cpu' = "on") =>
       LET was == Last(shadow)
       IN  /\ rip' = was.rip /\ stack' = was.stack
           /\ \A r \in DOMAIN regs :
                regs'[r] = IF was.vector = 128 /\ r = "rax" THEN <<"result">> ELSE was.regs[r]]_vars

\* The rows of InterruptContext line up with what the stubs and the CPU push:
\* the handler of an exception or a system call reads its vector, error code
\* and interrupted rip.
ContextIsRead ==
  (InStub /\ Instruction = <<"call", "rust_isr_handler">>) =>
    LET was == Last(shadow)
    IN  /\ ctx("rip") = was.rip /\ ctx("cs") = KernelCS
        /\ ctx("error_code") = IF was.vector \in ErrorCodeVectors THEN <<"err", was.vector>> ELSE Imm(0)
        /\ was.vector \in (0 .. 31) \cup {128} => ctx("vector") = Imm(was.vector)

\* Every line that went into service is acknowledged before its handler
\* returns, so the code outside the handlers never runs with a line blocked.
Acknowledged == (cpu = "on" /\ rip = Boot) => isr = {}

-----------------------------------------------------------------------------
(* What comments say and the code does not do; each is violated. *)

\* "IRQ 1 (vector 33) - Keyboard", reached through "ISR stubs 32-47 map to
\* table indices 32-47": the handler entered for a line is told its vector.
LineReachesItsHandler ==
  (InStub /\ Instruction = <<"call", "rust_isr_handler">>) =>
    (Last(shadow).vector \in 33 .. 47 => ctx("vector") = Imm(Last(shadow).vector))

\* "when the scheduler first switches to this task, it can iretq into it": the
\* iretq after setup_initial_stack's frame was popped does not fault.
FirstSwitchEnters == cpu # "fault"
=============================================================================
