---------------------------- MODULE GuestMachine ----------------------------
(***************************************************************************)
(* The machine of a guest thread, as the interpreter runs it (src/insn.cpp): *)
(* a program of a few kinds of instructions, registers, a stack of frames,   *)
(* the jump buffer of sigsetjmp and the depth of signal handlers.            *)
(* r0 stands for the caller-saved registers, r6 for the callee-saved ones,   *)
(* r10 is the number of the current frame.                                   *)
(***************************************************************************)
EXTENDS Naturals, Sequences, FiniteSets

CONSTANTS
    Programs,       \* a sequence of programs, each a sequence of instructions
    StackMax,       \* frames until STACK_BASE
    Modulus         \* registers hold 0 .. Modulus - 1

Frame(ret, old, r6, r0, sig) == [ret |-> ret, old |-> old, r6 |-> r6, r0 |-> r0, sig |-> sig]
NoMachine == [prog |-> 0]

(* How a thread has ended.                                                         *)
Running   == <<"running">>
Killed    == <<"killed">>
Exited(v) == <<"exit", v>>

(* The machine a program starts in: one sentinel frame, whose return address is 0. *)
Start(p) == [prog |-> p, pc |-> 1, r0 |-> 0, r6 |-> 0, r10 |-> 1,
             mem |-> [k \in 1 .. StackMax |-> Frame(0, 0, 0, 0, FALSE)],
             jb |-> [pc |-> 0], depth |-> 0]

Code(x) == Programs[x.prog].code
Insn(x) == Code(x)[x.pc]
Handler(x, s) == Programs[x.prog].handler[s]

Full(x) == x.r10 = StackMax

(* push_frame: the new frame saves r6..r9, a signal frame r0..r5 as well.        *)
Push(x, ret, sig) ==
    [x EXCEPT !.mem[x.r10 + 1] = Frame(ret, x.r10, x.r6, IF sig THEN x.r0 ELSE 0, sig),
              !.r10 = @ + 1,
              !.depth = IF sig THEN @ + 1 ELSE @]

Top(x) == x.mem[x.r10]
Pop(x) ==
    [x EXCEPT !.pc = Top(x).ret, !.r10 = Top(x).old, !.r6 = Top(x).r6,
              !.r0 = IF Top(x).sig THEN Top(x).r0 ELSE @,
              !.depth = IF Top(x).sig THEN @ - 1 ELSE @]

Next1(x) == [x EXCEPT !.pc = @ + 1]
Reg(x, n) == IF n = 0 THEN x.r0 ELSE x.r6

(* alu, jmp, and the calls of the VM itself.                                     *)
Inc(x, n) == IF n = 0 THEN [Next1(x) EXCEPT !.r0 = (@ + 1) % Modulus]
             ELSE [Next1(x) EXCEPT !.r6 = (@ + 1) % Modulus]
Jne(x, i) == IF Reg(x, i.reg) # i.val THEN [x EXCEPT !.pc = i.to] ELSE Next1(x)

Callee(x, i) == IF i.op = "icall" THEN i.to[x.r0 + 1] ELSE i.to
IsCall(i)    == i.op \in {"call", "icall"}
Call(x, i)   == [Push(x, x.pc + 1, FALSE) EXCEPT !.pc = Callee(x, i)]

(* do_syscall: the effect of a system call that completes, pc moved past it.     *)
IsSyscall(i) == i.op \in {"sys", "block", "setjmp", "longjmp", "exec"}
Syscall(x, i) ==
    CASE i.op \in {"sys", "block"} -> [Next1(x) EXCEPT !.r0 = 1]
      [] i.op = "setjmp"  -> [Next1(x) EXCEPT !.r0 = 0,
                                !.jb = [pc |-> x.pc, r6 |-> x.r6, r10 |-> x.r10, depth |-> x.depth]]
      [] i.op = "longjmp" -> [x EXCEPT !.pc = x.jb.pc + 1, !.r0 = 1, !.r6 = x.jb.r6,
                                       !.r10 = x.jb.r10, !.depth = x.jb.depth]
      [] i.op = "exec"    -> Start(i.to)

Exec(x) ==
    LET i == Insn(x) IN
    CASE i.op \in {"inc", "odd"} -> Inc(x, i.reg)
      [] i.op = "jne"  -> Jne(x, i)
      [] i.op = "ja"   -> [x EXCEPT !.pc = i.to]
      [] IsCall(i)     -> Call(x, i)
      [] i.op = "exit" -> Pop(x)
      [] IsSyscall(i)  -> Syscall(x, i)

AtBottom(x) == Insn(x).op = "exit" /\ Top(x).ret = 0
Quits(x)    == Insn(x).op = "quit"
Overflows(x) == IsCall(Insn(x)) /\ Full(x)

(* Delivery: the frame returns to the interrupted instruction, or past a call that
   blocks, which then reports EINTR (2).                                          *)
Delivered(x, s) ==
    {[Push(x, x.pc, TRUE) EXCEPT !.pc = Handler(x, s)]}
    \cup IF Insn(x).op # "block" THEN {}
         ELSE {[Push([x EXCEPT !.r0 = 2], x.pc + 1, TRUE) EXCEPT !.pc = Handler(x, s)]}
=============================================================================
