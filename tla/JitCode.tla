------------------------------- MODULE JitCode -------------------------------
(***************************************************************************)
(* The code the JIT emits for one instruction of Guest, as the control the   *)
(* host runs: labelled blocks of host operations.  What the operations       *)
(* compute is the matter of X86 and A64; here they are the places where      *)
(* registers move between the host and vm->reg, flags and pc are looked at,  *)
(* frames are pushed and popped, and control leaves.                         *)
(***************************************************************************)
EXTENDS GuestMachine, FiniteSets

Arch == {"x86", "a64"}

\* ---------------------------------------------------------------- host operations
Flush        == [u |-> "flush"]                 \* r0..r9 to vm->reg
Reload       == [u |-> "reload"]                \* r0..r9 from vm->reg; next instruction
ReloadCaller == [u |-> "reload_caller"]         \* r0..r5 from vm->reg
LoadAll      == [u |-> "load_all"]              \* r0..r10 from vm->reg
LoadR10      == [u |-> "load_r10"]
StoreR10     == [u |-> "store_r10"]
SetPc(t)     == [u |-> "set_pc", to |-> t]
PopSignal    == [u |-> "pop_signal"]            \* helper_pop_frame, its result to vm->pc
IfFlags(l)   == [u |-> "if_flags", to |-> l]
IfPcIs(t, l) == [u |-> "if_pc_is", pc |-> t, to |-> l]     \* t: the next instruction, otherwise l
IfZero(l)    == [u |-> "if_zero", to |-> l]
IfNotZero(l) == [u |-> "if_not_zero", to |-> l]
IfTagNot(l)  == [u |-> "if_tag_not", to |-> l]
LoadCache    == [u |-> "load_cache"]
PushInline(l) == [u |-> "push_inline", to |-> l]
IfRetZero(l) == [u |-> "if_ret_zero", to |-> l]
IfNormal(l)  == [u |-> "if_normal", to |-> l]
Budget(l)    == [u |-> "budget", to |-> l]      \* count the loop's instructions: at the limit, l
PopNormal    == [u |-> "pop_normal"]
Or(f)        == [u |-> "or", flag |-> f]
Helper(n, a) == [u |-> "helper", name |-> n, arg |-> a]
CallEntry    == [u |-> "call_entry"]            \* returns to the block "cont"
Resolve(t)   == [u |-> "resolve", to |-> t]     \* spill r0..r5, helper_resolve_and_cache, restore
Alu          == [u |-> "alu"]                   \* next instruction
Branch(t)    == [u |-> "branch", to |-> t]      \* taken: t; otherwise the next instruction
BranchOut(l) == [u |-> "branch_out", to |-> l]  \* taken: l; otherwise the next instruction
Goto(t)      == [u |-> "goto", to |-> t]
Body         == [u |-> "body"]                  \* from the checks before an instruction into it
VmExit       == [u |-> "vm_exit"]

FlushAndExit == <<Flush, VmExit>>

\* ------------------------------------------------------------------ x86_64
x86_emit_prologue ==
    [entry    |-> <<LoadAll, Flush, Helper("safepoint", 0), IfNotZero("no_entry"), ReloadCaller, Body>>,
     no_entry |-> <<VmExit>>]

x86_emit_safepoint(pc) ==
    [sp      |-> <<Budget("sp_over"), IfFlags("sp_slow"), Body>>,
     sp_over |-> <<Or("BUDGET_EXCEEDED"), VmExit>>,
     sp_slow |-> <<Flush, SetPc(pc), Helper("safepoint", 0), IfNotZero("sp_exit"), ReloadCaller, Body>>,
     sp_exit |-> <<VmExit>>]

x86_emit_call_syscall(pc) ==
    [main |-> <<Flush, SetPc(pc), Helper("do_syscall", pc), IfZero("exit"), Reload>>,
     exit |-> <<VmExit>>]

x86_emit_call_overflow_stub == <<Or("KILLED"), VmExit>>

\* Mutant: the caller goes on without asking where the callee returned to.
x86_cont_tail_blind(ret) == <<LoadR10, IfFlags("exit"), Goto(ret)>>

x86_emit_call_cont_tail(ret) ==
    <<LoadR10, IfFlags("exit"), IfPcIs(ret, "exit")>>

x86_emit_call_bpf(ret, callee) ==
    [main         |-> <<IfFlags("slow"), PushInline("overflow"), LoadCache, IfZero("slow_resolve"),
                        CallEntry>>,
     slow_resolve |-> <<Resolve(callee), IfZero("not_compiled"),
                        CallEntry>>,
     not_compiled |-> FlushAndExit,
     slow         |-> <<Flush, Helper("call_bpf", [ret |-> ret, callee |-> callee]), VmExit>>,
     overflow     |-> x86_emit_call_overflow_stub,
     cont         |-> x86_emit_call_cont_tail(ret),
     exit         |-> <<VmExit>>]

x86_emit_call_indirect(ret) ==
    [main     |-> <<IfFlags("slow"), IfTagNot("slow"), PushInline("overflow"), LoadCache,
                    IfZero("slow"), CallEntry>>,
     slow     |-> <<Flush, Helper("call_indirect_ic", ret), VmExit>>,
     overflow |-> x86_emit_call_overflow_stub,
     cont     |-> x86_emit_call_cont_tail(ret),
     exit     |-> <<VmExit>>]

x86_emit_exit ==
    [main         |-> <<IfRetZero("stack_bottom"), IfNormal("no_signal"), StoreR10,
                        PopSignal, VmExit>>,
     no_signal    |-> <<PopNormal, VmExit>>,
     stack_bottom |-> <<Flush, Or("EXITED"), VmExit>>]

x86_emit_set_pc_imm(to) == <<SetPc(to)>> \o FlushAndExit
x86_emit_jmp_deopt(to)  == [main |-> <<BranchOut("deopt")>>, deopt |-> <<SetPc(to)>> \o FlushAndExit]
x86_emit_ja(to)         == [main |-> <<Goto(to)>>]
x86_emit_jmp_in(to)     == [main |-> <<Branch(to)>>]

\* ------------------------------------------------------------------ aarch64
a64_emit_prologue ==
    [entry    |-> <<LoadAll, Flush, Helper("safepoint", 0), IfNotZero("no_entry"), ReloadCaller, Body>>,
     no_entry |-> <<VmExit>>]

\* Mutant: no check of the flags word.
a64_safepoint_blind(pc) == [sp |-> <<Body>>]

a64_emit_safepoint(pc) ==
    [sp      |-> <<Budget("sp_over"), IfFlags("sp_slow"), Body>>,
     sp_over |-> <<Or("BUDGET_EXCEEDED"), VmExit>>,
     sp_slow |-> <<Flush, SetPc(pc), Helper("safepoint", 0), IfNotZero("sp_exit"), ReloadCaller, Body>>,
     sp_exit |-> <<VmExit>>]

a64_emit_call_syscall(pc) ==
    [main |-> <<Flush, SetPc(pc), Helper("do_syscall", pc), IfZero("exit"), Reload>>,
     exit |-> <<VmExit>>]

a64_emit_call_overflow_stub == <<Or("KILLED"), VmExit>>

a64_emit_call_cont_tail(ret) ==
    <<LoadR10, IfFlags("exit"), IfPcIs(ret, "exit")>>

a64_emit_call_bpf(ret, callee) ==
    [main         |-> <<IfFlags("slow"), PushInline("overflow"), LoadCache, IfZero("slow_resolve"),
                        CallEntry>>,
     slow_resolve |-> <<Resolve(callee), IfZero("not_compiled"),
                        CallEntry>>,
     not_compiled |-> FlushAndExit,
     slow         |-> <<Flush, Helper("call_bpf", [ret |-> ret, callee |-> callee]), VmExit>>,
     overflow     |-> a64_emit_call_overflow_stub,
     cont         |-> a64_emit_call_cont_tail(ret),
     exit         |-> <<VmExit>>]

a64_emit_call_indirect(ret) ==
    [main     |-> <<IfFlags("slow"), IfTagNot("slow"), PushInline("overflow"), LoadCache,
                    IfZero("slow"), CallEntry>>,
     slow     |-> <<Flush, Helper("call_indirect_ic", ret), VmExit>>,
     overflow |-> a64_emit_call_overflow_stub,
     cont     |-> a64_emit_call_cont_tail(ret),
     exit     |-> <<VmExit>>]

a64_emit_exit ==
    [main         |-> <<IfRetZero("stack_bottom"), IfNormal("no_signal"), StoreR10,
                        PopSignal, VmExit>>,
     no_signal    |-> <<PopNormal, VmExit>>,
     stack_bottom |-> <<Flush, Or("EXITED"), VmExit>>]

a64_emit_set_pc_imm(to) == <<SetPc(to)>> \o FlushAndExit
a64_emit_jmp_deopt(to)  == [main |-> <<BranchOut("deopt")>>, deopt |-> <<SetPc(to)>> \o FlushAndExit]
a64_emit_ja(to)         == [main |-> <<Goto(to)>>]
a64_emit_jmp_in(to)     == [main |-> <<Branch(to)>>]

\* ------------------------------------------------------------------ the compiler
(* The instructions of the function entered at e: what control reaches from e
   without leaving it, never before e.                                          *)
Successors(c, i) ==
    CASE c[i].op = "exit" -> {}
      [] c[i].op = "ja"   -> {c[i].to}
      [] c[i].op = "jne"  -> {c[i].to, i + 1}
      [] OTHER            -> {i + 1}

discover_reachable(c, e) ==
    LET within[n \in 0 .. Len(c)] ==
            {e} \cup IF n = 0 THEN {}
                     ELSE {j \in UNION {Successors(c, i) : i \in within[n - 1]} : j >= e /\ j <= Len(c)}
    IN within[Len(c)]

BackEdgeTargets(c, e) ==
    {c[i].to : i \in {i \in discover_reachable(c, e) : c[i].op \in {"ja", "jne"} /\ c[i].to <= i}}

(* emit_instruction: the blocks of instruction i in the function entered at e.
   It refuses what the emitters cannot lower ("odd").                             *)
Lowered(i) == i.op # "odd"

emit_instruction(arch, c, e, pc) ==
    LET i   == c[pc]
        out == i.to < e
        x   == arch = "x86"
    IN  CASE i.op = "inc" -> [main |-> <<Alu>>]
          [] i.op = "ja"  ->
                IF out THEN [main |-> IF x THEN x86_emit_set_pc_imm(i.to) ELSE a64_emit_set_pc_imm(i.to)]
                ELSE IF x THEN x86_emit_ja(i.to) ELSE a64_emit_ja(i.to)
          [] i.op = "jne" ->
                IF out THEN IF x THEN x86_emit_jmp_deopt(i.to) ELSE a64_emit_jmp_deopt(i.to)
                ELSE IF x THEN x86_emit_jmp_in(i.to) ELSE a64_emit_jmp_in(i.to)
          [] i.op = "call"  -> IF x THEN x86_emit_call_bpf(pc + 1, i.to) ELSE a64_emit_call_bpf(pc + 1, i.to)
          [] i.op = "icall" -> IF x THEN x86_emit_call_indirect(pc + 1) ELSE a64_emit_call_indirect(pc + 1)
          [] i.op = "exit"  -> IF x THEN x86_emit_exit ELSE a64_emit_exit
          [] IsSyscall(i) \/ i.op = "quit" ->
                IF x THEN x86_emit_call_syscall(pc) ELSE a64_emit_call_syscall(pc)
=============================================================================
