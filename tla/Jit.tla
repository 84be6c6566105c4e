--------------------------------- MODULE Jit ---------------------------------
(***************************************************************************)
(* One guest thread that alternates between the interpreter and compiled     *)
(* code (vm::step in src/insn.cpp, JitCompiler in src/jit/jit_compiler.cpp,  *)
(* the control part of the two emitters): which functions are compiled and   *)
(* what the caches say of them, the chain of host calls between compiled     *)
(* functions and how it is left, registers that live in the host or in       *)
(* vm->reg, and other threads that raise flags at any moment.                *)
(* A pc becomes hot when the code's counter reaches its threshold; here it   *)
(* may at any visit of a pc of its program's hot set.                        *)
(***************************************************************************)
EXTENDS JitCode, SequencesExt

CONSTANTS
    Signal,         \* the signals others send, each once, those a program is sent in its own record
    CacheSlots,     \* kPcCacheSlots, small enough that pcs share a slot
    Stoppable       \* the programs that are stopped, once, and continued

VARIABLES
    vm,             \* vm->reg, vm->pc, the stack, the jump buffer, signal_depth
    restart,        \* restart_syscall_pc_, 0 for none
    flags,          \* EXITED, KILLED (set by the thread itself), BUDGET_EXCEEDED, STOPPED,
                    \* SIGNAL_PENDING, JIT_ABORT
    arch,
    entries,        \* entries_: pc -> "none", "compiled", "failed"
    pc_cache,       \* slot -> [gpa, ok]
    inline,         \* call_cache and ic_slots: <<entry, call>> -> callee, 0 empty
    host,           \* the compiled functions on the host stack, and where each is
    h,              \* host registers, and the pc they stand for
    before,         \* pc_before of step
    pend,           \* the signals queued
    sent,           \* the signals sent so far
    killed,         \* VM_KILLED set by another thread
    stops,          \* stops sent so far
    fin,            \* how the task has ended, for its reader
    mode            \* "step", "native", "returned", "interp", "exec", "dead"

jvars == <<vm, restart, flags, arch, entries, pc_cache, inline, host, h, before, stops, sent, mode>>
vars  == <<jvars, pend, killed, fin>>
env   == <<pend, killed, stops, sent>>
code  == <<entries, pc_cache, inline>>

Junk   == Modulus               \* what a host call leaves in a caller-saved register
NoRegs == [r0 |-> 0, r6 |-> 0, r10 |-> 0, ax |-> 0, pc |-> 0]

Raised == flags # {} \/ killed
Dying  == killed \/ flags \cap {"EXITED", "KILLED"} # {}

NoEntry == [gpa |-> 0, ok |-> FALSE]
Slot(pc) == pc % CacheSlots
CodeOf(p) == Programs[p].code
Hot(p) == Programs[p].hot
Sites(p) == Hot(p) \X {i \in DOMAIN CodeOf(p) : IsCall(CodeOf(p)[i])}
Empty(p) == /\ entries' = [i \in 1 .. Len(CodeOf(p)) |-> "none"]
            /\ pc_cache' = [s \in 0 .. CacheSlots - 1 |-> NoEntry]
            /\ inline' = [s \in Sites(p) |-> 0]

\* ------------------------------------------------------------ vm::safepoint
(* deliver_signal on s = [vm, restart, pend, flags]: no signal resumes an interrupted call;
   a signal gets a frame whose return address restarts the call or skips it with
   EINTR; without room for the frame the signal is gone, push_frame has set VM_KILLED
   and the answer is FALSE.                                                         *)
deliver_signal(s) ==
    IF s.pend = {}
    THEN {[s EXCEPT !.vm.pc = IF s.restart = 0 THEN @ ELSE s.restart, !.restart = 0,
                    !.flags = @ \ {"SIGNAL_PENDING"}]}
    ELSE LET back == IF s.restart = 0 THEN {s.vm}
                     ELSE {[s.vm EXCEPT !.pc = s.restart], [s.vm EXCEPT !.pc = s.restart + 1, !.r0 = 2]}
         IN  {IF Full(x) THEN [s EXCEPT !.vm.r0 = x.r0, !.restart = 0, !.pend = @ \ {sig},
                                        !.flags = @ \cup {"KILLED"}, !.ok = FALSE]
              ELSE [s EXCEPT !.vm = [Push(x, x.pc, TRUE) EXCEPT !.pc = Handler(x, sig)],
                             !.restart = 0, !.pend = @ \ {sig}] : x \in back, sig \in s.pend}

(* Whether a stopped thread may leave its wait in safepoint.                      *)
Ending == Dying \/ "BUDGET_EXCEEDED" \in flags
Awake  == Ending \/ "STOPPED" \notin flags

safepoint(s) ==
    LET once == IF s.vm.depth = 0 THEN deliver_signal(s) ELSE {s} IN
    UNION {IF ~x.ok THEN {x}
           ELSE IF Ending THEN {[x EXCEPT !.ok = FALSE]}
           ELSE deliver_signal(x) : x \in once}

Here == [vm |-> vm, restart |-> restart, pend |-> pend, flags |-> flags \ {"JIT_ABORT"}, ok |-> TRUE]
Safe(s) == /\ Awake
           /\ s \in safepoint(Here)
           /\ vm' = s.vm /\ restart' = s.restart /\ pend' = s.pend
           /\ flags' = s.flags

(* The task has ended for its reader when the thread raises a flag of its own end. *)
Ended(f) == IF fin = Running /\ "KILLED" \in f THEN Killed ELSE fin

Die == /\ mode' = "dead" /\ fin' = (IF fin = Running THEN Killed ELSE fin)
       /\ host' = <<>> /\ h' = NoRegs

\* --------------------------------------------------------- JitCompiler::compile
(* mark_failed: the entry is Failed, and the shadow cache says so of every pc from
   it to the refused instruction that is not compiled.                             *)
mark_failed(e, bad, c) ==
    [s \in DOMAIN c |->
        LET p == {i \in e .. bad : Slot(i) = s /\ entries[i] # "compiled"}
        IN IF p = {} THEN c[s] ELSE [gpa |-> CHOOSE i \in p : \A j \in p : j <= i, ok |-> FALSE]]

Refused(c, e) == {i \in discover_reachable(c, e) : ~Lowered(c[i])}

EnterHost(e) ==
    /\ before' = e
    /\ host' = <<[prog |-> vm.prog, e |-> e, at |-> e, lbl |-> "entry", k |-> 1, r6 |-> 0, r10 |-> 0]>>
    /\ mode' = "native" /\ h' = NoRegs

NoFunction == mode' = "interp" /\ UNCHANGED <<before, host, h>>

compile_cached ==
    LET c == pc_cache[Slot(vm.pc)] IN
    /\ c.gpa = vm.pc
    /\ IF c.ok THEN EnterHost(vm.pc) ELSE NoFunction
    /\ UNCHANGED code

compile_known ==
    /\ pc_cache[Slot(vm.pc)].gpa # vm.pc
    /\ entries[vm.pc] # "none"
    /\ LET ok == entries[vm.pc] = "compiled" IN
       /\ pc_cache' = [pc_cache EXCEPT ![Slot(vm.pc)] = [gpa |-> vm.pc, ok |-> ok]]
       /\ IF ok THEN EnterHost(vm.pc) ELSE NoFunction
    /\ UNCHANGED <<entries, inline>>

compile_cold ==
    /\ pc_cache[Slot(vm.pc)].gpa # vm.pc
    /\ entries[vm.pc] = "none"
    /\ NoFunction /\ UNCHANGED code

compile_hot ==
    /\ pc_cache[Slot(vm.pc)].gpa # vm.pc
    /\ entries[vm.pc] = "none" /\ vm.pc \in Hot(vm.prog)
    /\ LET bad == Refused(CodeOf(vm.prog), vm.pc) IN
       IF bad # {}
       THEN /\ entries' = [entries EXCEPT ![vm.pc] = "failed"]
            /\ pc_cache' = mark_failed(vm.pc, CHOOSE i \in bad : \A j \in bad : i <= j, pc_cache)
            /\ UNCHANGED inline /\ NoFunction
       ELSE /\ entries' = [entries EXCEPT ![vm.pc] = "compiled"]
            /\ pc_cache' = [pc_cache EXCEPT ![Slot(vm.pc)] = [gpa |-> vm.pc, ok |-> TRUE]]
            /\ inline' = [s \in DOMAIN inline |-> IF s[1] = vm.pc THEN 0 ELSE inline[s]]
            /\ EnterHost(vm.pc)

Compile ==
    /\ mode = "step"
    /\ compile_cached \/ compile_known \/ compile_cold \/ compile_hot
    /\ UNCHANGED <<vm, restart, flags, arch, env, fin>>

\* ------------------------------------------------------------------ compiled code
Act == host[Len(host)]
Blocks(a) ==
    CASE a.lbl \in {"entry", "no_entry"} ->
            IF arch = "x86" THEN x86_emit_prologue ELSE a64_emit_prologue
      [] a.lbl \in {"sp", "sp_over", "sp_slow", "sp_exit"} ->
            IF arch = "x86" THEN x86_emit_safepoint(a.at) ELSE a64_emit_safepoint(a.at)
      [] OTHER -> emit_instruction(arch, CodeOf(a.prog), a.e, a.at)
Op == Blocks(Act)[Act.lbl][Act.k]

Move(a) == host' = [host EXCEPT ![Len(host)] = a]
Ahead   == Move([Act EXCEPT !.k = @ + 1])
Jump(l) == Move([Act EXCEPT !.lbl = l, !.k = 1])
First(a, pc) == IF pc \in BackEdgeTargets(CodeOf(a.prog), a.e) THEN "sp" ELSE "main"
Land(pc) == Move([Act EXCEPT !.at = pc, !.lbl = First(Act, pc), !.k = 1])

HostView == [vm EXCEPT !.r0 = h.r0, !.r6 = h.r6, !.r10 = h.r10, !.pc = h.pc]
Take(x)  == [h EXCEPT !.r0 = x.r0, !.r6 = x.r6, !.r10 = x.r10, !.pc = x.pc]
Quiet    == UNCHANGED <<restart, flags, arch, code, before, mode, env, fin>>

(* Moves of registers between the host and vm->reg.                               *)
FlushRegs(op) == op.u = "flush" /\ vm' = [vm EXCEPT !.r0 = h.r0, !.r6 = h.r6] /\ Ahead /\ UNCHANGED h /\ Quiet
LoadRegs(op)  == op.u = "load_all" /\ h' = Take(vm) /\ Ahead /\ UNCHANGED vm /\ Quiet
LoadCaller(op) == op.u = "reload_caller" /\ h' = [h EXCEPT !.r0 = vm.r0] /\ Ahead /\ UNCHANGED vm /\ Quiet
ReloadRegs(op) ==
    /\ op.u = "reload"
    /\ h' = [h EXCEPT !.r0 = vm.r0, !.r6 = vm.r6, !.pc = Act.at + 1]
    /\ Land(Act.at + 1) /\ UNCHANGED vm /\ Quiet
LoadFrameReg(op)  == op.u = "load_r10" /\ h' = [h EXCEPT !.r10 = vm.r10] /\ Ahead /\ UNCHANGED vm /\ Quiet
StoreFrameReg(op) == op.u = "store_r10" /\ vm' = [vm EXCEPT !.r10 = h.r10] /\ Ahead /\ UNCHANGED h /\ Quiet
StorePc(op)       == op.u = "set_pc" /\ vm' = [vm EXCEPT !.pc = op.to] /\ Ahead /\ UNCHANGED h /\ Quiet

(* The count of a limited task is not kept: the limit may be reached at any safepoint. *)
Limited == Programs[vm.prog].limit
CheckBudget(op) ==
    /\ op.u = "budget" /\ (Ahead \/ (Limited /\ Jump(op.to)))
    /\ UNCHANGED <<vm, h>> /\ Quiet

(* Tests.                                                                         *)
Test(op, u, yes) == op.u = u /\ (IF yes THEN Jump(op.to) ELSE Ahead) /\ UNCHANGED <<vm, h>> /\ Quiet
Tests(op) ==
    \/ Test(op, "if_flags", Raised)
    \/ Test(op, "if_zero", h.ax = 0)
    \/ Test(op, "if_not_zero", h.ax # 0)
    \/ Test(op, "if_ret_zero", vm.mem[h.r10].ret = 0)
    \/ Test(op, "if_normal", ~vm.mem[h.r10].sig)
    \/ Test(op, "if_tag_not", inline[<<Act.e, Act.at>>] # Callee(HostView, CodeOf(Act.prog)[Act.at]))

ContinueCaller(op) ==
    /\ op.u = "if_pc_is"
    /\ IF vm.pc = op.pc THEN Land(op.pc) /\ h' = [h EXCEPT !.pc = op.pc] ELSE Jump(op.to) /\ UNCHANGED h
    /\ UNCHANGED vm /\ Quiet

(* The instruction itself, on the host's registers.                               *)
RunAlu(op) == op.u = "alu" /\ LET x == Inc(HostView, Insn(HostView).reg) IN
                       h' = Take(x) /\ Land(x.pc) /\ UNCHANGED vm /\ Quiet
RunBranch(op) == op.u = "branch" /\ LET x == Jne(HostView, Insn(HostView)) IN
                             h' = Take(x) /\ Land(x.pc) /\ UNCHANGED vm /\ Quiet
RunBranchOut(op) ==
    /\ op.u = "branch_out"
    /\ LET x == Jne(HostView, Insn(HostView)) IN
       /\ h' = Take(x)
       /\ IF x.pc = Act.at + 1 THEN Land(x.pc) ELSE Jump(op.to)
    /\ UNCHANGED vm /\ Quiet
RunGoto(op) == op.u = "goto" /\ h' = [h EXCEPT !.pc = op.to] /\ Land(op.to) /\ UNCHANGED vm /\ Quiet
RunBody(op) == /\ op.u = "body"
           /\ h' = [h EXCEPT !.pc = Act.at]
           /\ Jump(IF Act.lbl = "entry" THEN First(Act, Act.at) ELSE "main")
           /\ UNCHANGED vm /\ Quiet

(* Calls between compiled functions.                                              *)
\* Mutant: vm->reg[10] is not written.
PushHostOnly(op) ==
    /\ op.u = "push_inline"
    /\ IF Full(HostView) THEN Jump(op.to) /\ UNCHANGED <<vm, h>>
       ELSE LET x == Call(HostView, Insn(HostView)) IN
            vm' = [vm EXCEPT !.mem = x.mem] /\ h' = Take(x) /\ Ahead
    /\ Quiet

emit_push_frame_inline(op) ==
    /\ op.u = "push_inline"
    /\ IF Full(HostView) THEN Jump(op.to) /\ UNCHANGED <<vm, h>>
       ELSE LET x == Call(HostView, Insn(HostView)) IN
            /\ vm' = [vm EXCEPT !.mem = x.mem, !.r10 = x.r10]
            /\ h' = Take(x) /\ Ahead
    /\ Quiet

ReadInline(op) == /\ op.u = "load_cache" /\ h' = [h EXCEPT !.ax = inline[<<Act.e, Act.at>>]]
              /\ Ahead /\ UNCHANGED vm /\ Quiet

resolve_call(pc) == IF entries[pc] = "compiled" THEN pc ELSE 0

helper_resolve_and_cache(op) ==
    /\ op.u = "resolve"
    /\ LET t == resolve_call(op.to) IN
       /\ h' = [h EXCEPT !.ax = t]
       /\ IF t # 0 THEN inline' = [inline EXCEPT ![<<Act.e, Act.at>>] = t] /\ UNCHANGED vm
          ELSE vm' = [vm EXCEPT !.pc = op.to] /\ UNCHANGED inline
    /\ Ahead
    /\ UNCHANGED <<restart, flags, arch, entries, pc_cache, before, mode, env, fin>>

(* entry_fast: the callee saves the host's callee-saved registers, r10 among them. *)
CallFast(op) ==
    /\ op.u = "call_entry"
    /\ host' = Append([host EXCEPT ![Len(host)].lbl = "cont", ![Len(host)].k = 1],
                      LET a == [prog |-> Act.prog, e |-> h.ax, at |-> h.ax, lbl |-> "main", k |-> 1,
                                r6 |-> h.r6, r10 |-> h.r10]
                      IN [a EXCEPT !.lbl = First(a, h.ax)])
    /\ h' = [h EXCEPT !.ax = 0] /\ UNCHANGED vm /\ Quiet

LeaveHost(op) ==
    /\ op.u = "vm_exit"
    /\ IF Len(host) = 1
       THEN host' = <<>> /\ h' = NoRegs /\ mode' = "returned"
       ELSE host' = Front(host) /\ h' = [h EXCEPT !.r6 = Act.r6, !.r10 = Act.r10] /\ UNCHANGED mode
    /\ UNCHANGED <<vm, restart, flags, arch, code, before, env, fin>>

SetFlag(op) ==
    /\ op.u = "or"
    /\ flags' = flags \cup {op.flag}
    /\ fin' = IF fin # Running THEN fin ELSE IF op.flag = "EXITED" THEN Exited(h.r0) ELSE Killed
    /\ Ahead /\ UNCHANGED <<vm, h, restart, arch, code, before, mode, env>>

(* emit_exit on an ordinary frame, and helper_pop_frame on a signal frame.         *)
PopInline(op) ==
    /\ op.u = "pop_normal"
    /\ vm' = Pop([vm EXCEPT !.r0 = h.r0, !.r10 = h.r10])
    /\ Ahead /\ UNCHANGED h /\ Quiet
helper_pop_frame(op) ==
    /\ op.u = "pop_signal"
    /\ vm' = Pop(vm) /\ h' = [h EXCEPT !.r0 = Junk]
    /\ Ahead /\ Quiet

Helps(op, n) == op.u = "helper" /\ op.name = n

helper_safepoint(op) ==
    /\ Helps(op, "safepoint")
    /\ \E s \in safepoint(Here) :
         /\ Safe(s)
         /\ h' = [h EXCEPT !.r0 = Junk, !.ax = IF ~s.ok \/ s.vm.pc # vm.pc THEN 1 ELSE 0]
         /\ fin' = Ended(s.flags)
    /\ Ahead /\ UNCHANGED <<arch, code, before, mode, killed, stops, sent>>

(* push_frame from a helper: on vm->reg.  When the frame does not fit it sets VM_KILLED,
   and the helper of a direct call VM_EXITED as well.                               *)
helper_call_bpf(op) ==
    /\ Helps(op, "call_bpf")
    /\ IF Full(vm)
       THEN flags' = flags \cup {"KILLED", "EXITED"} /\ UNCHANGED vm /\ fin' = Ended(flags')
       ELSE vm' = [Push(vm, op.arg.ret, FALSE) EXCEPT !.pc = op.arg.callee] /\ UNCHANGED <<flags, fin>>
    /\ h' = [h EXCEPT !.r0 = Junk] /\ Ahead
    /\ UNCHANGED <<restart, arch, code, before, mode, env>>

helper_call_indirect_ic(op) ==
    /\ Helps(op, "call_indirect_ic")
    /\ LET t == Callee(vm, CodeOf(Act.prog)[Act.at]) IN
       /\ IF Full(vm)
          THEN flags' = flags \cup {"KILLED"} /\ UNCHANGED vm
          ELSE vm' = [Push(vm, op.arg, FALSE) EXCEPT !.pc = t] /\ UNCHANGED flags
       /\ inline' = IF Dying \/ Full(vm) \/ inline[<<Act.e, Act.at>>] = t \/ resolve_call(t) = 0 THEN inline
                    ELSE [inline EXCEPT ![<<Act.e, Act.at>>] = t]
    /\ fin' = Ended(flags') /\ h' = [h EXCEPT !.r0 = Junk] /\ Ahead
    /\ UNCHANGED <<restart, arch, entries, pc_cache, before, mode, env>>

\* ------------------------------------------------------------------- system calls
(* vm::do_syscall on the call at x: it blocks and is told to restart, or it completes;
   the pc it leaves has not been moved past the call.  Its answer is FALSE when the
   thread is dying.                                                                 *)
Interrupted(x) == [vm |-> x, restart |-> x.pc, ok |-> TRUE, quit |-> FALSE]
Completed(x)   == [vm |-> [Exec(x) EXCEPT !.pc = @ - 1], restart |-> restart, ok |-> ~Dying, quit |-> FALSE]
do_syscall(x) ==
    IF Quits(x) THEN {[vm |-> x, restart |-> restart, ok |-> FALSE, quit |-> TRUE]}
    ELSE {Completed(x)}
         \cup IF Insn(x).op = "block" /\ Raised THEN {Interrupted(x)} ELSE {}

(* What else the call leaves: execve drops the compiled code (JitCompiler::clear). *)
CallEffects(s, x) ==
    /\ IF Insn(x).op = "exec" THEN Empty(s.vm.prog) ELSE UNCHANGED code
    /\ restart' = s.restart

\* Mutant: a call that moved the pc raises no VM_JIT_ABORT and is not told apart.
SyscallGoesOn(op) ==
    /\ Helps(op, "do_syscall")
    /\ \E s \in do_syscall(vm) :
         LET goon == s.ok /\ s.restart = 0 /\ ~Dying /\ flags \cap {"STOPPED", "SIGNAL_PENDING"} = {}
         IN  /\ CallEffects(s, vm)
             /\ fin' = IF fin # Running \/ s.ok THEN fin ELSE IF s.quit THEN Exited(vm.r0) ELSE Killed
             /\ vm' = IF goon THEN s.vm ELSE Next1(s.vm)
             /\ flags' = flags \cup (IF s.quit THEN {"EXITED"} ELSE {})
             /\ h' = [h EXCEPT !.r0 = Junk, !.ax = IF goon THEN 1 ELSE 0]
    /\ Ahead /\ UNCHANGED <<arch, before, mode, env>>

helper_do_syscall(op) ==
    /\ Helps(op, "do_syscall")
    /\ \E s \in do_syscall(vm) :
         LET moved == s.vm.pc # vm.pc
             goon  == s.ok /\ ~moved /\ s.restart = 0 /\ ~Dying /\ flags \cap {"STOPPED", "SIGNAL_PENDING"} = {}
         IN  /\ CallEffects(s, vm)
             /\ fin' = IF fin # Running \/ s.ok THEN fin ELSE IF s.quit THEN Exited(vm.r0) ELSE Killed
             /\ vm' = IF goon \/ (s.restart # 0 /\ s.ok /\ ~moved) \/ (~s.ok /\ moved) THEN s.vm ELSE Next1(s.vm)
             /\ flags' = flags \cup (IF s.ok /\ moved THEN {"JIT_ABORT"} ELSE {})
                               \cup (IF s.quit THEN {"EXITED"} ELSE {})
             /\ h' = [h EXCEPT !.r0 = Junk, !.ax = IF goon THEN 1 ELSE 0]
    /\ Ahead /\ UNCHANGED <<arch, before, mode, env>>

\* ------------------------------------------------------------------------ vm::step
(* After the compiled function has returned.                                       *)
Returned ==
    /\ mode = "returned"
    /\ IF ~Raised
       THEN mode' = (IF vm.pc # before THEN "step" ELSE "interp") /\ UNCHANGED <<vm, restart, pend, flags, fin, host, h>>
       ELSE \E s \in safepoint(Here) :
              /\ Safe(s)
              /\ IF s.ok THEN mode' = (IF s.vm.pc # before THEN "step" ELSE "interp") /\ UNCHANGED <<fin, host, h>>
                 ELSE Die
    /\ UNCHANGED <<arch, code, before, killed, stops, sent>>

(* ... and before any interpreted instruction.                                      *)
InterpBudget ==
    /\ mode = "interp" /\ Limited
    /\ flags' = flags \cup {"BUDGET_EXCEEDED"} /\ Die
    /\ UNCHANGED <<vm, restart, arch, code, before, env>>

InterpSafepoint ==
    /\ mode = "interp" /\ Raised
    /\ \E s \in safepoint(Here) :
         /\ Safe(s)
         /\ IF s.ok THEN mode' = "exec" /\ UNCHANGED <<fin, host, h>> ELSE Die
    /\ UNCHANGED <<arch, code, before, killed, stops, sent>>

(* One interpreted instruction; run() then moves the pc.                            *)
Interpret ==
    /\ mode = "exec" \/ (mode = "interp" /\ ~Raised)
    /\ IF AtBottom(vm)
       THEN /\ fin' = (IF fin = Running THEN Exited(vm.r0) ELSE fin) /\ mode' = "dead"
            /\ UNCHANGED <<vm, restart, flags, code>>
       ELSE IF Overflows(vm)
       THEN /\ flags' = flags \cup {"KILLED"} /\ fin' = Ended(flags') /\ mode' = "dead"
            /\ UNCHANGED <<vm, restart, code>>
       ELSE IF IsSyscall(Insn(vm)) \/ Quits(vm)
       THEN \E s \in do_syscall(vm) :
              /\ CallEffects(s, vm)
              /\ vm' = Next1(s.vm)
              /\ flags' = flags \cup (IF s.quit THEN {"EXITED"} ELSE {})
              /\ mode' = IF s.ok THEN "step" ELSE "dead"
              /\ fin' = IF fin # Running \/ s.ok THEN fin
                        ELSE IF s.quit THEN Exited(vm.r0) ELSE Killed
       ELSE vm' = Exec(vm) /\ mode' = "step" /\ UNCHANGED <<restart, flags, fin, code>>
    /\ UNCHANGED <<arch, before, host, h, env>>

\* ---------------------------------------------------------------------- environment
JRaise == /\ mode # "dead" /\ fin = Running
          /\ \E s \in Programs[vm.prog].sends \ sent : pend' = pend \cup {s} /\ sent' = sent \cup {s}
          /\ flags' = flags \cup {"SIGNAL_PENDING"}
          /\ UNCHANGED <<vm, restart, arch, code, host, h, before, mode, killed, stops, fin>>
JKill  == mode # "dead" /\ ~killed /\ killed' = TRUE /\ UNCHANGED <<jvars, pend, fin>>
Stop   == /\ mode # "dead" /\ stops = 0 /\ vm.prog \in Stoppable /\ stops' = stops + 1 /\ flags' = flags \cup {"STOPPED"}
          /\ UNCHANGED <<vm, restart, arch, code, host, h, before, mode, pend, sent, killed, fin>>
Cont   == /\ "STOPPED" \in flags /\ flags' = flags \ {"STOPPED"}
          /\ UNCHANGED <<vm, restart, arch, code, host, h, before, mode, env, fin>>

Native ==
    mode = "native" /\ \E op \in {Op} :
       \/ FlushRegs(op) \/ LoadRegs(op) \/ LoadCaller(op) \/ ReloadRegs(op) \/ LoadFrameReg(op)
       \/ StoreFrameReg(op) \/ StorePc(op) \/ CheckBudget(op) \/ Tests(op) \/ ContinueCaller(op) \/ RunAlu(op)
       \/ RunBranch(op) \/ RunBranchOut(op) \/ RunGoto(op) \/ RunBody(op)
       \/ emit_push_frame_inline(op) \/ ReadInline(op) \/ helper_resolve_and_cache(op)
       \/ CallFast(op) \/ LeaveHost(op) \/ SetFlag(op) \/ PopInline(op) \/ helper_pop_frame(op)
       \/ helper_safepoint(op) \/ helper_call_bpf(op) \/ helper_call_indirect_ic(op)
       \/ helper_do_syscall(op)

Step == Compile \/ Native \/ Returned \/ InterpBudget \/ InterpSafepoint \/ Interpret

Init ==
    /\ arch \in Arch
    /\ \E p \in {p \in DOMAIN Programs : Programs[p].first} :
         /\ vm = Start(p)
         /\ entries = [i \in 1 .. Len(CodeOf(p)) |-> "none"]
         /\ inline = [s \in Sites(p) |-> 0]
    /\ pc_cache = [s \in 0 .. CacheSlots - 1 |-> NoEntry]
    /\ restart = 0 /\ flags = {} /\ host = <<>> /\ h = NoRegs /\ before = 0
    /\ pend = {} /\ sent = {} /\ killed = FALSE /\ stops = 0 /\ fin = Running /\ mode = "step"

Next == Step \/ JRaise \/ JKill \/ Stop \/ Cont

Spec == Init /\ [][Next]_vars /\ WF_vars(Step)

-----------------------------------------------------------------------------
(* The machine a reader of the thread sees: in vm->reg, or in the host's registers
   between the instructions of a compiled function.                               *)
HostTruth ==
    /\ mode = "native" /\ h.r0 # Junk
    /\ Act.lbl \notin {"entry", "no_entry", "cont"} /\ Op.u # "vm_exit"

CallDone == mode = "native" /\ h.r0 = Junk /\ h.ax = 1 /\ Act.lbl = "main"

View ==
    IF fin # Running THEN NoMachine
    ELSE IF HostTruth THEN HostView
    ELSE IF CallDone THEN Next1(vm)
    ELSE [vm EXCEPT !.pc = IF restart = 0 THEN @ ELSE restart]

G == INSTANCE Guest WITH m <- View

\* Compiled and interpreted execution, switched at any moment, calls across functions,
\* signals, sigsetjmp/siglongjmp, execve and the stack's end do to the guest what
\* interpreting it alone does.
GuestSpec == G!GSpec

\* Helpers find the current frame through vm->reg[10], which compiled code does not
\* flush: it agrees with the host's copy whenever compiled code holds the registers.
FrameRegisterSynced == HostTruth => vm.r10 = h.r10

\* The shadow cache and the inline caches name compiled functions only, the shadow cache
\* never hides one, and after execve no instruction of the old program runs: its
\* compiled functions only unwind from the host stack.
CodeSound ==
    /\ \A s \in DOMAIN pc_cache : pc_cache[s].gpa # 0 =>
            (pc_cache[s].ok <=> entries[pc_cache[s].gpa] = "compiled")
    /\ \A s \in DOMAIN inline : inline[s] # 0 => entries[inline[s]] = "compiled"
    /\ HostTruth => Act.prog = vm.prog

\* Compiled loops and compiled recursion notice the flags: a killed task ends, and a
\* signal is taken from the queue unless the task is stopped.
FlagsNoticed ==
    /\ killed ~> mode = "dead"
    /\ \A s \in Signal : (s \in pend) ~> (s \notin pend \/ mode = "dead" \/ "STOPPED" \in flags)
=============================================================================
