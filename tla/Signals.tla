------------------------------ MODULE Signals ------------------------------
(***************************************************************************)
(* Signal delivery to one guest thread: queue_signal run by any host       *)
(* thread, against the target's step loop, safepoint, handle_signals,      *)
(* deliver_signal, the signal frames of push_frame and pop_frame, the mask *)
(* calls, sigsuspend, and the restart of interrupted system calls, in the  *)
(* interpreter and from JIT-compiled code.                                 *)
(*                                                                         *)
(* Guest code is abstracted to two kinds of instruction, by the guest pc:  *)
(* "call" is a blocking system call, "user" anything else.  A blocking     *)
(* call is one of three kinds: "cond" sleeps in vm::wait_for (futex,       *)
(* wait4), "host" in a host system call (read, accept), "suspend" is       *)
(* rt_sigsuspend.                                                          *)
(***************************************************************************)
EXTENDS Naturals, SequencesExt, VmFlags

CONSTANTS
    Sender,     \* host threads that send signals to the target
    Sig,        \* ordinary signals
    Disp,       \* dispositions a signal may be given
    Special,    \* which of SIGKILL, SIGSTOP, SIGCONT are sent
    Ops,        \* which guest operations the thread performs
    QueSize,    \* BPF_SIGNAL_QUE_SIZE
    MaxDepth    \* signal frames the guest stack has room for

AllDisp == {"ign", "dfl_ign", "dfl_term", "dfl_stop", "catch", "catch_restart", "catch_info"}
AllOps == {"cond", "host", "suspend", "mask", "action", "signalfd", "longjmp"}

ASSUME SignalAssumption ==
    /\ Disp \subseteq AllDisp /\ Ops \subseteq AllOps
    /\ Special \subseteq {"KILL", "STOP", "CONT"}
    /\ QueSize \in Nat \ {0} /\ MaxDepth \in Nat

VARIABLES
    queue,      \* pending_signals
    flags,      \* the target's flags word
    mask,       \* sigmask
    act,        \* ps->signal_actions
    sfdmask,    \* mask of the process's signalfd, {} when it has none
    vpc,        \* where the target's host thread is
    code,       \* the guest pc
    kind,       \* the blocking call at the guest pc
    arg,        \* its argument: the mask rt_sigsuspend is given
    jit,        \* the call runs from JIT-compiled code
    restart,    \* restart_syscall_pc_ and restart_nohand_
    frames,     \* signal frames on the guest stack; their number is signal_depth
    spc         \* where each sender is in queue_signal

targetVars == <<mask, act, sfdmask, vpc, code, kind, arg, jit, restart, frames>>
vars == <<queue, flags, targetVars, spc>>

Frame == [ret : {"user", "call"}, siginfo : BOOLEAN]
Loc == {"step", "first", "stopwait", "second", "exec", "unmask", "cond", "condwait",
        "host", "hostwait", "hostintr", "suspend", "suspendwait", "gone"}

Init ==
    /\ queue = <<>>
    /\ flags = {}
    /\ mask = {} /\ act \in [Sig -> Disp] /\ sfdmask = {}
    /\ vpc = "step" /\ code = "user" /\ kind = "cond" /\ arg = {} /\ jit = FALSE
    /\ restart = "none" /\ frames = <<>>
    /\ spc = [s \in Sender |-> "idle"]

---------------------------------------------------------------------------
(* queue_signal *)

Kick(s) == spc' = [spc EXCEPT ![s] = "kick"]

\* A signal that reaches queue_signal's tail is pushed and its flag set in one
\* critical section; a full queue drops it without a trace.
Send(s, sig) ==
    /\ spc[s] = "idle"
    /\ \/ /\ act[sig] = "dfl_stop"
          /\ flags' = flags \cup {"STOPPED"}
          /\ UNCHANGED <<queue, spc>>
       \/ /\ act[sig] \in {"ign", "dfl_ign"} /\ sig \notin mask
          /\ UNCHANGED <<queue, flags, spc>>
       \/ /\ act[sig] # "dfl_stop" /\ (act[sig] \notin {"ign", "dfl_ign"} \/ sig \in mask)
          /\ \/ /\ Len(queue) >= QueSize
                /\ UNCHANGED <<queue, flags, spc>>
             \/ /\ Len(queue) < QueSize
                /\ queue' = Append(queue, sig)
                /\ flags' = flags \cup {"SIGNAL_PENDING"}
                /\ Kick(s)
    /\ UNCHANGED targetVars

SendSpecial(s, sig) ==
    /\ spc[s] = "idle"
    /\ \/ sig = "KILL" /\ flags' = flags \cup {"KILLED"} /\ Kick(s)
       \/ sig = "STOP" /\ flags' = flags \cup {"STOPPED"} /\ UNCHANGED spc
       \/ sig = "CONT" /\ flags' = flags \ {"STOPPED"} /\ UNCHANGED spc
    /\ UNCHANGED <<queue, targetVars>>

\* pthread_kill(SIGUSR1): a target inside a host system call gets EINTR; one that
\* has not entered it yet, or has left it, notices nothing.
SendKick(s) ==
    /\ spc[s] = "kick"
    /\ spc' = [spc EXCEPT ![s] = "idle"]
    /\ vpc' = IF vpc = "hostwait" THEN "hostintr" ELSE vpc
    /\ UNCHANGED <<queue, flags, mask, act, sfdmask, code, kind, arg, jit, restart, frames>>

---------------------------------------------------------------------------
(* safepoint, handle_signals, deliver_signal *)

Unblocked(q) == {i \in DOMAIN q : q[i] \notin mask}

\* handle_signals' scan: the first unblocked event is chosen; the blocked ones
\* before it go to the signalfd or, deferred, to the back of the queue.
Deferred(q) ==
    LET kept[i \in 0..Len(q)] ==
            IF i = 0 THEN <<>>
            ELSE IF q[i] \in sfdmask THEN kept[i - 1] ELSE Append(kept[i - 1], q[i])
    IN  kept[Len(q)]
Scan ==
    LET n == CHOOSE i \in Unblocked(queue) : \A j \in Unblocked(queue) : i <= j
    IN  IF Unblocked(queue) = {}
          THEN [chosen |-> {}, rest |-> Deferred(queue)]
          ELSE [chosen |-> {queue[n]},
                rest |-> SubSeq(queue, n + 1, Len(queue)) \o Deferred(SubSeq(queue, 1, n - 1))]

\* Mutant: the restart is left for later.
ResumeLater == UNCHANGED <<code, restart, frames>>

\* No handler runs: a pending restart sends the guest back to its call.
Resume ==
    /\ code' = IF restart = "none" THEN code ELSE "call"
    /\ restart' = "none"
    /\ UNCHANGED frames

\* A handler runs: push_frame, with the return address the restart decides.
PushHandler(d) ==
    /\ frames' = Append(frames,
          [ret |-> IF restart = "none" THEN code
                   ELSE IF d = "catch_restart" /\ restart = "sys" THEN "call" ELSE "user",
           siginfo |-> (d = "catch_info")])
    /\ code' = "user"
    /\ restart' = "none"

\* Mutant: a scan that chose nothing clears the flag though events are left.
ScanFlagsClear(rest) == flags \ {"SIGNAL_PENDING"}

\* A scan that chose nothing clears the flag only when the queue is empty.
ScanFlags(rest) == IF rest = <<>> THEN flags \ {"SIGNAL_PENDING"} ELSE flags

\* deliver_signal; control goes on to next, or the thread ends.
Deliver(next) ==
    /\ queue' = Scan.rest
    /\ IF Scan.chosen = {}
         THEN /\ flags' = ScanFlags(Scan.rest)
              /\ Resume /\ vpc' = next
         ELSE \E e \in Scan.chosen :
              LET d == act[e] IN
                 \/ /\ d \in {"ign", "dfl_ign"}
                    /\ Resume /\ vpc' = next /\ UNCHANGED flags
                 \/ /\ d = "dfl_stop"
                    /\ flags' = flags \cup {"STOPPED"}
                    /\ Resume /\ vpc' = next
                 \/ /\ d = "dfl_term"
                    /\ vpc' = "gone" /\ UNCHANGED <<flags, code, restart, frames>>
                 \/ /\ d \in {"catch", "catch_restart", "catch_info"} /\ Len(frames) < MaxDepth
                    /\ PushHandler(d) /\ vpc' = next /\ UNCHANGED flags
                 \/ /\ d \in {"catch", "catch_restart", "catch_info"} /\ Len(frames) >= MaxDepth
                    /\ vpc' = "gone" /\ UNCHANGED <<flags, code, restart, frames>>
    /\ UNCHANGED <<mask, act, sfdmask, kind, arg, jit, spc>>

Goto(l) ==
    /\ vpc' = l
    /\ UNCHANGED <<queue, flags, mask, act, sfdmask, code, kind, arg, jit, restart, frames,
                   spc>>

\* Mutant: the step loop overlooks VM_SIGNAL_PENDING.
StepCheckNoSignal ==
    vpc = "step" /\ Goto(IF flags \ {"SIGNAL_PENDING"} = {} THEN "exec" ELSE "first")

\* step: any flag sends the thread through the safepoint.
StepCheck == vpc = "step" /\ Goto(IF flags = {} THEN "exec" ELSE "first")

SafepointFirst ==
    /\ vpc = "first"
    /\ IF frames = <<>> THEN Deliver("stopwait") ELSE Goto("stopwait")

SafepointStop ==
    /\ vpc = "stopwait"
    /\ \/ flags \cap Leaving # {} /\ Goto("gone")
       \/ flags \cap Leaving = {} /\ "STOPPED" \notin flags /\ Goto("second")

SafepointSecond == vpc = "second" /\ Deliver("exec")

---------------------------------------------------------------------------
(* Guest instructions *)

NextInsn == vpc' = "step"

Plain == vpc = "exec" /\ code = "user" /\ Goto("step")

\* The next guest instruction is a blocking call.
ReachCall(k, m) ==
    /\ vpc = "exec" /\ code = "user" /\ k \in Ops /\ (k = "suspend" \/ m = {})
    /\ NextInsn /\ code' = "call" /\ kind' = k /\ arg' = m
    /\ UNCHANGED <<queue, flags, mask, act, sfdmask, jit, restart, frames, spc>>

\* pop_frame of a signal frame; a SA_SIGINFO frame restores the mask its handler
\* left in the ucontext.
HandlerReturn(m) ==
    /\ vpc = "exec" /\ code = "user" /\ frames # <<>>
    /\ LET f == frames[Len(frames)] IN
         /\ mask' = IF f.siginfo THEN m ELSE mask
         /\ code' = f.ret
    /\ frames' = Front(frames)
    /\ NextInsn
    /\ UNCHANGED <<queue, flags, act, sfdmask, kind, arg, jit, restart, spc>>

\* do_sigprocmask and do_siglongjmp store the mask, then look at the queue.
SetMask(m) ==
    /\ vpc = "exec" /\ code = "user" /\ "mask" \in Ops
    /\ mask' = m /\ vpc' = "unmask"
    /\ UNCHANGED <<queue, flags, act, sfdmask, code, kind, arg, jit, restart, frames, spc>>

\* do_siglongjmp out of handlers: to a shallower signal_depth, with a saved mask.
LongJmp(n, m) ==
    /\ vpc = "exec" /\ code = "user" /\ "longjmp" \in Ops /\ n < Len(frames)
    /\ frames' = SubSeq(frames, 1, n)
    /\ mask' = m /\ vpc' = "unmask"
    /\ UNCHANGED <<queue, flags, act, sfdmask, code, kind, arg, jit, restart, spc>>

Rescan ==
    /\ vpc = "unmask"
    /\ flags' = IF queue # <<>> THEN flags \cup {"SIGNAL_PENDING"} ELSE flags
    /\ NextInsn
    /\ UNCHANGED <<queue, mask, act, sfdmask, code, kind, arg, jit, restart, frames, spc>>

DoSigaction(s, d) ==
    /\ vpc = "exec" /\ code = "user" /\ "action" \in Ops
    /\ act' = [act EXCEPT ![s] = d]
    /\ NextInsn
    /\ UNCHANGED <<queue, flags, mask, sfdmask, code, kind, arg, jit, restart, frames, spc>>

\* do_signalfd4, creating the descriptor or changing its mask.
DoSignalfd(m) ==
    /\ vpc = "exec" /\ code = "user" /\ "signalfd" \in Ops
    /\ sfdmask' = m
    /\ NextInsn
    /\ UNCHANGED <<queue, flags, mask, act, code, kind, arg, jit, restart, frames, spc>>

---------------------------------------------------------------------------
(* Blocking calls *)

\* The call ended with a result.  JIT-compiled code takes a leftover
\* restart_syscall_pc_ for its own and does not move past the call.
CallDone ==
    /\ NextInsn
    /\ code' = IF jit /\ restart # "none" THEN "call" ELSE "user"
    /\ UNCHANGED restart

\* SYSCALL_RESTART: do_syscall notes the restart; the interpreter's loop moves past
\* the instruction, JIT-compiled code stays at it.
CallRestart(r) ==
    /\ NextInsn
    /\ restart' = r
    /\ code' = IF jit THEN "call" ELSE "user"

Enter ==
    /\ vpc = "exec" /\ code = "call"
    /\ \/ /\ kind = "cond"
          /\ flags' = flags \cup {"BLOCKED"} /\ vpc' = "condwait" /\ UNCHANGED mask
       \/ /\ kind = "host"
          /\ vpc' = "host" /\ UNCHANGED <<flags, mask>>
       \/ /\ kind = "suspend"
          /\ mask' = arg /\ vpc' = "suspend" /\ UNCHANGED flags
    /\ jit' \in BOOLEAN
    /\ UNCHANGED <<queue, act, sfdmask, code, kind, arg, restart, frames, spc>>

\* Another guest thread's futex wake or a child's exit: wakeup(true).
CondWake ==
    /\ vpc = "condwait" /\ "BLOCKED" \in flags
    /\ flags' = flags \ {"BLOCKED"}
    /\ UNCHANGED <<queue, targetVars, spc>>

CondReturn ==
    /\ vpc = "condwait"
    /\ \/ WaitDone(flags) /\ CallDone
       \/ ~WaitDone(flags) /\ WaitInterrupted(flags) /\ CallRestart("sys")
    /\ flags' = flags \ {"BLOCKED"}
    /\ UNCHANGED <<queue, mask, act, sfdmask, kind, arg, jit, frames, spc>>

\* The host system call begins; it ends with data or, kicked, with EINTR.
HostBlock == vpc = "host" /\ Goto("hostwait")

HostData ==
    /\ vpc = "hostwait" /\ CallDone
    /\ UNCHANGED <<queue, flags, mask, act, sfdmask, kind, arg, jit, frames, spc>>

HostIntr ==
    /\ vpc = "hostintr" /\ CallRestart("sys")
    /\ UNCHANGED <<queue, flags, mask, act, sfdmask, kind, arg, jit, frames, spc>>

\* The loop of do_sigsuspend: leave for a kill, a stop or a deliverable signal;
\* else, under the queue lock, clear the flag and sleep.
SuspendLoop ==
    /\ vpc = "suspend"
    /\ \/ /\ flags \cap {"KILLED", "STOPPED", "DEBUG_STOP"} # {} \/ Unblocked(queue) # {}
          /\ CallRestart("nohand") /\ UNCHANGED flags
       \/ /\ flags \cap {"KILLED", "STOPPED", "DEBUG_STOP"} = {} /\ Unblocked(queue) = {}
          /\ flags' = (flags \ {"SIGNAL_PENDING"}) \cup {"BLOCKED"}
          /\ vpc' = "suspendwait" /\ UNCHANGED <<code, restart>>
    /\ UNCHANGED <<queue, mask, act, sfdmask, kind, arg, jit, frames, spc>>

SuspendWoken ==
    /\ vpc = "suspendwait" /\ WaitInterrupted(flags)
    /\ flags' = flags \ {"BLOCKED"}
    /\ vpc' = "suspend"
    /\ UNCHANGED <<queue, mask, act, sfdmask, code, kind, arg, jit, restart, frames, spc>>

---------------------------------------------------------------------------
\* What the target's host thread does on its own.
Target ==
    \/ StepCheck \/ SafepointFirst \/ SafepointStop \/ SafepointSecond
    \/ Plain \/ \E k \in Ops \cap {"cond", "host", "suspend"}, m \in SUBSET Sig : ReachCall(k, m)
    \/ \E m \in SUBSET Sig : HandlerReturn(m) \/ SetMask(m) \/ DoSignalfd(m)
                             \/ \E n \in 0..MaxDepth : LongJmp(n, m)
    \/ Rescan
    \/ \E s \in Sig, d \in Disp : DoSigaction(s, d)
    \/ Enter \/ CondReturn \/ HostBlock \/ HostIntr
    \/ SuspendLoop \/ SuspendWoken

SenderNext(s) ==
    \/ \E sig \in Sig : Send(s, sig)
    \/ \E sig \in Special : SendSpecial(s, sig)
    \/ SendKick(s)

Next == Target \/ CondWake \/ HostData \/ \E s \in Sender : SenderNext(s)

Spec == Init /\ [][Next]_vars

\* The host schedules the target's thread and a sender inside queue_signal; a
\* wake-up or data from elsewhere may never come.
FairSpec == Spec /\ WF_vars(Target) /\ \A s \in Sender : WF_vars(SendKick(s))

---------------------------------------------------------------------------
(* Properties *)

TypeOK ==
    /\ queue \in Seq(Sig) /\ Len(queue) <= QueSize
    /\ flags \subseteq Flag
    /\ mask \subseteq Sig /\ sfdmask \subseteq Sig
    /\ act \in [Sig -> Disp]
    /\ vpc \in Loc /\ code \in {"user", "call"}
    /\ kind \in {"cond", "host", "suspend"} /\ arg \subseteq Sig /\ jit \in BOOLEAN
    /\ restart \in {"none", "sys", "nohand"}
    /\ frames \in Seq(Frame) /\ Len(frames) <= MaxDepth
    /\ spc \in [Sender -> {"idle", "kick"}]

\* A signal the thread may take is never forgotten: while one is queued and not
\* masked, VM_SIGNAL_PENDING is set, or the thread is itself about to look at the
\* queue (sigsuspend clears the flag, sigprocmask and siglongjmp re-set it late).
PendingFlag ==
    Unblocked(queue) # {} /\ vpc # "gone" =>
        "SIGNAL_PENDING" \in flags \/ vpc \in {"unmask", "suspend"}

\* No guest instruction runs while the restart of an interrupted system call is
\* pending: deliver_signal has sent the guest back to the call, or returned EINTR.
RestartHonoured == vpc = "exec" => restart = "none"

\* A signal the thread may take gets it out of whatever it sleeps in and to the
\* scan that takes the first such signal from the queue (or the thread ends, or
\* masks it first).
Delivered ==
    (Unblocked(queue) # {}) ~> (vpc \in {"second", "gone"} \/ Unblocked(queue) = {})

\* A killed thread ends.
KillEnds == ("KILLED" \in flags) ~> (vpc = "gone")
=============================================================================
