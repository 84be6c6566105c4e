---------------------------- MODULE ThreadGroup ----------------------------
(***************************************************************************)
(* The life of one thread group (a guest process other than pid 1): how    *)
(* its threads are created by do_clone, leave through exit, exit_group,    *)
(* SIGKILL, a fatal signal or a memory violation, converge before exec     *)
(* swaps the address space, and how the last one out publishes the exit    *)
(* code.  Every guest thread is a host pthread running vm::run, so the     *)
(* steps of different threads interleave between any two accesses to       *)
(* shared state; a step below is one lock section or one atomic access.    *)
(*                                                                         *)
(* Thread identifiers are pids: next_pid only grows, so none is reused and *)
(* the threads of a process are created in the order of their pids.        *)
(***************************************************************************)
EXTENDS Integers, FiniteSets, VmFlags

CONSTANTS
    Thread,     \* the pids this process may ever use
    Leader,     \* the thread whose pid is tg->tgid
    Code,       \* arguments of exit and exit_group
    TermCode    \* 128+sig for a signal whose default action terminates

ASSUME ThreadAssumption ==
    /\ IsFiniteSet(Thread) /\ Thread \subseteq Nat
    /\ Leader \in Thread

ASSUME CodeAssumption == Code \subseteq Int /\ TermCode \in Int \ {-1}

NoCode == -1            \* initial value of tg->exit_code
KillCode == 128 + 9     \* what fini stores when nobody wrote exit_code

VARIABLES
    pc,             \* where each thread is in the code below
    flags,          \* the flags word of each vm
    child,          \* the vm a thread is creating in do_clone
    last,           \* fini's local: this thread took live_threads to 0
    towake,         \* wake_waiters' local: the list it swapped out
    live_threads,   \* tg->live_threads
    exit_code,      \* tg->exit_code
    exited,         \* tg->exited
    threads,        \* tg->threads
    waiters,        \* tg->waiters (members of this group: exec callers)
    pid_map         \* the pids of this group that pid_map holds

vars == <<pc, flags, child, last, towake, live_threads, exit_code, exited,
          threads, waiters, pid_map>>

CloneLoc == {"clone_count", "clone_push", "clone_map", "clone_go"}
ExecLoc == {"exec_kill", "exec_check", "exec_wait", "exec_swap"}
\* fini after live_threads was decremented: the thread no longer counts and
\* no longer touches guest memory.
GoneLoc == {"fini_erase", "fini_wake", "fini_wakeup", "fini_close",
            "fini_exited", "dead"}
Loc == {"none", "guest", "safepoint", "eg_kill", "fini_sub"}
           \cup CloneLoc \cup ExecLoc \cup GoneLoc

Init ==
    /\ pc = [t \in Thread |-> IF t = Leader THEN "guest" ELSE "none"]
    /\ flags = [t \in Thread |-> {}]
    /\ child = [t \in Thread |-> t]
    /\ last = [t \in Thread |-> FALSE]
    /\ towake = [t \in Thread |-> {}]
    /\ live_threads = 1
    /\ exit_code = NoCode
    /\ exited = FALSE
    /\ threads = {Leader}
    /\ waiters = {}
    /\ pid_map = {Leader}

Goto(t, l) == pc' = [pc EXCEPT ![t] = l]

\* exit_code.compare_exchange_strong(-1, c)
CasExitCode(c) == exit_code' = IF exit_code = NoCode THEN c ELSE exit_code

---------------------------------------------------------------------------
(* do_clone with CLONE_THREAD *)

\* Up to pthread_create: the child vm exists, its flags hold STOPPED, and its
\* host thread is on its way to the safepoint where STOPPED holds it.
CloneCreate(t, c) ==
    /\ pc[t] = "guest" /\ pc[c] = "none"
    /\ \A d \in Thread : pc[d] = "none" => c <= d
    /\ pc' = [pc EXCEPT ![t] = "clone_count", ![c] = "safepoint"]
    /\ flags' = SetFlag(flags, c, "STOPPED")
    /\ child' = [child EXCEPT ![t] = c]
    /\ UNCHANGED <<last, towake, live_threads, exit_code, exited, threads,
                   waiters, pid_map>>

\* Mutant: the new thread is not counted.
CloneNotCounted(t) ==
    /\ pc[t] = "clone_count"
    /\ Goto(t, "clone_push")
    /\ UNCHANGED <<flags, child, last, towake, live_threads, exit_code, exited,
                   threads, waiters, pid_map>>

CloneCount(t) ==
    /\ pc[t] = "clone_count"
    /\ live_threads' = live_threads + 1
    /\ Goto(t, "clone_push")
    /\ UNCHANGED <<flags, child, last, towake, exit_code, exited, threads,
                   waiters, pid_map>>

ClonePush(t) ==
    /\ pc[t] = "clone_push"
    /\ threads' = threads \cup {child[t]}
    /\ Goto(t, "clone_map")
    /\ UNCHANGED <<flags, child, last, towake, live_threads, exit_code, exited,
                   waiters, pid_map>>

CloneMap(t) ==
    /\ pc[t] = "clone_map"
    /\ pid_map' = pid_map \cup {child[t]}
    /\ Goto(t, "clone_go")
    /\ UNCHANGED <<flags, child, last, towake, live_threads, exit_code, exited,
                   threads, waiters>>

\* Clear STOPPED, wakeup(false), return to the caller's safepoint.
CloneGo(t) ==
    /\ pc[t] = "clone_go"
    /\ flags' = ClearFlag(flags, child[t], "STOPPED")
    /\ Goto(t, "safepoint")
    /\ UNCHANGED <<child, last, towake, live_threads, exit_code, exited, threads,
                   waiters, pid_map>>

---------------------------------------------------------------------------
(* Leaving *)

\* do_exit: do_syscall sees EXITED and returns false, so run() goes to fini.
Exit(t, c) ==
    /\ pc[t] = "guest"
    /\ CasExitCode(c)
    /\ flags' = SetFlag(flags, t, "EXITED")
    /\ Goto(t, "fini_sub")
    /\ UNCHANGED <<child, last, towake, live_threads, exited, threads, waiters,
                   pid_map>>

\* do_exit_group up to the lock, from the system call ...
ExitGroup(t, c) ==
    /\ pc[t] = "guest"
    /\ CasExitCode(c)
    /\ Goto(t, "eg_kill")
    /\ UNCHANGED <<flags, child, last, towake, live_threads, exited, threads,
                   waiters, pid_map>>

\* ... and from handle_signals, for a pending signal whose action terminates.
FatalSignal(t) ==
    /\ pc[t] = "safepoint" /\ "SIGNAL_PENDING" \in flags[t]
    /\ CasExitCode(TermCode)
    /\ Goto(t, "eg_kill")
    /\ UNCHANGED <<flags, child, last, towake, live_threads, exited, threads,
                   waiters, pid_map>>

\* do_exit_group from the lock on: SIGKILL to every other registered thread,
\* then EXITED for the caller, which leaves the interpreter loop.
ExitGroupKill(t) ==
    /\ pc[t] = "eg_kill"
    /\ flags' = SetFlag(SetFlagAll(flags, threads \ {t}, "KILLED"), t, "EXITED")
    /\ Goto(t, "fini_sub")
    /\ UNCHANGED <<child, last, towake, live_threads, exit_code, exited, threads,
                   waiters, pid_map>>

\* log_mem_violation: the faulting thread marks itself killed and step returns
\* false.
MemViolation(t) ==
    /\ pc[t] = "guest"
    /\ flags' = SetFlag(flags, t, "KILLED")
    /\ Goto(t, "fini_sub")
    /\ UNCHANGED <<child, last, towake, live_threads, exit_code, exited, threads,
                   waiters, pid_map>>

\* kill(tgid, SIGKILL) by another process: send_sig_info fans out to the group.
SendKill ==
    /\ Leader \in pid_map
    /\ flags' = SetFlagAll(flags, threads, "KILLED")
    /\ UNCHANGED <<pc, child, last, towake, live_threads, exit_code, exited,
                   threads, waiters, pid_map>>

\* Any other signal queued to a thread by tkill, tgkill or (for the leader) kill.
SendSignal(t) ==
    /\ t \in pid_map
    /\ flags' = SetFlag(flags, t, "SIGNAL_PENDING")
    /\ UNCHANGED <<pc, child, last, towake, live_threads, exit_code, exited,
                   threads, waiters, pid_map>>

\* step() finds flags set between two instructions.
ToSafepoint(t) ==
    /\ pc[t] = "guest" /\ flags[t] # {}
    /\ Goto(t, "safepoint")
    /\ UNCHANGED <<flags, child, last, towake, live_threads, exit_code, exited,
                   threads, waiters, pid_map>>

\* deliver_signal emptied the queue without terminating the group.
SignalHandled(t) ==
    /\ pc[t] = "safepoint" /\ "SIGNAL_PENDING" \in flags[t]
    /\ flags' = ClearFlag(flags, t, "SIGNAL_PENDING")
    /\ UNCHANGED <<pc, child, last, towake, live_threads, exit_code, exited,
                   threads, waiters, pid_map>>

SafepointPass(t) ==
    /\ pc[t] = "safepoint"
    /\ flags[t] \cap (Leaving \cup {"STOPPED"}) = {}
    /\ Goto(t, "guest")
    /\ UNCHANGED <<flags, child, last, towake, live_threads, exit_code, exited,
                   threads, waiters, pid_map>>

\* Mutant: only EXITED ends the loop.
SafepointLeaveExited(t) ==
    /\ pc[t] = "safepoint" /\ "EXITED" \in flags[t]
    /\ Goto(t, "fini_sub")
    /\ UNCHANGED <<flags, child, last, towake, live_threads, exit_code, exited,
                   threads, waiters, pid_map>>

SafepointLeave(t) ==
    /\ pc[t] = "safepoint" /\ flags[t] \cap Leaving # {}
    /\ Goto(t, "fini_sub")
    /\ UNCHANGED <<flags, child, last, towake, live_threads, exit_code, exited,
                   threads, waiters, pid_map>>

---------------------------------------------------------------------------
(* exec_common, once the new image is loaded *)

ExecStart(t) ==
    /\ pc[t] = "guest"
    /\ Goto(t, "exec_kill")
    /\ UNCHANGED <<flags, child, last, towake, live_threads, exit_code, exited,
                   threads, waiters, pid_map>>

ExecKill(t) ==
    /\ pc[t] = "exec_kill"
    /\ flags' = SetFlag(SetFlagAll(flags, threads \ {t}, "KILLED"), t, "BLOCKED")
    /\ Goto(t, "exec_check")
    /\ UNCHANGED <<child, last, towake, live_threads, exit_code, exited, threads,
                   waiters, pid_map>>

\* Mutant: exec goes on with one sibling left.
ExecCheckTwo(t) ==
    /\ pc[t] = "exec_check" /\ live_threads <= 2
    /\ flags' = ClearFlag(flags, t, "BLOCKED")
    /\ Goto(t, "exec_swap")
    /\ UNCHANGED <<child, last, towake, live_threads, exit_code, exited, threads,
                   waiters, pid_map>>

\* Under tg->mtx: go on if alone, otherwise register to be woken.
ExecCheck(t) ==
    /\ pc[t] = "exec_check"
    /\ \/ /\ live_threads <= 1
          /\ flags' = ClearFlag(flags, t, "BLOCKED")
          /\ Goto(t, "exec_swap")
          /\ UNCHANGED waiters
       \/ /\ live_threads > 1
          /\ waiters' = waiters \cup {t}
          /\ Goto(t, "exec_wait")
          /\ UNCHANGED flags
    /\ UNCHANGED <<child, last, towake, live_threads, exit_code, exited, threads,
                   pid_map>>

ExecWoken(t) ==
    /\ pc[t] = "exec_wait" /\ WaitDone(flags[t])
    /\ flags' = SetFlag(flags, t, "BLOCKED")
    /\ Goto(t, "exec_check")
    /\ UNCHANGED <<child, last, towake, live_threads, exit_code, exited, threads,
                   waiters, pid_map>>

\* -EINTR: deregister and return SYSCALL_RESTART.
ExecInterrupted(t) ==
    /\ pc[t] = "exec_wait" /\ WaitInterrupted(flags[t])
    /\ waiters' = waiters \ {t}
    /\ flags' = ClearFlag(flags, t, "BLOCKED")
    /\ Goto(t, "safepoint")
    /\ UNCHANGED <<child, last, towake, live_threads, exit_code, exited, threads,
                   pid_map>>

\* Swap the address space, reset actions and close cloexec descriptors; none of
\* it is shared with a thread that still runs (ExecExclusive below).
ExecSwap(t) ==
    /\ pc[t] = "exec_swap"
    /\ Goto(t, "safepoint")
    /\ UNCHANGED <<flags, child, last, towake, live_threads, exit_code, exited,
                   threads, waiters, pid_map>>

---------------------------------------------------------------------------
(* fini *)

\* Mutant: the last thread but one takes itself for the last.
FiniSubEarly(t) ==
    /\ pc[t] = "fini_sub"
    /\ live_threads' = live_threads - 1
    /\ last' = [last EXCEPT ![t] = (live_threads <= 2)]
    /\ Goto(t, "fini_erase")
    /\ UNCHANGED <<flags, child, towake, exit_code, exited, threads, waiters,
                   pid_map>>

\* clear_child_tid (the last access to guest memory), then fetch_sub.
FiniSub(t) ==
    /\ pc[t] = "fini_sub"
    /\ live_threads' = live_threads - 1
    /\ last' = [last EXCEPT ![t] = (live_threads = 1)]
    /\ Goto(t, "fini_erase")
    /\ UNCHANGED <<flags, child, towake, exit_code, exited, threads, waiters,
                   pid_map>>

\* Mutant: a thread that is not the last leaves without wake_waiters.
FiniEraseSilent(t) ==
    /\ pc[t] = "fini_erase"
    /\ pid_map' = IF t = Leader THEN pid_map ELSE pid_map \ {t}
    /\ Goto(t, IF last[t] THEN "fini_close" ELSE "dead")
    /\ UNCHANGED <<flags, child, last, towake, live_threads, exit_code, exited,
                   threads, waiters>>

FiniErase(t) ==
    /\ pc[t] = "fini_erase"
    /\ pid_map' = IF t = Leader THEN pid_map ELSE pid_map \ {t}
    /\ Goto(t, IF last[t] THEN "fini_close" ELSE "fini_wake")
    /\ UNCHANGED <<flags, child, last, towake, live_threads, exit_code, exited,
                   threads, waiters>>

\* wake_waiters: swap the list under tg->mtx ...
FiniWake(t) ==
    /\ pc[t] = "fini_wake"
    /\ towake' = [towake EXCEPT ![t] = waiters]
    /\ waiters' = {}
    /\ Goto(t, "fini_wakeup")
    /\ UNCHANGED <<flags, child, last, live_threads, exit_code, exited, threads,
                   pid_map>>

\* ... and wakeup(true) each of them outside it.
FiniWakeup(t) ==
    /\ pc[t] = "fini_wakeup"
    /\ flags' = ClearFlagAll(flags, towake[t], "BLOCKED")
    /\ towake' = [towake EXCEPT ![t] = {}]
    /\ Goto(t, "dead")
    /\ UNCHANGED <<child, last, live_threads, exit_code, exited, threads,
                   waiters, pid_map>>

\* The last thread: close all descriptors ...
FiniClose(t) ==
    /\ pc[t] = "fini_close"
    /\ Goto(t, "fini_exited")
    /\ UNCHANGED <<flags, child, last, towake, live_threads, exit_code, exited,
                   threads, waiters, pid_map>>

\* ... then settle the exit code and publish it to the parent.
FiniExited(t) ==
    /\ pc[t] = "fini_exited"
    /\ CasExitCode(KillCode)
    /\ exited' = TRUE
    /\ Goto(t, "dead")
    /\ UNCHANGED <<flags, child, last, towake, live_threads, threads, waiters,
                   pid_map>>

---------------------------------------------------------------------------
\* The steps a thread takes whatever the guest program does.
Host(t) ==
    \/ CloneCount(t) \/ ClonePush(t) \/ CloneMap(t) \/ CloneGo(t)
    \/ ExitGroupKill(t) \/ ToSafepoint(t) \/ SafepointPass(t) \/ SafepointLeave(t)
    \/ ExecKill(t) \/ ExecCheck(t) \/ ExecWoken(t) \/ ExecInterrupted(t)
    \/ ExecSwap(t)
    \/ FiniSub(t) \/ FiniErase(t) \/ FiniWake(t) \/ FiniWakeup(t)
    \/ FiniClose(t) \/ FiniExited(t)

\* The steps the guest program, or a signal's disposition, decides.
Guest(t) ==
    \/ \E c \in Thread : CloneCreate(t, c)
    \/ \E c \in Code : Exit(t, c) \/ ExitGroup(t, c)
    \/ FatalSignal(t) \/ SignalHandled(t)
    \/ MemViolation(t) \/ ExecStart(t)

Next == SendKill \/ \E t \in Thread : Host(t) \/ Guest(t) \/ SendSignal(t)

Spec == Init /\ [][Next]_vars

\* The host scheduler runs every pthread; wait_for looks at the flags at least
\* once a second.
FairSpec == Spec /\ \A t \in Thread : WF_vars(Host(t))

---------------------------------------------------------------------------
(* Properties *)

TypeOK ==
    /\ pc \in [Thread -> Loc]
    /\ flags \in [Thread -> SUBSET Flag]
    /\ child \in [Thread -> Thread]
    /\ last \in [Thread -> BOOLEAN]
    /\ towake \in [Thread -> SUBSET Thread]
    /\ live_threads \in Int
    /\ exit_code \in Code \cup {NoCode, KillCode, TermCode}
    /\ exited \in BOOLEAN
    /\ threads \subseteq Thread
    /\ waiters \subseteq Thread
    /\ pid_map \subseteq Thread

\* A thread created by do_clone whose creator has not yet counted it.
Uncounted == {c \in Thread : \E t \in Thread : pc[t] = "clone_count" /\ child[t] = c}

\* The threads live_threads stands for.
Counted == {t \in Thread : pc[t] \notin GoneLoc \cup {"none"}} \ Uncounted

\* live_threads counts exactly the threads that may still run guest code: it is
\* raised once per clone and lowered once per fini, in whatever order creators
\* and children run, and so it never wraps below zero (it is a size_t).
LiveCount == live_threads = Cardinality(Counted)

\* When exec is about to swap the address space (process.cpp, "swap + fresh
\* munmap"), no other thread of the group is in guest code, in a system call or
\* in the part of fini that writes guest memory: not even one whose creation
\* was in flight when the siblings were killed.
ExecExclusive ==
    \A t \in Thread : pc[t] = "exec_swap" =>
        \A u \in Thread \ {t} : pc[u] \in GoneLoc \cup {"none"}

\* fini's tail (close the descriptors, publish the exit code, notify the
\* parent) runs in at most one thread, and only once nobody else is alive.
SingleReaper ==
    \A t \in Thread : last[t] =>
        \A u \in Thread \ {t} : ~last[u] /\ pc[u] \in GoneLoc \cup {"none"}

\* An exec that sleeps although it is already alone is going to be woken: a
\* sibling on its way out has not yet emptied the waiters list or is holding
\* the sleeper in the list it took.  (The one-second backstop of wait_for does
\* not re-read live_threads, so a lost wake-up here would be a hang.)
ExecNoLostWakeup ==
    \A t \in Thread :
        (pc[t] = "exec_wait" /\ "BLOCKED" \in flags[t] /\ live_threads <= 1) =>
            \E u \in Thread \ {t} :
                \/ pc[u] \in {"fini_erase", "fini_wake"} /\ t \in waiters
                \/ pc[u] = "fini_wakeup" /\ t \in towake[u]

\* What the parent may have read is final: once exited is published, neither
\* it nor the exit code changes, and no thread comes back.
ReportedFinal ==
    [][exited => exited' /\ exit_code' = exit_code /\ live_threads' = 0]_vars

\* SIGKILL reaches a thread wherever it is: a thread whose KILLED bit is set
\* ends, be it in guest code, cloning, waiting in exec or stopped at a safepoint.
KilledDies ==
    \A t \in Thread : ("KILLED" \in flags[t]) ~> (pc[t] \in {"dead", "none"})

---------------------------------------------------------------------------
(* What a comment of the repository says, and the code does not do. *)

\* posix_syscall.cpp, init: tasks are registered by their creator so that
\* exit_group does not miss one.  exit_group still misses the thread that a
\* killed sibling is about to register, and the group never ends.
ExitGroupConverges == (\E t \in Thread : pc[t] = "eg_kill") ~> exited
=============================================================================
