# Verification of bpfvm

bpfvm runs Linux programs compiled to eBPF in user space. Every guest task is a
host pthread that runs `vm::run()`, interpreting or in code its JIT compiled;
guest system calls are handled by `PosixSyscall`, partly on host calls, partly on
state the VM keeps itself (processes, threads, signals, futexes, memory,
descriptors, sessions). `bpfvm-ld` links the programs, LLVM passes prepare them.
The modules in this directory model that state and the code that changes it; TLC
checks them on small instances, TLAPS proves the central results for any number
of threads, processes, signals, children, pages and terminals. Paths below are
relative to the repository's `src/` directory.

## 1. Inventory

| Part | State | Operations | What is hard |
|---|---|---|---|
| Task flags and sleeping (`insn.cpp`, `insn.h`) | `flags` word: BLOCKED, STOPPED, KILLED, EXITED, SIGNAL_PENDING, DEBUG_STOP | `set_flags`, `clear_flags`, `wait_for`, `wakeup`, `safepoint`, `step` | the word is written by any thread; every sleep must notice every reason to end |
| Thread groups (`posix/process.cpp`, `posix/posix_syscall.*`) | `live_threads`, `exit_code`, `exited`, `threads`, `waiters`, `pid_map` | `do_clone`, `do_exit`, `do_exit_group`, `exec_common`, `fini` | creation against kill; who is last; exec alone on the address space |
| Waiting for children (`posix/process.cpp`) | children's `exited`, `stopped`, `stop_reported`, `waiters` | `do_wait_common`, `wake_waiters`, `notify_parent_sigchld`, re-parenting | check and sleep without losing an event; several waiting threads |
| Signals (`posix/signal.cpp`, `insn.cpp`, `jit/jit_compiler.cpp`) | queue, mask, actions, signal frames, pending restart | `queue_signal`, `handle_signals`, `deliver_signal`, mask calls, `sigsuspend`, `signalfd` | queue against flag; restart of interrupted calls; host calls interrupted by SIGUSR1 |
| Job control (`posix/signal.cpp`) | `stopped`, VM_STOPPED of each thread | `stop_process`, SIGCONT | one flag for stopping and for holding back new threads |
| Sessions and terminals (`posix/session.cpp`, `posix/fd_ops.cpp`) | session, group and controlling terminal of each process; owner and foreground group of each terminal | `setsid`, `setpgid`, TIOCSCTTY, TIOCSPGRP, `tty_bg_check`, terminal signals | calls in two halves with one lock between them |
| Pump thread (`pty.cpp`) | epoll set, byte streams, blocked host signals | the loop of the pump | short reads and writes, end of file, hang-up |
| Futexes (`posix/futex.cpp`) | `g_futex_table` | wait, wake, requeue, clear-child-tid | wakes outside the table lock |
| Guest memory (`insn.cpp`, `posix/memory.cpp`, `posix/process.cpp`) | segment list per process, shared host pages, TLB per thread | `mmu`, `mmu_w`, copy-on-write, fork, mmap, munmap, mprotect, exit | cached translations against copy-on-write |
| Descriptors (`posix/posix_syscall.h`, `posix/fd_ops.cpp`, `posix/file_io.cpp`) | table snapshots, handles, host descriptors | open, dup, dup3, close, read, poll, accept, SCM_RIGHTS, fork, exec | lock-free table, host numbers used again |
| GDB server (`gdb_server.cpp`) | table of traced tasks, stop flags | stop, continue, step, attach, detach, fork, exec and exit events | all-stop over threads that run all the while |
| Engines (`insn.cpp`, `jit/x86_emitter.cpp`, `jit/aarch64_emitter.cpp`, `passes/BpfSoftFp.cpp`) | registers, memory | each instruction class, three times | boundary values; scratch registers; faults |
| JIT (`jit/jit_compiler.cpp`, emitters) | compiled entries, shadow and inline caches, host call chain | compile, call, helpers, safepoints, exits | registers in two places; caches that outlive their code |
| Linker and loader (`elf_linker.cpp`, `elf_loader.cpp`) | objects, symbols, layout, GOT, PLT, image | static, shared, dynamic and partial links, load | which definition wins; two-step links |

The parts meet in the flags word: a futex wake, a child's exit, a signal and the
debugger all end a sleep or a compiled loop through it; kill, stop and restart are
noticed at the safepoint. The pump hands host signals to the terminal's foreground
group; fork copies memory, descriptors and session membership.

## 2. Modules

A step of a module is one critical section or one atomic access of the code;
steps of different host threads interleave freely. Guest programs are
abstracted to the choice of the next call.

**Tasks, signals, memory**

- **VmFlags**: the flags word, and when `wait_for` returns. Used by the others.
- **ThreadGroup**: one process. `pc[t]` is the place of thread `t` in
  `do_clone` (count, push, map, go), in exec (kill, check, wait, swap) or in
  `fini` (sub, erase, wake, wakeup, close, exited); `live_threads`, `threads`,
  `waiters`, `exit_code`, `exited`, `pid_map` are the members of the same name.
  Threads are numbered by pid and created in that order, since `next_pid` grows.
- **ChildWait**: `do_wait_common` step by step (first claim, loop, snapshot,
  one registration per child, sleep, deregistration) against the tail of the
  children's `fini`, `stop_process`, SIGCONT, forks by a sibling and
  re-parenting. SIGCHLD has its default disposition.
- **Signals**: one target thread and its senders: the tail of `queue_signal`
  and the SIGUSR1 that follows it, the step loop, both `deliver_signal` calls of
  the safepoint, signal frames, mask changes and the rescan after them,
  `sigsuspend`, signalfd, siglongjmp, and the restart of calls from the
  interpreter (which moves past the call) and from compiled code (which does not).
- **Futex**: registration and compare under the lock, wakes outside it, timeouts,
  interruptions with restart, clear-child-tid.
- **FlatMemory**: what guest memory promises: private contents per process,
  shared by its threads, copied by fork.
- **Memory**: segments on host pages, copy-on-write by use count, TLBs, and
  accesses in two steps (translate, then load or store). It implements
  FlatMemory under the mapping `mem <- Contents`: what the segment list of each
  process, followed to its host page, holds.
- **JobControl**: `stop_process` and SIGCONT thread by thread, against `do_clone`.

**Terminals**

- **Terminal**: sessions, groups, controlling terminals. `act[p]` is the half of
  a call that process `p` has yet to do; `groups` (every session and group there
  ever was) and `overtaken` (terminals taken by two sessions at once) are history.
- **PtyPump**: the pump thread: wait, read a chunk, feed it to the master in
  pieces, show what the master gives, route host signals; reads and writes may
  fail. Bytes are numbered; `cut` remembers that a write to standard output failed.
  Without a pseudo-terminal (`mode` is plain) the pump only routes signals.
- **Console**: the two together; the signal the pump reads goes in the same step to
  the foreground group of the first process's terminal, or to that process's own
  group when it has none, as in plain mode.

**Descriptors and debugger**

- **FdSpec**: what the guest is promised: every call takes effect at once.
- **Descriptors**: the table as an immutable snapshot, the compare-and-swap of
  `fds_mutate`, handles that keep a host descriptor open, host numbers given out
  again. It implements FdSpec: `tbl` is the table with handles replaced by their
  files, a call is pending until its swap.
- **Debugger**: the server thread packet by packet, the task table, and vms that
  see VM_DEBUG_STOP at an instruction, in a system call or, in compiled code
  (`native`), at a loop header. Tasks also stop and continue each other; `skipped`
  remembers the tasks the last `stop_all_vms` left alone as job-stopped.

**Execution**

- **Word**, **Machine**: words (every width divided by 8), registers, two maps.
- **Interp**, **X86**, **A64**: each instruction class in the interpreter and in
  the code of the two emitters. **SoftFp**: the rewritten forms of the LLVM pass.
  **Engines**: the same instruction on all of them, from the same machine.
- **GuestMachine**, **Guest**: a guest thread as the interpreter runs it.
- **JitCode**: the blocks of host operations the emitters generate around calls,
  frames, safepoints and exits. **Jit**: a thread that alternates between
  interpreter and compiled code, its caches and its host call chain, with a budget of
  instructions that may run out at any safepoint. It implements
  Guest: the registers are the host's while compiled code runs, `vm->reg` elsewhere.
- **Linker**: builds as sequences of links, and the loading of the program. A library
  is loaded before the program that needs it; a relocation outside its section makes
  the link fail.

**Instances.** **MCThreadGroup**, **MCFutex**, **MCMemory**, **MCJit**,
**MCDebugger** give constants. **MCChildWait**, **MCSignals**, **MCJobControl** (with
the terminals and the debugger) and **MCPlatform** (engines, linker, descriptors and
memory) hold several instances: `which` selects one at the start, and the variables
of the others stay put. **...Proofs**: the theorems (section 5).

An operator whose comment begins with "Mutant" is a wrong variant of the
definition after it, no part of the specification: it stands for a plausible
slip, and with it the property it belongs to fails.

## 3. Runs

| Run | Instance | What it shows |
|---|---|---|
| `ThreadGroup` | 3 threads; fair | `live_threads` counts exactly the threads that may run guest code; exec and the tail of `fini` are alone; a sleeping exec is woken; what the parent reads is final; a killed thread ends |
| `ChildWait` | 2 waiting threads and 2 children (one re-parented), or 1 waiting thread and a sender of stops; fair | the exit of a child the call registered with is never lost; no registration is left behind; no zombie is reaped twice; the call of a single waiting thread returns once its children have all exited |
| `Signals` | 2 signals, 1 sender, queue of 2, 2 frames, wait_for and sigsuspend; or 1 signal, 2 senders, all dispositions, host calls, STOP and CONT; fair | the flag is set while a signal may be taken; in the first instance no guest instruction runs with a restart pending, and signals and kills get the thread out of its sleep |
| `Futex` | 3 threads, 1 word; fair | buckets hold exactly the waiters; no sleeper is out of reach; a taken sleeper returns |
| `JobControl` | 3 threads (2 created), 1 sender; or 3 processes, 2 terminals, 5 calls; or the pump with 3 bytes in and 2 out; or 2 processes, 2 calls and the pump, with and without a pseudo-terminal; or 2 vms and up to 3 packets of GDB, in five sessions; fair | a continued group has no stopped thread left and every thread runs again; a terminal has one session, and its foreground group is of that session; the pump keeps the order of both streams and host signals arrive; once GDB is told of a stop the tasks it was asked to stop stand still, and every stop is reported |
| `Jit` | 7 programs of up to 12 instructions, 4 frames, 2 signals, one with an instruction budget; fair | execution that switches at any moment between engines implements plain interpretation; frame register and caches are sound; compiled loops and recursion notice kills and signals |
| `Platform` | one instruction on three engines; or one of some 1150 builds; or 2 threads and a fork with 3 calls on 2 descriptors; or 3 single-threaded processes with 1 segment and 3 host pages | both emitters and the lowered forms compute what the interpreter computes; linked programs refer to what their objects refer to, with nothing lost and the right verdict; descriptor calls behave like an atomic table and stay on their file; TLB and copy-on-write implement flat memory, writable translations are exclusive and cached ones agree with the list |
| `ThreadGroupConverge` | refuted | `exit_group` misses a thread that a killed sibling is registering; the group never ends |
| `ChildWaitSiblings` | refuted | a sibling reaps the only child between `claim_one` and the snapshot; the call sleeps for ever |
| `SignalsKickLost` | refuted | SIGUSR1 sent just before the target enters its host call is lost; the killed thread sleeps on |
| `MemoryForkWindow` | refuted | a sibling stores through its translation between fork's sharing and the flush; the child sees the store |
| `DebuggerJobStop` | refuted | `stop_all_vms` passes over a job-stopped task; continued by a SIGCONT, it runs on while GDB takes everything for stopped |

The refuted properties state what a comment of the source or a test says; `PROJECT.json`
quotes it.

**Bounds.** Three threads are what the hard cases need: one that leaves or
execs, one that clones, one being created; the proofs remove the bound. Two
waiting threads and two children let a snapshot be half registered while a
sibling reaps. The `ThreadGroup` run uses one exit code, equal to the code of a
fatal signal: its properties compare `exit_code` with an earlier value only, and
137 remains as a second value. `QueSize` 2 (the code has 1024, only a larger
queue) reaches the full queue; `MaxDepth` 2 reaches a handler inside a handler and
the exhausted stack. Numbers of signals, futex calls and wakes are not bounded.
One futex word suffices because buckets are independent. Three processes and three
host pages let a page be shared by two processes, released and used again.
`Quota` (calls of the terminal and descriptor instances), the session's `packets`
(GDB), `Input`, `Output`, `Capacity` and `Chunk` (the pump) bound behaviours that would
otherwise go on: five terminal calls let two sessions cross in TIOCSCTTY, three
descriptor calls let a number be closed and given out again under a blocked call.
Instruction operands are the values at the edges of every width, addresses at and
across the edges of both maps and of the address space. The builds are three
objects that define or use a function and a datum with every binding, linked
statically, from an archive, in two steps and with a library; some have a relocation
at the very end of its section or past it. Counters of the JIT
(hot loops) are replaced by a choice at every visit of a pc of the program's `hot`
set. Symmetry is used in `Platform` only, over host pages and the two processes of the
memory instance that start later; that run has no liveness property.

**Deadlock.** It is checked for `ChildWait` and `ChildWaitSiblings`. Elsewhere
behaviours may end: threads die, calls run out, programs are loaded, and nobody has
to send another signal.

**Fairness.** Host threads are scheduled: weak fairness for the steps a thread
takes on its own once inside the VM (`Host`, `InCall`, `Step`, `KidStep`, `SenderStep`,
`ThreadStep`, `Target`, `SendKick`), for the pump (`PumpStep`), for the GDB server
and the vms it traces (`ServerStep`, `GuestStep`) and for the thread of Jit. Nothing
is assumed of guest programs, senders, GDB, data from outside or mutexes:
`Resumes` excludes a stream of signals that keeps `tg->mtx` busy. `ToSafepoint` of
ThreadGroup is fair, so a killed thread in a blocking call reaches the safepoint;
for calls that sleep in `wait_for` this is what `Signals` checks, for host calls it
rests on SIGUSR1, and `SignalsKickLost` shows the window in which it does not hold.

## 4. Behaviour outside the properties

While modelling, the code showed these behaviours; the actions are in the modules.
Where a property of section 3 is limited to an instance, this is why.

**Tasks and signals**

- `posix/process.cpp:18`: a worker's earlier `exit(0)` decides the status of a
  later `exit_group(7)`; `test_exit_group_race.c:12` expects the group's code.
- `posix/process.cpp:9`: `exit(-1)` stores the value that means "not set", and
  `fini` replaces it by 137.
- `posix/posix_syscall.cpp:156`: that fallback, called impossible in
  `posix_syscall.h:52`, is the ordinary end after SIGKILL.
- `posix/process.cpp:462`: a thread killed between its two registrations is
  inserted into `pid_map` after it erased itself.
- `posix/process.cpp:624`: a child forked or re-parented after the snapshot does
  not wake a sleeping `wait(-1)`.
- `posix/signal.cpp:141`: SIGCONT leaves `stop_reported` set; stop, continue,
  stop wakes no wait that began in between.
- `posix/process.cpp:572`: a stop is reported without WUNTRACED.
- `posix/signal.cpp:256`: blocked events go behind later events of the same signal.
- `insn.cpp:1254`: the second `deliver_signal` nests handlers; if there is no room
  for its frame, the signal is gone and the thread is killed, since
  `log_mem_violation` (`insn.cpp:837`) sets VM_KILLED.
- `insn.h:427`, `insn.cpp:1303`: a late SIGUSR1, or a SIGCONT before the
  safepoint, leaves a restart pending with no flag set; the safepoint is skipped
  and the guest runs on. Hence `CallsRestartHonoured` speaks of the instance
  without host calls and SIGCONT only.
- `posix/signal.cpp:793`: `sigsuspend` leaves its loop for a deliverable signal
  and relies on the safepoint to deliver it, without setting
  `VM_SIGNAL_PENDING`. An earlier `sigsuspend` cleared the flag over a blocked
  event; if a stop woke it and SIGCONT came before the safepoint, the guest runs
  on with the flag clear, and a second `sigsuspend` that unblocks the event
  returns with no flag set: the event is not taken until another one arrives or a
  mask call scans the queue. It needs SIGCONT: hence `PendingFlag` is checked with
  `sigsuspend` where there is no SIGCONT, and with SIGCONT without `sigsuspend`;
  the two theorems of section 5 have the same two assumptions.
- `posix/futex.cpp:78`: a taken waiter may still report a timeout, and a late
  `wakeup(true)` may end the next wait of the same thread with 0.
- `insn.cpp:1457`, `posix/memory.cpp:156`: copy-on-write, mmap, munmap and
  mprotect flush the TLB of the calling thread only; a sibling keeps the old
  translation. Hence `TlbCoherent` and `FlatSpec` are stated for one thread per
  process.
- `posix/process.cpp:467`, `posix/signal.cpp:149`: a stop that meets a clone is
  cleared for the new thread, and a SIGCONT releases a thread whose
  registration is not complete.
- `posix/signal.cpp:66`: a stop and a continue of two senders may cross and leave
  threads parked in a group marked running. Hence one sender in `JobControl`.

**Sessions, terminals, descriptors**

- `setpgid` accepts a pid that leads no group, and a parent's `setpgid` may meet its
  child's `setsid`: a group then has members in two sessions (`GroupInOneSession` of
  Terminal fails), where `posix/posix_syscall.h:30` says "同 pgid 必同 session".
- TIOCSCTTY by force, or a second terminal for the same session, leaves the former
  terminal's owner as it was, and the foreground group is stored after the lock is
  released; TIOCSPGRP uses `session->ctty` after somebody may have reset it
  (`TerminalThere` fails). `ForegroundOfSession` leaves terminals out that two
  sessions took at once. The owner is never cleared when a session ends.
- `tty_bg_check` returns -EINTR for a signal with its default disposition.
- The pump ends at end of file or hang-up of standard input; host signals then stay
  pending, where `pty.h:33` says the pump must run because otherwise
  "被 block 的宿主信号无消费者会永久 pending". EPOLLIN together with EPOLLHUP on
  the master drops the last output. `SignalArrives` is about a running pump.
- When reading standard input fails the pump ends with the master open; a failed write
  to the master or to standard output drops the rest of the chunk and the pump goes on.
  Hence `InOrder` speaks of complete streams only while the pump runs, the slave is
  open (input) and no write has failed (output).
- `poll_core`, `pselect6` and `sendmsg` with SCM_RIGHTS do not hold the Fd during
  the host call (`PollOnSameFile` of Descriptors fails), where
  `posix/posix_syscall.h:157-160` promises it of every blocking call.
- `DevFd::on_close` tests `use_count() == 1`: with a reader at work the last close
  of a master sends no hang-up and leaves its /dev/pts entry (`HangUpSent` fails);
  `posix/fs.cpp:24-28` says the entry goes with the last master.
- A close that races dup3 or open on the same number erases the new handle without
  its `on_close`. `recvmsg` ignores MSG_CMSG_CLOEXEC and turns a device into a plain
  descriptor; dup of a signalfd makes an independent pipe.

**Debugger**

- `gdb_server.cpp:404-406`: a new task stops at its first instruction, and if GDB
  follows no fork events and nothing else stops, it stays there.
- `gdb_server.cpp:372`: a task that carries VM_STOPPED is neither asked to stop nor
  waited for. A SIGCONT that was under way then sets it going (`DebuggerJobStop`).
  Hence `AllStop` leaves `skipped` tasks out, and `StopReported` behaviours in which
  one of them was continued.
- vCont leaves `stepping`, `syscall_event` and `exec_path` of other tasks set, which
  `continue_all_vms` (`gdb_server.cpp:351-353`) clears; `c` loses hits that happened
  at the same time as the reported one; `stop_all` asks once, so a task that resumes
  itself is waited for; a step over a blocking system call waits alone.
- A system call hook sets the stop flag outside the table lock, against detach;
  `fork_child` may name a task that is gone; a killed parked vm executes one more
  instruction; vAttach of a traced task wipes its entry.

**Engines and JIT**

- `FetchIntoR5`: the x86 loop of an atomic fetch or exchange uses RDX, BPF r5, as its
  temporary (`jit/x86_emitter.cpp:1128`); with r5 as source the fetched value is lost.
- `JsetNegative`: the AArch64 64-bit JSET with an immediate zero-extends it.
- `FaultyDiv128`: a 128-bit division whose result cannot be written stops the
  interpreter; compiled code goes on, since `helper_do_softfp`'s answer is ignored.
  `EnginesAgree` excludes these three.
- The pass takes the operands of a 128-bit product to fit in 64 bits and drops the rest
  of one that does not; `LoweringCorrect` then compares the low half of the product.
- UMULH clobbers r5 on x86; the pass never lets it live there (`Dead`).
- A memory violation in compiled code leaves `vm->pc_` at an earlier instruction,
  from which the interpreter starts again (`insn.cpp:1283-1285`).
- `compile()` leaves an entry counting after a failed lookup; entries are dropped on
  execve only, not when their code is unmapped or written.
- A handler that begins in compiled code with the same handler already running may
  keep the host's r10 of the interrupted frame.

**Linker**

- `-r` merges .init_array and .fini_array into SHT_PROGBITS sections
  (`elf_linker.cpp:973`): constructors of a partially linked object do not run. Data
  appended to a section first seen as NOBITS is not written; the binding of the first
  undefined occurrence is kept, even if weak; with strip-debug .stack_sizes is
  dropped. The builds avoid a weak undefined symbol before a strong one in `-r`
  and calls through section symbols at an offset other than 0; the bounds of the arrays
  are checked where no partial link was involved, and frame sizes for the first object
  of a partial link.
- Defined global NOTYPE and TLS symbols are not registered, though a comment in
  `resolve_symbol` says every defined non-local symbol is.
- The range `__start_s` to `__stop_s` may hold other sections placed in between.
- Segments are aligned to 8 only, whatever their sections ask; .bss follows
  unaligned. A 32-bit call relocation against a section symbol ignores the embedded
  offset. `fix_loclists_breg10` looks at the first unit only.
- A static link given a library takes its symbols for defined. Every module exports
  the symbols the linker made for it.

## 5. Proofs

Seven modules prove what TLC checks on an instance for every value of the constants.
The assumptions are the named ones of the component's module, and those a theorem
states itself after ASSUME. Every inductive invariant was checked with TLC before it
was proved.

| Module | Theorems | Beyond the module's assumptions |
|---|---|---|
| `ThreadGroupProofs` | `TypeCorrect`, `LiveCountCorrect`, `ExecIsExclusive`, `ReaperIsSingle`, `ReportIsFinal`, `ExecIsWoken` | nothing |
| `FutexProofs` | `TypeCorrect`, `BucketIsExact`, `WakeIsNotLost` | nothing |
| `ChildWaitProofs` | `TypeCorrect`, `ZombieReapedOnce`, `ListsAreClean`, `ExitIsNotLost` | nothing |
| `JobControlProofs` | `TypeCorrect`; `ContinuedGroupRuns` | `OneSender`, for the second |
| `MemoryProofs` | `WritesStayPrivate`, `TranslationsCurrent`, `MemoryIsFlat` | `OneThreadEach` |
| `SignalsProofs` | `TypeCorrect`; `SignalNotForgotten`; `SuspendForgetsNothing`; `RestartsAreHonoured` | no `sigsuspend`; `NoStops`; `NoStops` and no host calls |
| `ConsoleProofs` | `TerminalHasOneSession`, `ForegroundIsOwn`, `PumpKeepsOrder` | `ProcessesAndTerminals`, `PumpSizes`: pids are positive and 1 is one, sizes are naturals |

The restrictions are no convenience: without each of them (but those on pids and
sizes) the property fails, in the way section 4 describes.

**Arguments.** In each module `Inductive` proves the invariant, with one lemma or step
per action, and the theorems follow from it.

- *Thread groups.* `CloneInv` (a thread in creation has one creator, one not yet
  created none), `LiveCount`, `AloneInv` (at exec's swap the caller is the only
  counted thread; who took the count to 0 leaves none) and `WakeInv` (a sleeping exec
  is registered with somebody still to leave, or in the list a leaving thread took).
  Counting needs `CloneInv`, exclusiveness needs counting, the wake-up both.
- *Futexes.* Buckets without repetition that hold exactly the waiters, wake lists that
  are in the hands of wakers only, and no sleeper outside both. Lemmas on sequences
  say what push, cut and removal do to the set of elements.
- *Waiting for children.* `Reaping` (who was not reaped is in pid_map), `Registered`
  and `Visiting` (lists against snapshots), `Published` (`exited` is set before the
  list is swapped out, and then nobody joins it) and `Listed`: a call that saw no
  event is on the list of every child it visited, or on one about to be woken.
- *Job control.* `Creators`, `Locked`, `Sending` and `Reachable`: who carries
  VM_STOPPED is being launched or in the list, and a SIGCONT under way has yet to
  reach it.
- *Memory.* `SharedIsCow` (a page behind two segments is copy-on-write in both),
  `Cached` and `Translated` (TLB entries and pointers of accesses under way name the
  page behind their segment, and a store's page is not shared), `Dormant`. The
  refinement of FlatMemory then goes step by step: access is Load or Store, the second
  half of mmap is Map, fork's sharing is Fork, and mmu, the flushes, mprotect and the
  resolution of copy-on-write are stutters, since `Contents` does not change.
- *Signals.* `QueueFlagged` extends `PendingFlag` to masked signals, which is what the
  rescan after a mask change relies on; it excepts a `sigsuspend` that has seen only
  masked signals. `RestartSeen`: a pending restart is on its way to `deliver_signal`.
  The scan of `handle_signals` is a recursive function inside a definition, of which
  the prover knows no value; `DeferralExists` shows by a minimal counterexample that
  there is one with its equations.
- *Console.* `Recorded` (every group there is, and the one TIOCSPGRP has found, is in
  the history), `Taking` (a process between the halves of TIOCSCTTY leads its session
  and has the terminal unless it was overtaken), `NobodyInCall`. For the pump,
  `PumpInv`: `InOrder`, extended to the bytes on their way to the guest, and with every
  byte on its way to the host written before, so that the next one comes last. A step moves bytes across one of the concatenations, or cuts a
  piece out of one (`OrderedNext`, `OrderedCut`).

**Model-checked only.** Liveness (`KilledDies`, `OneWaitReturns`, `CallsGetThrough`,
`WokenReturns`, `Resumes`, `SignalArrives`, `FlagsNoticed`, `StopReported`): fairness
and ENABLED are beyond the prover. The engines, the lowered forms and the linker:
results of functions over enumerated inputs, some recursive, some on bit patterns, of
which there is no induction principle to use. The properties of Jit (its refinement of
Guest runs over fixed programs), Descriptors (`IoOnSameFile`, `OwnHandles`,
`FdPromise`) and Debugger (`AllStop`), and the refuted properties. `PumpKeepsOrder`,
`TerminalHasOneSession`, `ForegroundIsOwn` and `RestartsAreHonoured` are about the
properties of Console and Signals themselves, which the runs check through an instance
of the module.

## 6. Not modelled

Left out of the modelled parts: the encoding of wait statuses and siginfo,
sigaltstack, splitting of segments, the loading of the new image in exec, terminal
modes, the contents of files, memory and register packets of GDB, stack and auxv of a
new program, debug sections, and how instructions are encoded as bytes. Each
resolution of copy-on-write is one step, though two processes hold different locks
while they test the use count. Words are an eighth of their width.

Smaller simplifications: a SIGKILL sent to one thread (`tkill`, `tgkill`, the
sigqueueinfo calls) sets VM_KILLED on that thread only, and ThreadGroup has the kill of
the whole group instead; the two stores of `setsid` (`posix/session.cpp:89-90`) are one
step; a process that exits leaves the terminals' model at once, without the time it
spends in pid_map as a zombie; the JIT's count of the budget is a choice at any
safepoint; the check of the second slot of a 64-bit load, the refusals of `map_segment`
for failing host calls, and the lowering of fused multiply-add to a product and a sum
are left out.

Not modelled: path translation and host file calls, procfs (text rendered from state
of the other parts), argument translation of socket calls, generated FFI thunks, and
the LLVM passes other than the 128-bit lowering of BpfSoftFp, whose subject is LLVM
IR. Their blocking host calls are the one of Signals, their descriptors those of
Descriptors.
