------------------------------ MODULE Debugger ------------------------------
(***************************************************************************)
(* The GDB server of src/src/gdb_server.cpp and the stop points the guest  *)
(* threads offer it (src/src/insn.cpp, src/src/insn.h).                    *)
(*                                                                         *)
(* The server is one host thread that handles one packet at a time.  It    *)
(* keeps a table of the tasks it traces and stops them by setting          *)
(* VM_DEBUG_STOP in their flags word, polling the flags until every traced *)
(* task is settled, and only then answers.  The guest threads run all the  *)
(* while: the flag is seen at the breakpoint hook of the next instruction, *)
(* by a compiled loop at its header only.  They also stop and continue     *)
(* each other with SIGSTOP and SIGCONT, whose flag, VM_STOPPED, the server *)
(* takes for a stop when it looks.                                         *)
(***************************************************************************)
EXTENDS Naturals, FiniteSets, TLC

CONSTANTS
    Vm,         \* guest tasks that may ever exist
    Main,       \* main_vm
    Session,    \* the guest programs, with what the session negotiated
    BreakAddr   \* the addresses GDB may put a breakpoint on

Header == 0     \* the loop header, where compiled code looks at the flags
None == "none"

VARIABLES
    ses,        \* the session: Kind, Catch and Events below
    flags,      \* VM_DEBUG_ATTACHED, VM_DEBUG_STOP, VM_STOPPED, VM_EXITED, VM_KILLED
    at,         \* pc_ of each vm
    vpc,        \* where the host thread of each vm is
    native,     \* the vms in compiled code
    tasks,      \* tasks_: vm -> TaskEntry
    cur,        \* current_vm
    srv,        \* the server thread: where it is and the packet's locals
    told,       \* what GDB was last told happened
    ran,        \* instructions, and stretches of compiled code, ended since GDB was told
                \* of the stop (0, 1, 2)
    skipped,    \* history: tasks the last stop_all_vms left alone as job-stopped
    left        \* packets GDB may still send

vars == <<ses, flags, at, vpc, native, tasks, cur, srv, told, ran, skipped, left>>
guestVars == <<at, vpc, native, ran>>
serverVars == <<cur, srv, told, skipped>>

Kind == ses.kind        \* Kind[a]: the instruction at address a
Catch == ses.catch      \* QCatchSyscalls has been enabled
Events == ses.events    \* fork-events and exec-events were negotiated
                        \* ses.stop: started with --stop
                        \* ses.packets: bound on the packets of GDB
Addr == DOMAIN Kind

Entry == [bps : SUBSET Addr, stepping : BOOLEAN, exec : BOOLEAN,
          fork : Vm \cup {None}, sys : BOOLEAN]

NewEntry(bps) ==
    [bps |-> bps, stepping |-> FALSE, exec |-> FALSE, fork |-> None, sys |-> FALSE]

Idle == [pc |-> "idle", todo |-> {}, act |-> <<>>, one |-> None, pref |-> None,
         watch |-> {}, prop |-> FALSE]

Init ==
    /\ ses \in Session
    /\ flags = [v \in Vm |-> IF v = Main /\ ses.stop THEN {"ATTACHED", "STOP"} ELSE {}]
    /\ at = [v \in Vm |-> Header]
    /\ vpc = [v \in Vm |-> IF v = Main THEN "fetch" ELSE None]
    /\ tasks = IF ses.stop THEN Main :> NewEntry({}) ELSE <<>>
    /\ cur = Main
    /\ srv = [Idle EXCEPT !.pc = "accept"]
    /\ told = None /\ native = {} /\ skipped = {}
    /\ ran = [v \in Vm |-> 0]
    /\ left = ses.packets

Tracked(v) == v \in DOMAIN tasks
Attached(v) == "ATTACHED" \in flags[v]
StopSet(v) == "STOP" \in flags[v]
Exited(v) == flags[v] \cap {"EXITED", "KILLED"} # {}
NextAddr(a) == (a + 1) % Cardinality(Addr)

Without(f, v) == [x \in DOMAIN f \ {v} |-> f[x]]
With(f, v, e) == [x \in DOMAIN f \cup {v} |-> IF x = v THEN e ELSE f[x]]
ClearStop(f, vs) == [v \in Vm |-> IF v \in vs THEN f[v] \ {"STOP"} ELSE f[v]]
SetStop(f, vs) == [v \in Vm |-> IF v \in vs THEN f[v] \cup {"STOP"} ELSE f[v]]
Goto(v, p) == vpc' = [vpc EXCEPT ![v] = p]

---------------------------------------------------------------------------
(* The guest threads: step, the breakpoint hook, debug_park, do_syscall *)

\* step: leave when killed or exited, wait in the safepoint while job-stopped, run
\* compiled code unless a debugger is attached.
Fetch(v) ==
    /\ vpc[v] = "fetch"
    /\ \/ Exited(v) /\ Goto(v, "fini") /\ UNCHANGED native
       \/ /\ ~Exited(v) /\ "STOPPED" \notin flags[v]
          /\ Goto(v, IF Attached(v) THEN "hook" ELSE "exec")
          /\ \/ UNCHANGED native
             \/ ~Attached(v) /\ native' = native \cup {v}
    /\ UNCHANGED <<flags, at, tasks, ran, serverVars>>

\* The breakpoint hook, in the lock of the table: a step request is consumed, a
\* breakpoint at pc stops; a stop already requested leaves everything alone.
Hook(v) ==
    /\ vpc[v] = "hook" /\ Goto(v, "check")
    /\ IF StopSet(v) \/ ~Tracked(v)
       THEN UNCHANGED <<flags, tasks>>
       ELSE /\ tasks' = [tasks EXCEPT ![v].stepping = FALSE]
            /\ flags' = IF tasks[v].stepping \/ at[v] \in tasks[v].bps
                        THEN SetStop(flags, {v}) ELSE flags
    /\ UNCHANGED <<at, native, ran, serverVars>>

\* ... after which the flag alone decides; the syscall hooks end the same way.
Check(v) ==
    /\ \/ vpc[v] = "check" /\ Goto(v, IF StopSet(v) THEN "park" ELSE "exec")
       \/ vpc[v] = "entered" /\ Goto(v, IF StopSet(v) THEN "parkent" ELSE "sys")
       \/ vpc[v] = "returned" /\ Goto(v, IF StopSet(v) THEN "parkret" ELSE "back")
    /\ UNCHANGED <<flags, at, native, tasks, ran, serverVars>>

\* debug_park returns once the flag is cleared, or the task killed.
Unpark(v) ==
    /\ ~StopSet(v) \/ "KILLED" \in flags[v]
    /\ \/ vpc[v] = "park" /\ Goto(v, "exec")
       \/ vpc[v] = "parkent" /\ Goto(v, "sys")
       \/ vpc[v] = "parkret" /\ Goto(v, "back")
    /\ UNCHANGED <<flags, at, native, tasks, ran, serverVars>>

\* An instruction, or a stretch of compiled code, has ended.
CountRun(v) ==
    ran' = [ran EXCEPT ![v] = IF Attached(v) /\ told # None /\ @ < 2 THEN @ + 1 ELSE @]

\* One instruction.  Compiled code goes on to the next address without looking at
\* anything, until that is the loop header.
Exec(v) ==
    /\ vpc[v] = "exec"
    /\ \/ /\ Kind[at[v]] = "plain"
          /\ at' = [at EXCEPT ![v] = NextAddr(@)]
          /\ IF v \in native /\ at'[v] # Header THEN UNCHANGED <<vpc, native>>
             ELSE Goto(v, "fetch") /\ native' = native \ {v}
       \/ /\ Kind[at[v]] # "plain"
          /\ Goto(v, IF Attached(v) THEN "entry" ELSE "sys")
          /\ UNCHANGED <<at, native>>
    /\ IF v \in native' THEN UNCHANGED ran ELSE CountRun(v)
    /\ UNCHANGED <<flags, tasks, serverVars>>

\* The entry and return hooks record the event in the lock of the table ...
SysEvent(v) ==
    /\ \/ vpc[v] = "entry" /\ Goto(v, IF Catch THEN "entstop" ELSE "entered")
       \/ vpc[v] = "return" /\ Goto(v, IF Catch THEN "retstop" ELSE "returned")
    /\ tasks' = IF Catch /\ Tracked(v) THEN [tasks EXCEPT ![v].sys = TRUE] ELSE tasks
    /\ UNCHANGED <<flags, at, native, ran, serverVars>>

\* ... and ask for the stop after releasing it.
SysStop(v) ==
    /\ \/ vpc[v] = "entstop" /\ Goto(v, "entered")
       \/ vpc[v] = "retstop" /\ Goto(v, "returned")
    /\ flags' = SetStop(flags, {v})
    /\ UNCHANGED <<at, native, tasks, ran, serverVars>>

\* Where do_syscall goes when the call is done, and where its caller goes on: compiled
\* code with the next instruction, unless that is the header or a flag ends it.
Returns(v) == Goto(v, IF Attached(v) THEN "return" ELSE "back")

Back(v) ==
    /\ vpc[v] = "back"
    /\ IF v \in native /\ at[v] # Header /\ flags[v] \cap {"EXITED", "KILLED", "STOPPED"} = {}
       THEN Goto(v, "exec") /\ UNCHANGED <<native, ran>>
       ELSE /\ Goto(v, "fetch") /\ native' = native \ {v}
            /\ IF v \in native THEN CountRun(v) ELSE UNCHANGED ran
    /\ UNCHANGED <<flags, at, tasks, serverVars>>

\* A system call that does nothing the debugger is told of.  It may block for as
\* long as it likes; VM_DEBUG_STOP and the kick only make it return.
Sys(v) ==
    /\ vpc[v] = "sys" /\ Kind[at[v]] = "sys"
    /\ at' = [at EXCEPT ![v] = NextAddr(@)] /\ Returns(v)
    /\ UNCHANGED <<flags, native, tasks, ran, serverVars>>

\* kill with SIGSTOP or SIGCONT, of a task whose clone is over.
SysKill(v, w) ==
    /\ vpc[v] = "sys" /\ Kind[at[v]] = "kill" /\ vpc[w] \notin {None, "gone"} \cup Vm
    /\ \/ flags' = [flags EXCEPT ![w] = @ \cup {"STOPPED"}]
       \/ flags' = [flags EXCEPT ![w] = @ \ {"STOPPED"}]
    /\ at' = [at EXCEPT ![v] = NextAddr(@)] /\ Returns(v)
    /\ UNCHANGED <<native, tasks, ran, serverVars>>

\* exit_group, which may as well not be reached: the program loops.
SysExit(v) ==
    /\ vpc[v] = "sys" /\ Kind[at[v]] = "exit"
    /\ \/ flags' = [flags EXCEPT ![v] = @ \cup {"EXITED"}]
          /\ Goto(v, "fini") /\ UNCHANGED at
       \/ at' = [at EXCEPT ![v] = NextAddr(@)] /\ Goto(v, "back") /\ UNCHANGED flags
    /\ UNCHANGED <<native, tasks, ran, serverVars>>

\* A successful execveat: a new program from its first instruction.
SysExec(v) ==
    /\ vpc[v] = "sys" /\ Kind[at[v]] = "exec"
    /\ at' = [at EXCEPT ![v] = Header]
    /\ IF Attached(v) /\ Events /\ Tracked(v)
       THEN /\ tasks' = [tasks EXCEPT ![v].bps = {}, ![v].exec = TRUE]
            /\ flags' = SetStop(flags, {v})
            /\ Goto(v, "returned")
       ELSE Returns(v) /\ UNCHANGED <<tasks, flags>>
    /\ UNCHANGED <<native, ran, serverVars>>

\* do_clone up to notify_create: the child waits in its first safepoint, job-stopped,
\* and is attached when its parent is.  The flag is read before the lock is taken.
Fork(v, c) ==
    /\ vpc[v] = "sys" /\ Kind[at[v]] = "fork" /\ vpc[c] = None
    /\ at' = [at EXCEPT ![v] = NextAddr(@), ![c] = NextAddr(at[v])]
    /\ IF Attached(v)
       THEN /\ vpc' = [vpc EXCEPT ![v] = "created", ![c] = v]
            /\ flags' = [flags EXCEPT ![c] = {"ATTACHED", "STOPPED"}]
       ELSE /\ vpc' = [vpc EXCEPT ![v] = "back", ![c] = "fetch"]
            /\ UNCHANGED flags
    /\ UNCHANGED <<native, tasks, ran, serverVars>>

\* Mutant: the child starts without being stopped.
CreateRunning(v, c) ==
    /\ vpc[v] = "created" /\ vpc[c] = v
    /\ tasks' = With(tasks, c, NewEntry(IF Tracked(v) THEN tasks[v].bps ELSE {}))
    /\ Goto(v, "hooked")
    /\ UNCHANGED <<flags, at, native, ran, serverVars>>

\* on_create_vm: the child inherits the breakpoints and stops at its first
\* instruction; the parent stops too when GDB asked for fork events.
OnCreate(v, c) ==
    /\ vpc[v] = "created" /\ vpc[c] = v
    /\ LET tell == Events /\ Tracked(v)
           t == With(tasks, c, NewEntry(IF Tracked(v) THEN tasks[v].bps ELSE {}))
       IN  /\ tasks' = IF tell THEN [t EXCEPT ![v].fork = c] ELSE t
           /\ flags' = SetStop(flags, IF tell THEN {v, c} ELSE {c})
    /\ Goto(v, "hooked")
    /\ UNCHANGED <<at, native, ran, serverVars>>

\* The end of do_clone lets the child go.
Release(v, c) ==
    /\ vpc[v] = "hooked" /\ vpc[c] = v
    /\ flags' = [flags EXCEPT ![c] = @ \ {"STOPPED"}]
    /\ vpc' = [vpc EXCEPT ![v] = "return", ![c] = "fetch"]
    /\ UNCHANGED <<at, native, tasks, ran, serverVars>>

\* No task is left for a child: clone fails.
ForkFails(v) ==
    /\ vpc[v] = "sys" /\ Kind[at[v]] = "fork" /\ \A c \in Vm : vpc[c] # None
    /\ at' = [at EXCEPT ![v] = NextAddr(@)] /\ Returns(v)
    /\ UNCHANGED <<flags, native, tasks, ran, serverVars>>

\* The end of run().
Fini(v) ==
    /\ vpc[v] = "fini"
    /\ flags' = [flags EXCEPT ![v] = @ \cup {"EXITED"}]
    /\ Goto(v, "gone")
    /\ UNCHANGED <<at, native, tasks, ran, serverVars>>

GuestStep(v) ==
    \/ Fetch(v) \/ Hook(v) \/ Check(v) \/ Unpark(v) \/ Exec(v) \/ SysEvent(v)
    \/ SysStop(v) \/ Back(v) \/ Sys(v) \/ SysExit(v) \/ SysExec(v) \/ ForkFails(v) \/ Fini(v)
    \/ \E c \in Vm : Fork(v, c) \/ OnCreate(v, c) \/ Release(v, c) \/ SysKill(v, c)

---------------------------------------------------------------------------
(* The server thread *)

\* accept and attach_on_connect: register the main vm, then have it stop.
Connect ==
    /\ srv.pc = "accept" /\ ~Exited(Main)
    /\ IF Attached(Main)
       THEN srv' = Idle /\ UNCHANGED <<flags, tasks>>
       ELSE /\ tasks' = With(tasks, Main, NewEntry({}))
            /\ flags' = [flags EXCEPT ![Main] = @ \cup {"ATTACHED"}]
            /\ srv' = [Idle EXCEPT !.pc = "request", !.one = Main]
    /\ UNCHANGED <<guestVars, cur, told, skipped>>

\* request_stop; the answer to vAttach, or to the "?" that follows a connection, says
\* that the task has stopped.
RequestStop ==
    /\ srv.pc = "request"
    /\ flags' = SetStop(flags, {srv.one})
    /\ srv' = Idle
    /\ told' = "stop"
    /\ ran' = [ran EXCEPT ![srv.one] = 0]
    /\ skipped' = skipped \ {srv.one}
    /\ UNCHANGED <<at, vpc, native, tasks, cur>>

\* H: choose a traced task; one that is not traced falls back to the main vm.
Select(v) ==
    /\ srv.pc = "idle" /\ vpc[v] # None
    /\ cur' = IF Tracked(v) THEN v ELSE Main
    /\ UNCHANGED <<flags, guestVars, tasks, srv, told, skipped>>

\* Z0 and z0 change the breakpoints of the task in focus.
SetBreak(a) ==
    /\ srv.pc = "idle" /\ Tracked(cur)
    /\ \/ tasks' = [tasks EXCEPT ![cur].bps = @ \cup {a}]
       \/ tasks' = [tasks EXCEPT ![cur].bps = @ \ {a}]
    /\ UNCHANGED <<flags, guestVars, cur, srv, told, skipped>>

\* k and vKill
Kill(v) ==
    /\ srv.pc = "idle" /\ (v = cur \/ Tracked(v)) /\ ~Exited(v)
    /\ flags' = [flags EXCEPT ![v] = @ \cup {"KILLED"}]
    /\ UNCHANGED <<guestVars, tasks, cur, srv, told, skipped>>

\* vAttach of a live task, traced or not.
Attach(v) ==
    /\ srv.pc = "idle" /\ vpc[v] \notin {None, "gone"} \cup Vm
    /\ tasks' = With(tasks, v, NewEntry({}))
    /\ flags' = [flags EXCEPT ![v] = @ \cup {"ATTACHED"}]
    /\ srv' = IF Attached(v) THEN srv ELSE [srv EXCEPT !.pc = "request", !.one = v]
    /\ cur' = v
    /\ UNCHANGED <<guestVars, told, skipped>>

\* D;pid: forget the task, then let it go.
Detach(v) ==
    /\ srv.pc = "idle" /\ Tracked(v)
    /\ tasks' = Without(tasks, v)
    /\ srv' = [srv EXCEPT !.pc = "letgo", !.todo = {v}]
    /\ UNCHANGED <<flags, guestVars, cur, told, skipped>>

\* end_session: after D the server goes on with the packets of the connection, after
\* a lost connection it waits for the next.
EndSession ==
    /\ srv.pc = "idle"
    /\ tasks' = <<>>
    /\ \E then \in {"letgo", "end"} : srv' = [Idle EXCEPT !.pc = then, !.todo = DOMAIN tasks]
    /\ cur' = Main /\ told' = None
    /\ UNCHANGED <<flags, guestVars, skipped>>

\* Clear both debug flags of the next task that is not dead, and wake it.
LetGo(v) ==
    /\ srv.pc \in {"letgo", "end"} /\ v \in srv.todo
    /\ flags' = IF Exited(v) THEN flags ELSE [flags EXCEPT ![v] = @ \ {"ATTACHED", "STOP"}]
    /\ srv' = [srv EXCEPT !.todo = @ \ {v}]
    /\ UNCHANGED <<guestVars, tasks, cur, told, skipped>>

LetGoDone ==
    /\ srv.pc \in {"letgo", "end"} /\ srv.todo = {}
    /\ srv' = [Idle EXCEPT !.pc = IF srv.pc = "end" THEN "accept" ELSE "idle"]
    /\ UNCHANGED <<flags, guestVars, tasks, cur, told, skipped>>

---------------------------------------------------------------------------
(* Resuming: c, s and vCont *)

\* The traced tasks a resume may concern.
Live == {v \in DOMAIN tasks : Attached(v) /\ ~Exited(v)}

\* c and s on a task that is already dead only report it.
ResumeDead ==
    /\ srv.pc = "idle" /\ Exited(cur) /\ Tracked(cur)
    /\ tasks' = Without(tasks, cur)
    /\ told' = "exit"
    /\ UNCHANGED <<flags, guestVars, cur, srv, skipped>>

\* Release v for one instruction, to be waited for before anything else happens.
StepOut(v, next) ==
    /\ flags' = ClearStop(flags, {v})
    /\ tasks' = IF Tracked(v) THEN [tasks EXCEPT ![v].stepping = TRUE] ELSE tasks
    /\ srv' = next

\* c: step the task in focus over a breakpoint at its pc, release it, then the others.
Continue ==
    /\ srv.pc = "idle" /\ cur \in Live
    /\ LET next == [srv EXCEPT !.pc = "all", !.pref = cur, !.one = cur]
       IN  IF at[cur] \in tasks[cur].bps
           THEN StepOut(cur, [next EXCEPT !.pc = "over"])
           ELSE flags' = ClearStop(flags, {cur}) /\ srv' = next /\ UNCHANGED tasks
    /\ told' = None
    /\ ran' = [v \in Vm |-> 0]
    /\ UNCHANGED <<at, vpc, native, cur, skipped>>

\* s: one instruction of the task in focus.
Step ==
    /\ srv.pc = "idle" /\ cur \in Live
    /\ StepOut(cur, [srv EXCEPT !.pc = "step", !.pref = cur, !.one = cur])
    /\ told' = None
    /\ ran' = [v \in Vm |-> 0]
    /\ UNCHANGED <<at, vpc, native, cur, skipped>>

\* vCont: an action for each live task; the tasks to continue that stand on a
\* breakpoint are stepped over it first, one after the other.
VCont(act) ==
    /\ srv.pc = "idle" /\ \E v \in Live : act[v] # "t"
    /\ srv' = [srv EXCEPT !.pc = "vcont",
                          !.act = act,
                          !.todo = {v \in Live : act[v] = "c" /\ at[v] \in tasks[v].bps},
                          !.pref = IF \E v \in Live : act[v] = "s"
                                   THEN CHOOSE v \in Live : act[v] = "s" ELSE None]
    /\ told' = None
    /\ ran' = [v \in Vm |-> 0]
    /\ UNCHANGED <<flags, at, vpc, native, tasks, cur, skipped>>

VContOver(v) ==
    /\ srv.pc = "vcont" /\ v \in srv.todo
    /\ StepOut(v, [srv EXCEPT !.pc = "vover", !.one = v, !.todo = @ \ {v}])
    /\ UNCHANGED <<guestVars, cur, told, skipped>>

\* Release every task the packet wants to run; when all of them died on the way, the
\* empty list makes the server watch every task.
VContRelease ==
    /\ srv.pc = "vcont" /\ srv.todo = {}
    /\ LET go == {v \in Live \cap DOMAIN srv.act : srv.act[v] # "t"}
       IN  /\ flags' = ClearStop(flags, go)
           /\ tasks' = [v \in DOMAIN tasks |->
                  IF v \in go /\ srv.act[v] = "s" THEN [tasks[v] EXCEPT !.stepping = TRUE]
                  ELSE tasks[v]]
           /\ srv' = [srv EXCEPT !.pc = IF go = {} THEN "watch" ELSE "wait", !.watch = go]
    /\ UNCHANGED <<guestVars, cur, told, skipped>>

\* continue_all_vms: drop what is pending of every task and release it.
ContinueAll ==
    /\ srv.pc = "all"
    /\ tasks' = [v \in DOMAIN tasks |->
           [tasks[v] EXCEPT !.stepping = FALSE, !.sys = FALSE, !.exec = FALSE]]
    /\ flags' = ClearStop(flags, {v \in DOMAIN tasks : Attached(v)})
    /\ srv' = [srv EXCEPT !.pc = "watch"]
    /\ UNCHANGED <<guestVars, cur, told, skipped>>

\* wait_any_stopped starts: without a list it watches the tasks attached now.
Watch ==
    /\ srv.pc = "watch"
    /\ srv' = [srv EXCEPT !.pc = "wait", !.watch = {v \in DOMAIN tasks : Attached(v)}]
    /\ UNCHANGED <<flags, guestVars, tasks, cur, told, skipped>>

\* wait_stopped returns: the step-over, or the step, is done.
Stepped ==
    /\ srv.pc \in {"over", "vover", "step"}
    /\ StopSet(srv.one) \/ Exited(srv.one)
    /\ \/ /\ srv.pc = "over"
          /\ flags' = IF Exited(srv.one) THEN flags ELSE ClearStop(flags, {srv.one})
          /\ srv' = [srv EXCEPT !.pc = "all"]
       \/ srv.pc = "vover" /\ srv' = [srv EXCEPT !.pc = "vcont"] /\ UNCHANGED flags
       \/ srv.pc = "step" /\ srv' = [srv EXCEPT !.pc = "watch"] /\ UNCHANGED flags
    /\ UNCHANGED <<guestVars, tasks, cur, told, skipped>>

\* Ctrl-C while it waits for one task.
InterruptStep ==
    /\ srv.pc \in {"over", "vover", "step"}
    /\ flags' = SetStop(flags, {srv.one})
    /\ UNCHANGED <<guestVars, tasks, cur, srv, told, skipped>>

---------------------------------------------------------------------------
(* wait_any_stopped *)

\* stop_all_vms: every traced task that is neither stopped, by the server or by
\* SIGSTOP, nor dead.
JobStopped(v) == "STOPPED" \in flags[v]
Running == {v \in DOMAIN tasks : Attached(v) /\ ~StopSet(v) /\ ~Exited(v)}

StopAll ==
    /\ flags' = SetStop(flags, {v \in Running : ~JobStopped(v)})
    /\ skipped' = {v \in Running : JobStopped(v)}

\* Mutant: a task that died while the others were being stopped is waited for.
SettledStopped(v) == StopSet(v) \/ JobStopped(v) \/ tasks[v].stepping

\* A task that has a stop outstanding, is job-stopped or dead, or is about to make a
\* stop of its step.
Settled(v) == StopSet(v) \/ JobStopped(v) \/ Exited(v) \/ tasks[v].stepping

\* The tasks one pass over the table may pick: the preferred one, else one that
\* stopped, else one that is dead.
Hits ==
    LET seen == srv.watch \cap DOMAIN tasks
        preferred == {v \in seen : v = srv.pref /\ (StopSet(v) \/ Exited(v))}
        stopped == {v \in seen : StopSet(v)}
    IN  IF preferred # {} THEN preferred
        ELSE IF stopped # {} THEN stopped
        ELSE {v \in seen : Exited(v)}

AllSettled == \A v \in DOMAIN tasks : Attached(v) => Settled(v)

\* Mutant: the answer does not wait for the other tasks.
PollHasty ==
    /\ srv.pc = "wait" /\ Hits # {}
    /\ \E v \in Hits : srv' = [srv EXCEPT !.pc = "report", !.one = v]
    /\ UNCHANGED <<flags, guestVars, tasks, cur, told, skipped>>

\* One poll that finds a task: stop the others, once, and report it when all have
\* settled (as the pass over the table saw them).
Poll ==
    /\ srv.pc = "wait" /\ Hits # {}
    /\ IF srv.prop THEN UNCHANGED <<flags, skipped>> ELSE StopAll
    /\ IF AllSettled
       THEN \E v \in Hits : srv' = [srv EXCEPT !.pc = "report", !.one = v, !.prop = TRUE]
       ELSE srv' = [srv EXCEPT !.prop = TRUE]
    /\ ~srv.prop \/ AllSettled
    /\ UNCHANGED <<guestVars, tasks, cur, told>>

\* Ctrl-C
Interrupt ==
    /\ srv.pc = "wait"
    /\ StopAll
    /\ srv' = [srv EXCEPT !.prop = TRUE]
    /\ UNCHANGED <<guestVars, tasks, cur, told>>

\* send_exit_reply erases what it reports; otherwise the exec event goes before the
\* syscall event and that before the plain or fork stop.
Report ==
    /\ srv.pc = "report"
    /\ LET v == srv.one
           e == tasks[v]
           kind == CASE Exited(v) -> "exit" [] e.exec -> "exec" [] e.sys -> "syscall"
                     [] e.fork # None /\ Events -> "fork" [] OTHER -> "stop"
       IN  /\ tasks' = CASE Exited(v) -> Without(tasks, v)
                         [] OTHER -> [tasks EXCEPT
                              ![v].fork = IF Events THEN None ELSE @,
                              ![v].exec = FALSE,
                              ![v].sys = IF e.exec THEN @ ELSE FALSE]
           /\ told' = kind
           /\ cur' = IF Exited(v) THEN cur ELSE v
    /\ srv' = Idle
    /\ ran' = [v \in Vm |-> 0]
    /\ UNCHANGED <<flags, at, vpc, native, skipped>>

---------------------------------------------------------------------------
\* What the server does without hearing from GDB.
ServerStep ==
    \/ RequestStop \/ (\E v \in Vm : LetGo(v) \/ VContOver(v)) \/ LetGoDone
    \/ VContRelease \/ ContinueAll \/ Watch \/ Stepped \/ Poll \/ Report

\* What GDB asks: it resumes, selects and kills tasks it was told of.
Packet ==
    \/ Connect \/ EndSession \/ ResumeDead \/ Continue \/ Step \/ Interrupt \/ InterruptStep
    \/ \E v \in Vm : Select(v) \/ Kill(v) \/ Attach(v) \/ Detach(v)
    \/ \E a \in BreakAddr : SetBreak(a)
    \/ \E act \in [Live -> {"c", "s", "t"}] : VCont(act)

Next ==
    \/ (ServerStep \/ \E v \in Vm : GuestStep(v)) /\ UNCHANGED <<ses, left>>
    \/ Packet /\ left > 0 /\ left' = left - 1 /\ UNCHANGED ses

Spec == Init /\ [][Next]_vars

\* Host threads are scheduled and guest system calls return; GDB owes nothing.
FairSpec ==
    /\ Spec
    /\ WF_vars(ServerStep /\ UNCHANGED <<ses, left>>)
    /\ \A v \in Vm : WF_vars(GuestStep(v) /\ UNCHANGED <<ses, left>>)

---------------------------------------------------------------------------
(* Properties *)

TypeOK ==
    /\ flags \in [Vm -> SUBSET {"ATTACHED", "STOP", "STOPPED", "EXITED", "KILLED"}]
    /\ at \in [Vm -> Addr] /\ native \subseteq Vm /\ skipped \subseteq Vm
    /\ DOMAIN tasks \subseteq Vm /\ \A v \in DOMAIN tasks : tasks[v] \in Entry
    /\ cur \in Vm /\ ran \in [Vm -> 0..2] /\ left \in 0..ses.packets

\* All-stop: once GDB has been told that a task stopped, no traced task completes
\* more than the instruction, or the stretch of compiled code up to the loop header,
\* that it was in, however the guest threads and the stop requests interleave, until
\* GDB resumes or kills them.  A task that stop_all_vms passed over because it was
\* job-stopped is not held: SIGCONT lets it run.
AllStop ==
    told # None /\ srv.pc = "idle" =>
        \A v \in DOMAIN tasks \ skipped : Attached(v) /\ ~Exited(v) => ran[v] <= 1

\* All-stop of every traced task, as gdb_server.h describes it: stop_all_vms stops the
\* others that run, whatever else has stopped them meanwhile.
EveryTaskStops ==
    told # None /\ srv.pc = "idle" =>
        \A v \in DOMAIN tasks : Attached(v) /\ ~Exited(v) => ran[v] <= 1

\* Once a task has stopped, GDB is told of a stop: the other tasks all settle, unless
\* one that was passed over as job-stopped has been continued, which nobody asks to
\* stop again.
StopReported ==
    (srv.pc = "wait" /\ Hits # {})
      ~> (srv.pc = "idle" \/ \E v \in skipped \cap DOMAIN tasks : Attached(v) /\ ~Settled(v))
=============================================================================
