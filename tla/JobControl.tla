----------------------------- MODULE JobControl -----------------------------
(***************************************************************************)
(* Stopping and resuming a thread group (stop_process and the SIGCONT      *)
(* branch of queue_signal) while its threads create further threads, whose *)
(* launch is held back with the same VM_STOPPED flag (do_clone).           *)
(***************************************************************************)
EXTENDS Naturals, FiniteSets, VmFlags

CONSTANTS
    Thread,     \* threads of the group
    Start,      \* the threads that exist initially
    Sender      \* whoever sends SIGSTOP and SIGCONT to the group

ASSUME JobAssumption == Start \subseteq Thread /\ Start # {}

VARIABLES
    stopped,    \* tg->stopped
    threads,    \* tg->threads
    pid_map,    \* the threads registered in pid_map
    mtx,        \* holders of tg->mtx between two steps
    flags,      \* flag word of each vm
    pc,         \* where each thread is
    child,      \* the threads each thread is creating
    spc,        \* where each sender is
    to_wake     \* threads a sender has still to change

vars == <<stopped, threads, pid_map, mtx, flags, pc, child, spc, to_wake>>
senderVars == <<stopped, mtx, spc, to_wake>>
cloneVars == <<threads, pid_map, child>>

Init ==
    /\ stopped = FALSE
    /\ threads = Start /\ pid_map = Start
    /\ mtx = {}
    /\ flags = [t \in Thread |-> {}]
    /\ pc = [t \in Thread |-> IF t \in Start THEN "run" ELSE "none"]
    /\ child = [t \in Thread |-> {}]
    /\ spc = [s \in Sender |-> "idle"]
    /\ to_wake = [s \in Sender |-> {}]

Goto(t, where) == pc' = [pc EXCEPT ![t] = where]

---------------------------------------------------------------------------
(* do_clone(CLONE_THREAD) *)

\* Start the host thread with VM_STOPPED set.
Clone(t, c) ==
    /\ pc[t] = "run" /\ pc[c] = "none"
    /\ pc' = [pc EXCEPT ![t] = "push", ![c] = "step"]
    /\ child' = [child EXCEPT ![t] = {c}]
    /\ flags' = SetFlag(flags, c, "STOPPED")
    /\ UNCHANGED <<senderVars, threads, pid_map>>

ClonePush(t) ==
    /\ pc[t] = "push" /\ mtx = {}
    /\ threads' = threads \cup child[t]
    /\ Goto(t, "map")
    /\ UNCHANGED <<senderVars, pid_map, flags, child>>

CloneMap(t) ==
    /\ pc[t] = "map"
    /\ pid_map' = pid_map \cup child[t]
    /\ Goto(t, "go")
    /\ UNCHANGED <<senderVars, threads, flags, child>>

\* Let the child go: clear VM_STOPPED and wake it.
CloneGo(t) ==
    /\ pc[t] = "go"
    /\ flags' = ClearFlagAll(flags, child[t], "STOPPED")
    /\ child' = [child EXCEPT ![t] = {}]
    /\ Goto(t, "step")
    /\ UNCHANGED <<senderVars, threads, pid_map>>

---------------------------------------------------------------------------
(* step and safepoint *)

\* A thread about to execute finds VM_STOPPED and waits on wait_cv in safepoint.
Park(t) ==
    /\ pc[t] \in {"step", "run"} /\ "STOPPED" \in flags[t]
    /\ Goto(t, "parked")
    /\ UNCHANGED <<senderVars, cloneVars, flags>>

\* It executes guest code while the flag is clear.
Run(t) ==
    /\ pc[t] \in {"step", "parked"} /\ "STOPPED" \notin flags[t]
    /\ Goto(t, "run")
    /\ UNCHANGED <<senderVars, cloneVars, flags>>

---------------------------------------------------------------------------
(* The senders *)

\* stop_process: the group's state first, ...
StopMark(s) ==
    /\ spc[s] = "idle"
    /\ stopped' = TRUE
    /\ spc' = [spc EXCEPT ![s] = "snap"]
    /\ UNCHANGED <<cloneVars, mtx, flags, pc, to_wake>>

\* ... the list of its threads under the lock, ...
StopSnap(s) ==
    /\ spc[s] = "snap" /\ mtx = {}
    /\ to_wake' = [to_wake EXCEPT ![s] = threads]
    /\ spc' = [spc EXCEPT ![s] = "set"]
    /\ UNCHANGED <<cloneVars, stopped, mtx, flags, pc>>

\* ... and then, without the lock, the flag of each.
StopSet(s, t) ==
    /\ spc[s] = "set" /\ t \in to_wake[s]
    /\ flags' = SetFlag(flags, t, "STOPPED")
    /\ to_wake' = [to_wake EXCEPT ![s] = @ \ {t}]
    /\ spc' = [spc EXCEPT ![s] = IF to_wake[s] = {t} THEN "idle" ELSE "set"]
    /\ UNCHANGED <<cloneVars, stopped, mtx, pc>>

\* SIGCONT: the group's state first, ...
ContMark(s) ==
    /\ spc[s] = "idle"
    /\ stopped' = FALSE
    /\ spc' = [spc EXCEPT ![s] = "lock"]
    /\ UNCHANGED <<cloneVars, mtx, flags, pc, to_wake>>

\* ... then, holding the lock, the flag of each thread.
ContLock(s) ==
    /\ spc[s] = "lock" /\ mtx = {}
    /\ mtx' = {s}
    /\ to_wake' = [to_wake EXCEPT ![s] = threads]
    /\ spc' = [spc EXCEPT ![s] = "clear"]
    /\ UNCHANGED <<cloneVars, stopped, flags, pc>>

\* Mutant: only one thread is resumed.
ContClearOne(s, t) ==
    /\ spc[s] = "clear" /\ t \in to_wake[s]
    /\ flags' = ClearFlag(flags, t, "STOPPED")
    /\ to_wake' = [to_wake EXCEPT ![s] = {}]
    /\ spc' = [spc EXCEPT ![s] = "idle"] /\ mtx' = {}
    /\ UNCHANGED <<cloneVars, stopped, pc>>

ContClear(s, t) ==
    /\ spc[s] = "clear" /\ t \in to_wake[s]
    /\ flags' = ClearFlag(flags, t, "STOPPED")
    /\ to_wake' = [to_wake EXCEPT ![s] = @ \ {t}]
    /\ IF to_wake[s] = {t}
       THEN spc' = [spc EXCEPT ![s] = "idle"] /\ mtx' = {}
       ELSE UNCHANGED <<spc, mtx>>
    /\ UNCHANGED <<cloneVars, stopped, pc>>

---------------------------------------------------------------------------
ThreadStep(t) == ClonePush(t) \/ CloneMap(t) \/ CloneGo(t) \/ Park(t) \/ Run(t)

SenderStep(s) ==
    \/ StopSnap(s) \/ ContLock(s)
    \/ \E t \in Thread : StopSet(s, t) \/ ContClear(s, t)

Next ==
    \/ \E t \in Thread : ThreadStep(t) \/ \E c \in Thread : Clone(t, c)
    \/ \E s \in Sender : SenderStep(s) \/ StopMark(s) \/ ContMark(s)

Spec == Init /\ [][Next]_vars

\* Host threads are scheduled and finish the call they are in; nobody has to send.
FairSpec ==
    /\ Spec
    /\ \A t \in Thread : WF_vars(ThreadStep(t))
    /\ \A s \in Sender : WF_vars(SenderStep(s))

---------------------------------------------------------------------------
(* Properties *)

TypeOK ==
    /\ stopped \in BOOLEAN
    /\ threads \subseteq Thread /\ pid_map \subseteq Thread
    /\ mtx \subseteq Sender /\ Cardinality(mtx) <= 1
    /\ flags \in [Thread -> SUBSET Flag]
    /\ pc \in [Thread -> {"none", "step", "run", "parked", "push", "map", "go"}]
    /\ child \in [Thread -> SUBSET Thread]
    /\ spc \in [Sender -> {"idle", "snap", "set", "lock", "clear"}]
    /\ to_wake \in [Sender -> SUBSET Thread]

\* A continued group has no stopped thread left: once SIGCONT has gone through the
\* list, only a thread that is still being launched carries VM_STOPPED, whatever
\* clones were in progress while the group was stopped and resumed.
NobodyLeftStopped ==
    ~stopped /\ (\A s \in Sender : spc[s] = "idle") =>
        \A t \in Thread : "STOPPED" \in flags[t] => \E u \in Thread : t \in child[u]

\* After SIGCONT every thread of the group runs again, unless another SIGSTOP or
\* SIGCONT comes (a stream of them may keep tg->mtx from a thread in do_clone).
Resumes ==
    \A t \in Thread :
        (pc[t] = "parked" /\ ~stopped)
            ~> (pc[t] # "parked" \/ \E s \in Sender : spc[s] # "idle")
=============================================================================
