----------------------------- MODULE ChildWait -----------------------------
(***************************************************************************)
(* How a process learns that a child exited or stopped: wait4 and waitid   *)
(* (do_wait_common) run by several threads of the parent, against the      *)
(* children's fini, stop_process and SIGCONT run by other tasks, fork by a *)
(* sibling of the waiting thread, and re-parenting by an exiting process.  *)
(*                                                                         *)
(* Children are single processes seen from outside (their own threads are  *)
(* ThreadGroup's subject).  SIGCHLD has its default disposition here: it   *)
(* is ignorable and not blocked, so queue_signal drops it and the waiters  *)
(* list is the only way a sleeping wait is woken.                          *)
(***************************************************************************)
EXTENDS Naturals, FiniteSets, VmFlags

CONSTANTS
    Waiter,     \* threads of the parent process
    Kid,        \* child processes, by leader pid
    Orphan,     \* the kids that start as children of another process
    Sender,     \* tasks that send SIGSTOP or SIGCONT to children
    Options     \* the option sets calls are made with

\* WUNTRACED is accepted too, but do_wait_common does not look at it.
Option == {"WNOHANG", "WNOWAIT"}

ASSUME ChildAssumption ==
    Kid # {} /\ Orphan \subseteq Kid /\ Options \subseteq SUBSET Option

VARIABLES
    pid_map,        \* the kids pid_map holds
    kpc,            \* where a kid is: running, or in the tail of fini
    mine,           \* the kids whose tg->ppid is this parent's tgid
    exited,         \* tg->exited of each kid
    stopped,        \* tg->stopped
    stop_reported,  \* tg->stop_reported
    waiters,        \* tg->waiters
    ktowake,        \* the list a kid's wake_waiters swapped out
    pc,             \* where each waiter is in do_wait_common
    flags,          \* flags word of each waiter
    want,           \* the kids idtype and id select
    opt,            \* the options of the call
    kids,           \* do_wait_common's snapshot
    todo,           \* the kids of the snapshot not yet visited
    has_event,      \* do_wait_common's has_event
    spc,            \* where each sender is in stop_process
    starget,        \* the kid it is stopping
    stowake,        \* the list its wake_waiters swapped out
    reaped          \* history: how often each kid was reaped

kidVars == <<pid_map, kpc, mine, exited, waiters, ktowake>>
stopVars == <<stopped, stop_reported, spc, starget, stowake>>
waitVars == <<pc, want, opt, kids, todo, has_event, reaped>>
vars == <<kidVars, stopVars, waitVars, flags>>

Init ==
    /\ pid_map = Orphan
    /\ kpc = [k \in Kid |-> IF k \in Orphan THEN "run" ELSE "none"]
    /\ mine = {}
    /\ exited = [k \in Kid |-> FALSE]
    /\ stopped = [k \in Kid |-> FALSE]
    /\ stop_reported = [k \in Kid |-> FALSE]
    /\ waiters = [k \in Kid |-> {}]
    /\ ktowake = [k \in Kid |-> {}]
    /\ pc = [w \in Waiter |-> "idle"]
    /\ flags = [w \in Waiter |-> {}]
    /\ want = [w \in Waiter |-> {}]
    /\ opt = [w \in Waiter |-> {}]
    /\ kids = [w \in Waiter |-> {}]
    /\ todo = [w \in Waiter |-> {}]
    /\ has_event = [w \in Waiter |-> FALSE]
    /\ spc = [s \in Sender |-> "idle"]
    /\ starget = [s \in Sender |-> CHOOSE k \in Kid : TRUE]
    /\ stowake = [s \in Sender |-> {}]
    /\ reaped = [k \in Kid |-> 0]

---------------------------------------------------------------------------
(* Children *)

\* A sibling thread forks: do_clone sets ppid and inserts the child in pid_map.
Fork(k) ==
    /\ kpc[k] = "none"
    /\ kpc' = [kpc EXCEPT ![k] = "run"]
    /\ mine' = mine \cup {k}
    /\ pid_map' = pid_map \cup {k}
    /\ UNCHANGED <<exited, waiters, ktowake, stopVars, waitVars, flags>>

\* fini of the last thread of another process: its children become ours (we
\* are pid 1).
Reparent ==
    /\ (Orphan \cap pid_map) \ mine # {}
    /\ mine' = mine \cup (Orphan \cap pid_map)
    /\ UNCHANGED <<pid_map, kpc, exited, waiters, ktowake, stopVars, waitVars, flags>>

\* fini of the kid's last thread: publish exited, then wake_waiters (swap the
\* list under tg->mtx, wakeup(true) outside it).
KidExit(k) ==
    /\ kpc[k] = "run"
    /\ exited' = [exited EXCEPT ![k] = TRUE]
    /\ kpc' = [kpc EXCEPT ![k] = "swap"]
    /\ UNCHANGED <<pid_map, mine, waiters, ktowake, stopVars, waitVars, flags>>

KidSwap(k) ==
    /\ kpc[k] = "swap"
    /\ ktowake' = [ktowake EXCEPT ![k] = waiters[k]]
    /\ waiters' = [waiters EXCEPT ![k] = {}]
    /\ kpc' = [kpc EXCEPT ![k] = "wake"]
    /\ UNCHANGED <<pid_map, mine, exited, stopVars, waitVars, flags>>

\* Mutant: wakeup(false), which leaves BLOCKED set.
KidWakeFalse(k) ==
    /\ kpc[k] = "wake"
    /\ ktowake' = [ktowake EXCEPT ![k] = {}]
    /\ kpc' = [kpc EXCEPT ![k] = "dead"]
    /\ UNCHANGED <<pid_map, mine, exited, waiters, stopVars, waitVars, flags>>

KidWake(k) ==
    /\ kpc[k] = "wake"
    /\ flags' = ClearFlagAll(flags, ktowake[k], "BLOCKED")
    /\ ktowake' = [ktowake EXCEPT ![k] = {}]
    /\ kpc' = [kpc EXCEPT ![k] = "dead"]
    /\ UNCHANGED <<pid_map, mine, exited, waiters, stopVars, waitVars>>

---------------------------------------------------------------------------
(* stop_process and SIGCONT, run by the sender on the child's state *)

StopMark(s, k) ==
    /\ spc[s] = "idle" /\ k \in pid_map
    /\ stopped' = [stopped EXCEPT ![k] = TRUE]
    /\ starget' = [starget EXCEPT ![s] = k]
    /\ spc' = [spc EXCEPT ![s] = "report"]
    /\ UNCHANGED <<stop_reported, stowake, kidVars, waitVars, flags>>

\* CAS stop_reported false -> true; only the winner notifies the parent.
StopReport(s) ==
    /\ spc[s] = "report"
    /\ stop_reported' = [stop_reported EXCEPT ![starget[s]] = TRUE]
    /\ spc' = [spc EXCEPT ![s] = IF stop_reported[starget[s]] THEN "idle" ELSE "swap"]
    /\ UNCHANGED <<stopped, starget, stowake, kidVars, waitVars, flags>>

StopSwap(s) ==
    /\ spc[s] = "swap"
    /\ stowake' = [stowake EXCEPT ![s] = waiters[starget[s]]]
    /\ waiters' = [waiters EXCEPT ![starget[s]] = {}]
    /\ spc' = [spc EXCEPT ![s] = "wake"]
    /\ UNCHANGED <<pid_map, kpc, mine, exited, ktowake, stopped, stop_reported,
                   starget, waitVars, flags>>

StopWake(s) ==
    /\ spc[s] = "wake"
    /\ flags' = ClearFlagAll(flags, stowake[s], "BLOCKED")
    /\ stowake' = [stowake EXCEPT ![s] = {}]
    /\ spc' = [spc EXCEPT ![s] = "idle"]
    /\ UNCHANGED <<stopped, stop_reported, starget, kidVars, waitVars>>

\* queue_signal(SIGCONT): clears stopped, leaves stop_reported alone.
Cont(s, k) ==
    /\ spc[s] = "idle" /\ k \in pid_map
    /\ stopped' = [stopped EXCEPT ![k] = FALSE]
    /\ UNCHANGED <<stop_reported, spc, starget, stowake, kidVars, waitVars, flags>>

---------------------------------------------------------------------------
(* do_wait_common *)

\* match_child over pid_map, for a call about the kids in K
Matching(K) == pid_map \cap mine \cap K

ChildHasEvent(k) == exited[k] \/ (stopped[k] /\ stop_reported[k])

\* The call returns and its locals are gone.
Return(w) ==
    /\ pc' = [pc EXCEPT ![w] = "idle"]
    /\ want' = [want EXCEPT ![w] = {}]
    /\ opt' = [opt EXCEPT ![w] = {}]
    /\ kids' = [kids EXCEPT ![w] = {}]
    /\ has_event' = [has_event EXCEPT ![w] = FALSE]
    /\ UNCHANGED todo

\* Mutant: the zombie stays in pid_map.
ClaimKeeps(w, k, o) ==
    /\ exited[k]
    /\ reaped' = [reaped EXCEPT ![k] = @ + 1]
    /\ Return(w)
    /\ UNCHANGED <<kidVars, stopVars, flags>>

\* claim_one finds child k with something to report, and takes it.  The code
\* reports a stop whether or not WUNTRACED was given.
Claim(w, k, o) ==
    /\ ChildHasEvent(k)
    /\ \/ /\ exited[k] /\ "WNOWAIT" \in o
          /\ UNCHANGED <<pid_map, reaped, stop_reported>>
       \/ /\ exited[k] /\ "WNOWAIT" \notin o
          /\ pid_map' = pid_map \ {k}
          /\ reaped' = [reaped EXCEPT ![k] = @ + 1]
          /\ UNCHANGED stop_reported
       \/ /\ ~exited[k]
          /\ stop_reported' = [stop_reported EXCEPT ![k] = ("WNOWAIT" \in o)]
          /\ UNCHANGED <<pid_map, reaped>>
    /\ Return(w)
    /\ UNCHANGED <<kpc, mine, exited, waiters, ktowake, stopped, spc, starget,
                   stowake, flags>>

\* claim_one finds no matching child: -ECHILD.
NoChild(w, K) ==
    /\ Matching(K) = {}
    /\ Return(w)
    /\ UNCHANGED <<reaped, kidVars, stopVars, flags>>

NoEvent(K) == Matching(K) # {} /\ \A k \in Matching(K) : ~ChildHasEvent(k)

\* A wait4 or waitid call, once its arguments are normalised (P_ALL and P_PGID
\* select several children, P_PID one), and its first claim_one: it returns ...
CallReturn(w, K, o) ==
    /\ pc[w] = "idle"
    /\ \/ \E k \in Matching(K) : Claim(w, k, o)
       \/ NoChild(w, K)
       \/ NoEvent(K) /\ "WNOHANG" \in o /\ UNCHANGED vars

\* ... or enters the loop.
CallBlock(w, K, o) ==
    /\ pc[w] = "idle" /\ NoEvent(K) /\ "WNOHANG" \notin o
    /\ want' = [want EXCEPT ![w] = K]
    /\ opt' = [opt EXCEPT ![w] = o]
    /\ pc' = [pc EXCEPT ![w] = "loop"]
    /\ UNCHANGED <<kids, todo, has_event, reaped, kidVars, stopVars, flags>>

\* Top of the loop: a pending interruption restarts the call.
LoopInterrupted(w) ==
    /\ pc[w] = "loop" /\ flags[w] \cap Interrupting # {}
    /\ Return(w)
    /\ UNCHANGED <<reaped, kidVars, stopVars, flags>>

LoopClaim(w) ==
    /\ pc[w] = "loop" /\ flags[w] \cap Interrupting = {}
    /\ \/ \E k \in Matching(want[w]) : Claim(w, k, opt[w])
       \/ NoChild(w, want[w])
       \/ NoEvent(want[w]) /\ pc' = [pc EXCEPT ![w] = "snapshot"]
              /\ UNCHANGED <<want, opt, kids, todo, has_event, reaped, kidVars,
                             stopVars, flags>>

\* Once every child of the snapshot is visited: wait_for, unless one had an event.
Visit(w, rest, event) ==
    /\ todo' = [todo EXCEPT ![w] = rest]
    /\ has_event' = [has_event EXCEPT ![w] = event]
    /\ pc' = [pc EXCEPT ![w] = IF rest # {} THEN "register"
                               ELSE IF event THEN "woken" ELSE "sleep"]

\* Copy the matching children under pid_map_mutex, then set BLOCKED.
Snapshot(w) ==
    /\ pc[w] = "snapshot"
    /\ kids' = [kids EXCEPT ![w] = Matching(want[w])]
    /\ flags' = SetFlag(flags, w, "BLOCKED")
    /\ Visit(w, Matching(want[w]), FALSE)
    /\ UNCHANGED <<want, opt, reaped, kidVars, stopVars>>

\* Mutant: the child joins the list without a look at its event.
RegisterBlind(w, k) ==
    /\ pc[w] = "register" /\ k \in todo[w]
    /\ waiters' = [waiters EXCEPT ![k] = @ \cup {w}]
    /\ Visit(w, todo[w] \ {k}, FALSE)
    /\ UNCHANGED <<pid_map, kpc, mine, exited, ktowake, want, opt, kids, reaped,
                   stopVars, flags>>

\* For one child, under its tg->mtx: note its event or join its waiters.
Register(w, k) ==
    /\ pc[w] = "register" /\ k \in todo[w]
    /\ \/ /\ ChildHasEvent(k)
          /\ Visit(w, todo[w] \ {k}, TRUE)
          /\ UNCHANGED waiters
       \/ /\ ~ChildHasEvent(k)
          /\ Visit(w, todo[w] \ {k}, has_event[w])
          /\ waiters' = [waiters EXCEPT ![k] = @ \cup {w}]
    /\ UNCHANGED <<pid_map, kpc, mine, exited, ktowake, want, opt, kids, reaped,
                   stopVars, flags>>

WakeUp(w) ==
    /\ pc[w] = "sleep" /\ (WaitDone(flags[w]) \/ WaitInterrupted(flags[w]))
    /\ pc' = [pc EXCEPT ![w] = "woken"]
    /\ UNCHANGED <<want, opt, kids, todo, has_event, reaped, kidVars, stopVars, flags>>

\* Mutant: the lists keep the waiter.
DeregisterNot(w) ==
    /\ pc[w] = "woken"
    /\ flags' = ClearFlag(flags, w, "BLOCKED")
    /\ kids' = [kids EXCEPT ![w] = {}]
    /\ has_event' = [has_event EXCEPT ![w] = FALSE]
    /\ pc' = [pc EXCEPT ![w] = "loop"]
    /\ UNCHANGED <<kidVars, want, opt, todo, reaped, stopVars>>

\* Clear BLOCKED, leave every waiters list, go round the loop.
Deregister(w) ==
    /\ pc[w] = "woken"
    /\ flags' = ClearFlag(flags, w, "BLOCKED")
    /\ waiters' = [k \in Kid |-> IF k \in kids[w] THEN waiters[k] \ {w} ELSE waiters[k]]
    /\ kids' = [kids EXCEPT ![w] = {}]
    /\ has_event' = [has_event EXCEPT ![w] = FALSE]
    /\ pc' = [pc EXCEPT ![w] = "loop"]
    /\ UNCHANGED <<pid_map, kpc, mine, exited, ktowake, want, opt, todo, reaped, stopVars>>

\* A signal reaches the waiting thread, and is handled once its call returned.
Signal(w) ==
    /\ pc[w] # "idle"
    /\ flags' = SetFlag(flags, w, "SIGNAL_PENDING")
    /\ UNCHANGED <<kidVars, stopVars, waitVars>>

Handled(w) ==
    /\ pc[w] = "idle" /\ "SIGNAL_PENDING" \in flags[w]
    /\ flags' = ClearFlag(flags, w, "SIGNAL_PENDING")
    /\ UNCHANGED <<kidVars, stopVars, waitVars>>

---------------------------------------------------------------------------
Step(w) ==
    \/ LoopInterrupted(w) \/ LoopClaim(w) \/ Snapshot(w)
    \/ \E k \in Kid : Register(w, k)
    \/ WakeUp(w) \/ Deregister(w)

CallAny(w) ==
    \E K \in {Kid} \cup {{k} : k \in Kid}, o \in Options : CallReturn(w, K, o) \/ CallBlock(w, K, o)

KidStep(k) == KidSwap(k) \/ KidWake(k)

SenderStep(s) == StopReport(s) \/ StopSwap(s) \/ StopWake(s)

KidNext == Reparent \/ \E k \in Kid : Fork(k) \/ KidExit(k) \/ KidStep(k)
StopNext == \E s \in Sender : SenderStep(s) \/ \E k \in Kid : StopMark(s, k) \/ Cont(s, k)
WaiterNext(w) == CallAny(w) \/ Step(w) \/ Signal(w) \/ Handled(w)

Next == KidNext \/ StopNext \/ \E w \in Waiter : WaiterNext(w)

Spec == Init /\ [][Next]_vars

\* Host threads keep running: a waiter inside its call, a kid inside fini and a
\* sender inside stop_process are all scheduled.
FairSpec ==
    /\ Spec
    /\ \A w \in Waiter : WF_vars(Step(w))
    /\ \A k \in Kid : WF_vars(KidStep(k))
    /\ \A s \in Sender : WF_vars(SenderStep(s))

---------------------------------------------------------------------------
(* Properties *)

TypeOK ==
    /\ pid_map \subseteq Kid /\ mine \subseteq Kid /\ reaped \in [Kid -> Nat]
    /\ kpc \in [Kid -> {"none", "run", "swap", "wake", "dead"}]
    /\ exited \in [Kid -> BOOLEAN] /\ stopped \in [Kid -> BOOLEAN]
    /\ stop_reported \in [Kid -> BOOLEAN]
    /\ waiters \in [Kid -> SUBSET Waiter] /\ ktowake \in [Kid -> SUBSET Waiter]
    /\ pc \in [Waiter -> {"idle", "loop", "snapshot", "register", "sleep", "woken"}]
    /\ flags \in [Waiter -> SUBSET Flag]
    /\ want \in [Waiter -> SUBSET Kid] /\ opt \in [Waiter -> SUBSET Option]
    /\ kids \in [Waiter -> SUBSET Kid] /\ todo \in [Waiter -> SUBSET Kid]
    /\ has_event \in [Waiter -> BOOLEAN]
    /\ spc \in [Sender -> {"idle", "report", "swap", "wake"}]
    /\ starget \in [Sender -> Kid] /\ stowake \in [Sender -> SUBSET Waiter]

\* Waiter w sleeps and nothing it can see will make wait_for return.
Asleep(w) ==
    pc[w] = "sleep" /\ ~WaitDone(flags[w]) /\ ~WaitInterrupted(flags[w])

\* Somebody who will clear w's BLOCKED bit on behalf of kid k is on the way.
WakerComing(w, k) ==
    \/ kpc[k] = "swap" /\ w \in waiters[k]
    \/ \E j \in Kid : kpc[j] = "wake" /\ w \in ktowake[j]
    \/ \E s \in Sender : spc[s] = "wake" /\ w \in stowake[s]

\* The registration protocol of do_wait_common loses no exit: if a child the
\* sleeping call registered with has exited, its fini is still going to wake the
\* call (check and registration share the child's mutex with wake_waiters).
ExitWakesWaiter ==
    \A w \in Waiter, k \in Kid :
        Asleep(w) /\ k \in kids[w] /\ exited[k] => WakerComing(w, k)

\* claim_one hands a zombie to one caller: no child is reaped twice by waits
\* without WNOWAIT, whatever two threads of the parent were waiting for.
ReapedOnce == \A k \in Kid : reaped[k] <= 1

\* Nothing is left behind: a call that is over is on no waiters list, so a later
\* event of a child is not spent on it.
NoStaleRegistration ==
    \A w \in Waiter, k \in Kid : w \in waiters[k] => pc[w] \in {"register", "sleep", "woken"}

\* A wait all of whose children have exited returns.
WaitReturns ==
    \A w \in Waiter :
        (pc[w] # "idle" /\ \A k \in want[w] : exited[k]) ~> (pc[w] = "idle")
=============================================================================
