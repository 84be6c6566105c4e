---------------------------- MODULE MCChildWait ----------------------------
(***************************************************************************)
(* ChildWait for TLC: a behaviour has two waiting threads, one of which    *)
(* gets signals, or one waiting thread and children that are stopped and   *)
(* continued.                                                              *)
(***************************************************************************)
EXTENDS ChildWait, TLC

CONSTANT w1     \* the one waiting thread

VARIABLE which

SuiteInit == Init /\ which \in {"waiters", "stops"}
SuiteNext ==
    /\ \/ KidNext
       \/ WaiterNext(w1)
       \/ which = "waiters" /\ \E w \in Waiter : CallAny(w) \/ Step(w)
       \/ which = "stops" /\ StopNext
    /\ UNCHANGED which
SuiteSpec ==
    /\ SuiteInit /\ [][SuiteNext]_<<vars, which>>
    /\ \A w \in Waiter : WF_vars(Step(w))
    /\ \A k \in Kid : WF_vars(KidStep(k))
    /\ \A s \in Sender : WF_vars(SenderStep(s))

---------------------------------------------------------------------------
\* A wait whose children have all exited returns, when one thread of the process waits
\* (do_wait_common); two threads that wait for the same child can miss it.
OneWaitReturns == which = "stops" => WaitReturns
=============================================================================
