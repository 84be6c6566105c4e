------------------------------- MODULE Futex -------------------------------
(***************************************************************************)
(* The futex table: futex_wait, futex_wake, FUTEX_REQUEUE and the          *)
(* clear-child-tid of an exiting thread, by threads of one thread group.   *)
(* g_futex_mutex protects the buckets; the flags words are changed outside *)
(* it, so a waker's wakeup(true) can reach a thread long after it was taken *)
(* from the bucket.                                                        *)
(***************************************************************************)
EXTENDS Naturals, SequencesExt, VmFlags

CONSTANTS
    Thread,     \* threads of the group
    Addr,       \* futex words
    Val,        \* values of a futex word
    Counts      \* the numbers of waiters FUTEX_WAKE is asked to wake

ASSUME FutexAssumption == Addr # {} /\ 0 \in Val /\ Counts \subseteq Nat

VARIABLES
    word,       \* guest memory: the futex words
    bucket,     \* g_futex_table: the waiters of each word, in order of arrival
    flags,      \* flags word of each thread
    pc,         \* where each thread is
    addr,       \* the word its futex call is about
    val,        \* the value its wait expects
    towake,     \* the waiters its futex_wake has taken from the bucket
    rc          \* what wait_for returned; "restart" stays until the call is repeated

vars == <<word, bucket, flags, pc, addr, val, towake, rc>>

Rc == {"none", "0", "restart", "timedout"}
AnyAddr == CHOOSE a \in Addr : TRUE

Init ==
    /\ word = [a \in Addr |-> 0]
    /\ bucket = [a \in Addr |-> <<>>]
    /\ flags = [t \in Thread |-> {}]
    /\ pc = [t \in Thread |-> "guest"]
    /\ addr = [t \in Thread |-> AnyAddr]
    /\ val = [t \in Thread |-> 0]
    /\ towake = [t \in Thread |-> <<>>]
    /\ rc = [t \in Thread |-> "none"]

---------------------------------------------------------------------------
(* Guest code *)

\* An ordinary atomic store of guest code to the word.
Store(t, a, v) ==
    /\ pc[t] = "guest" /\ word[a] # v
    /\ word' = [word EXCEPT ![a] = v]
    /\ UNCHANGED <<bucket, flags, pc, addr, val, towake, rc>>

---------------------------------------------------------------------------
(* futex_wait *)

\* do_futex(FUTEX_WAIT).  A restart re-executes it with the same arguments.
WaitCall(t, a, v) ==
    /\ pc[t] = "guest" /\ "SIGNAL_PENDING" \notin flags[t]
    /\ rc[t] = "restart" => a = addr[t] /\ v = val[t]

\* The arguments of a finished call are forgotten.
Forget(t) == addr' = [addr EXCEPT ![t] = AnyAddr] /\ val' = [val EXCEPT ![t] = 0]

\* Under the lock: the word has another value (-EAGAIN) ...
WaitAgain(t, a, v) ==
    /\ WaitCall(t, a, v) /\ word[a] # v
    /\ rc' = [rc EXCEPT ![t] = "none"] /\ Forget(t)
    /\ UNCHANGED <<word, bucket, flags, pc, towake>>

\* Mutant: asleep without being in the bucket.
WaitUnregistered(t, a, v) ==
    /\ WaitCall(t, a, v) /\ word[a] = v
    /\ flags' = SetFlag(flags, t, "BLOCKED")
    /\ addr' = [addr EXCEPT ![t] = a] /\ val' = [val EXCEPT ![t] = v]
    /\ rc' = [rc EXCEPT ![t] = "none"]
    /\ pc' = [pc EXCEPT ![t] = "wait"]
    /\ UNCHANGED <<word, bucket, towake>>

\* ... or the thread registers and sets BLOCKED.
WaitRegister(t, a, v) ==
    /\ WaitCall(t, a, v) /\ word[a] = v
    /\ bucket' = [bucket EXCEPT ![a] = Append(@, t)]
    /\ flags' = SetFlag(flags, t, "BLOCKED")
    /\ addr' = [addr EXCEPT ![t] = a] /\ val' = [val EXCEPT ![t] = v]
    /\ rc' = [rc EXCEPT ![t] = "none"]
    /\ pc' = [pc EXCEPT ![t] = "wait"]
    /\ UNCHANGED <<word, towake>>

\* wait_for returns: BLOCKED was cleared, or a signal is pending, or the deadline
\* of a timed wait has passed.
WaitForDone(t) ==
    /\ pc[t] = "wait"
    /\ \/ WaitDone(flags[t]) /\ rc' = [rc EXCEPT ![t] = "0"]
       \/ WaitInterrupted(flags[t]) /\ rc' = [rc EXCEPT ![t] = "restart"]
    /\ pc' = [pc EXCEPT ![t] = "detach"]
    /\ UNCHANGED <<word, bucket, flags, addr, val, towake>>

WaitTimeout(t) ==
    /\ pc[t] = "wait" /\ ~WaitDone(flags[t]) /\ ~WaitInterrupted(flags[t])
    /\ rc' = [rc EXCEPT ![t] = "timedout"]
    /\ pc' = [pc EXCEPT ![t] = "detach"]
    /\ UNCHANGED <<word, bucket, flags, addr, val, towake>>

\* futex_wait returns wait_for's result, or SYSCALL_RESTART for -EINTR.
Return(t) ==
    /\ pc' = [pc EXCEPT ![t] = "guest"]
    /\ \/ rc[t] = "restart" /\ UNCHANGED <<addr, val, rc>>
       \/ rc[t] # "restart" /\ rc' = [rc EXCEPT ![t] = "none"] /\ Forget(t)

\* Mutant: the bucket keeps a waiter that timed out.
WaitDetachNot(t) ==
    /\ pc[t] = "detach"
    /\ flags' = ClearFlag(flags, t, "BLOCKED")
    /\ Return(t)
    /\ UNCHANGED <<word, bucket, towake>>

\* The entry of a thread is erased from its bucket, in which it stands once at most
\* (BucketExact).
futex_detach(waiters, t) == RemoveFirst(waiters, t)

\* Under the lock: futex_detach, clear BLOCKED.
WaitDetach(t) ==
    /\ pc[t] = "detach"
    /\ bucket' = [bucket EXCEPT ![addr[t]] = futex_detach(@, t)]
    /\ flags' = ClearFlag(flags, t, "BLOCKED")
    /\ Return(t)
    /\ UNCHANGED <<word, towake>>

---------------------------------------------------------------------------
(* futex_wake, FUTEX_REQUEUE, clear-child-tid *)

\* The last n waiters of a bucket, latest first, and the ones that stay.
Stay(a, n) == IF n < Len(bucket[a]) THEN Len(bucket[a]) - n ELSE 0
Taken(a, n) == Reverse(SubSeq(bucket[a], Stay(a, n) + 1, Len(bucket[a])))
Left(a, n) == SubSeq(bucket[a], 1, Stay(a, n))

\* FUTEX_WAKE: take up to n waiters from the tail, under the lock.
WakeTake(t, a, n) ==
    /\ pc[t] = "guest" /\ bucket[a] # <<>> /\ n > 0
    /\ towake' = [towake EXCEPT ![t] = Taken(a, n)]
    /\ bucket' = [bucket EXCEPT ![a] = Left(a, n)]
    /\ pc' = [pc EXCEPT ![t] = "waking"]
    /\ UNCHANGED <<word, flags, addr, val, rc>>

\* FUTEX_REQUEUE wakes everybody.
Requeue(t, a) == WakeTake(t, a, Len(bucket[a]))

\* Mutant: wakeup(false), which leaves BLOCKED set.
WakeOneFalse(t) ==
    /\ pc[t] = "waking"
    /\ towake' = [towake EXCEPT ![t] = Tail(@)]
    /\ pc' = [pc EXCEPT ![t] = IF Len(towake[t]) = 1 THEN "guest" ELSE @]
    /\ UNCHANGED <<word, bucket, flags, addr, val, rc>>

\* wakeup(true) for one taken waiter after the other, outside the lock; futex_wake
\* returns after the last.
WakeOne(t) ==
    /\ pc[t] = "waking"
    /\ flags' = ClearFlag(flags, Head(towake[t]), "BLOCKED")
    /\ towake' = [towake EXCEPT ![t] = Tail(@)]
    /\ pc' = [pc EXCEPT ![t] = IF Len(towake[t]) = 1 THEN "guest" ELSE @]
    /\ UNCHANGED <<word, bucket, addr, val, rc>>

\* fini: clear *tid_address and wake one waiter, all under the lock.
ChildTidClear(t, a) ==
    /\ pc[t] = "guest"
    /\ word' = [word EXCEPT ![a] = 0]
    /\ bucket' = [bucket EXCEPT ![a] = Left(a, 1)]
    /\ flags' = ClearFlagAll(flags, Range(Taken(a, 1)), "BLOCKED")
    /\ pc' = [pc EXCEPT ![t] = "gone"]
    /\ UNCHANGED <<addr, val, towake, rc>>

---------------------------------------------------------------------------
(* Signals, as in module Signals: the flag interrupts, a safepoint clears it *)

Signal(t) ==
    /\ pc[t] # "gone"
    /\ flags' = SetFlag(flags, t, "SIGNAL_PENDING")
    /\ UNCHANGED <<word, bucket, pc, addr, val, towake, rc>>

\* The handler ran without SA_RESTART (the call returned EINTR), or the call is
\* going to be re-executed.
Safepoint(t) ==
    /\ pc[t] = "guest" /\ "SIGNAL_PENDING" \in flags[t]
    /\ flags' = ClearFlag(flags, t, "SIGNAL_PENDING")
    /\ \/ UNCHANGED <<addr, val, rc>>
       \/ rc[t] = "restart" /\ rc' = [rc EXCEPT ![t] = "none"] /\ Forget(t)
    /\ UNCHANGED <<word, bucket, pc, towake>>

---------------------------------------------------------------------------
InCall(t) == WaitForDone(t) \/ WaitDetach(t) \/ WakeOne(t)

Guest(t) ==
    \/ \E a \in Addr, v \in Val : Store(t, a, v) \/ WaitAgain(t, a, v) \/ WaitRegister(t, a, v)
    \/ \E a \in Addr, n \in Counts : WakeTake(t, a, n)
    \/ \E a \in Addr : Requeue(t, a) \/ ChildTidClear(t, a)

Next == \E t \in Thread :
    InCall(t) \/ Guest(t) \/ WaitTimeout(t) \/ Signal(t) \/ Safepoint(t)

Spec == Init /\ [][Next]_vars

\* Host threads inside a futex call keep running.
FairSpec == Spec /\ \A t \in Thread : WF_vars(InCall(t))

---------------------------------------------------------------------------
(* Properties *)

TypeOK ==
    /\ word \in [Addr -> Val]
    /\ bucket \in [Addr -> Seq(Thread)]
    /\ flags \in [Thread -> SUBSET Flag]
    /\ pc \in [Thread -> {"guest", "wait", "detach", "waking", "gone"}]
    /\ addr \in [Thread -> Addr] /\ val \in [Thread -> Val]
    /\ towake \in [Thread -> Seq(Thread)]
    /\ rc \in [Thread -> Rc]

\* A thread stands in a bucket at most once, and only in that of the word its
\* unfinished futex_wait is about: a wake never counts a thread that left (futex_wait
\* detaches itself on every way out, under the lock it registered under).
BucketExact ==
    \A a \in Addr :
        /\ IsInjective(bucket[a])
        /\ \A t \in Range(bucket[a]) : pc[t] \in {"wait", "detach"} /\ addr[t] = a

\* No sleeper is out of reach: a thread asleep in wait_for is in its bucket, or a
\* waker that took it is still going to wake it (BLOCKED is set with the
\* registration, wakes run outside the lock).
NoLostWake ==
    \A t \in Thread :
        pc[t] = "wait" /\ "BLOCKED" \in flags[t] =>
            t \in Range(bucket[addr[t]]) \/ \E u \in Thread : t \in Range(towake[u])

\* A sleeper that a wake has taken from its bucket returns from its sleep, though
\* the wake itself comes later, outside the lock.
WokenReturns ==
    \A t \in Thread :
        (pc[t] = "wait" /\ t \notin Range(bucket[addr[t]])) ~> (pc[t] # "wait")
=============================================================================
