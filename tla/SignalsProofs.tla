--------------------------- MODULE SignalsProofs ---------------------------
(***************************************************************************)
(* Proofs about Signals: no signal the thread may take is forgotten, and   *)
(* no guest instruction runs while the restart of an interrupted system    *)
(* call is pending.                                                        *)
(***************************************************************************)
EXTENDS Signals, FiniteSetTheorems, WellFoundedInduction, SequenceTheorems, TLAPS

---------------------------------------------------------------------------
(* Assumptions of the theorems *)

\* Nobody stops the thread: no SIGSTOP or SIGCONT is sent and no signal has the
\* disposition to stop.
NoStops == Special \subseteq {"KILL"} /\ "dfl_stop" \notin Disp

---------------------------------------------------------------------------
(* The inductive invariant *)

\* The thread is in, or about to make, only calls it makes at all.
CallsMade ==
    /\ kind \in Ops \cup {"cond"}
    /\ vpc \in {"suspend", "suspendwait"} => "suspend" \in Ops
    /\ vpc \in {"host", "hostwait", "hostintr"} => "host" \in Ops

\* Without stops no flag but VM_KILLED and VM_SIGNAL_PENDING interrupts.
NeverStopped == flags \cap {"STOPPED", "DEBUG_STOP"} = {}

\* sigsuspend has cleared the flag and seen only masked signals, and the thread sleeps
\* or is on its way out, killed.
Suspended ==
    /\ "suspend" \in Ops /\ Unblocked(queue) = {}
    /\ \/ vpc \in {"suspend", "suspendwait"}
       \/ vpc \in {"step", "first", "stopwait"} /\ "KILLED" \in flags

\* PendingFlag for every queued signal, masked ones included.
QueueFlagged ==
    queue # <<>> /\ vpc # "gone" =>
        "SIGNAL_PENDING" \in flags \/ vpc = "unmask" \/ Suspended

\* A pending restart is on its way to deliver_signal.
RestartSeen ==
    restart # "none" =>
        /\ vpc \in {"step", "first", "stopwait", "second", "gone"}
        /\ vpc = "step" => flags \cap {"KILLED", "SIGNAL_PENDING"} # {}

FlagInv == CallsMade /\ QueueFlagged
IInv == TypeOK /\ NeverStopped /\ FlagInv /\ ("host" \notin Ops => RestartSeen)

---------------------------------------------------------------------------
(* handle_signals' scan *)

\* A set of positions has a first one: the scan's choice is well defined.
LEMMA LeastNatural ==
    ASSUME NEW T \in SUBSET Nat, T # {}
    PROVE  \E n \in T : \A m \in T : n <= m
<1> DEFINE U == {0..k : k \in T}
<1>1. U \subseteq FiniteSubsetsOf(Nat)
    <2> SUFFICES ASSUME NEW k \in T PROVE 0..k \in FiniteSubsetsOf(Nat)
        OBVIOUS
    <2>1. IsFiniteSet(0..k)
        BY FS_Interval
    <2> QED BY <2>1 DEF FiniteSubsetsOf
<1>2. U # {}
    OBVIOUS
<1>3. PICK x \in U : \A y \in U : <<y, x>> \notin StrictSubsetOrdering(Nat)
    <2> HIDE DEF U
    <2> QED BY <1>1, <1>2, WFMin, FS_StrictSubsetOrderingWellFounded
<1>4. PICK n \in T : x = 0..n
    OBVIOUS
<1>5. ASSUME NEW m \in T, ~(n <= m) PROVE FALSE
    <2>1. 0..m \in U
        OBVIOUS
    <2>2. n \in 0..n /\ n \notin 0..m
        BY <1>5
    <2>3. 0..m \subseteq 0..n /\ 0..m # 0..n
        BY <2>2, <1>5
    <2>4. <<0..m, 0..n>> \in StrictSubsetOrdering(Nat)
        BY <2>3 DEF StrictSubsetOrdering
    <2> QED BY <2>1, <2>4, <1>3, <1>4
<1> QED BY <1>5

\* The loop that defers events computes something: a recursive function over the
\* queue's positions exists.
LEMMA DeferralExists ==
    ASSUME NEW q
    PROVE  \A n \in Nat : \E g : g = [i \in 0..n |->
               IF i = 0 THEN <<>>
               ELSE IF q[i] \in sfdmask THEN g[i - 1] ELSE Append(g[i - 1], q[i])]
<1> DEFINE B(g, i) == IF i = 0 THEN <<>>
                      ELSE IF q[i] \in sfdmask THEN g[i - 1] ELSE Append(g[i - 1], q[i])
           Bad == {n \in Nat : ~ \E g : g = [i \in 0..n |-> B(g, i)]}
<1>1. SUFFICES Bad = {}
    BY <1>1
<1>2. SUFFICES ASSUME Bad # {} PROVE FALSE
    BY <1>2
<1>3. PICK n \in Bad : \A m \in Bad : n <= m
    <2>1. Bad \in SUBSET Nat
        OBVIOUS
    <2> HIDE DEF Bad
    <2> QED BY <2>1, <1>2, LeastNatural
<1>4. n \in Nat /\ ~ \E g : g = [i \in 0..n |-> B(g, i)]
    BY <1>3
<1>5. CASE n = 0
    <2> DEFINE h == [i \in 0..0 |-> <<>>]
    <2>1. h = [i \in 0..0 |-> B(h, i)]
        OBVIOUS
    <2> QED BY <2>1, <1>4, <1>5
<1>6. CASE n # 0
    <2>1. n - 1 \in Nat /\ n - 1 \notin Bad
        <3>1. n - 1 \in Nat /\ ~(n <= n - 1)
            BY <1>4, <1>6
        <3> HIDE DEF Bad
        <3> QED BY <3>1, <1>3
    <2>2. PICK g : g = [i \in 0..(n - 1) |-> B(g, i)]
        BY <2>1
    <2> DEFINE h == [i \in 0..n |-> IF i = n THEN B(g, n) ELSE g[i]]
    <2>3. \A i \in 0..(n - 1) : h[i] = g[i] /\ g[i] = B(g, i)
        <3> SUFFICES ASSUME NEW i \in 0..(n - 1) PROVE h[i] = g[i] /\ g[i] = B(g, i)
            OBVIOUS
        <3>1. i \in 0..n /\ i # n
            BY <1>4
        <3>2. g[i] = B(g, i)
            BY <2>2
        <3> HIDE DEF B
        <3> QED BY <3>1, <3>2
    <2>4. h[n] = B(g, n)
        BY <1>4
    <2>5. \A i \in 0..n : B(h, i) = B(g, i)
        <3> SUFFICES ASSUME NEW i \in 0..n PROVE B(h, i) = B(g, i)
            OBVIOUS
        <3>1. i # 0 => i - 1 \in 0..(n - 1)
            BY <1>4
        <3> HIDE DEF h
        <3> QED BY <3>1, <2>3
    <2>6. \A i \in 0..n : h[i] = B(h, i)
        <3> SUFFICES ASSUME NEW i \in 0..n PROVE h[i] = B(h, i)
            OBVIOUS
        <3>1. i = n \/ i \in 0..(n - 1)
            BY <1>4
        <3> HIDE DEF h, B
        <3> QED BY <3>1, <2>3, <2>4, <2>5
    <2>7. h = [i \in 0..n |-> h[i]]
        OBVIOUS
    <2>8. h = [i \in 0..n |-> B(h, i)]
        <3> HIDE DEF h, B
        <3> QED BY <2>6, <2>7
    <2> QED BY <2>8, <1>4
<1> QED BY <1>5, <1>6

\* The deferred events are events of the queue.
LEMMA DeferredType ==
    ASSUME NEW q \in Seq(Sig)
    PROVE  /\ Deferred(q) \in Seq(Sig) /\ Len(Deferred(q)) <= Len(q)
           /\ Deferred(q) \in Seq({q[i] : i \in DOMAIN q})
<1> DEFINE E == {q[i] : i \in DOMAIN q}
<1>1. PICK f : /\ f = [i \in 0..Len(q) |->
                         IF i = 0 THEN <<>>
                         ELSE IF q[i] \in sfdmask THEN f[i - 1] ELSE Append(f[i - 1], q[i])]
               /\ Deferred(q) = f[Len(q)]
    <2>1. Len(q) \in Nat
        OBVIOUS
    <2> QED BY <2>1, DeferralExists, Zenon DEF Deferred
<1> DEFINE Good(i) == f[i] \in Seq(E) /\ Len(f[i]) <= i
           Bad == {i \in 0..Len(q) : ~Good(i)}
<1>2. Bad = {}
    <2> SUFFICES ASSUME Bad # {} PROVE FALSE
        OBVIOUS
    <2>1. PICK n \in Bad : \A m \in Bad : n <= m
        <3>1. Bad \in SUBSET Nat
            OBVIOUS
        <3> HIDE DEF Bad
        <3> QED BY <3>1, LeastNatural
    <2>2. n \in 0..Len(q) /\ ~Good(n)
        BY <2>1
    <2>3. n # 0
        <3>1. f[0] = <<>>
            BY <1>1
        <3>2. Good(0)
            BY <3>1
        <3> QED BY <3>2, <2>2
    <2>4. n - 1 \in 0..Len(q) /\ Good(n - 1)
        <3>1. n - 1 \in 0..Len(q) /\ ~(n <= n - 1)
            BY <2>2, <2>3
        <3>2. n - 1 \notin Bad
            <4> HIDE DEF Bad
            <4> QED BY <3>1, <2>1
        <3> HIDE DEF Good
        <3> QED BY <3>1, <3>2
    <2>5. f[n] = IF q[n] \in sfdmask THEN f[n - 1] ELSE Append(f[n - 1], q[n])
        BY <1>1, <2>2, <2>3
    <2>6. q[n] \in E
        BY <2>2, <2>3
    <2> HIDE DEF E
    <2>7. Good(n)
        BY <2>2, <2>4, <2>5, <2>6
    <2> QED BY <2>2, <2>7
<1>3. Deferred(q) \in Seq(E) /\ Len(Deferred(q)) <= Len(q)
    <2>1. Len(q) \in 0..Len(q)
        OBVIOUS
    <2>2. Good(Len(q))
        <3> HIDE DEF Good
        <3> QED BY <2>1, <1>2
    <2> QED BY <2>2, <1>1, Zenon
<1>4. E \subseteq Sig
    OBVIOUS
<1>5. Deferred(q) \in Seq(Sig)
    BY <1>3, <1>4, SeqMonotonic
<1> QED BY <1>3, <1>5

\* What the scan leaves in the queue was in it, and a scan that finds only masked
\* events leaves only masked events.
LEMMA ScanType ==
    ASSUME queue \in Seq(Sig)
    PROVE  /\ Scan.chosen \subseteq Sig
           /\ Scan.rest \in Seq(Sig) /\ Len(Scan.rest) <= Len(queue)
           /\ Unblocked(queue) = {} => Scan.chosen = {} /\ Unblocked(Scan.rest) = {}
<1>1. CASE Unblocked(queue) = {}
    <2>1. Scan.chosen = {} /\ Scan.rest = Deferred(queue)
        BY <1>1 DEF Scan
    <2>2. /\ Deferred(queue) \in Seq(Sig) /\ Len(Deferred(queue)) <= Len(queue)
          /\ Deferred(queue) \in Seq({queue[i] : i \in DOMAIN queue})
        BY DeferredType
    <2>3. ASSUME NEW i \in Unblocked(Deferred(queue)) PROVE FALSE
        <3>1. i \in 1..Len(Deferred(queue)) /\ Deferred(queue)[i] \notin mask
            BY <2>2, <2>3 DEF Unblocked
        <3>2. Deferred(queue)[i] \in {queue[j] : j \in DOMAIN queue}
            BY <2>2, <3>1, ElementOfSeq
        <3>3. PICK j \in DOMAIN queue : Deferred(queue)[i] = queue[j]
            BY <3>2
        <3> QED BY <3>1, <3>3, <1>1 DEF Unblocked
    <2> QED BY <2>1, <2>2, <2>3
<1>2. CASE Unblocked(queue) # {}
    <2> DEFINE n == CHOOSE i \in Unblocked(queue) : \A j \in Unblocked(queue) : i <= j
               p == SubSeq(queue, 1, n - 1)
               r == SubSeq(queue, n + 1, Len(queue))
    <2>1. Unblocked(queue) \in SUBSET Nat
        BY DEF Unblocked
    <2>2. n \in Unblocked(queue)
        BY <2>1, <1>2, LeastNatural
    <2>3. n \in 1..Len(queue) /\ queue[n] \in Sig
        BY <2>2 DEF Unblocked
    <2>4. Scan.chosen = {queue[n]} /\ Scan.rest = r \o Deferred(p)
        BY <1>2 DEF Scan
    <2> HIDE DEF n
    <2>5. p \in Seq(Sig) /\ Len(p) = n - 1
        BY <2>3, SubSeqProperties
    <2>6. r \in Seq(Sig) /\ Len(r) = Len(queue) - n
        BY <2>3, SubSeqProperties
    <2> HIDE DEF p, r
    <2>7. Deferred(p) \in Seq(Sig) /\ Len(Deferred(p)) <= n - 1
        BY <2>5, DeferredType
    <2>8. r \o Deferred(p) \in Seq(Sig) /\ Len(r \o Deferred(p)) = Len(r) + Len(Deferred(p))
        BY <2>6, <2>7, ConcatProperties
    <2>9. Len(r \o Deferred(p)) <= Len(queue)
        BY <2>3, <2>6, <2>7, <2>8
    <2> QED BY <1>2, <2>3, <2>4, <2>8, <2>9
<1> QED BY <1>1, <1>2

---------------------------------------------------------------------------
(* Types *)

\* deliver_signal keeps the queue within BPF_SIGNAL_QUE_SIZE and the signal frames
\* within the room the stack has.
LEMMA DeliverType ==
    ASSUME TypeOK, NEW next \in Loc, Deliver(next)
    PROVE  TypeOK'
<1> USE SignalAssumption
<1>1. /\ Scan.chosen \subseteq Sig
      /\ Scan.rest \in Seq(Sig) /\ Len(Scan.rest) <= Len(queue)
    BY ScanType DEF TypeOK
<1>2. queue' \in Seq(Sig) /\ Len(queue') <= QueSize
    BY <1>1 DEF Deliver, TypeOK
<1>3. UNCHANGED <<mask, act, sfdmask, kind, arg, jit, spc>>
    BY DEF Deliver
<1>4. ASSUME Resume, flags' \subseteq Flag, vpc' = next PROVE TypeOK'
    BY <1>2, <1>3, <1>4 DEF TypeOK, Resume
<1>5. ASSUME UNCHANGED <<flags, code, restart, frames>>, vpc' = "gone" PROVE TypeOK'
    BY <1>2, <1>3, <1>5 DEF TypeOK, Loc
<1>6. ASSUME NEW d, PushHandler(d), Len(frames) < MaxDepth, vpc' = next, UNCHANGED flags
      PROVE  TypeOK'
    <2> DEFINE f == [ret |-> IF restart = "none" THEN code
                             ELSE IF d = "catch_restart" /\ restart = "sys" THEN "call"
                             ELSE "user",
                     siginfo |-> (d = "catch_info")]
    <2>1. f \in Frame
        BY DEF TypeOK, Frame
    <2>2. frames' = Append(frames, f) /\ code' = "user" /\ restart' = "none"
        BY <1>6 DEF PushHandler
    <2> HIDE DEF f
    <2>3. frames' \in Seq(Frame) /\ Len(frames') <= MaxDepth
        BY <1>6, <2>1, <2>2 DEF TypeOK
    <2> QED BY <1>2, <1>3, <1>6, <2>2, <2>3 DEF TypeOK
<1>7. CASE Scan.chosen = {}
    <2>1. Resume /\ vpc' = next /\ flags' = ScanFlags(Scan.rest)
        BY <1>7 DEF Deliver
    <2>2. flags' \subseteq Flag
        BY <2>1 DEF ScanFlags, TypeOK
    <2> QED BY <2>1, <2>2, <1>4
<1>8. CASE Scan.chosen # {}
    <2>1. PICK e \in Scan.chosen :
             \/ Resume /\ vpc' = next /\ flags' = flags
             \/ Resume /\ vpc' = next /\ flags' = flags \cup {"STOPPED"}
             \/ vpc' = "gone" /\ UNCHANGED <<flags, code, restart, frames>>
             \/ PushHandler(act[e]) /\ Len(frames) < MaxDepth /\ vpc' = next /\ UNCHANGED flags
        BY <1>8 DEF Deliver
    <2>2. flags \subseteq Flag /\ flags \cup {"STOPPED"} \subseteq Flag
        BY DEF TypeOK, Flag
    <2> QED BY <2>1, <2>2, <1>4, <1>5, <1>6
<1> QED BY <1>7, <1>8

\* Every step keeps the types, the bound on the queue and the bound on the frames.
LEMMA TypeStep ==
    ASSUME TypeOK, [Next]_vars
    PROVE  TypeOK'
<1> USE SignalAssumption DEF TypeOK, Flag
<1>1. ASSUME NEW l \in Loc, Goto(l) PROVE TypeOK'
    BY <1>1 DEF Goto
<1>2. CASE StepCheck
    BY <1>1, <1>2 DEF StepCheck, Loc
<1>3. CASE SafepointFirst
    BY <1>1, <1>3, DeliverType DEF SafepointFirst, Loc
<1>4. CASE SafepointStop
    BY <1>1, <1>4 DEF SafepointStop, Loc
<1>5. CASE SafepointSecond
    BY <1>5, DeliverType DEF SafepointSecond, Loc
<1>6. CASE Plain
    BY <1>1, <1>6 DEF Plain, Loc
<1>7. ASSUME NEW k \in Ops \cap {"cond", "host", "suspend"}, NEW m \in SUBSET Sig,
             ReachCall(k, m)
      PROVE  TypeOK'
    BY <1>7 DEF ReachCall, NextInsn, Loc
<1>8. ASSUME NEW m \in SUBSET Sig, HandlerReturn(m) PROVE TypeOK'
    <2>1. frames[Len(frames)] \in Frame
        BY <1>8 DEF HandlerReturn
    <2>2. frames' \in Seq(Frame) /\ Len(frames') <= MaxDepth
        BY <1>8 DEF HandlerReturn, Front
    <2>3. mask' \subseteq Sig /\ code' \in {"user", "call"}
        BY <1>8, <2>1 DEF HandlerReturn, Frame
    <2> QED BY <1>8, <2>2, <2>3 DEF HandlerReturn, NextInsn, Loc
<1>9. ASSUME NEW m \in SUBSET Sig, SetMask(m) PROVE TypeOK'
    BY <1>9 DEF SetMask, Loc
<1>10. ASSUME NEW m \in SUBSET Sig, DoSignalfd(m) PROVE TypeOK'
    BY <1>10 DEF DoSignalfd, NextInsn, Loc
<1>11. ASSUME NEW m \in SUBSET Sig, NEW n \in 0..MaxDepth, LongJmp(n, m) PROVE TypeOK'
    <2>1. frames' \in Seq(Frame) /\ Len(frames') <= MaxDepth
        BY <1>11 DEF LongJmp
    <2> QED BY <1>11, <2>1 DEF LongJmp, Loc
<1>12. CASE Rescan
    BY <1>12 DEF Rescan, NextInsn, Loc
<1>13. ASSUME NEW s \in Sig, NEW d \in Disp, DoSigaction(s, d) PROVE TypeOK'
    BY <1>13 DEF DoSigaction, NextInsn, Loc
<1>14. CASE Enter
    BY <1>14 DEF Enter, Loc
<1>15. CASE CondReturn
    BY <1>15 DEF CondReturn, CallDone, CallRestart, NextInsn, Loc
<1>16. CASE HostBlock
    BY <1>1, <1>16 DEF HostBlock, Loc
<1>17. CASE HostIntr
    BY <1>17 DEF HostIntr, CallRestart, NextInsn, Loc
<1>18. CASE SuspendLoop
    BY <1>18 DEF SuspendLoop, CallRestart, NextInsn, Loc
<1>19. CASE SuspendWoken
    BY <1>19 DEF SuspendWoken, Loc
<1>20. CASE CondWake
    BY <1>20 DEF CondWake, targetVars
<1>21. CASE HostData
    BY <1>21 DEF HostData, CallDone, NextInsn, Loc
<1>22. ASSUME NEW s \in Sender, NEW sig \in Sig, Send(s, sig) PROVE TypeOK'
    <2>0. queue' = queue \/ (Len(queue) < QueSize /\ queue' = Append(queue, sig))
        BY <1>22 DEF Send
    <2>1. queue' \in Seq(Sig) /\ Len(queue') <= QueSize
        <3>1. CASE queue' = queue BY <3>1
        <3>2. CASE Len(queue) < QueSize /\ queue' = Append(queue, sig)
            BY <3>2, SignalAssumption
        <3> QED BY <2>0, <3>1, <3>2
    <2>2. flags' \subseteq Flag /\ spc' \in [Sender -> {"idle", "kick"}]
        BY <1>22 DEF Send, Kick
    <2> QED BY <1>22, <2>1, <2>2 DEF Send, targetVars
<1>23. ASSUME NEW s \in Sender, NEW sig \in Special, SendSpecial(s, sig) PROVE TypeOK'
    <2>1. flags' \subseteq Flag /\ spc' \in [Sender -> {"idle", "kick"}]
        BY <1>23 DEF SendSpecial, Kick
    <2> QED BY <1>23, <2>1 DEF SendSpecial, targetVars
<1>24. ASSUME NEW s \in Sender, SendKick(s) PROVE TypeOK'
    BY <1>24 DEF SendKick, Loc
<1>25. CASE UNCHANGED vars
    BY <1>25 DEF vars, targetVars
<1> QED
    BY <1>2, <1>3, <1>4, <1>5, <1>6, <1>7, <1>8, <1>9, <1>10, <1>11, <1>12, <1>13, <1>14,
       <1>15, <1>16, <1>17, <1>18, <1>19, <1>20, <1>21, <1>22, <1>23, <1>24, <1>25
       DEF Next, Target, SenderNext

---------------------------------------------------------------------------
(* The flag *)

\* A scan leaves the flag set over what it leaves in the queue; the one exception is
\* the thread a kill has taken out of sigsuspend.
LEMMA DeliverFlag ==
    ASSUME TypeOK, FlagInv,
           NEW next, Deliver(next), vpc \in {"first", "second"},
           vpc = "first" => next = "stopwait", vpc = "second" => next = "exec"
    PROVE  FlagInv'
<1>1. CallsMade'
    <2>1. kind' = kind /\ vpc' \in {"stopwait", "exec", "gone"}
        BY DEF Deliver
    <2> QED BY <2>1 DEF CallsMade, FlagInv
<1>2. CASE queue = <<>> \/ "SIGNAL_PENDING" \in flags
    <2>1. CASE Scan.chosen = {}
        <3>1. queue' = Scan.rest /\ flags' = ScanFlags(Scan.rest)
            BY <2>1 DEF Deliver
        <3>2. Scan.rest \in Seq(Sig) /\ Len(Scan.rest) <= Len(queue)
            BY ScanType DEF TypeOK
        <3>3. queue = <<>> => Scan.rest = <<>>
            BY <3>2
        <3> QED BY <1>1, <1>2, <3>1, <3>3 DEF ScanFlags, FlagInv, QueueFlagged
    <2>2. CASE Scan.chosen # {}
        <3>1. Unblocked(queue) # {}
            BY <2>2 DEF Scan
        <3>2. "SIGNAL_PENDING" \in flags
            BY <3>1, <1>2 DEF Unblocked
        <3>3. flags \subseteq flags'
            BY <2>2 DEF Deliver
        <3> QED BY <1>1, <3>2, <3>3 DEF FlagInv, QueueFlagged
    <2> QED BY <2>1, <2>2
<1>3. CASE queue # <<>> /\ "SIGNAL_PENDING" \notin flags
    <2>1. Suspended
        BY <1>3 DEF FlagInv, QueueFlagged
    <2>2. "suspend" \in Ops /\ vpc = "first" /\ next = "stopwait" /\ "KILLED" \in flags
        BY <2>1 DEF Suspended
    <2>3. Scan.chosen = {} /\ Unblocked(Scan.rest) = {}
        BY <2>1, <2>2, ScanType DEF Suspended, TypeOK
    <2>4. /\ vpc' = "stopwait" /\ "KILLED" \in flags'
          /\ queue' = Scan.rest /\ mask' = mask
        BY <2>2, <2>3 DEF Deliver, ScanFlags
    <2>5. Unblocked(queue)' = {}
        BY <2>3, <2>4 DEF Unblocked
    <2>6. Suspended'
        BY <2>2, <2>4, <2>5 DEF Suspended
    <2> QED BY <1>1, <2>6 DEF FlagInv, QueueFlagged
<1> QED BY <1>2, <1>3

\* Every step keeps the flag over the queue.
LEMMA FlagStep ==
    ASSUME TypeOK, "suspend" \notin Ops \/ NeverStopped,
           FlagInv, [Next]_vars
    PROVE  FlagInv'
<1> USE DEF FlagInv, CallsMade, QueueFlagged, Suspended, Unblocked
<1>1. CASE StepCheck
    BY <1>1 DEF StepCheck, Goto
<1>2. CASE SafepointFirst
    <2>1. CASE frames = <<>>
        BY <1>2, <2>1, DeliverFlag DEF SafepointFirst
    <2>2. CASE frames # <<>>
        BY <1>2, <2>2 DEF SafepointFirst, Goto
    <2> QED BY <2>1, <2>2
<1>3. CASE SafepointStop
    BY <1>3 DEF SafepointStop, Goto, Leaving
<1>4. CASE SafepointSecond
    BY <1>4, DeliverFlag DEF SafepointSecond
<1>5. CASE Plain
    BY <1>5 DEF Plain, Goto
<1>6. ASSUME NEW k \in Ops \cap {"cond", "host", "suspend"}, NEW m \in SUBSET Sig,
             ReachCall(k, m)
      PROVE  FlagInv'
    BY <1>6 DEF ReachCall, NextInsn
<1>7. ASSUME NEW m \in SUBSET Sig, HandlerReturn(m) PROVE FlagInv'
    BY <1>7 DEF HandlerReturn, NextInsn
<1>8. ASSUME NEW m \in SUBSET Sig, SetMask(m) PROVE FlagInv'
    BY <1>8 DEF SetMask
<1>9. ASSUME NEW m \in SUBSET Sig, DoSignalfd(m) PROVE FlagInv'
    BY <1>9 DEF DoSignalfd, NextInsn
<1>10. ASSUME NEW m \in SUBSET Sig, NEW n \in 0..MaxDepth, LongJmp(n, m) PROVE FlagInv'
    BY <1>10 DEF LongJmp
<1>11. CASE Rescan
    BY <1>11 DEF Rescan, NextInsn
<1>12. ASSUME NEW s \in Sig, NEW d \in Disp, DoSigaction(s, d) PROVE FlagInv'
    BY <1>12 DEF DoSigaction, NextInsn
<1>13. CASE Enter
    BY <1>13 DEF Enter
<1>14. CASE CondReturn
    BY <1>14 DEF CondReturn, CallDone, CallRestart, NextInsn
<1>15. CASE HostBlock
    BY <1>15 DEF HostBlock, Goto
<1>16. CASE HostIntr
    BY <1>16 DEF HostIntr, CallRestart, NextInsn
<1>17. CASE SuspendLoop
    <2>1. CASE flags' = (flags \ {"SIGNAL_PENDING"}) \cup {"BLOCKED"} /\ vpc' = "suspendwait"
        BY <1>17, <2>1 DEF SuspendLoop
    <2>2. CASE CallRestart("nohand") /\ flags' = flags
        <3>1. vpc = "suspend" /\ vpc' = "step" /\ UNCHANGED <<queue, mask, kind>>
            BY <1>17, <2>2 DEF SuspendLoop, CallRestart, NextInsn
        <3>2. "KILLED" \in flags \/ Unblocked(queue) # {}
            BY <1>17, <2>2, <3>1 DEF SuspendLoop, NeverStopped
        <3> QED BY <2>2, <3>1, <3>2
    <2> QED BY <1>17, <2>1, <2>2 DEF SuspendLoop
<1>18. CASE SuspendWoken
    BY <1>18 DEF SuspendWoken
<1>19. CASE CondWake
    BY <1>19 DEF CondWake, targetVars
<1>20. CASE HostData
    BY <1>20 DEF HostData, CallDone, NextInsn
<1>21. ASSUME NEW s \in Sender, NEW sig \in Sig, Send(s, sig) PROVE FlagInv'
    BY <1>21 DEF Send, targetVars
<1>22. ASSUME NEW s \in Sender, NEW sig \in Special, SendSpecial(s, sig) PROVE FlagInv'
    BY <1>22 DEF SendSpecial, targetVars
<1>23. ASSUME NEW s \in Sender, SendKick(s) PROVE FlagInv'
    BY <1>23 DEF SendKick
<1>24. CASE UNCHANGED vars
    BY <1>24 DEF vars, targetVars
<1> QED
    BY <1>1, <1>2, <1>3, <1>4, <1>5, <1>6, <1>7, <1>8, <1>9, <1>10, <1>11, <1>12, <1>13, <1>14,
       <1>15, <1>16, <1>17, <1>18, <1>19, <1>20, <1>21, <1>22, <1>23, <1>24
       DEF Next, Target, SenderNext

---------------------------------------------------------------------------
(* The restart *)

\* Without stops, nothing sets a flag that would interrupt for nothing.
LEMMA NeverStoppedStep ==
    ASSUME NoStops, TypeOK, NeverStopped, [Next]_vars
    PROVE  NeverStopped'
<1> USE DEF NeverStopped, NoStops
<1>1. ASSUME NEW s \in Sender, NEW sig \in Sig, Send(s, sig) PROVE NeverStopped'
    <2>1. act[sig] # "dfl_stop"
        BY DEF TypeOK
    <2> QED BY <1>1, <2>1 DEF Send
<1>2. ASSUME NEW s \in Sender, NEW sig \in Special, SendSpecial(s, sig) PROVE NeverStopped'
    BY <1>2 DEF SendSpecial
<1>3. ASSUME NEW next, Deliver(next) PROVE NeverStopped'
    <2>1. \A e \in Sig : act[e] # "dfl_stop"
        BY DEF TypeOK
    <2>2. Scan.chosen \subseteq Sig
        BY ScanType DEF TypeOK
    <2> QED BY <1>3, <2>1, <2>2 DEF Deliver, ScanFlags
<1>4. CASE \/ Rescan \/ Enter \/ CondReturn \/ SuspendLoop \/ SuspendWoken \/ CondWake
    BY <1>4 DEF Rescan, Enter, CondReturn, SuspendLoop, SuspendWoken, CondWake
<1>5. CASE \/ StepCheck \/ SafepointFirst \/ SafepointStop \/ SafepointSecond \/ Plain
           \/ HostBlock
    BY <1>3, <1>5
       DEF StepCheck, SafepointFirst, SafepointStop, SafepointSecond, Plain, HostBlock, Goto
<1>6. CASE UNCHANGED flags
    BY <1>6
<1>7. ASSUME NEW k, NEW m, NEW n, NEW s, NEW d,
             \/ ReachCall(k, m) \/ HandlerReturn(m) \/ SetMask(m) \/ DoSignalfd(m)
             \/ LongJmp(n, m) \/ DoSigaction(s, d) \/ HostIntr \/ HostData \/ SendKick(s)
             \/ UNCHANGED vars
      PROVE  UNCHANGED flags
    BY <1>7 DEF ReachCall, HandlerReturn, SetMask, DoSignalfd, LongJmp, DoSigaction, HostIntr,
                HostData, SendKick, vars
<1> QED BY <1>1, <1>2, <1>4, <1>5, <1>6, <1>7 DEF Next, Target, SenderNext

\* deliver_signal settles the restart, or the thread ends.
LEMMA DeliverRestart ==
    ASSUME NEW next, Deliver(next)
    PROVE  restart' = "none" \/ vpc' = "gone"
BY DEF Deliver, Resume, PushHandler

\* A call gives up for a restart only with a flag set that sends the thread through
\* the safepoint, and every step until deliver_signal keeps it there.
LEMMA RestartStep ==
    ASSUME "host" \notin Ops, NeverStopped, FlagInv, RestartSeen, [Next]_vars,
           Special \subseteq {"KILL"}
    PROVE  RestartSeen'
<1> USE DEF RestartSeen
<1>1. CASE StepCheck
    BY <1>1 DEF StepCheck, Goto
<1>2. CASE SafepointFirst
    BY <1>2, DeliverRestart DEF SafepointFirst, Goto
<1>3. CASE SafepointStop
    BY <1>3 DEF SafepointStop, Goto
<1>4. CASE SafepointSecond
    BY <1>4, DeliverRestart DEF SafepointSecond
<1>5. CASE vpc \in {"exec", "unmask"} /\ UNCHANGED restart
    BY <1>5
<1>6. ASSUME NEW k, NEW m, NEW n, NEW s, NEW d,
             \/ Plain \/ ReachCall(k, m) \/ HandlerReturn(m) \/ SetMask(m) \/ DoSignalfd(m)
             \/ LongJmp(n, m) \/ DoSigaction(s, d) \/ Rescan \/ Enter
      PROVE  vpc \in {"exec", "unmask"} /\ UNCHANGED restart
    BY <1>6 DEF Plain, ReachCall, HandlerReturn, SetMask, DoSignalfd, LongJmp, DoSigaction,
                Rescan, Enter, Goto
<1>7. CASE CondReturn
    <2>1. CASE CallDone
        BY <1>7, <2>1 DEF CondReturn, CallDone
    <2>2. CASE WaitInterrupted(flags) /\ CallRestart("sys")
        <3>1. flags \cap {"KILLED", "SIGNAL_PENDING"} # {}
            BY <2>2 DEF WaitInterrupted, Interrupting, NeverStopped
        <3>2. flags' = flags \ {"BLOCKED"} /\ vpc' = "step"
            BY <1>7, <2>2 DEF CondReturn, CallRestart, NextInsn
        <3> QED BY <3>1, <3>2
    <2> QED BY <1>7, <2>1, <2>2 DEF CondReturn
<1>8. CASE HostBlock \/ HostIntr \/ HostData
    BY <1>8 DEF HostBlock, HostIntr, HostData, FlagInv, CallsMade
<1>9. CASE SuspendLoop
    <2>1. CASE vpc' = "suspendwait" /\ UNCHANGED restart
        BY <1>9, <2>1 DEF SuspendLoop
    <2>2. CASE CallRestart("nohand") /\ flags' = flags
        <3>1. vpc = "suspend" /\ vpc' = "step"
            BY <1>9, <2>2 DEF SuspendLoop, CallRestart, NextInsn
        <3>2. "KILLED" \in flags \/ Unblocked(queue) # {}
            BY <1>9, <2>2, <3>1 DEF SuspendLoop, NeverStopped
        <3>3. "KILLED" \in flags \/ "SIGNAL_PENDING" \in flags
            BY <3>1, <3>2 DEF FlagInv, QueueFlagged, Suspended, Unblocked
        <3> QED BY <2>2, <3>1, <3>3
    <2> QED BY <1>9, <2>1, <2>2 DEF SuspendLoop
<1>10. CASE SuspendWoken
    BY <1>10 DEF SuspendWoken
<1>11. CASE CondWake
    BY <1>11 DEF CondWake, targetVars
<1>12. ASSUME NEW s \in Sender, NEW sig \in Sig, Send(s, sig) PROVE RestartSeen'
    <2>1. flags \subseteq flags' /\ UNCHANGED <<restart, vpc>>
        BY <1>12 DEF Send, targetVars
    <2> QED BY <2>1
<1>13. ASSUME NEW s \in Sender, NEW sig \in Special, SendSpecial(s, sig) PROVE RestartSeen'
    <2>1. flags \subseteq flags' /\ UNCHANGED <<restart, vpc>>
        BY <1>13 DEF SendSpecial, targetVars
    <2> QED BY <2>1
<1>14. ASSUME NEW s \in Sender, SendKick(s) PROVE RestartSeen'
    BY <1>14 DEF SendKick
<1>15. CASE UNCHANGED vars
    BY <1>15 DEF vars, targetVars
<1> QED
    BY <1>1, <1>2, <1>3, <1>4, <1>5, <1>6, <1>7, <1>8, <1>9, <1>10, <1>11, <1>12, <1>13, <1>14,
       <1>15 DEF Next, Target, SenderNext

---------------------------------------------------------------------------
(* The theorems *)

\* A new thread has no signal, no flag and no restart.
LEMMA Initially == Init => IInv
<1> SUFFICES ASSUME Init PROVE IInv
    OBVIOUS
<1> USE DEF Init
<1>1. queue \in Seq(Sig) /\ Len(queue) <= QueSize
    BY SignalAssumption
<1>2. frames \in Seq(Frame) /\ Len(frames) <= MaxDepth
    BY SignalAssumption
<1>3. TypeOK
    BY <1>1, <1>2 DEF TypeOK, Loc
<1>4. FlagInv
    BY DEF FlagInv, CallsMade, QueueFlagged
<1> QED BY <1>3, <1>4 DEF IInv, NeverStopped, RestartSeen

\* The queue stays within BPF_SIGNAL_QUE_SIZE and the signal frames within the room
\* the guest stack has, whoever sends and whatever the thread does.
THEOREM TypeCorrect == Spec => []TypeOK
<1>1. Init => TypeOK
    BY Initially DEF IInv
<1>2. TypeOK /\ [Next]_vars => TypeOK'
    BY TypeStep
<1> QED BY <1>1, <1>2, PTL DEF Spec

\* A thread that never calls rt_sigsuspend: whoever sends and stops it, and whatever
\* else it does, a signal queue_signal has queued for it and it does not mask keeps
\* VM_SIGNAL_PENDING set until the scan takes it.
THEOREM SignalNotForgotten ==
    ASSUME "suspend" \notin Ops
    PROVE  Spec => []PendingFlag
<1>1. Init => TypeOK /\ FlagInv
    BY Initially DEF IInv
<1>2. TypeOK /\ FlagInv /\ [Next]_vars => TypeOK' /\ FlagInv'
    BY TypeStep, FlagStep
<1>3. FlagInv => PendingFlag
    BY DEF FlagInv, QueueFlagged, Suspended, PendingFlag, Unblocked
<1> QED BY <1>1, <1>2, <1>3, PTL DEF Spec

\* The strengthening behind the two theorems below is inductive.
THEOREM Inductive ==
    ASSUME NoStops
    PROVE  Spec => []IInv
<1>1. IInv /\ [Next]_vars => IInv'
    BY TypeStep, FlagStep, NeverStoppedStep, RestartStep DEF IInv, NoStops
<1> QED BY <1>1, Initially, PTL DEF Spec

\* The same with rt_sigsuspend, which clears the flag over masked signals, as long as
\* nobody stops the thread.
THEOREM SuspendForgetsNothing ==
    ASSUME NoStops
    PROVE  Spec => []PendingFlag
<1>1. IInv => PendingFlag
    BY DEF IInv, FlagInv, QueueFlagged, Suspended, PendingFlag, Unblocked
<1> QED BY <1>1, Inductive, PTL

\* A thread that sleeps only in wait_for and rt_sigsuspend and is not stopped runs no
\* guest instruction while a restart is pending: deliver_signal has sent it back to
\* the interrupted call, or made the call return EINTR.
THEOREM RestartsAreHonoured ==
    ASSUME NoStops, "host" \notin Ops
    PROVE  Spec => []RestartHonoured
<1>1. IInv => RestartHonoured
    BY DEF IInv, RestartSeen, RestartHonoured
<1> QED BY <1>1, Inductive, PTL
=============================================================================
