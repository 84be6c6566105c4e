-------------------------- MODULE ChildWaitProofs --------------------------
(***************************************************************************)
(* wait4 and waitid, for any number of waiting threads, children and       *)
(* senders of SIGSTOP: a zombie is reaped once, a finished call is on no   *)
(* waiters list, and the exit of a child a call sleeps on reaches it.      *)
(***************************************************************************)
EXTENDS ChildWait, TLAPS

\* A child that nobody reaped is in pid_map from its fork on.
Reaping ==
    \A k \in Kid :
        /\ k \in pid_map => kpc[k] # "none"
        /\ k \in pid_map \/ kpc[k] = "none" => reaped[k] = 0
        /\ reaped[k] <= 1

\* Who is on a child's list is in a call whose snapshot holds the child.
Registered ==
    \A w \in Waiter, k \in Kid :
        w \in waiters[k] => pc[w] \in {"register", "sleep", "woken"} /\ k \in kids[w]

\* The children a call has yet to visit are of its snapshot; it sleeps once there are
\* none left, if none had an event.
Visiting ==
    \A w \in Waiter :
        /\ pc[w] = "register" => todo[w] \subseteq kids[w]
        /\ pc[w] = "sleep" => todo[w] = {} /\ ~has_event[w]

\* Whose lists are emptied: fini publishes exited before it swaps the list out, and
\* from then on nobody joins it.
Published ==
    \A k \in Kid :
        /\ exited[k] <=> kpc[k] \in {"swap", "wake", "dead"}
        /\ kpc[k] \in {"wake", "dead"} => waiters[k] = {}

\* A list that was swapped out holds w.
Swapped(w) ==
    \/ \E j \in Kid : kpc[j] = "wake" /\ w \in ktowake[j]
    \/ \E s \in Sender : spc[s] = "wake" /\ w \in stowake[s]

\* A call that saw no event so far and was not woken is on the list of every child it
\* visited, or on a list that is about to be woken.
Listed ==
    \A w \in Waiter :
        pc[w] \in {"register", "sleep"} /\ ~has_event[w] /\ "BLOCKED" \in flags[w] =>
            \A k \in kids[w] \ todo[w] : w \in waiters[k] \/ Swapped(w)

IInv == TypeOK /\ Reaping /\ Registered /\ Visiting /\ Published /\ Listed

---------------------------------------------------------------------------
(* Types *)

\* What setting and clearing a flag leaves in the flag words.
LEMMA FlagFacts ==
    ASSUME NEW w \in Waiter, NEW W \in SUBSET Waiter, NEW b \in Flag, TypeOK
    PROVE  /\ SetFlag(flags, w, b) \in [Waiter -> SUBSET Flag]
           /\ ClearFlag(flags, w, b) \in [Waiter -> SUBSET Flag]
           /\ ClearFlagAll(flags, W, b) \in [Waiter -> SUBSET Flag]
           /\ \A u \in Waiter :
                /\ ClearFlagAll(flags, W, b)[u]
                        = IF u \in W THEN flags[u] \ {b} ELSE flags[u]
                /\ SetFlag(flags, w, b)[u] = IF u = w THEN flags[u] \cup {b} ELSE flags[u]
                /\ ClearFlag(flags, w, b)[u] = IF u = w THEN flags[u] \ {b} ELSE flags[u]
BY DEF SetFlag, ClearFlag, ClearFlagAll, TypeOK

\* The two flags of the sleep are flags.
LEMMA FlagNames == "BLOCKED" \in Flag /\ "SIGNAL_PENDING" \in Flag
BY DEF Flag

\* Nobody waits and no child has exited at the start.
LEMMA InitInv == Init => IInv
<1> SUFFICES ASSUME Init PROVE IInv OBVIOUS
<1>1. (CHOOSE k \in Kid : TRUE) \in Kid BY ChildAssumption
<1>2. TypeOK BY <1>1, ChildAssumption DEF Init, TypeOK
<1>3. Reaping /\ Registered /\ Visiting /\ Published /\ Listed
  BY ChildAssumption DEF Init, Reaping, Registered, Visiting, Published, Listed
<1>4. QED BY <1>2, <1>3 DEF IInv

\* claim_one's collection of a child keeps the types.
LEMMA ClaimType ==
    ASSUME TypeOK, NEW w \in Waiter, NEW k \in Kid, NEW o, Claim(w, k, o) PROVE TypeOK'
<1>1. reaped' \in [Kid -> Nat] BY DEF Claim, TypeOK
<1>2. pid_map' \subseteq Kid BY DEF Claim, TypeOK
<1>3. stop_reported' \in [Kid -> BOOLEAN]
  <2>1. ("WNOWAIT" \in o) \in BOOLEAN OBVIOUS
  <2>2. stop_reported' = stop_reported
        \/ stop_reported' = [stop_reported EXCEPT ![k] = ("WNOWAIT" \in o)]
    BY DEF Claim
  <2>3. QED BY <2>1, <2>2, Zenon DEF TypeOK
<1>4. QED BY <1>1, <1>2, <1>3 DEF Claim, Return, TypeOK

\* Every step keeps the types.
LEMMA TypeStep == ASSUME TypeOK, [Next]_vars PROVE TypeOK'
<1> USE DEF TypeOK, kidVars, stopVars, waitVars
<1>1. ASSUME KidNext PROVE TypeOK'
  <2>1. CASE Reparent BY <2>1 DEF Reparent
  <2>2. ASSUME NEW k \in Kid, Fork(k) PROVE TypeOK' BY <2>2 DEF Fork
  <2>3. ASSUME NEW k \in Kid, KidExit(k) PROVE TypeOK' BY <2>3 DEF KidExit
  <2>4. ASSUME NEW k \in Kid, KidSwap(k) PROVE TypeOK' BY <2>4 DEF KidSwap
  <2>5. ASSUME NEW k \in Kid, KidWake(k) PROVE TypeOK'
    <3>1. flags' \in [Waiter -> SUBSET Flag]
      BY <2>5, FlagNames DEF KidWake, ClearFlagAll
    <3>2. QED BY <2>5, <3>1 DEF KidWake
  <2>6. QED BY <1>1, <2>1, <2>2, <2>3, <2>4, <2>5 DEF KidNext, KidStep
<1>2. ASSUME StopNext PROVE TypeOK'
  <2>1. ASSUME NEW s \in Sender, StopReport(s) PROVE TypeOK' BY <2>1 DEF StopReport
  <2>2. ASSUME NEW s \in Sender, StopSwap(s) PROVE TypeOK' BY <2>2 DEF StopSwap
  <2>3. ASSUME NEW s \in Sender, StopWake(s) PROVE TypeOK'
    <3>1. flags' \in [Waiter -> SUBSET Flag]
      BY <2>3, FlagNames DEF StopWake, ClearFlagAll
    <3>2. QED BY <2>3, <3>1 DEF StopWake
  <2>4. ASSUME NEW s \in Sender, NEW k \in Kid, StopMark(s, k) \/ Cont(s, k) PROVE TypeOK'
    <3>1. CASE StopMark(s, k) BY <3>1 DEF StopMark
    <3>2. CASE Cont(s, k) BY <3>2 DEF Cont
    <3>3. QED BY <2>4, <3>1, <3>2
  <2>5. QED BY <1>2, <2>1, <2>2, <2>3, <2>4 DEF StopNext, SenderStep
<1>3. ASSUME NEW w \in Waiter, CallAny(w) PROVE TypeOK'
  <2>1. PICK K \in SUBSET Kid, o \in Options : CallReturn(w, K, o) \/ CallBlock(w, K, o)
    BY <1>3 DEF CallAny
  <2>2. o \in SUBSET Option BY ChildAssumption
  <2>3. CASE CallBlock(w, K, o) BY <2>2, <2>3 DEF CallBlock
  <2>4. ASSUME NEW k \in Matching(K), Claim(w, k, o) PROVE TypeOK'
    BY <2>4, ClaimType DEF Matching
  <2>5. CASE NoChild(w, K) BY <2>5 DEF NoChild, Return
  <2>6. CASE UNCHANGED vars BY <2>6 DEF vars
  <2>7. QED BY <2>1, <2>3, <2>4, <2>5, <2>6 DEF CallReturn
<1>4. ASSUME NEW w \in Waiter, Step(w) PROVE TypeOK'
  <2>1. CASE LoopInterrupted(w) BY <2>1 DEF LoopInterrupted, Return
  <2>2. CASE LoopClaim(w)
    <3>1. ASSUME NEW k \in Matching(want[w]), Claim(w, k, opt[w]) PROVE TypeOK'
      BY <3>1, ClaimType DEF Matching
    <3>2. CASE NoChild(w, want[w]) BY <3>2 DEF NoChild, Return
    <3>3. CASE pc' = [pc EXCEPT ![w] = "snapshot"]
               /\ UNCHANGED <<want, opt, kids, todo, has_event, reaped, kidVars, stopVars, flags>>
      BY <3>3
    <3>4. QED BY <2>2, <3>1, <3>2, <3>3 DEF LoopClaim
  <2>3. CASE Snapshot(w)
    <3>1. flags' \in [Waiter -> SUBSET Flag] BY <2>3, FlagNames, FlagFacts DEF Snapshot
    <3>2. Matching(want[w]) \in SUBSET Kid BY DEF Matching
    <3>3. QED BY <2>3, <3>1, <3>2 DEF Snapshot, Visit
  <2>4. ASSUME NEW k \in Kid, Register(w, k) PROVE TypeOK'
    <3>1. CASE ChildHasEvent(k)
      <4>1. Visit(w, todo[w] \ {k}, TRUE) /\ UNCHANGED waiters BY <2>4, <3>1 DEF Register
      <4>2. QED BY <2>4, <4>1 DEF Register, Visit
    <3>2. CASE ~ChildHasEvent(k)
      <4>1. waiters' = [waiters EXCEPT ![k] = @ \cup {w}] BY <2>4, <3>2 DEF Register
      <4>2. Visit(w, todo[w] \ {k}, has_event[w]) BY <2>4, <3>2 DEF Register
      <4>3. waiters' \in [Kid -> SUBSET Waiter] BY <4>1
      <4>4. has_event' = has_event BY <4>2, Zenon DEF Visit
      <4>5. QED BY <2>4, <4>2, <4>3, <4>4 DEF Register, Visit
    <3>3. QED BY <3>1, <3>2
  <2>5. CASE WakeUp(w) BY <2>5 DEF WakeUp
  <2>6. CASE Deregister(w)
    <3>1. flags' \in [Waiter -> SUBSET Flag] BY <2>6, FlagNames, FlagFacts DEF Deregister
    <3>2. QED BY <2>6, <3>1 DEF Deregister
  <2>7. QED BY <1>4, <2>1, <2>2, <2>3, <2>4, <2>5, <2>6 DEF Step
<1>5. ASSUME NEW w \in Waiter, Signal(w) \/ Handled(w) PROVE TypeOK'
  <2>1. CASE Signal(w)
    <3>1. flags' = SetFlag(flags, w, "SIGNAL_PENDING") BY <2>1 DEF Signal
    <3>2. flags' \in [Waiter -> SUBSET Flag] BY <3>1, FlagNames DEF SetFlag
    <3>3. QED BY <2>1, <3>2 DEF Signal
  <2>2. CASE Handled(w)
    <3>1. flags' = ClearFlag(flags, w, "SIGNAL_PENDING") BY <2>2 DEF Handled
    <3>2. flags' \in [Waiter -> SUBSET Flag] BY <3>1 DEF ClearFlag
    <3>3. QED BY <2>2, <3>2 DEF Handled
  <2>3. QED BY <1>5, <2>1, <2>2
<1>6. CASE UNCHANGED vars BY <1>6 DEF vars
<1>7. QED BY <1>1, <1>2, <1>3, <1>4, <1>5, <1>6 DEF Next, WaiterNext

\* Every variable of the children, the senders and the waiting calls keeps its type.
THEOREM TypeCorrect == Spec => []TypeOK
<1>1. Init => TypeOK BY InitInv DEF IInv
<1>2. QED BY <1>1, TypeStep, PTL DEF Spec

---------------------------------------------------------------------------
(* Reaping *)

\* What a waiting thread does to pid_map it does by claiming a child it found there.
LEMMA ReapsByClaim ==
    ASSUME TypeOK, NEW w \in Waiter, WaiterNext(w)
    PROVE  \/ UNCHANGED <<pid_map, reaped>>
           \/ \E k \in pid_map :
                /\ pid_map' = pid_map \ {k}
                /\ reaped' = [reaped EXCEPT ![k] = @ + 1]
<1> USE DEF kidVars, stopVars, waitVars
<1>1. ASSUME NEW k \in pid_map, NEW o, Claim(w, k, o)
      PROVE  \/ UNCHANGED <<pid_map, reaped>>
             \/ pid_map' = pid_map \ {k} /\ reaped' = [reaped EXCEPT ![k] = @ + 1]
  BY <1>1 DEF Claim
<1>2. CASE CallAny(w)
  <2>1. PICK K \in SUBSET Kid, o \in Options : CallReturn(w, K, o) \/ CallBlock(w, K, o)
    BY <1>2 DEF CallAny
  <2>2. CASE CallBlock(w, K, o) BY <2>2 DEF CallBlock
  <2>3. CASE CallReturn(w, K, o)
    BY <2>3, <1>1 DEF CallReturn, Matching, NoChild, vars
  <2>4. QED BY <2>1, <2>2, <2>3
<1>3. CASE LoopClaim(w)
  BY <1>1, <1>3 DEF LoopClaim, Matching, NoChild
<1>4. CASE Step(w) /\ ~LoopClaim(w)
  BY <1>4 DEF Step, LoopInterrupted, Snapshot, Register, WakeUp, Deregister
<1>5. CASE Signal(w) \/ Handled(w) BY <1>5 DEF Signal, Handled
<1>6. QED BY <1>2, <1>3, <1>4, <1>5 DEF WaiterNext

\* A child is counted as reaped in the step that takes it out of pid_map.
LEMMA ReapingStep == ASSUME TypeOK, Reaping, [Next]_vars PROVE Reaping'
<1> USE DEF TypeOK, Reaping, kidVars, stopVars, waitVars
<1>1. CASE KidNext
  <2>1. CASE Reparent BY <2>1 DEF Reparent
  <2>2. ASSUME NEW k \in Kid, Fork(k) PROVE Reaping' BY <2>2 DEF Fork
  <2>3. ASSUME NEW k \in Kid, KidExit(k) \/ KidStep(k) PROVE Reaping'
    BY <2>3 DEF KidExit, KidStep, KidSwap, KidWake
  <2>4. QED BY <1>1, <2>1, <2>2, <2>3 DEF KidNext
<1>2. CASE StopNext
  BY <1>2 DEF StopNext, SenderStep, StopReport, StopSwap, StopWake, StopMark, Cont
<1>3. ASSUME NEW w \in Waiter, WaiterNext(w) PROVE Reaping'
  <2>1. UNCHANGED kpc
    BY <1>3 DEF WaiterNext, CallAny, CallReturn, CallBlock, Claim, NoChild, vars, Step,
                LoopInterrupted, LoopClaim, Snapshot, Register, WakeUp, Deregister,
                Signal, Handled
  <2>2. CASE UNCHANGED <<pid_map, reaped>> BY <2>1, <2>2
  <2>3. ASSUME NEW k \in pid_map, pid_map' = pid_map \ {k},
               reaped' = [reaped EXCEPT ![k] = @ + 1]
        PROVE  Reaping'
    <3>1. reaped'[k] = 1 BY <2>3
    <3>2. \A j \in Kid : j # k => reaped'[j] = reaped[j] BY <2>3
    <3>3. QED BY <2>1, <2>3, <3>1, <3>2
  <2>4. QED BY <1>3, <2>2, <2>3, ReapsByClaim
<1>4. CASE UNCHANGED vars BY <1>4 DEF vars
<1>5. QED BY <1>1, <1>2, <1>3, <1>4 DEF Next

---------------------------------------------------------------------------
(* Registration *)

\* A returning call, or one that blocks, is on no list.
LEMMA OffTheList ==
    ASSUME TypeOK, Registered, NEW w \in Waiter, pc[w] \in {"idle", "loop", "snapshot"}
    PROVE  \A k \in Kid : w \notin waiters[k]
BY DEF Registered

\* A call that returns before it registered is on no list.
LEMMA ReturnKeeps ==
    ASSUME TypeOK, Registered, Visiting, NEW w \in Waiter, pc[w] \in {"idle", "loop"},
           Return(w), UNCHANGED waiters
    PROVE  Registered' /\ Visiting'
<1>1. \A k \in Kid : w \notin waiters[k] BY OffTheList
<1>2. Registered' BY <1>1 DEF Return, TypeOK, Registered
<1>3. Visiting' BY DEF Return, TypeOK, Visiting
<1>4. QED BY <1>2, <1>3

\* The calls other than w's are where they were.
Others(w) ==
    \A v \in Waiter \ {w} :
        /\ pc'[v] = pc[v] /\ kids'[v] = kids[v] /\ todo'[v] = todo[v]
        /\ has_event'[v] = has_event[v]

\* The snapshot: the calling thread has yet to visit every child it saw.
LEMMA SnapshotFacts ==
    ASSUME TypeOK, NEW w \in Waiter, Snapshot(w)
    PROVE  /\ Others(w) /\ UNCHANGED waiters
           /\ kids'[w] \in SUBSET Kid /\ todo'[w] = kids'[w] /\ ~has_event'[w]
           /\ pc'[w] = IF todo'[w] # {} THEN "register" ELSE "sleep"
<1>1. Matching(want[w]) \in SUBSET Kid BY DEF Matching, TypeOK
<1>2. QED BY <1>1 DEF Snapshot, Visit, Others, kidVars, TypeOK

\* One visit: the thread joins the child's list, or notes the child's event.
LEMMA RegisterFacts ==
    ASSUME TypeOK, NEW w \in Waiter, NEW k \in Kid, Register(w, k)
    PROVE  /\ Others(w) /\ UNCHANGED <<kids, kpc, exited, ktowake, flags, stowake, spc>>
           /\ pc[w] = "register" /\ k \in todo[w] /\ todo'[w] = todo[w] \ {k}
           /\ pc'[w] = IF todo'[w] # {} THEN "register"
                       ELSE IF has_event'[w] THEN "woken" ELSE "sleep"
           /\ has_event'[w] <=> ChildHasEvent(k) \/ has_event[w]
           /\ \A j \in Kid : waiters'[j] = IF j = k /\ ~ChildHasEvent(k)
                                           THEN waiters[j] \cup {w} ELSE waiters[j]
<1>1. CASE ChildHasEvent(k)
  <2>1. Visit(w, todo[w] \ {k}, TRUE) /\ UNCHANGED waiters BY <1>1 DEF Register
  <2>2. QED BY <1>1, <2>1 DEF Register, Visit, Others, stopVars, TypeOK
<1>2. CASE ~ChildHasEvent(k)
  <2>1. Visit(w, todo[w] \ {k}, has_event[w]) BY <1>2 DEF Register
  <2>2. waiters' = [waiters EXCEPT ![k] = @ \cup {w}] BY <1>2 DEF Register
  <2>3. \A j \in Kid : waiters'[j] = IF j = k THEN waiters[j] \cup {w} ELSE waiters[j]
    BY <2>2 DEF TypeOK
  <2>4. QED BY <1>2, <2>1, <2>3 DEF Register, Visit, Others, stopVars, TypeOK
<1>3. QED BY <1>1, <1>2

\* A visit puts the thread on the list of a child of its snapshot only.
LEMMA RegisterKeeps ==
    ASSUME TypeOK, Registered, Visiting, NEW w \in Waiter, NEW k \in Kid, Register(w, k)
    PROVE  Registered' /\ Visiting'
<1>1. pc[w] = "register" /\ k \in todo[w] /\ kids' = kids /\ todo'[w] = todo[w] \ {k}
  BY RegisterFacts
<1>2. pc'[w] = IF todo'[w] # {} THEN "register"
               ELSE IF has_event'[w] THEN "woken" ELSE "sleep"
  BY RegisterFacts
<1>3. Others(w) BY RegisterFacts
<1>4. \A j \in Kid : waiters'[j] = IF j = k /\ ~ChildHasEvent(k)
                                   THEN waiters[j] \cup {w} ELSE waiters[j]
  BY RegisterFacts
<1>5. k \in kids[w] /\ todo[w] \subseteq kids[w] BY <1>1 DEF Visiting
<1>6. Registered'
  <2> SUFFICES ASSUME NEW v \in Waiter, NEW j \in Kid, v \in waiters'[j]
               PROVE  pc'[v] \in {"register", "sleep", "woken"} /\ j \in kids'[v]
    BY DEF Registered
  <2>1. v \in waiters[j] \/ (v = w /\ j = k) BY <1>4
  <2>2. CASE v = w
    <3>1. j \in kids[w] BY <1>5, <2>1, <2>2 DEF Registered
    <3>2. QED BY <1>1, <1>2, <2>2, <3>1
  <2>3. CASE v # w
    <3>1. pc'[v] = pc[v] BY <1>3, <2>3 DEF Others
    <3>2. QED BY <1>1, <2>1, <2>3, <3>1 DEF Registered
  <2>4. QED BY <2>2, <2>3
<1>7. Visiting'
  <2> SUFFICES ASSUME NEW v \in Waiter
               PROVE  /\ pc'[v] = "register" => todo'[v] \subseteq kids'[v]
                      /\ pc'[v] = "sleep" => todo'[v] = {} /\ ~has_event'[v]
    BY DEF Visiting
  <2>1. CASE v = w BY <1>1, <1>2, <1>5, <2>1
  <2>2. CASE v # w BY <1>3, <2>2 DEF Others, Visiting
  <2>3. QED BY <2>1, <2>2
<1>8. QED BY <1>6, <1>7

\* Deregistering takes the thread off every list of its snapshot.
LEMMA DeregisterKeeps ==
    ASSUME TypeOK, Registered, Visiting, NEW w \in Waiter, Deregister(w)
    PROVE  Registered' /\ Visiting'
<1>1. \A k \in Kid : waiters'[k] = IF k \in kids[w] THEN waiters[k] \ {w} ELSE waiters[k]
  BY DEF Deregister
<1>2. \A k \in Kid : w \notin waiters'[k] /\ waiters'[k] \subseteq waiters[k]
  BY <1>1 DEF Registered
<1>3. Others(w) /\ pc'[w] = "loop" BY DEF Deregister, Others, TypeOK
<1>4. Registered' BY <1>2, <1>3 DEF Registered, Others
<1>5. Visiting'
  <2> SUFFICES ASSUME NEW v \in Waiter
               PROVE  /\ pc'[v] = "register" => todo'[v] \subseteq kids'[v]
                      /\ pc'[v] = "sleep" => todo'[v] = {} /\ ~has_event'[v]
    BY DEF Visiting
  <2>1. CASE v = w BY <1>3, <2>1
  <2>2. CASE v # w BY <1>3, <2>2 DEF Others, Visiting
  <2>3. QED BY <2>1, <2>2
<1>6. QED BY <1>4, <1>5

\* Every step keeps the lists and the snapshots in agreement.
LEMMA RegisteredStep ==
    ASSUME TypeOK, Registered, Visiting, [Next]_vars PROVE Registered' /\ Visiting'
<1> USE DEF TypeOK, kidVars, stopVars, waitVars
<1>0. ASSUME UNCHANGED <<waiters, pc, kids, todo, has_event>> PROVE Registered' /\ Visiting'
  BY <1>0 DEF Registered, Visiting
<1>1. CASE KidNext
  <2>1. ASSUME NEW k \in Kid, KidSwap(k) PROVE Registered' /\ Visiting'
    BY <2>1 DEF KidSwap, Registered, Visiting
  <2>2. QED BY <1>0, <1>1, <2>1 DEF KidNext, Reparent, Fork, KidExit, KidStep, KidWake
<1>2. CASE StopNext
  <2>1. ASSUME NEW s \in Sender, StopSwap(s) PROVE Registered' /\ Visiting'
    BY <2>1 DEF StopSwap, Registered, Visiting
  <2>2. QED
    BY <1>0, <1>2, <2>1 DEF StopNext, SenderStep, StopReport, StopWake, StopMark, Cont
<1>3. ASSUME NEW w \in Waiter, CallAny(w) PROVE Registered' /\ Visiting'
  <2>1. PICK K \in SUBSET Kid, o \in Options : CallReturn(w, K, o) \/ CallBlock(w, K, o)
    BY <1>3 DEF CallAny
  <2>2. CASE CallBlock(w, K, o) BY <2>2 DEF CallBlock, Registered, Visiting
  <2>3. CASE CallReturn(w, K, o)
    <3>1. pc[w] = "idle" BY <2>3 DEF CallReturn
    <3>2. CASE UNCHANGED vars BY <1>0, <3>2 DEF vars
    <3>3. CASE Return(w) /\ UNCHANGED waiters BY <3>1, <3>3, ReturnKeeps
    <3>4. QED BY <2>3, <3>2, <3>3 DEF CallReturn, Claim, NoChild
  <2>4. QED BY <2>1, <2>2, <2>3
<1>4. ASSUME NEW w \in Waiter, Step(w) PROVE Registered' /\ Visiting'
  <2>1. CASE LoopInterrupted(w) BY <2>1, ReturnKeeps DEF LoopInterrupted
  <2>2. CASE LoopClaim(w)
    <3>1. pc[w] = "loop" BY <2>2 DEF LoopClaim
    <3>2. CASE Return(w) /\ UNCHANGED waiters BY <3>1, <3>2, ReturnKeeps
    <3>3. CASE pc' = [pc EXCEPT ![w] = "snapshot"]
               /\ UNCHANGED <<kids, todo, has_event, waiters>>
      BY <3>1, <3>3, OffTheList DEF Registered, Visiting
    <3>4. QED BY <2>2, <3>2, <3>3 DEF LoopClaim, Claim, NoChild
  <2>3. CASE Snapshot(w)
    <3>1. \A k \in Kid : w \notin waiters[k] BY <2>3, OffTheList DEF Snapshot
    <3>0. Others(w) /\ UNCHANGED waiters BY <2>3, SnapshotFacts
    <3>2. Registered'
      <4> SUFFICES ASSUME NEW v \in Waiter, NEW k \in Kid, v \in waiters'[k]
                   PROVE  pc'[v] \in {"register", "sleep", "woken"} /\ k \in kids'[v]
        BY DEF Registered
      <4>1. v # w /\ v \in waiters[k] BY <3>0, <3>1
      <4>2. pc'[v] = pc[v] /\ kids'[v] = kids[v] BY <3>0, <4>1 DEF Others
      <4>3. QED BY <4>1, <4>2 DEF Registered
    <3>3. Visiting'
      <4>1. todo'[w] = kids'[w] /\ ~has_event'[w] /\ (pc'[w] = "sleep" => todo'[w] = {})
        BY <2>3, SnapshotFacts
      <4> SUFFICES ASSUME NEW v \in Waiter
                   PROVE  /\ pc'[v] = "register" => todo'[v] \subseteq kids'[v]
                          /\ pc'[v] = "sleep" => todo'[v] = {} /\ ~has_event'[v]
        BY DEF Visiting
      <4>2. CASE v = w BY <4>1, <4>2
      <4>3. CASE v # w BY <3>0, <4>3 DEF Others, Visiting
      <4>4. QED BY <4>2, <4>3
    <3>4. QED BY <3>2, <3>3
  <2>4. ASSUME NEW k \in Kid, Register(w, k) PROVE Registered' /\ Visiting'
    BY <2>4, RegisterKeeps
  <2>5. CASE WakeUp(w) BY <2>5 DEF WakeUp, Registered, Visiting
  <2>6. CASE Deregister(w)
    BY <2>6, DeregisterKeeps
  <2>7. QED BY <1>4, <2>1, <2>2, <2>3, <2>4, <2>5, <2>6 DEF Step
<1>5. ASSUME NEW w \in Waiter, Signal(w) \/ Handled(w) PROVE Registered' /\ Visiting'
  BY <1>0, <1>5 DEF Signal, Handled
<1>6. CASE UNCHANGED vars BY <1>0, <1>6 DEF vars
<1>7. QED BY <1>1, <1>2, <1>3, <1>4, <1>5, <1>6 DEF Next, WaiterNext

---------------------------------------------------------------------------
(* No exit is lost *)

\* What a waiting thread does to the lists: it registers, it leaves them, or neither.
LEMMA ListsChange ==
    ASSUME TypeOK, NEW w \in Waiter, WaiterNext(w)
    PROVE  /\ UNCHANGED <<kpc, exited, ktowake, spc, stowake>>
           /\ \/ \E k \in Kid : Register(w, k)
              \/ Deregister(w)
              \/ UNCHANGED waiters
<1> USE DEF kidVars, stopVars, waitVars
<1>1. CASE CallAny(w)
  BY <1>1 DEF CallAny, CallReturn, CallBlock, Claim, NoChild, vars
<1>2. CASE Step(w)
  BY <1>2 DEF Step, LoopInterrupted, LoopClaim, Claim, NoChild, Snapshot, Register, WakeUp,
              Deregister
<1>3. CASE Signal(w) \/ Handled(w) BY <1>3 DEF Signal, Handled
<1>4. QED BY <1>1, <1>2, <1>3 DEF WaiterNext

\* Nobody joins the list of a child whose exited is set.
LEMMA PublishedStep == ASSUME TypeOK, Published, [Next]_vars PROVE Published'
<1> USE DEF TypeOK, Published, kidVars, stopVars, waitVars
<1>1. CASE KidNext
  <2>1. ASSUME NEW k \in Kid, Fork(k) PROVE Published' BY <2>1 DEF Fork
  <2>2. ASSUME NEW k \in Kid, KidExit(k) PROVE Published' BY <2>2 DEF KidExit
  <2>3. ASSUME NEW k \in Kid, KidSwap(k) PROVE Published' BY <2>3 DEF KidSwap
  <2>4. ASSUME NEW k \in Kid, KidWake(k) PROVE Published' BY <2>4 DEF KidWake
  <2>5. CASE Reparent BY <2>5 DEF Reparent
  <2>6. QED BY <1>1, <2>1, <2>2, <2>3, <2>4, <2>5 DEF KidNext, KidStep
<1>2. CASE StopNext
  <2>1. UNCHANGED <<kpc, exited>>
    BY <1>2 DEF StopNext, SenderStep, StopReport, StopSwap, StopWake, StopMark, Cont
  <2>2. ASSUME NEW s \in Sender, StopSwap(s)
        PROVE  \A k \in Kid : waiters'[k] \subseteq waiters[k]
    BY <2>2 DEF StopSwap
  <2>3. waiters' = waiters \/ \E s \in Sender : StopSwap(s)
    BY <1>2 DEF StopNext, SenderStep, StopReport, StopWake, StopMark, Cont
  <2>4. \A k \in Kid : waiters'[k] \subseteq waiters[k] BY <2>2, <2>3
  <2>5. QED BY <2>1, <2>4
<1>3. ASSUME NEW w \in Waiter, WaiterNext(w) PROVE Published'
  <2>1. UNCHANGED <<kpc, exited>> BY <1>3, ListsChange
  <2>2. ASSUME NEW k \in Kid, Register(w, k) PROVE Published'
    <3>1. \A j \in Kid : waiters'[j] = IF j = k /\ ~ChildHasEvent(k)
                                       THEN waiters[j] \cup {w} ELSE waiters[j]
      BY <2>2, RegisterFacts
    <3>2. \A j \in Kid : exited[j] => waiters'[j] = waiters[j]
      BY <3>1 DEF ChildHasEvent
    <3>3. QED BY <2>1, <3>2
  <2>3. CASE Deregister(w)
    <3>1. \A k \in Kid : waiters'[k] \subseteq waiters[k] BY <2>3 DEF Deregister
    <3>2. QED BY <2>1, <3>1
  <2>4. CASE UNCHANGED waiters BY <2>1, <2>4
  <2>5. QED BY <1>3, <2>2, <2>3, <2>4, ListsChange
<1>4. CASE UNCHANGED vars BY <1>4 DEF vars
<1>5. QED BY <1>1, <1>2, <1>3, <1>4 DEF Next

\* w is on k's list, or on one that was swapped out, or has been woken.
Reached(w, k) == w \in waiters[k] \/ Swapped(w) \/ "BLOCKED" \notin flags[w]

\* Nothing the children and the senders do loses a waiter.
LEMMA KidsReach ==
    ASSUME TypeOK, KidNext, NEW w \in Waiter, NEW k \in Kid, Reached(w, k)
    PROVE  Reached(w, k)'
<1> USE DEF TypeOK, kidVars, stopVars, waitVars
<1>1. ASSUME NEW j \in Kid, KidSwap(j) PROVE Reached(w, k)'
  <2>1. Swapped(w) => Swapped(w)' BY <1>1 DEF KidSwap, Swapped
  <2>2. w \in waiters[k] => w \in waiters'[k] \/ Swapped(w)' BY <1>1 DEF KidSwap, Swapped
  <2>3. QED BY <1>1, <2>1, <2>2 DEF KidSwap, Reached
<1>2. ASSUME NEW j \in Kid, KidWake(j) PROVE Reached(w, k)'
  <2>1. flags'[w] = IF w \in ktowake[j] THEN flags[w] \ {"BLOCKED"} ELSE flags[w]
    BY <1>2 DEF KidWake, ClearFlagAll
  <2>2. Swapped(w) => Swapped(w)' \/ w \in ktowake[j] BY <1>2 DEF KidWake, Swapped
  <2>3. QED BY <1>2, <2>1, <2>2 DEF KidWake, Reached
<1>3. ASSUME NEW j \in Kid, Fork(j) \/ KidExit(j) PROVE Reached(w, k)'
  <2>1. Swapped(w) => Swapped(w)' BY <1>3 DEF Fork, KidExit, Swapped
  <2>2. QED BY <1>3, <2>1 DEF Fork, KidExit, Reached
<1>4. CASE Reparent BY <1>4 DEF Reparent, Reached, Swapped
<1>5. QED BY <1>1, <1>2, <1>3, <1>4 DEF KidNext, KidStep

\* A stop moves a thread from the child's list to the list it is about to wake.
LEMMA StopsReach ==
    ASSUME TypeOK, StopNext, NEW w \in Waiter, NEW k \in Kid, Reached(w, k)
    PROVE  Reached(w, k)'
<1> USE DEF TypeOK, kidVars, stopVars, waitVars
<1>1. ASSUME NEW s \in Sender, StopSwap(s) PROVE Reached(w, k)'
  <2>1. Swapped(w) => Swapped(w)' BY <1>1 DEF StopSwap, Swapped
  <2>2. w \in waiters[k] => w \in waiters'[k] \/ Swapped(w)' BY <1>1 DEF StopSwap, Swapped
  <2>3. QED BY <1>1, <2>1, <2>2 DEF StopSwap, Reached
<1>2. ASSUME NEW s \in Sender, StopWake(s) PROVE Reached(w, k)'
  <2>1. flags'[w] = IF w \in stowake[s] THEN flags[w] \ {"BLOCKED"} ELSE flags[w]
    BY <1>2 DEF StopWake, ClearFlagAll
  <2>2. Swapped(w) => Swapped(w)' \/ w \in stowake[s] BY <1>2 DEF StopWake, Swapped
  <2>3. QED BY <1>2, <2>1, <2>2 DEF StopWake, Reached
<1>3. ASSUME NEW s \in Sender, StopReport(s) PROVE Reached(w, k)'
  <2>1. Swapped(w) => Swapped(w)' BY <1>3 DEF StopReport, Swapped
  <2>2. QED BY <1>3, <2>1 DEF StopReport, Reached
<1>4. ASSUME NEW s \in Sender, NEW j \in Kid, StopMark(s, j) \/ Cont(s, j)
      PROVE  Reached(w, k)'
  <2>1. Swapped(w) => Swapped(w)' BY <1>4 DEF StopMark, Cont, Swapped
  <2>2. QED BY <1>4, <2>1 DEF StopMark, Cont, Reached
<1>5. QED BY <1>1, <1>2, <1>3, <1>4 DEF StopNext, SenderStep

\* A visit: the call w makes is still one Listed speaks of, or k was just visited.
LEMMA RegisterReaches ==
    ASSUME TypeOK, NEW v \in Waiter, NEW j \in Kid, Register(v, j),
           NEW w \in Waiter, NEW k \in Kid, k \in kids'[w] \ todo'[w],
           pc'[w] \in {"register", "sleep"}, ~has_event'[w],
           pc[w] \in {"register", "sleep"} /\ ~has_event[w] /\ k \in kids[w] \ todo[w]
             => Reached(w, k)
    PROVE  Reached(w, k) \/ w \in waiters'[k]
<1>1. pc[v] = "register" /\ kids' = kids /\ todo'[v] = todo[v] \ {j} BY RegisterFacts
<1>2. has_event'[v] <=> ChildHasEvent(j) \/ has_event[v] BY RegisterFacts
<1>3. CASE w # v
  <2>1. pc'[w] = pc[w] /\ todo'[w] = todo[w] /\ has_event'[w] = has_event[w]
    BY <1>3, RegisterFacts DEF Others
  <2>2. QED BY <1>1, <2>1
<1>4. CASE w = v /\ k # j BY <1>1, <1>2, <1>4
<1>5. CASE w = v /\ k = j
  <2>1. waiters'[j] = IF ~ChildHasEvent(j) THEN waiters[j] \cup {v} ELSE waiters[j]
    BY RegisterFacts
  <2>2. QED BY <1>2, <1>5, <2>1
<1>6. QED BY <1>3, <1>4, <1>5

\* Every step keeps a sleeping call in reach of every child it visited.
LEMMA ListedStep ==
    ASSUME TypeOK, Visiting, Listed, [Next]_vars PROVE Listed'
<1> USE DEF kidVars, stopVars, waitVars
<1> SUFFICES ASSUME NEW w \in Waiter, NEW k \in kids'[w] \ todo'[w],
                    pc'[w] \in {"register", "sleep"}, ~has_event'[w], k \in Kid
             PROVE  Reached(w, k)'
  <2>1. \A v \in Waiter : kids'[v] \subseteq Kid BY TypeStep DEF TypeOK
  <2>2. QED BY <2>1 DEF Listed, Reached
<1>1. ASSUME pc[w] \in {"register", "sleep"}, ~has_event[w], k \in kids[w] \ todo[w]
      PROVE  Reached(w, k)
  BY <1>1 DEF Listed, Reached
<1>2. ASSUME pc'[w] = pc[w], kids'[w] = kids[w], todo'[w] = todo[w],
             has_event'[w] = has_event[w]
      PROVE  Reached(w, k)
  BY <1>1, <1>2
<1>3. CASE KidNext
  <2>1. UNCHANGED <<pc, kids, todo, has_event>>
    BY <1>3 DEF KidNext, Reparent, Fork, KidExit, KidStep, KidSwap, KidWake
  <2>2. QED BY <1>2, <1>3, <2>1, KidsReach
<1>4. CASE StopNext
  <2>1. UNCHANGED <<pc, kids, todo, has_event>>
    BY <1>4 DEF StopNext, SenderStep, StopReport, StopSwap, StopWake, StopMark, Cont
  <2>2. QED BY <1>2, <1>4, <2>1, StopsReach
<1>5. ASSUME NEW v \in Waiter, WaiterNext(v) PROVE Reached(w, k)'
  <2>1. Swapped(w)' <=> Swapped(w) BY <1>5, ListsChange DEF Swapped
  <2>2. ASSUME NEW j \in Kid, Register(v, j) PROVE Reached(w, k)'
    <3>1. Reached(w, k) \/ w \in waiters'[k] BY <1>1, <2>2, RegisterReaches
    <3>2. flags' = flags BY <2>2, RegisterFacts
    <3>3. \A i \in Kid : waiters'[i] = IF i = j /\ ~ChildHasEvent(j)
                                       THEN waiters[i] \cup {v} ELSE waiters[i]
      BY <2>2, RegisterFacts
    <3>4. w \in waiters[k] => w \in waiters'[k] BY <3>3
    <3>5. QED BY <2>1, <3>1, <3>2, <3>4 DEF Reached
  <2>3. CASE Deregister(v)
    <3>1. w # v BY <2>3 DEF Deregister, TypeOK
    <3>2. Reached(w, k) BY <1>2, <2>3, <3>1 DEF Deregister, TypeOK
    <3>3. flags'[w] = flags[w] BY <2>3, <3>1 DEF Deregister, ClearFlag, TypeOK
    <3>4. w \in waiters[k] => w \in waiters'[k] BY <2>3, <3>1 DEF Deregister
    <3>5. QED BY <2>1, <3>2, <3>3, <3>4 DEF Reached
  <2>4. CASE Snapshot(v)
    <3>1. w # v BY <2>4, SnapshotFacts
    <3>2. Reached(w, k) BY <1>2, <2>4, <3>1, SnapshotFacts DEF Others
    <3>3. flags'[w] = flags[w] BY <2>4, <3>1 DEF Snapshot, SetFlag, TypeOK
    <3>4. waiters' = waiters BY <2>4, SnapshotFacts
    <3>5. QED BY <2>1, <3>2, <3>3, <3>4 DEF Reached
  <2>5. ASSUME Signal(v) \/ Handled(v) PROVE Reached(w, k)'
    <3>1. Reached(w, k) BY <1>2, <2>5 DEF Signal, Handled
    <3>2. \/ flags' = SetFlag(flags, v, "SIGNAL_PENDING")
          \/ flags' = ClearFlag(flags, v, "SIGNAL_PENDING")
      BY <2>5 DEF Signal, Handled
    <3>3. "BLOCKED" \in flags'[w] => "BLOCKED" \in flags[w]
      <4>1. CASE flags' = SetFlag(flags, v, "SIGNAL_PENDING")
        BY <4>1 DEF SetFlag, TypeOK
      <4>2. CASE flags' = ClearFlag(flags, v, "SIGNAL_PENDING")
        BY <4>2 DEF ClearFlag, TypeOK
      <4>3. QED BY <3>2, <4>1, <4>2
    <3>4. QED BY <2>1, <2>5, <3>1, <3>3 DEF Signal, Handled, Reached
  <2>6. ASSUME UNCHANGED <<waiters, flags>>,
               UNCHANGED <<pc, kids, todo, has_event>> \/ Return(v)
                 \/ /\ UNCHANGED <<kids, todo, has_event>>
                    /\ \E where \in {"loop", "snapshot", "woken"} :
                            pc' = [pc EXCEPT ![v] = where]
        PROVE Reached(w, k)'
    <3>1. ASSUME UNCHANGED <<pc, kids, todo, has_event>> PROVE Reached(w, k)
      BY <1>2, <3>1
    <3>2. ASSUME Return(v) PROVE Reached(w, k)
      <4>1. w # v BY <3>2 DEF Return, TypeOK
      <4>2. pc'[w] = pc[w] /\ kids'[w] = kids[w] /\ has_event'[w] = has_event[w]
            /\ todo' = todo
        BY <3>2, <4>1 DEF Return, TypeOK
      <4>3. QED BY <1>2, <4>2
    <3>3. ASSUME UNCHANGED <<kids, todo, has_event>>,
                 NEW where \in {"loop", "snapshot", "woken"}, pc' = [pc EXCEPT ![v] = where]
          PROVE  Reached(w, k)
      <4>1. w # v BY <3>3 DEF TypeOK
      <4>2. pc'[w] = pc[w] BY <3>3, <4>1 DEF TypeOK
      <4>3. QED BY <1>2, <3>3, <4>2
    <3>4. Reached(w, k) BY <2>6, <3>1, <3>2, <3>3
    <3>5. QED BY <2>1, <2>6, <3>4 DEF Reached
  <2>7. QED
    BY <1>5, <2>2, <2>3, <2>4, <2>5, <2>6
       DEF WaiterNext, CallAny, CallReturn, CallBlock, Claim, NoChild, vars, Step,
           LoopInterrupted, LoopClaim, WakeUp
<1>6. CASE UNCHANGED vars BY <1>2, <1>6 DEF vars, Reached, Swapped
<1>7. QED BY <1>3, <1>4, <1>5, <1>6 DEF Next

\* The lists of do_wait_common, of the children's fini and of stop_process agree in every
\* reachable state: the invariant from which the results below follow.
THEOREM Inductive == Spec => []IInv
<1>1. ASSUME IInv, [Next]_vars PROVE IInv'
  BY <1>1, TypeStep, ReapingStep, RegisteredStep, PublishedStep, ListedStep DEF IInv
<1>2. QED BY <1>1, InitInv, PTL DEF Spec

\* claim_one hands a zombie to one caller, with any number of waiting threads.
THEOREM ZombieReapedOnce == Spec => []ReapedOnce
<1>1. IInv => ReapedOnce BY DEF IInv, Reaping, ReapedOnce
<1>2. QED BY <1>1, Inductive, PTL

\* A do_wait_common that has returned, or that goes round its loop, is on no list.
THEOREM ListsAreClean == Spec => []NoStaleRegistration
<1>1. IInv => NoStaleRegistration BY DEF IInv, Registered, NoStaleRegistration
<1>2. QED BY <1>1, Inductive, PTL

\* No exit is lost between do_wait_common's look at a child and its sleep, however the
\* registration, fini's swap of the list and stop_process's swap of it interleave.
THEOREM ExitIsNotLost == Spec => []ExitWakesWaiter
<1>1. ASSUME IInv PROVE ExitWakesWaiter
  <2> SUFFICES ASSUME NEW w \in Waiter, NEW k \in Kid, Asleep(w), k \in kids[w], exited[k]
               PROVE  WakerComing(w, k)
    BY DEF ExitWakesWaiter
  <2>1. "BLOCKED" \in flags[w] BY DEF Asleep, WaitDone
  <2>2. w \in waiters[k] \/ Swapped(w)
    BY <1>1, <2>1 DEF IInv, Visiting, Listed, Asleep
  <2>3. w \in waiters[k] => kpc[k] = "swap" BY <1>1 DEF IInv, Published
  <2>4. QED BY <2>2, <2>3 DEF WakerComing, Swapped
<1>2. IInv => ExitWakesWaiter BY <1>1
<1>3. QED BY <1>2, Inductive, PTL
=============================================================================
