------------------------- MODULE ThreadGroupProofs -------------------------
(***************************************************************************)
(* Theorems about ThreadGroup for any finite set of threads and any exit   *)
(* codes.  The argument is an accounting one: live_threads is the number   *)
(* of the threads in Counted, each step adds to Counted at most the thread *)
(* being registered and removes at most the thread that leaves, and a      *)
(* group whose Counted is {t} has nobody else in guest code, because a     *)
(* thread that is not counted yet has a creator that is.                   *)
(***************************************************************************)
EXTENDS ThreadGroup, FiniteSetTheorems, TLAPS

\* The initial state is well typed.
LEMMA InitType == Init => TypeOK
<1> SUFFICES ASSUME Init PROVE TypeOK
  OBVIOUS
<1>1. pc \in [Thread -> Loc]
  BY DEF Init, Loc
<1>2. exit_code \in Code \cup {NoCode, KillCode, TermCode}
  BY DEF Init
<1>3. flags \in [Thread -> SUBSET Flag] /\ towake \in [Thread -> SUBSET Thread]
  BY DEF Init
<1>4. last \in [Thread -> BOOLEAN] /\ exited \in BOOLEAN
  BY DEF Init
<1>5. child \in [Thread -> Thread] /\ live_threads \in Int
  BY DEF Init
<1>6. threads \subseteq Thread /\ waiters \subseteq Thread /\ pid_map \subseteq Thread
  BY ThreadAssumption DEF Init
<1>7. QED
  BY <1>1, <1>2, <1>3, <1>4, <1>5, <1>6 DEF TypeOK

\* Every step keeps the types.
LEMMA TypeStep == TypeOK /\ [Next]_vars => TypeOK'
<1> SUFFICES ASSUME TypeOK, [Next]_vars PROVE TypeOK'
  OBVIOUS
<1> USE DEF TypeOK, Flag, SetFlag, ClearFlag, SetFlagAll, ClearFlagAll, Goto,
            CasExitCode, Loc, CloneLoc, ExecLoc, GoneLoc, NoCode, KillCode
<1>1. ASSUME NEW t \in Thread, NEW c \in Thread, CloneCreate(t, c) PROVE TypeOK'
  BY <1>1 DEF CloneCreate
<1>2. ASSUME NEW t \in Thread, CloneCount(t) PROVE TypeOK'
  BY <1>2 DEF CloneCount
<1>3. ASSUME NEW t \in Thread, ClonePush(t) PROVE TypeOK'
  BY <1>3 DEF ClonePush
<1>4. ASSUME NEW t \in Thread, CloneMap(t) PROVE TypeOK'
  BY <1>4 DEF CloneMap
<1>5. ASSUME NEW t \in Thread, CloneGo(t) PROVE TypeOK'
  BY <1>5 DEF CloneGo
<1>6. ASSUME NEW t \in Thread, NEW c \in Code, Exit(t, c) PROVE TypeOK'
  BY <1>6 DEF Exit
<1>7. ASSUME NEW t \in Thread, NEW c \in Code, ExitGroup(t, c) PROVE TypeOK'
  BY <1>7 DEF ExitGroup
<1>8. ASSUME NEW t \in Thread, FatalSignal(t) PROVE TypeOK'
  BY <1>8 DEF FatalSignal
<1>9. ASSUME NEW t \in Thread, ExitGroupKill(t) PROVE TypeOK'
  BY <1>9 DEF ExitGroupKill
<1>10. ASSUME NEW t \in Thread, MemViolation(t) PROVE TypeOK'
  BY <1>10 DEF MemViolation
<1>11. CASE SendKill
  BY <1>11 DEF SendKill
<1>12. ASSUME NEW t \in Thread, SendSignal(t) PROVE TypeOK'
  BY <1>12 DEF SendSignal
<1>13. ASSUME NEW t \in Thread, ToSafepoint(t) PROVE TypeOK'
  BY <1>13 DEF ToSafepoint
<1>14. ASSUME NEW t \in Thread, SignalHandled(t) PROVE TypeOK'
  BY <1>14 DEF SignalHandled
<1>15. ASSUME NEW t \in Thread, SafepointPass(t) PROVE TypeOK'
  BY <1>15 DEF SafepointPass
<1>16. ASSUME NEW t \in Thread, SafepointLeave(t) PROVE TypeOK'
  BY <1>16 DEF SafepointLeave
<1>17. ASSUME NEW t \in Thread, ExecStart(t) PROVE TypeOK'
  BY <1>17 DEF ExecStart
<1>18. ASSUME NEW t \in Thread, ExecKill(t) PROVE TypeOK'
  BY <1>18 DEF ExecKill
<1>19. ASSUME NEW t \in Thread, ExecCheck(t) PROVE TypeOK'
  BY <1>19 DEF ExecCheck
<1>20. ASSUME NEW t \in Thread, ExecWoken(t) PROVE TypeOK'
  BY <1>20 DEF ExecWoken
<1>21. ASSUME NEW t \in Thread, ExecInterrupted(t) PROVE TypeOK'
  BY <1>21 DEF ExecInterrupted
<1>22. ASSUME NEW t \in Thread, ExecSwap(t) PROVE TypeOK'
  BY <1>22 DEF ExecSwap
<1>23. ASSUME NEW t \in Thread, FiniSub(t) PROVE TypeOK'
  BY <1>23 DEF FiniSub
<1>24. ASSUME NEW t \in Thread, FiniErase(t) PROVE TypeOK'
  BY <1>24 DEF FiniErase
<1>25. ASSUME NEW t \in Thread, FiniWake(t) PROVE TypeOK'
  BY <1>25 DEF FiniWake
<1>26. ASSUME NEW t \in Thread, FiniWakeup(t) PROVE TypeOK'
  BY <1>26 DEF FiniWakeup
<1>27. ASSUME NEW t \in Thread, FiniClose(t) PROVE TypeOK'
  BY <1>27 DEF FiniClose
<1>28. ASSUME NEW t \in Thread, FiniExited(t) PROVE TypeOK'
  BY <1>28 DEF FiniExited
<1>29. CASE UNCHANGED vars
  BY <1>29 DEF vars
<1> QED
  BY <1>1, <1>2, <1>3, <1>4, <1>5, <1>6, <1>7, <1>8, <1>9, <1>10, <1>11, <1>12,
     <1>13, <1>14, <1>15, <1>16, <1>17, <1>18, <1>19, <1>20, <1>21, <1>22,
     <1>23, <1>24, <1>25, <1>26, <1>27, <1>28, <1>29 DEF Next, Host, Guest

\* Every variable has its type.
THEOREM TypeCorrect == Spec => []TypeOK
  BY InitType, TypeStep, PTL DEF Spec

---------------------------------------------------------------------------
(* The inductive invariant *)

\* A pid not in use yet is known to nobody; the children being created are
\* distinct; and a child that is not counted yet is parked at its first
\* safepoint, where nobody can reach it: only its creator knows it.
CloneInv ==
    /\ \A t \in Thread : pc[t] = "none" =>
          flags[t] = {} /\ t \notin threads /\ t \notin pid_map
    /\ \A t \in Thread : pc[t] \in CloneLoc =>
          child[t] # t /\ pc[child[t]] # "none"
    /\ \A t, u \in Thread :
          pc[t] \in CloneLoc /\ pc[u] \in CloneLoc /\ child[t] = child[u] => t = u
    /\ \A t \in Thread : pc[t] \in {"clone_count", "clone_push"} =>
          /\ pc[child[t]] = "safepoint" /\ flags[child[t]] = {"STOPPED"}
          /\ child[t] \notin threads /\ child[t] \notin pid_map

\* What a thread has learnt from live_threads: exec that it is alone, the last
\* thread in fini that nobody is left.
AloneInv ==
    /\ \A t \in Thread : pc[t] = "exec_swap" => Counted = {t}
    /\ \A t \in Thread : last[t] =>
          pc[t] \in GoneLoc /\ Counted = {} /\ \A u \in Thread : last[u] => u = t
    /\ \A t \in Thread : pc[t] \in {"fini_close", "fini_exited"} => last[t]
    /\ exited => Counted = {} /\ exit_code # NoCode

\* A sleeping exec is still on a list, and somebody is left to empty that list.
WakeInv ==
    \A t \in Thread : pc[t] = "exec_wait" /\ "BLOCKED" \in flags[t] =>
        \/ /\ t \in waiters
           /\ \E u \in Thread \ {t} : u \in Counted \/ pc[u] \in {"fini_erase", "fini_wake"}
        \/ \E u \in Thread \ {t} : pc[u] = "fini_wakeup" /\ t \in towake[u]

IInv == TypeOK /\ CloneInv /\ LiveCount /\ AloneInv

\* Every step keeps the children under construction private.
LEMMA CloneInvStep == TypeOK /\ CloneInv /\ [Next]_vars => CloneInv'
<1> SUFFICES ASSUME TypeOK, CloneInv, [Next]_vars PROVE CloneInv'
  OBVIOUS
<1> USE DEF TypeOK, CloneInv, SetFlag, ClearFlag, SetFlagAll, ClearFlagAll, Goto,
            Loc, CloneLoc, ExecLoc, GoneLoc, Flag
<1>1. ASSUME NEW t \in Thread, NEW c \in Thread, CloneCreate(t, c) PROVE CloneInv'
  BY <1>1 DEF CloneCreate
<1>2. ASSUME NEW t \in Thread, CloneCount(t) PROVE CloneInv'
  BY <1>2 DEF CloneCount
<1>3. ASSUME NEW t \in Thread, ClonePush(t) PROVE CloneInv'
  BY <1>3 DEF ClonePush
<1>4. ASSUME NEW t \in Thread, CloneMap(t) PROVE CloneInv'
  BY <1>4 DEF CloneMap
<1>5. ASSUME NEW t \in Thread, CloneGo(t) PROVE CloneInv'
  BY <1>5 DEF CloneGo
<1>6. ASSUME NEW t \in Thread, NEW c \in Code, Exit(t, c) PROVE CloneInv'
  BY <1>6 DEF Exit
<1>7. ASSUME NEW t \in Thread, NEW c \in Code, ExitGroup(t, c) PROVE CloneInv'
  BY <1>7 DEF ExitGroup
<1>8. ASSUME NEW t \in Thread, FatalSignal(t) PROVE CloneInv'
  BY <1>8 DEF FatalSignal
<1>9. ASSUME NEW t \in Thread, ExitGroupKill(t) PROVE CloneInv'
  BY <1>9 DEF ExitGroupKill
<1>10. ASSUME NEW t \in Thread, MemViolation(t) PROVE CloneInv'
  BY <1>10 DEF MemViolation
<1>11. ASSUME NEW t \in Thread, SendSignal(t) PROVE CloneInv'
  BY <1>11 DEF SendSignal
<1>12. ASSUME NEW t \in Thread, ToSafepoint(t) PROVE CloneInv'
  BY <1>12 DEF ToSafepoint
<1>13. ASSUME NEW t \in Thread, SignalHandled(t) PROVE CloneInv'
  BY <1>13 DEF SignalHandled
<1>14. ASSUME NEW t \in Thread, SafepointPass(t) PROVE CloneInv'
  BY <1>14 DEF SafepointPass
<1>15. ASSUME NEW t \in Thread, SafepointLeave(t) PROVE CloneInv'
  BY <1>15 DEF SafepointLeave, Leaving
<1>16. ASSUME NEW t \in Thread, ExecStart(t) PROVE CloneInv'
  BY <1>16 DEF ExecStart
<1>17. ASSUME NEW t \in Thread, ExecKill(t) PROVE CloneInv'
  BY <1>17 DEF ExecKill
<1>18. ASSUME NEW t \in Thread, ExecCheck(t) PROVE CloneInv'
  BY <1>18 DEF ExecCheck
<1>19. ASSUME NEW t \in Thread, ExecWoken(t) PROVE CloneInv'
  BY <1>19 DEF ExecWoken
<1>20. ASSUME NEW t \in Thread, ExecInterrupted(t) PROVE CloneInv'
  BY <1>20 DEF ExecInterrupted
<1>21. ASSUME NEW t \in Thread, ExecSwap(t) PROVE CloneInv'
  BY <1>21 DEF ExecSwap
<1>22. ASSUME NEW t \in Thread, FiniSub(t) PROVE CloneInv'
  BY <1>22 DEF FiniSub
<1>23. ASSUME NEW t \in Thread, FiniErase(t) PROVE CloneInv'
  BY <1>23 DEF FiniErase
<1>24. ASSUME NEW t \in Thread, FiniWake(t) PROVE CloneInv'
  BY <1>24 DEF FiniWake
<1>25. ASSUME NEW t \in Thread, FiniWakeup(t) PROVE CloneInv'
  BY <1>25 DEF FiniWakeup
<1>26. ASSUME NEW t \in Thread, FiniClose(t) PROVE CloneInv'
  BY <1>26 DEF FiniClose
<1>27. ASSUME NEW t \in Thread, FiniExited(t) PROVE CloneInv'
  BY <1>27 DEF FiniExited
<1>28. CASE SendKill
  BY <1>28 DEF SendKill
<1>29. CASE UNCHANGED vars
  BY <1>29 DEF vars
<1> QED
  BY <1>1, <1>2, <1>3, <1>4, <1>5, <1>6, <1>7, <1>8, <1>9, <1>10, <1>11,
     <1>12, <1>13, <1>14, <1>15, <1>16, <1>17, <1>18, <1>19, <1>20, <1>21,
     <1>22, <1>23, <1>24, <1>25, <1>26, <1>27, <1>28, <1>29 DEF Next, Host,
     Guest

\* A thread in a system call, in guest code or entering fini is counted: only a
\* parked child may not be.
LEMMA BusyIsCounted ==
  ASSUME CloneInv, NEW t \in Thread,
         pc[t] \notin GoneLoc \cup {"none", "safepoint"}
  PROVE  t \in Counted
BY DEF CloneInv, Counted, Uncounted

\* If nobody but t is counted, nobody but t is alive.
LEMMA NobodyElse ==
  ASSUME CloneInv, NEW t \in Thread, Counted \subseteq {t}, pc[t] # "clone_count"
  PROVE  \A u \in Thread \ {t} : pc[u] \in GoneLoc \cup {"none"}
<1>1. Uncounted = {}
  <2>1. \A u \in Thread : pc[u] # "clone_count"
    BY BusyIsCounted DEF GoneLoc
  <2>2. QED
    BY <2>1 DEF Uncounted
<1>2. QED
  BY <1>1 DEF Counted

\* If nobody is counted, nobody is alive.
LEMMA NobodyAtAll ==
  ASSUME CloneInv, Counted = {}
  PROVE  \A u \in Thread : pc[u] \in GoneLoc \cup {"none"}
<1>1. Uncounted = {}
  <2>1. \A u \in Thread : pc[u] # "clone_count"
    BY BusyIsCounted DEF GoneLoc
  <2>2. QED
    BY <2>1 DEF Uncounted
<1>2. QED
  BY <1>1 DEF Counted

\* Registering a child counts it.
LEMMA CountedClone ==
  ASSUME TypeOK, CloneInv, NEW t \in Thread, CloneCount(t)
  PROVE  /\ t \in Counted /\ child[t] \in Thread \ Counted
         /\ Counted' = Counted \cup {child[t]}
<1>1. t \in Counted
  BY BusyIsCounted DEF CloneCount, GoneLoc
<1>2. child[t] \in Uncounted
  BY DEF CloneCount, Uncounted, TypeOK
<1>3. Uncounted' = Uncounted \ {child[t]}
  BY DEF CloneCount, Goto, Uncounted, TypeOK, CloneInv, CloneLoc
<1>4. pc[child[t]] = "safepoint" /\ child[t] # t
  BY DEF CloneCount, CloneInv, CloneLoc
<1>5. {u \in Thread : pc'[u] \notin GoneLoc \cup {"none"}} =
      {u \in Thread : pc[u] \notin GoneLoc \cup {"none"}}
  BY DEF CloneCount, Goto, GoneLoc, TypeOK
<1>6. child[t] \in {u \in Thread : pc[u] \notin GoneLoc \cup {"none"}}
  BY <1>4 DEF TypeOK, GoneLoc
<1>7. QED
  BY <1>1, <1>2, <1>3, <1>5, <1>6 DEF Counted, TypeOK

\* Leaving uncounts the thread that leaves.
LEMMA CountedFini ==
  ASSUME TypeOK, CloneInv, NEW t \in Thread, FiniSub(t)
  PROVE  t \in Counted /\ Counted' = Counted \ {t}
<1>1. t \in Counted
  BY BusyIsCounted DEF FiniSub, GoneLoc
<1>2. Uncounted' = Uncounted
  BY DEF FiniSub, Goto, Uncounted, TypeOK
<1>3. {u \in Thread : pc'[u] \notin GoneLoc \cup {"none"}} =
      {u \in Thread : pc[u] \notin GoneLoc \cup {"none"}} \ {t}
  BY DEF FiniSub, Goto, GoneLoc, TypeOK
<1>4. QED
  BY <1>1, <1>2, <1>3 DEF Counted

\* No other step changes who is counted, nor live_threads.
LEMMA CountedSame ==
  ASSUME TypeOK, CloneInv, [Next]_vars,
         \A t \in Thread : ~CloneCount(t) /\ ~FiniSub(t)
  PROVE  Counted' = Counted /\ live_threads' = live_threads
<1> USE DEF TypeOK, Counted, Uncounted, Goto, Loc, CloneLoc, ExecLoc, GoneLoc
<1>1. ASSUME NEW t \in Thread, NEW c \in Thread, CloneCreate(t, c) PROVE Counted' = Counted /\ live_threads' = live_threads
  BY <1>1 DEF CloneCreate, CloneInv
<1>2. ASSUME NEW t \in Thread, ClonePush(t) PROVE Counted' = Counted /\ live_threads' = live_threads
  BY <1>2 DEF ClonePush
<1>3. ASSUME NEW t \in Thread, CloneMap(t) PROVE Counted' = Counted /\ live_threads' = live_threads
  BY <1>3 DEF CloneMap
<1>4. ASSUME NEW t \in Thread, CloneGo(t) PROVE Counted' = Counted /\ live_threads' = live_threads
  BY <1>4 DEF CloneGo
<1>5. ASSUME NEW t \in Thread, NEW c \in Code, Exit(t, c) PROVE Counted' = Counted /\ live_threads' = live_threads
  BY <1>5 DEF Exit
<1>6. ASSUME NEW t \in Thread, NEW c \in Code, ExitGroup(t, c) PROVE Counted' = Counted /\ live_threads' = live_threads
  BY <1>6 DEF ExitGroup
<1>7. ASSUME NEW t \in Thread, FatalSignal(t) PROVE Counted' = Counted /\ live_threads' = live_threads
  BY <1>7 DEF FatalSignal
<1>8. ASSUME NEW t \in Thread, ExitGroupKill(t) PROVE Counted' = Counted /\ live_threads' = live_threads
  BY <1>8 DEF ExitGroupKill
<1>9. ASSUME NEW t \in Thread, MemViolation(t) PROVE Counted' = Counted /\ live_threads' = live_threads
  BY <1>9 DEF MemViolation
<1>10. ASSUME NEW t \in Thread, SendSignal(t) PROVE Counted' = Counted /\ live_threads' = live_threads
  BY <1>10 DEF SendSignal
<1>11. ASSUME NEW t \in Thread, ToSafepoint(t) PROVE Counted' = Counted /\ live_threads' = live_threads
  BY <1>11 DEF ToSafepoint
<1>12. ASSUME NEW t \in Thread, SignalHandled(t) PROVE Counted' = Counted /\ live_threads' = live_threads
  BY <1>12 DEF SignalHandled
<1>13. ASSUME NEW t \in Thread, SafepointPass(t) PROVE Counted' = Counted /\ live_threads' = live_threads
  BY <1>13 DEF SafepointPass
<1>14. ASSUME NEW t \in Thread, SafepointLeave(t) PROVE Counted' = Counted /\ live_threads' = live_threads
  BY <1>14 DEF SafepointLeave
<1>15. ASSUME NEW t \in Thread, ExecStart(t) PROVE Counted' = Counted /\ live_threads' = live_threads
  BY <1>15 DEF ExecStart
<1>16. ASSUME NEW t \in Thread, ExecKill(t) PROVE Counted' = Counted /\ live_threads' = live_threads
  BY <1>16 DEF ExecKill
<1>17. ASSUME NEW t \in Thread, ExecCheck(t) PROVE Counted' = Counted /\ live_threads' = live_threads
  BY <1>17 DEF ExecCheck
<1>18. ASSUME NEW t \in Thread, ExecWoken(t) PROVE Counted' = Counted /\ live_threads' = live_threads
  BY <1>18 DEF ExecWoken
<1>19. ASSUME NEW t \in Thread, ExecInterrupted(t) PROVE Counted' = Counted /\ live_threads' = live_threads
  BY <1>19 DEF ExecInterrupted
<1>20. ASSUME NEW t \in Thread, ExecSwap(t) PROVE Counted' = Counted /\ live_threads' = live_threads
  BY <1>20 DEF ExecSwap
<1>21. ASSUME NEW t \in Thread, FiniErase(t) PROVE Counted' = Counted /\ live_threads' = live_threads
  BY <1>21 DEF FiniErase
<1>22. ASSUME NEW t \in Thread, FiniWake(t) PROVE Counted' = Counted /\ live_threads' = live_threads
  BY <1>22 DEF FiniWake
<1>23. ASSUME NEW t \in Thread, FiniWakeup(t) PROVE Counted' = Counted /\ live_threads' = live_threads
  BY <1>23 DEF FiniWakeup
<1>24. ASSUME NEW t \in Thread, FiniClose(t) PROVE Counted' = Counted /\ live_threads' = live_threads
  BY <1>24 DEF FiniClose
<1>25. ASSUME NEW t \in Thread, FiniExited(t) PROVE Counted' = Counted /\ live_threads' = live_threads
  BY <1>25 DEF FiniExited
<1>26. CASE SendKill
  BY <1>26 DEF SendKill
<1>27. CASE UNCHANGED vars
  BY <1>27 DEF vars
<1> QED
  BY <1>1, <1>2, <1>3, <1>4, <1>5, <1>6, <1>7, <1>8, <1>9, <1>10, <1>11,
     <1>12, <1>13, <1>14, <1>15, <1>16, <1>17, <1>18, <1>19, <1>20, <1>21,
     <1>22, <1>23, <1>24, <1>25, <1>26, <1>27 DEF Next, Host, Guest

\* live_threads follows Counted.
LEMMA LiveCountStep ==
  TypeOK /\ CloneInv /\ LiveCount /\ [Next]_vars => LiveCount'
<1> SUFFICES ASSUME TypeOK, CloneInv, LiveCount, [Next]_vars PROVE LiveCount'
  OBVIOUS
<1>1. IsFiniteSet(Counted)
  BY ThreadAssumption, FS_Subset DEF Counted
<1>2. CASE \E t \in Thread : CloneCount(t)
  <2>1. PICK t \in Thread : CloneCount(t)
    BY <1>2
  <2>2. child[t] \notin Counted /\ Counted' = Counted \cup {child[t]}
    BY <2>1, CountedClone
  <2>3. Cardinality(Counted') = Cardinality(Counted) + 1
    BY <1>1, <2>2, FS_AddElement
  <2>4. QED
    BY <2>1, <2>3 DEF CloneCount, LiveCount
<1>3. CASE \E t \in Thread : FiniSub(t)
  <2>1. PICK t \in Thread : FiniSub(t)
    BY <1>3
  <2>2. t \in Counted /\ Counted' = Counted \ {t}
    BY <2>1, CountedFini
  <2>3. Cardinality(Counted') = Cardinality(Counted) - 1
    BY <1>1, <2>2, FS_RemoveElement
  <2>4. QED
    BY <2>1, <2>3 DEF FiniSub, LiveCount
<1>4. CASE \A t \in Thread : ~CloneCount(t) /\ ~FiniSub(t)
  BY <1>4, CountedSame DEF LiveCount
<1>5. QED
  BY <1>2, <1>3, <1>4

\* A thread that finds live_threads at 1 is the only one counted.
LEMMA OnlyOne ==
  ASSUME LiveCount, NEW t \in Counted, live_threads <= 1
  PROVE  Counted = {t}
<1>1. IsFiniteSet(Counted)
  BY ThreadAssumption, FS_Subset DEF Counted
<1>2. Cardinality(Counted \ {t}) = Cardinality(Counted) - 1
  BY <1>1, FS_RemoveElement
<1>3. IsFiniteSet(Counted \ {t}) /\ Cardinality(Counted \ {t}) \in Nat
  BY <1>1, FS_RemoveElement, FS_CardinalityType
<1>4. Cardinality(Counted) \in Nat
  BY <1>1, FS_CardinalityType
<1>5. Cardinality(Counted \ {t}) = 0
  BY <1>2, <1>3, <1>4 DEF LiveCount
<1>6. Counted \ {t} = {}
  BY <1>3, <1>5, FS_EmptySet
<1>7. QED
  BY <1>6

\* What exec and the last thread learnt from live_threads stays true.
LEMMA AloneInvStep ==
  TypeOK /\ CloneInv /\ LiveCount /\ AloneInv /\ [Next]_vars => AloneInv'
<1> SUFFICES ASSUME TypeOK, CloneInv, LiveCount, AloneInv, [Next]_vars
             PROVE  AloneInv'
  OBVIOUS
<1> USE DEF AloneInv, TypeOK, Goto
<1>1. ASSUME NEW t \in Thread, CloneCount(t) PROVE AloneInv'
  <2>1. t \in Counted
    BY <1>1, CountedClone
  <2>2. QED
    BY <1>1, <2>1 DEF CloneCount, GoneLoc
<1>2. ASSUME NEW t \in Thread, FiniSub(t) PROVE AloneInv'
  <2>1. t \in Counted /\ Counted' = Counted \ {t}
    BY <1>2, CountedFini
  <2>2. live_threads = 1 => Counted' = {}
    BY <2>1, OnlyOne
  <2>3. ~exited /\ \A u \in Thread : ~last[u] /\ (pc[u] = "exec_swap" => u = t)
    BY <2>1
  <2>4. QED
    BY <1>2, <2>2, <2>3 DEF FiniSub, GoneLoc
<1>3. ASSUME NEW t \in Thread, ExecCheck(t) PROVE AloneInv'
  <2>1. t \in Counted
    BY <1>3, BusyIsCounted DEF ExecCheck, GoneLoc
  <2>2. Counted' = Counted
    <3>1. \A u \in Thread : ~CloneCount(u) /\ ~FiniSub(u)
      BY <1>3 DEF ExecCheck, CloneCount, FiniSub
    <3>2. QED
      BY <3>1, CountedSame
  <2>3. live_threads <= 1 => Counted = {t}
    BY <2>1, OnlyOne
  <2>4. QED
    BY <1>3, <2>1, <2>2, <2>3 DEF ExecCheck, GoneLoc
<1>4. ASSUME \A t \in Thread : ~CloneCount(t) /\ ~FiniSub(t) /\ ~ExecCheck(t)
      PROVE  AloneInv'
  <2>1. Counted' = Counted
    BY <1>4, CountedSame
  <2> USE <2>1 DEF GoneLoc, CasExitCode
  <2>2. ASSUME NEW t \in Thread, NEW c \in Thread, CloneCreate(t, c) PROVE AloneInv'
    BY <2>2 DEF CloneCreate
  <2>3. ASSUME NEW t \in Thread, ClonePush(t) PROVE AloneInv'
    BY <2>3 DEF ClonePush
  <2>4. ASSUME NEW t \in Thread, CloneMap(t) PROVE AloneInv'
    BY <2>4 DEF CloneMap
  <2>5. ASSUME NEW t \in Thread, CloneGo(t) PROVE AloneInv'
    BY <2>5 DEF CloneGo
  <2>6. ASSUME NEW t \in Thread, NEW c \in Code, Exit(t, c) PROVE AloneInv'
    BY <2>6 DEF Exit
  <2>7. ASSUME NEW t \in Thread, NEW c \in Code, ExitGroup(t, c) PROVE AloneInv'
    BY <2>7 DEF ExitGroup
  <2>8. ASSUME NEW t \in Thread, FatalSignal(t) PROVE AloneInv'
    BY <2>8 DEF FatalSignal
  <2>9. ASSUME NEW t \in Thread, ExitGroupKill(t) PROVE AloneInv'
    BY <2>9 DEF ExitGroupKill
  <2>10. ASSUME NEW t \in Thread, MemViolation(t) PROVE AloneInv'
    BY <2>10 DEF MemViolation
  <2>11. ASSUME NEW t \in Thread, SendSignal(t) PROVE AloneInv'
    BY <2>11 DEF SendSignal
  <2>12. ASSUME NEW t \in Thread, ToSafepoint(t) PROVE AloneInv'
    BY <2>12 DEF ToSafepoint
  <2>13. ASSUME NEW t \in Thread, SignalHandled(t) PROVE AloneInv'
    BY <2>13 DEF SignalHandled
  <2>14. ASSUME NEW t \in Thread, SafepointPass(t) PROVE AloneInv'
    BY <2>14 DEF SafepointPass
  <2>15. ASSUME NEW t \in Thread, SafepointLeave(t) PROVE AloneInv'
    BY <2>15 DEF SafepointLeave
  <2>16. ASSUME NEW t \in Thread, ExecStart(t) PROVE AloneInv'
    BY <2>16 DEF ExecStart
  <2>17. ASSUME NEW t \in Thread, ExecKill(t) PROVE AloneInv'
    BY <2>17 DEF ExecKill
  <2>18. ASSUME NEW t \in Thread, ExecWoken(t) PROVE AloneInv'
    BY <2>18 DEF ExecWoken
  <2>19. ASSUME NEW t \in Thread, ExecInterrupted(t) PROVE AloneInv'
    BY <2>19 DEF ExecInterrupted
  <2>20. ASSUME NEW t \in Thread, ExecSwap(t) PROVE AloneInv'
    BY <2>20 DEF ExecSwap
  <2>21. ASSUME NEW t \in Thread, FiniErase(t) PROVE AloneInv'
    BY <2>21 DEF FiniErase
  <2>22. ASSUME NEW t \in Thread, FiniWake(t) PROVE AloneInv'
    BY <2>22 DEF FiniWake
  <2>23. ASSUME NEW t \in Thread, FiniWakeup(t) PROVE AloneInv'
    BY <2>23 DEF FiniWakeup
  <2>24. ASSUME NEW t \in Thread, FiniClose(t) PROVE AloneInv'
    BY <2>24 DEF FiniClose
  <2>25. ASSUME NEW t \in Thread, FiniExited(t) PROVE AloneInv'
    BY <2>25 DEF FiniExited, KillCode, NoCode
  <2>26. CASE SendKill
    BY <2>26 DEF SendKill
  <2>27. CASE UNCHANGED vars
    BY <2>27 DEF vars
  <2> QED
    BY <1>4, <2>2, <2>3, <2>4, <2>5, <2>6, <2>7, <2>8, <2>9, <2>10, <2>11,
       <2>12, <2>13, <2>14, <2>15, <2>16, <2>17, <2>18, <2>19, <2>20, <2>21,
       <2>22, <2>23, <2>24, <2>25, <2>26, <2>27 DEF Next, Host, Guest
<1>5. QED
  BY <1>1, <1>2, <1>3, <1>4

\* The inductive invariant holds initially.
LEMMA InitIInv == Init => IInv
<1> SUFFICES ASSUME Init PROVE IInv
  OBVIOUS
<1>1. TypeOK
  BY InitType
<1>2. CloneInv
  BY DEF Init, CloneInv, CloneLoc
<1>3. Counted = {Leader}
  BY ThreadAssumption DEF Init, Counted, Uncounted, GoneLoc
<1>4. LiveCount
  BY <1>3, FS_Singleton DEF Init, LiveCount
<1>5. AloneInv
  BY DEF Init, AloneInv
<1>6. QED
  BY <1>1, <1>2, <1>4, <1>5 DEF IInv

\* The inductive invariant holds in every reachable state.
THEOREM Inductive == Spec => []IInv
<1>1. IInv /\ [Next]_vars => IInv'
  BY TypeStep, CloneInvStep, LiveCountStep, AloneInvStep DEF IInv
<1>2. QED
  BY InitIInv, <1>1, PTL DEF Spec

\* live_threads is always the number of threads that may still run guest code,
\* for any number of threads cloning and leaving concurrently.
THEOREM LiveCountCorrect == Spec => []LiveCount
<1>1. IInv => LiveCount
  BY DEF IInv
<1>2. QED
  BY Inductive, <1>1, PTL

\* exec never swaps the address space under a thread that still uses it.
THEOREM ExecIsExclusive == Spec => []ExecExclusive
<1>1. IInv => ExecExclusive
  <2> SUFFICES ASSUME IInv, NEW t \in Thread, pc[t] = "exec_swap"
               PROVE  \A u \in Thread \ {t} : pc[u] \in GoneLoc \cup {"none"}
    BY DEF ExecExclusive
  <2>1. Counted \subseteq {t}
    BY DEF IInv, AloneInv
  <2>2. QED
    BY <2>1, NobodyElse DEF IInv
<1>2. QED
  BY Inductive, <1>1, PTL

\* The process-wide part of fini runs in one thread, after all others.
THEOREM ReaperIsSingle == Spec => []SingleReaper
<1>1. IInv => SingleReaper
  <2> SUFFICES ASSUME IInv, NEW t \in Thread, last[t], NEW u \in Thread \ {t}
               PROVE  ~last[u] /\ pc[u] \in GoneLoc \cup {"none"}
    BY DEF SingleReaper
  <2>1. Counted = {} /\ ~last[u]
    BY DEF IInv, AloneInv
  <2>2. QED
    BY <2>1, NobodyAtAll DEF IInv
<1>2. QED
  BY Inductive, <1>1, PTL

\* Once exited is published, exit_code and live_threads never change again.
THEOREM ReportIsFinal == Spec => ReportedFinal
<1>1. IInv /\ IInv' /\ [Next]_vars =>
        [exited => exited' /\ exit_code' = exit_code /\ live_threads' = 0]_vars
  <2> SUFFICES ASSUME IInv, IInv', [Next]_vars, exited
               PROVE  exited' /\ exit_code' = exit_code /\ live_threads' = 0
    BY DEF vars
  <2>1. exited'
    BY DEF Next, Host, Guest, vars, CloneCreate, CloneCount, ClonePush, CloneMap,
           CloneGo, Exit, ExitGroup, FatalSignal, ExitGroupKill, MemViolation,
           SendKill, SendSignal, ToSafepoint, SignalHandled, SafepointPass,
           SafepointLeave, ExecStart, ExecKill, ExecCheck, ExecWoken,
           ExecInterrupted, ExecSwap, FiniSub, FiniErase, FiniWake, FiniWakeup,
           FiniClose, FiniExited
  <2>2. exit_code' = exit_code
    <3>1. exit_code # NoCode
      BY DEF IInv, AloneInv
    <3>2. QED
      BY <3>1 DEF Next, Host, Guest, vars, CasExitCode, CloneCreate, CloneCount,
           ClonePush, CloneMap, CloneGo, Exit, ExitGroup, FatalSignal,
           ExitGroupKill, MemViolation, SendKill, SendSignal, ToSafepoint,
           SignalHandled, SafepointPass, SafepointLeave, ExecStart, ExecKill,
           ExecCheck, ExecWoken, ExecInterrupted, ExecSwap, FiniSub, FiniErase,
           FiniWake, FiniWakeup, FiniClose, FiniExited
  <2>3. live_threads' = 0
    <3>1. Counted' = {}
      BY <2>1 DEF IInv, AloneInv
    <3>2. Cardinality(Counted') = 0
      BY <3>1, FS_EmptySet
    <3>3. QED
      BY <3>2 DEF IInv, LiveCount
  <2>4. QED
    BY <2>1, <2>2, <2>3
<1>2. QED
  BY Inductive, <1>1, PTL DEF Spec, ReportedFinal

\* Every step keeps a waker for a sleeping exec.
LEMMA WakeInvStep == IInv /\ WakeInv /\ [Next]_vars => WakeInv'
<1> SUFFICES ASSUME IInv, WakeInv, [Next]_vars PROVE WakeInv'
  OBVIOUS
<1> USE DEF WakeInv, TypeOK, Goto
<1>0. TypeOK /\ CloneInv /\ LiveCount /\ AloneInv
  BY DEF IInv
<1>1. ASSUME NEW t \in Thread, CloneCount(t) PROVE WakeInv'
  <2>1. Counted \subseteq Counted'
    BY <1>0, <1>1, CountedClone
  <2>2. QED
    BY <1>0, <1>1, <2>1 DEF CloneCount
<1>2. ASSUME NEW t \in Thread, FiniSub(t) PROVE WakeInv'
  BY <1>0, <1>2, CountedFini DEF FiniSub
<1>3. ASSUME \A t \in Thread : ~CloneCount(t) /\ ~FiniSub(t) PROVE WakeInv'
  <2> USE <1>0
  <2>1. Counted' = Counted
    BY <1>3, CountedSame
  <2> USE <2>1
  <2>2. \A t \in Thread : pc[t] = "exec_wait" => t \in Counted
    BY BusyIsCounted DEF GoneLoc
  <2>3. ASSUME NEW t \in Thread, ExecCheck(t) PROVE WakeInv'
    <3>1. t \in Counted
      BY <2>3, BusyIsCounted DEF ExecCheck, GoneLoc
    <3>2. live_threads > 1 => \E u \in Counted : u # t
      <4>1. ASSUME Counted = {t} PROVE live_threads = 1
        BY <4>1, FS_Singleton DEF LiveCount
      <4>2. QED
        BY <3>1, <4>1
    <3>3. Counted \subseteq Thread
      BY DEF Counted
    <3>4. QED
      BY <2>3, <3>2, <3>3 DEF ExecCheck, ClearFlag
  <2>4. ASSUME NEW t \in Thread, FiniErase(t) PROVE WakeInv'
    BY <2>4, <2>2 DEF FiniErase, AloneInv
  <2>5. ASSUME NEW t \in Thread, FiniWake(t) PROVE WakeInv'
    BY <2>5, <2>2 DEF FiniWake
  <2>6. ASSUME NEW t \in Thread, FiniWakeup(t) PROVE WakeInv'
    <3>1. t \notin Counted
      BY <2>6 DEF FiniWakeup, Counted, GoneLoc
    <3>2. QED
      BY <2>6, <3>1 DEF FiniWakeup, ClearFlagAll
  <2> USE DEF SetFlag, ClearFlag, SetFlagAll
  <2>7. ASSUME NEW t \in Thread, NEW c \in Thread, CloneCreate(t, c) PROVE WakeInv'
    BY <2>7 DEF CloneCreate
  <2>8. ASSUME NEW t \in Thread, ClonePush(t) PROVE WakeInv'
    BY <2>8 DEF ClonePush
  <2>9. ASSUME NEW t \in Thread, CloneMap(t) PROVE WakeInv'
    BY <2>9 DEF CloneMap
  <2>10. ASSUME NEW t \in Thread, CloneGo(t) PROVE WakeInv'
    BY <2>10 DEF CloneGo
  <2>11. ASSUME NEW t \in Thread, NEW c \in Code, Exit(t, c) PROVE WakeInv'
    BY <2>11 DEF Exit
  <2>12. ASSUME NEW t \in Thread, NEW c \in Code, ExitGroup(t, c) PROVE WakeInv'
    BY <2>12 DEF ExitGroup
  <2>13. ASSUME NEW t \in Thread, FatalSignal(t) PROVE WakeInv'
    BY <2>13 DEF FatalSignal
  <2>14. ASSUME NEW t \in Thread, ExitGroupKill(t) PROVE WakeInv'
    BY <2>14 DEF ExitGroupKill
  <2>15. ASSUME NEW t \in Thread, MemViolation(t) PROVE WakeInv'
    BY <2>15 DEF MemViolation
  <2>16. ASSUME NEW t \in Thread, SendSignal(t) PROVE WakeInv'
    BY <2>16 DEF SendSignal
  <2>17. ASSUME NEW t \in Thread, ToSafepoint(t) PROVE WakeInv'
    BY <2>17 DEF ToSafepoint
  <2>18. ASSUME NEW t \in Thread, SignalHandled(t) PROVE WakeInv'
    BY <2>18 DEF SignalHandled
  <2>19. ASSUME NEW t \in Thread, SafepointPass(t) PROVE WakeInv'
    BY <2>19 DEF SafepointPass
  <2>20. ASSUME NEW t \in Thread, SafepointLeave(t) PROVE WakeInv'
    BY <2>20 DEF SafepointLeave
  <2>21. ASSUME NEW t \in Thread, ExecStart(t) PROVE WakeInv'
    BY <2>21 DEF ExecStart
  <2>22. ASSUME NEW t \in Thread, ExecKill(t) PROVE WakeInv'
    BY <2>22 DEF ExecKill
  <2>23. ASSUME NEW t \in Thread, ExecWoken(t) PROVE WakeInv'
    BY <2>23 DEF ExecWoken
  <2>24. ASSUME NEW t \in Thread, ExecInterrupted(t) PROVE WakeInv'
    BY <2>24 DEF ExecInterrupted
  <2>25. ASSUME NEW t \in Thread, ExecSwap(t) PROVE WakeInv'
    BY <2>25 DEF ExecSwap
  <2>26. ASSUME NEW t \in Thread, FiniClose(t) PROVE WakeInv'
    BY <2>26 DEF FiniClose
  <2>27. ASSUME NEW t \in Thread, FiniExited(t) PROVE WakeInv'
    BY <2>27 DEF FiniExited
  <2>28. CASE SendKill
    BY <2>28 DEF SendKill
  <2>29. CASE UNCHANGED vars
    BY <2>29 DEF vars
  <2> QED
    BY <1>3, <2>3, <2>4, <2>5, <2>6, <2>7, <2>8, <2>9, <2>10, <2>11, <2>12,
       <2>13, <2>14, <2>15, <2>16, <2>17, <2>18, <2>19, <2>20, <2>21, <2>22,
       <2>23, <2>24, <2>25, <2>26, <2>27, <2>28, <2>29 DEF Next, Host, Guest
<1>4. QED
  BY <1>1, <1>2, <1>3

\* An exec that sleeps although it is alone is about to be woken: no order of
\* clones, exits, interruptions and restarts loses the wake-up.
THEOREM ExecIsWoken == Spec => []ExecNoLostWakeup
<1>1. Init => WakeInv
  BY DEF Init, WakeInv
<1>2. IInv /\ WakeInv => ExecNoLostWakeup
  <2> SUFFICES ASSUME IInv, WakeInv, NEW t \in Thread, pc[t] = "exec_wait",
                      "BLOCKED" \in flags[t], live_threads <= 1
               PROVE  \E u \in Thread \ {t} :
                         \/ pc[u] \in {"fini_erase", "fini_wake"} /\ t \in waiters
                         \/ pc[u] = "fini_wakeup" /\ t \in towake[u]
    BY DEF ExecNoLostWakeup
  <2>1. t \in Counted
    BY BusyIsCounted DEF IInv, GoneLoc
  <2>2. Counted = {t}
    BY <2>1, OnlyOne DEF IInv
  <2>3. QED
    BY <2>2 DEF WakeInv
<1>3. QED
  BY <1>1, <1>2, WakeInvStep, Inductive, PTL DEF Spec
=============================================================================
