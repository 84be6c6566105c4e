-------------------------- MODULE JobControlProofs --------------------------
(***************************************************************************)
(* Stopping and resuming a thread group, for any number of threads: type   *)
(* correctness whatever the senders do, and that SIGCONT leaves nobody     *)
(* stopped, when one sender at a time is at work.                          *)
(***************************************************************************)
EXTENDS JobControl, FiniteSetTheorems, TLAPS

\* t is being launched: its creator has yet to clear VM_STOPPED (do_clone).
Launching(t) == \E u \in Thread : t \in child[u]

\* Only a thread inside do_clone has a child to launch.
Creators == \A t \in Thread : pc[t] \notin {"push", "map", "go"} => child[t] = {}

\* tg->mtx is held by the SIGCONT that goes through the list.
Locked == \A s \in Sender : spc[s] = "clear" <=> s \in mtx

\* A sender inside stop_process finds tg->stopped as it left it, and nobody is on a
\* sender's list who is not in the group's.
Sending ==
    \A s \in Sender : to_wake[s] \subseteq threads /\ (spc[s] \in {"snap", "set"} => stopped)

\* Who carries VM_STOPPED is being launched or is in the list; while SIGCONT goes
\* through the list, it is among those it has yet to reach.
Reachable ==
    \A t \in Thread : "STOPPED" \in flags[t] =>
        /\ Launching(t) \/ t \in threads
        /\ \A s \in Sender : spc[s] = "clear" => Launching(t) \/ t \in to_wake[s]

IInv == TypeOK /\ Creators /\ Locked /\ Sending /\ Reachable /\ NobodyLeftStopped

\* One sender at a time works on the group.
OneSender == \A r, s \in Sender : r = s

---------------------------------------------------------------------------
(* Types *)

\* What setting and clearing a flag leaves in the flag words.
LEMMA FlagFacts ==
    ASSUME NEW f \in [Thread -> SUBSET Flag], NEW t \in Thread, NEW T \in SUBSET Thread
    PROVE  /\ SetFlag(f, t, "STOPPED") \in [Thread -> SUBSET Flag]
           /\ ClearFlag(f, t, "STOPPED") \in [Thread -> SUBSET Flag]
           /\ ClearFlagAll(f, T, "STOPPED") \in [Thread -> SUBSET Flag]
           /\ \A u \in Thread :
                /\ "STOPPED" \in SetFlag(f, t, "STOPPED")[u] <=> u = t \/ "STOPPED" \in f[u]
                /\ "STOPPED" \in ClearFlag(f, t, "STOPPED")[u] <=> u # t /\ "STOPPED" \in f[u]
                /\ "STOPPED" \in ClearFlagAll(f, T, "STOPPED")[u]
                        <=> u \notin T /\ "STOPPED" \in f[u]
BY DEF SetFlag, ClearFlag, ClearFlagAll, Flag

\* The holders of tg->mtx: none or one.
LEMMA MtxFacts ==
    ASSUME NEW s PROVE Cardinality({}) <= 1 /\ Cardinality({s}) <= 1
<1>1. Cardinality({}) = 0 BY FS_EmptySet
<1>2. Cardinality({s}) = 1 BY FS_Singleton
<1>3. QED BY <1>1, <1>2

\* Every step keeps the types.
LEMMA TypeStep == ASSUME TypeOK, [Next]_vars PROVE TypeOK'
<1> USE DEF TypeOK, senderVars, cloneVars, Goto
<1>1. ASSUME NEW t \in Thread, ThreadStep(t) PROVE TypeOK'
  <2>1. CASE ClonePush(t) BY <2>1 DEF ClonePush
  <2>2. CASE CloneMap(t) BY <2>2 DEF CloneMap
  <2>3. CASE CloneGo(t)
    <3>1. flags' \in [Thread -> SUBSET Flag] BY <2>3, FlagFacts DEF CloneGo
    <3>2. QED BY <2>3, <3>1 DEF CloneGo
  <2>4. CASE Park(t) BY <2>4 DEF Park
  <2>5. CASE Run(t) BY <2>5 DEF Run
  <2>6. QED BY <1>1, <2>1, <2>2, <2>3, <2>4, <2>5 DEF ThreadStep
<1>2. ASSUME NEW t \in Thread, NEW c \in Thread, Clone(t, c) PROVE TypeOK'
  <2>1. flags' \in [Thread -> SUBSET Flag] BY <1>2, FlagFacts DEF Clone
  <2>2. QED BY <1>2, <2>1 DEF Clone
<1>3. ASSUME NEW s \in Sender, SenderStep(s) PROVE TypeOK'
  <2>1. CASE StopSnap(s) BY <2>1 DEF StopSnap
  <2>2. CASE ContLock(s) BY <2>2, MtxFacts DEF ContLock
  <2>3. ASSUME NEW t \in Thread, StopSet(s, t) PROVE TypeOK'
    <3>1. flags' \in [Thread -> SUBSET Flag] BY <2>3, FlagFacts DEF StopSet
    <3>2. QED BY <2>3, <3>1 DEF StopSet
  <2>4. ASSUME NEW t \in Thread, ContClear(s, t) PROVE TypeOK'
    <3>1. flags' \in [Thread -> SUBSET Flag] BY <2>4, FlagFacts DEF ContClear
    <3>2. CASE to_wake[s] = {t} BY <2>4, <3>1, <3>2, MtxFacts DEF ContClear
    <3>3. CASE to_wake[s] # {t} BY <2>4, <3>1, <3>3 DEF ContClear
    <3>4. QED BY <3>2, <3>3
  <2>5. QED BY <1>3, <2>1, <2>2, <2>3, <2>4 DEF SenderStep
<1>4. ASSUME NEW s \in Sender, StopMark(s) \/ ContMark(s) PROVE TypeOK'
  BY <1>4 DEF StopMark, ContMark
<1>5. CASE UNCHANGED vars BY <1>5 DEF vars
<1>6. QED BY <1>1, <1>2, <1>3, <1>4, <1>5 DEF Next

\* Nobody is stopped at the start.
LEMMA InitInv == Init => IInv
<1> SUFFICES ASSUME Init PROVE IInv OBVIOUS
<1>1. TypeOK BY JobAssumption, MtxFacts DEF Init, TypeOK
<1>2. QED BY <1>1 DEF Init, IInv, Creators, Locked, Sending, Reachable, NobodyLeftStopped

\* Every variable of the group keeps its type, with any number of senders.
THEOREM TypeCorrect == Spec => []TypeOK
<1>1. Init => TypeOK BY InitInv DEF IInv
<1>2. QED BY <1>1, TypeStep, PTL DEF Spec

---------------------------------------------------------------------------
(* SIGCONT leaves nobody stopped *)

\* do_clone gives its child VM_STOPPED, and the child is being launched.
LEMMA CloneInv ==
    ASSUME IInv, NEW t \in Thread, NEW c \in Thread, Clone(t, c) PROVE IInv'
<1> USE DEF TypeOK, senderVars
<1>1. TypeOK' BY TypeStep DEF IInv, Next
<1>2. \A u \in Thread : "STOPPED" \in flags'[u] <=> u = c \/ "STOPPED" \in flags[u]
  BY FlagFacts DEF IInv, Clone
<1>3. Creators' BY DEF IInv, Clone, Creators
<1>4. child[t] = {} BY DEF IInv, Clone, Creators
<1>5. \A u \in Thread : Launching(u)' <=> u = c \/ Launching(u)
  BY <1>4 DEF IInv, Clone, Launching
<1>6. Reachable' BY <1>2, <1>5 DEF IInv, Clone, Reachable
<1>7. NobodyLeftStopped' BY <1>2, <1>5 DEF IInv, Clone, NobodyLeftStopped, Launching
<1>8. Locked' /\ Sending' BY DEF IInv, Clone, Locked, Sending
<1>9. QED BY <1>1, <1>3, <1>6, <1>7, <1>8 DEF IInv

\* The later steps of do_clone keep the invariant.
LEMMA ThreadInv == ASSUME IInv, NEW t \in Thread, ThreadStep(t) PROVE IInv'
<1> USE DEF TypeOK, senderVars, cloneVars, Goto
<1>1. TypeOK' BY TypeStep DEF IInv, Next
<1>2. CASE ClonePush(t)
  <2>1. \A u \in Thread : Launching(u)' <=> Launching(u) BY <1>2 DEF ClonePush, Launching
  <2>2. Creators' /\ Locked' /\ Sending'
    BY <1>2 DEF IInv, ClonePush, Creators, Locked, Sending
  <2>3. Reachable' BY <1>2, <2>1 DEF IInv, ClonePush, Reachable
  <2>4. NobodyLeftStopped' BY <1>2 DEF IInv, ClonePush, NobodyLeftStopped
  <2>5. QED BY <1>1, <2>2, <2>3, <2>4 DEF IInv
<1>3. CASE CloneGo(t)
  <2>1. \A u \in Thread : "STOPPED" \in flags'[u] <=> u \notin child[t] /\ "STOPPED" \in flags[u]
    BY <1>3, FlagFacts DEF IInv, CloneGo
  <2>2. \A u \in Thread : Launching(u) => Launching(u)' \/ u \in child[t]
    BY <1>3 DEF IInv, CloneGo, Launching
  <2>3. Creators' /\ Locked' /\ Sending'
    BY <1>3 DEF IInv, CloneGo, Creators, Locked, Sending
  <2>4. Reachable' BY <1>3, <2>1, <2>2 DEF IInv, CloneGo, Reachable
  <2>5. NobodyLeftStopped'
    BY <1>3, <2>1, <2>2 DEF IInv, CloneGo, NobodyLeftStopped, Launching
  <2>6. QED BY <1>1, <2>3, <2>4, <2>5 DEF IInv
<1>4. CASE CloneMap(t) \/ Park(t) \/ Run(t)
  <2>1. UNCHANGED <<senderVars, threads, flags, child>>
    BY <1>4 DEF CloneMap, Park, Run
  <2>2. Creators'
    BY <1>4 DEF IInv, CloneMap, Park, Run, Creators
  <2>3. QED
    BY <1>1, <2>1, <2>2
       DEF IInv, Locked, Sending, Reachable, Launching, NobodyLeftStopped
<1>5. QED BY <1>2, <1>3, <1>4 DEF ThreadStep

\* stop_process and SIGCONT keep the invariant, one sender at a time.
LEMMA SenderInv ==
    ASSUME OneSender, IInv, NEW s \in Sender,
           SenderStep(s) \/ StopMark(s) \/ ContMark(s)
    PROVE  IInv'
<1> USE DEF TypeOK, cloneVars
<1>1. TypeOK' BY TypeStep DEF IInv, Next
<1>2. Creators' /\ (\A u \in Thread : Launching(u)' <=> Launching(u))
  BY DEF IInv, Creators, Launching, SenderStep, StopMark, ContMark, StopSnap, StopSet,
         ContLock, ContClear
<1>3. CASE StopMark(s) \/ ContMark(s)
  <2>1. Locked' /\ Sending' /\ Reachable'
    BY <1>2, <1>3 DEF IInv, OneSender, StopMark, ContMark, Locked, Sending, Reachable
  <2>2. spc'[s] # "idle" BY <1>3 DEF IInv, StopMark, ContMark
  <2>3. QED BY <1>1, <1>2, <2>1, <2>2 DEF IInv, NobodyLeftStopped
<1>4. CASE StopSnap(s)
  BY <1>1, <1>2, <1>4 DEF IInv, StopSnap, Locked, Sending, Reachable, NobodyLeftStopped
<1>5. CASE ContLock(s)
  BY <1>1, <1>2, <1>5, JobAssumption
     DEF IInv, OneSender, ContLock, Locked, Sending, Reachable, NobodyLeftStopped
<1>6. ASSUME NEW t \in Thread, StopSet(s, t) PROVE IInv'
  <2>1. \A u \in Thread : "STOPPED" \in flags'[u] <=> u = t \/ "STOPPED" \in flags[u]
    BY <1>6, FlagFacts DEF IInv, StopSet
  <2>2. Locked' /\ Sending'
    BY <1>6 DEF IInv, OneSender, StopSet, Locked, Sending
  <2>3. stopped' BY <1>6 DEF IInv, StopSet, Sending
  <2>4. \A r \in Sender : spc'[r] # "clear" BY <1>6 DEF IInv, OneSender, StopSet
  <2>5. Reachable' BY <1>6, <1>2, <2>1, <2>4 DEF IInv, StopSet, Sending, Reachable
  <2>6. QED BY <1>1, <1>2, <2>2, <2>3, <2>5 DEF IInv, NobodyLeftStopped
<1>7. ASSUME NEW t \in Thread, ContClear(s, t) PROVE IInv'
  <2>1. \A u \in Thread : "STOPPED" \in flags'[u] <=> u # t /\ "STOPPED" \in flags[u]
    BY <1>7, FlagFacts DEF IInv, ContClear
  <2>2. CASE to_wake[s] = {t}
    <3>1. \A u \in Thread : "STOPPED" \in flags'[u] => Launching(u)'
      BY <1>7, <1>2, <2>1, <2>2 DEF IInv, ContClear, Reachable
    <3>2. Locked' /\ Sending'
      BY <1>7, <2>2 DEF IInv, OneSender, ContClear, Locked, Sending
    <3>3. QED BY <1>1, <1>2, <3>1, <3>2 DEF IInv, Reachable, NobodyLeftStopped, Launching
  <2>3. CASE to_wake[s] # {t}
    <3>1. Locked' /\ Sending'
      BY <1>7, <2>3 DEF IInv, OneSender, ContClear, Locked, Sending
    <3>2. Reachable'
      BY <1>7, <1>2, <2>1, <2>3 DEF IInv, OneSender, ContClear, Reachable
    <3>3. spc'[s] # "idle" BY <1>7, <2>3 DEF IInv, ContClear
    <3>4. QED BY <1>1, <1>2, <3>1, <3>2, <3>3 DEF IInv, NobodyLeftStopped
  <2>4. QED BY <2>2, <2>3
<1>8. QED BY <1>3, <1>4, <1>5, <1>6, <1>7 DEF SenderStep

\* With one sender, whoever carries VM_STOPPED is being launched by do_clone or is in the
\* list, and a SIGCONT at work has yet to reach it.
THEOREM Inductive == ASSUME OneSender PROVE Spec => []IInv
<1>1. ASSUME IInv, [Next]_vars PROVE IInv'
  <2>1. CASE UNCHANGED vars
    BY <1>1, <2>1 DEF vars, IInv, TypeOK, Creators, Locked, Sending, Reachable,
                      Launching, NobodyLeftStopped
  <2>2. CASE Next BY <1>1, <2>2, CloneInv, ThreadInv, SenderInv DEF Next
  <2>3. QED BY <1>1, <2>1, <2>2
<1>2. QED BY <1>1, InitInv, PTL DEF Spec

\* A continued group has no stopped thread left but those do_clone is still launching,
\* however many threads the group has and whatever clones are in progress, as long as
\* no two senders stop and resume the group at once.
THEOREM ContinuedGroupRuns == ASSUME OneSender PROVE Spec => []NobodyLeftStopped
<1>1. IInv => NobodyLeftStopped BY DEF IInv
<1>2. QED BY <1>1, Inductive, PTL
=============================================================================
