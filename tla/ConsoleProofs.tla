---------------------------- MODULE ConsoleProofs ----------------------------
(***************************************************************************)
(* Proofs about Console, the terminals of Terminal with the pump thread of *)
(* PtyPump: a terminal controls one session at most, its foreground group  *)
(* is a group of that session, and the pump neither repeats nor reorders   *)
(* bytes, and loses none until it ends or a write fails.                   *)
(***************************************************************************)
EXTENDS Console, SequenceTheorems, TLAPS

\* What the theorems assume of the constants.
ProcessesAndTerminals ==
    Pid \subseteq Nat \ {0} /\ 1 \in Pid /\ console \in Tty /\ None \notin Pid \cup Tty

---------------------------------------------------------------------------
(* The inductive invariant *)

Act == [pc : {"run", "setpgid", "sctty", "scttyfg", "spgrp"}, who : Pid, group : Pid \cup {0},
        tty : Tty, force : BOOLEAN]

TypeOK ==
    /\ sess \in [Pid -> Pid \cup {None}] /\ grp \in [Pid -> Pid \cup {0}]
    /\ ctty \in [Pid -> Tty \cup {None}] /\ owner \in [Tty -> Pid \cup {None}]
    /\ fg \in [Tty -> Pid \cup {0}]
    /\ act \in [Pid -> Act]

\* The history of groups has every group there is, and the one a TIOCSPGRP has found.
Recorded ==
    /\ \A p \in Live : <<sess[p], grp[p]>> \in groups
    /\ \A p \in Live : act[p].pc = "spgrp" => <<sess[p], act[p].group>> \in groups

\* A process inside TIOCSCTTY leads its session, and has the terminal it has taken
\* unless somebody took it meanwhile.
Taking ==
    \A p \in Live :
        /\ act[p].pc \in {"sctty", "scttyfg"} => sess[p] = p
        /\ act[p].pc = "scttyfg" /\ act[p].tty \notin overtaken => owner[act[p].tty] = p

\* A process that is not there is in no call.
NobodyInCall == \A p \in Pid \ Live : act[p].pc = "run"

IInv ==
    TypeOK /\ OneSession /\ Recorded /\ Taking /\ NobodyInCall /\ ForegroundOfSession

---------------------------------------------------------------------------
\* A call that only moves on to its second half, or gives up before it, keeps the
\* invariant.
LEMMA CallStep ==
    ASSUME ProcessesAndTerminals, IInv, NEW p \in Live, NEW r \in Act,
           UNCHANGED <<sess, grp, ctty, owner, fg, groups, overtaken>>,
           act' = [act EXCEPT ![p] = r], act[p].pc # "scttyfg",
           r.pc = "spgrp" => <<sess[p], r.group>> \in groups,
           r.pc = "sctty" => sess[p] = p,
           r.pc # "scttyfg"
    PROVE  IInv'
<1>1. p \in Pid /\ Live' = Live
    BY DEF Live, Lives
<1>2. \A q \in Pid : act'[q] = IF q = p THEN r ELSE act[q]
    BY DEF IInv, TypeOK
<1>3. TypeOK' /\ OneSession'
    BY <1>1 DEF IInv, TypeOK, OneSession
<1>4. Recorded'
    BY <1>1, <1>2 DEF IInv, Recorded, Live
<1>5. Taking'
    BY <1>1, <1>2 DEF IInv, Taking, Live
<1>6. NobodyInCall'
    BY <1>1, <1>2 DEF IInv, NobodyInCall
<1>7. ForegroundOfSession'
    <2>1. \A t \in Tty : (\A q \in Pid : act'[q].pc = "scttyfg" => act'[q].tty # t)
                         => \A q \in Pid : act[q].pc = "scttyfg" => act[q].tty # t
        BY <1>2
    <2> QED BY <2>1 DEF IInv, ForegroundOfSession
<1> QED BY <1>3, <1>4, <1>5, <1>6, <1>7 DEF IInv

\* Every step keeps the invariant.
LEMMA InvStep ==
    ASSUME ProcessesAndTerminals, IInv, [Next]_vars
    PROVE  IInv'
<1> USE DEF ProcessesAndTerminals
<1>0. Idle \in Act /\ Idle.pc = "run"
    BY DEF Idle, Act
<1>1. ASSUME NEW p \in Pid, NEW q \in Pid, Fork(p, q) PROVE IInv'
    <2>1. p \in Live /\ q \notin Live /\ q # p
        BY <1>1 DEF Fork, Calls, Live, Lives
    <2>2. /\ \A x \in Pid : sess'[x] = IF x = q THEN sess[p] ELSE sess[x]
          /\ \A x \in Pid : grp'[x] = IF x = q THEN grp[p] ELSE grp[x]
        BY <1>1 DEF Fork, IInv, TypeOK
    <2>3. Live' = Live \cup {q} /\ act[q].pc = "run"
        BY <2>1, <2>2 DEF Live, Lives, IInv, NobodyInCall
    <2>4. UNCHANGED <<ctty, owner, fg, act, groups, overtaken>>
        BY <1>1 DEF Fork
    <2>5. TypeOK' /\ OneSession' /\ ForegroundOfSession'
        BY <1>1, <2>4 DEF Fork, IInv, TypeOK, OneSession, ForegroundOfSession
    <2>6. Recorded'
        BY <2>1, <2>2, <2>3, <2>4 DEF IInv, Recorded, Live
    <2>7. Taking' /\ NobodyInCall'
        BY <2>1, <2>2, <2>3, <2>4 DEF IInv, Taking, NobodyInCall, Live
    <2> QED BY <2>5, <2>6, <2>7 DEF IInv
<1>2. ASSUME NEW p \in Pid, Exit(p) PROVE IInv'
    <2>1. \A x \in Pid : sess'[x] = IF x = p THEN None ELSE sess[x]
        BY <1>2 DEF Exit, IInv, TypeOK
    <2>2. Live' = Live \ {p} /\ act[p].pc = "run"
        BY <1>2, <2>1 DEF Exit, Calls, Live, Lives
    <2>3. UNCHANGED <<grp, ctty, owner, fg, act, groups, overtaken>>
        BY <1>2 DEF Exit
    <2>4. TypeOK' /\ OneSession' /\ ForegroundOfSession'
        BY <1>2, <2>3 DEF Exit, IInv, TypeOK, OneSession, ForegroundOfSession
    <2>5. Recorded' /\ Taking' /\ NobodyInCall'
        BY <2>1, <2>2, <2>3 DEF IInv, Recorded, Taking, NobodyInCall, Live
    <2> QED BY <2>4, <2>5 DEF IInv
<1>3. ASSUME NEW p \in Pid, Setsid(p) PROVE IInv'
    <2>1. /\ \A x \in Pid : sess'[x] = IF x = p THEN p ELSE sess[x]
          /\ \A x \in Pid : grp'[x] = IF x = p THEN p ELSE grp[x]
          /\ \A x \in Pid : ctty'[x] = IF x = p THEN None ELSE ctty[x]
        BY <1>3 DEF Setsid, IInv, TypeOK
    <2>2. Live' = Live /\ act[p].pc = "run" /\ p \in Live
        BY <1>3, <2>1 DEF Setsid, Calls, Live, Lives
    <2>3. UNCHANGED <<owner, fg, act, overtaken>> /\ groups \subseteq groups'
        BY <1>3 DEF Setsid, Record
    <2>4. TypeOK'
        BY <1>3, <2>3 DEF Setsid, IInv, TypeOK
    <2>5. OneSession'
        BY <2>1, <2>3 DEF IInv, OneSession
    <2>6. Recorded'
        <3>1. \A x \in Live' : <<sess'[x], grp'[x]>> \in groups'
            BY <1>3 DEF Setsid, Record, Live, Lives
        <3> QED BY <3>1, <2>1, <2>2, <2>3 DEF IInv, Recorded, Live
    <2>7. Taking' /\ NobodyInCall'
        BY <2>1, <2>2, <2>3 DEF IInv, Taking, NobodyInCall, Live
    <2>8. ForegroundOfSession'
        <3> SUFFICES ASSUME NEW u \in Tty \ overtaken,
                            owner[u] # None, fg[u] # 0, ctty'[owner[u]] = u,
                            \A q \in Pid : act[q].pc = "scttyfg" => act[q].tty # u
                     PROVE  <<owner[u], fg[u]>> \in groups
            BY <2>3 DEF ForegroundOfSession
        <3>1. owner[u] \in Pid
            BY DEF IInv, TypeOK
        <3>2. u # None
            BY DEF ProcessesAndTerminals
        <3>3. ctty[owner[u]] = u
            BY <2>1, <3>1, <3>2
        <3> QED BY <3>1, <3>3 DEF IInv, ForegroundOfSession
    <2> QED BY <2>4, <2>5, <2>6, <2>7, <2>8 DEF IInv
<1>4. ASSUME NEW p \in Pid, NEW q \in Pid, NEW g \in Pid, Setpgid(p, q, g) PROVE IInv'
    <2> DEFINE r == [Idle EXCEPT !.pc = "setpgid", !.who = q, !.group = g]
    <2>1. r \in Act /\ r.pc = "setpgid"
        BY <1>0 DEF Idle, Act
    <2>2. p \in Live /\ act' = [act EXCEPT ![p] = r] /\ act[p].pc = "run"
        BY <1>4 DEF Setpgid, Calls, Goto, Live
    <2> HIDE DEF r
    <2>3. UNCHANGED <<sess, grp, ctty, owner, fg, groups, overtaken>>
        BY <1>4 DEF Setpgid
    <2> QED BY <2>1, <2>2, <2>3, CallStep
<1>5. ASSUME NEW p \in Pid, SetpgidStore(p) PROVE IInv'
    <2>1. p \in Live /\ act[p].pc = "setpgid" /\ act[p] \in Act
        BY <1>5 DEF SetpgidStore, At, Live, IInv, TypeOK
    <2>2. Live' = Live
        BY <1>5 DEF SetpgidStore, Live, Lives
    <2>3. UNCHANGED <<sess, ctty, owner, fg, overtaken>> /\ groups \subseteq groups'
        BY <1>5 DEF SetpgidStore, Record
    <2>4. \A x \in Pid : act'[x] = IF x = p THEN Idle ELSE act[x]
        BY <1>5 DEF SetpgidStore, Return, Goto, IInv, TypeOK
    <2>5. TypeOK' /\ OneSession'
        BY <1>0, <1>5, <2>1, <2>3
           DEF SetpgidStore, Return, Goto, IInv, TypeOK, OneSession, Act
    <2>6. Recorded'
        <3>1. \A x \in Live' : <<sess'[x], grp'[x]>> \in groups'
            BY <1>5 DEF SetpgidStore, Record, Live, Lives
        <3> QED BY <3>1, <1>0, <2>2, <2>3, <2>4 DEF IInv, Recorded, Live
    <2>7. Taking' /\ NobodyInCall'
        BY <1>0, <2>1, <2>2, <2>3, <2>4 DEF IInv, Taking, NobodyInCall, Live
    <2>8. ForegroundOfSession'
        <3>1. \A t \in Tty : (\A q \in Pid : act'[q].pc = "scttyfg" => act'[q].tty # t)
                             => \A q \in Pid : act[q].pc = "scttyfg" => act[q].tty # t
            BY <2>1, <2>4
        <3> QED BY <3>1, <2>3 DEF IInv, ForegroundOfSession
    <2> QED BY <2>5, <2>6, <2>7, <2>8 DEF IInv
<1>6. ASSUME NEW p \in Pid, NEW t \in Tty, NEW force \in BOOLEAN, Sctty(p, t, force) PROVE IInv'
    <2> DEFINE r == [Idle EXCEPT !.pc = "sctty", !.tty = t, !.force = force]
    <2>1. r \in Act /\ r.pc = "sctty"
        BY <1>0 DEF Idle, Act
    <2>2. /\ p \in Live /\ act' = [act EXCEPT ![p] = r] /\ act[p].pc = "run"
          /\ sess[p] = p
        BY <1>6 DEF Sctty, Calls, Goto, Live
    <2> HIDE DEF r
    <2>3. UNCHANGED <<sess, grp, ctty, owner, fg, groups, overtaken>>
        BY <1>6 DEF Sctty
    <2> QED BY <2>1, <2>2, <2>3, CallStep
<1>7. ASSUME NEW p \in Pid, ScttyTake(p) PROVE IInv'
    <2> DEFINE t == act[p].tty
    <2>1. /\ p \in Live /\ act[p].pc = "sctty" /\ act[p] \in Act /\ sess[p] = p
          /\ t \in Tty
        BY <1>7 DEF ScttyTake, At, Live, IInv, TypeOK, Taking, Act
    <2>2. UNCHANGED <<sess, grp, fg, groups>> /\ Live' = Live /\ overtaken \subseteq overtaken'
        BY <1>7 DEF ScttyTake, Live, Lives
    <2>3. /\ \A x \in Pid : ctty'[x] = IF x = p THEN t ELSE IF x = owner[t] THEN None ELSE ctty[x]
          /\ \A u \in Tty : owner'[u] = IF u = t THEN p ELSE owner[u]
        BY <1>7, <2>1 DEF ScttyTake, IInv, TypeOK
    <2>4. /\ \A x \in Pid \ {p} : act'[x] = act[x]
          /\ act'[p].pc = "scttyfg" /\ act'[p].tty = t
        BY <1>7, <2>1 DEF ScttyTake, Goto, IInv, TypeOK, Act
    <2>5. TypeOK'
        <3>1. [act[p] EXCEPT !.pc = "scttyfg"] \in Act
            BY <2>1 DEF Act
        <3>2. act' \in [Pid -> Act]
            BY <1>7, <3>1 DEF ScttyTake, Goto, IInv, TypeOK
        <3>3. ctty' \in [Pid -> Tty \cup {None}] /\ owner' \in [Tty -> Pid \cup {None}]
            BY <1>7, <2>1 DEF ScttyTake, IInv, TypeOK
        <3> QED BY <2>2, <3>2, <3>3 DEF IInv, TypeOK
    <2>6. OneSession'
        BY <2>1, <2>3 DEF IInv, OneSession, TypeOK
    <2>7. Recorded'
        BY <2>2, <2>4 DEF IInv, Recorded, Live
    <2>8. Taking'
        <3> SUFFICES ASSUME NEW x \in Live
                     PROVE  /\ act'[x].pc \in {"sctty", "scttyfg"} => sess'[x] = x
                            /\ act'[x].pc = "scttyfg" /\ act'[x].tty \notin overtaken'
                                  => owner'[act'[x].tty] = x
            BY <2>2 DEF Taking
        <3>1. x \in Pid
            BY DEF Live
        <3>2. CASE x = p
            BY <3>2, <2>1, <2>2, <2>3, <2>4
        <3>3. CASE x # p
            <4>1. act'[x] = act[x] /\ act[x].tty \in Tty
                BY <3>1, <3>3, <2>4 DEF IInv, TypeOK, Act
            <4>2. act[x].pc = "scttyfg" /\ act[x].tty = t => t \in overtaken'
                BY <1>7, <3>1, <3>3 DEF ScttyTake
            <4> QED BY <4>1, <4>2, <2>2, <2>3 DEF IInv, Taking
        <3> QED BY <3>2, <3>3
    <2>9. NobodyInCall'
        BY <2>1, <2>2, <2>4 DEF IInv, NobodyInCall
    <2>10. ForegroundOfSession'
        <3> SUFFICES ASSUME NEW u \in Tty \ overtaken',
                            owner'[u] # None, fg'[u] # 0, ctty'[owner'[u]] = u,
                            \A q \in Pid : act'[q].pc = "scttyfg" => act'[q].tty # u
                     PROVE  <<owner'[u], fg'[u]>> \in groups'
            BY DEF ForegroundOfSession
        <3>1. u # t
            BY <2>1, <2>4
        <3>2. owner'[u] = owner[u] /\ owner[u] \in Pid /\ owner[u] # p
            BY <3>1, <2>3 DEF IInv, TypeOK
        <3>3. ctty[owner[u]] = u
            BY <3>2, <2>3
        <3>4. \A q \in Pid : act[q].pc = "scttyfg" => act[q].tty # u
            BY <2>1, <2>4
        <3> QED BY <3>2, <3>3, <3>4, <2>2 DEF IInv, ForegroundOfSession
    <2> QED BY <2>5, <2>6, <2>7, <2>8, <2>9, <2>10 DEF IInv
<1>8. ASSUME NEW p \in Pid, ScttyRefused(p) PROVE IInv'
    <2>1. p \in Live /\ act' = [act EXCEPT ![p] = Idle] /\ act[p].pc = "sctty"
        BY <1>8 DEF ScttyRefused, At, Return, Goto, Live
    <2>2. UNCHANGED <<sess, grp, ctty, owner, fg, groups, overtaken>>
        BY <1>8 DEF ScttyRefused
    <2> QED BY <1>0, <2>1, <2>2, CallStep
<1>9. ASSUME NEW p \in Pid, ScttyForeground(p) PROVE IInv'
    <2> DEFINE t == act[p].tty
    <2>1. /\ p \in Live /\ act[p].pc = "scttyfg" /\ act[p] \in Act /\ sess[p] = p
          /\ t \in Tty
        BY <1>9 DEF ScttyForeground, At, Live, IInv, TypeOK, Taking, Act
    <2>2. UNCHANGED <<sess, grp, ctty, owner, groups, overtaken>> /\ Live' = Live
        BY <1>9 DEF ScttyForeground, Live, Lives
    <2>3. /\ \A x \in Pid : act'[x] = IF x = p THEN Idle ELSE act[x]
          /\ \A u \in Tty : fg'[u] = IF u = t THEN grp[p] ELSE fg[u]
        BY <1>9, <2>1 DEF ScttyForeground, Return, Goto, IInv, TypeOK
    <2>4. TypeOK' /\ OneSession'
        BY <1>0, <1>9, <2>1, <2>2
           DEF ScttyForeground, Return, Goto, IInv, TypeOK, OneSession, Act
    <2>5. Recorded' /\ Taking' /\ NobodyInCall'
        BY <1>0, <2>1, <2>2, <2>3 DEF IInv, Recorded, Taking, NobodyInCall, Live
    <2>6. ForegroundOfSession'
        <3> SUFFICES ASSUME NEW u \in Tty \ overtaken,
                            owner[u] # None, fg'[u] # 0, ctty[owner[u]] = u,
                            \A q \in Pid : act'[q].pc = "scttyfg" => act'[q].tty # u
                     PROVE  <<owner[u], fg'[u]>> \in groups
            BY <2>2 DEF ForegroundOfSession
        <3>1. CASE u = t
            <4>1. owner[t] = p
                BY <2>1, <3>1 DEF IInv, Taking
            <4> QED BY <2>1, <2>3, <3>1, <4>1 DEF IInv, Recorded
        <3>2. CASE u # t
            <4>1. \A q \in Pid : act[q].pc = "scttyfg" => act[q].tty # u
                BY <2>3, <3>2
            <4> QED BY <2>3, <3>2, <4>1 DEF IInv, ForegroundOfSession
        <3> QED BY <3>1, <3>2
    <2> QED BY <2>4, <2>5, <2>6 DEF IInv
<1>10. ASSUME NEW p \in Pid, NEW g \in Pid, Spgrp(p, g) PROVE IInv'
    <2> DEFINE r == [Idle EXCEPT !.pc = "spgrp", !.group = g]
    <2>1. r \in Act /\ r.pc = "spgrp" /\ r.group = g
        BY <1>0 DEF Idle, Act
    <2>2. p \in Live /\ act' = [act EXCEPT ![p] = r] /\ act[p].pc = "run"
        BY <1>10 DEF Spgrp, Calls, Goto, Live
    <2> HIDE DEF r
    <2>3. UNCHANGED <<sess, grp, ctty, owner, fg, groups, overtaken>>
        BY <1>10 DEF Spgrp
    <2>4. <<sess[p], g>> \in groups
        BY <1>10 DEF Spgrp, IInv, Recorded
    <2> QED BY <2>1, <2>2, <2>3, <2>4, CallStep
<1>11. ASSUME NEW p \in Pid, SpgrpStore(p) PROVE IInv'
    <2> DEFINE t == ctty[sess[p]]
    <2>1. /\ p \in Live /\ act[p].pc = "spgrp" /\ act[p] \in Act /\ sess[p] \in Pid
          /\ act[p].group \in Pid \cup {0} /\ t \in Tty \cup {None}
        BY <1>11 DEF SpgrpStore, At, Live, Lives, IInv, TypeOK, Act
    <2>2. UNCHANGED <<sess, grp, ctty, owner, groups, overtaken>> /\ Live' = Live
        BY <1>11 DEF SpgrpStore, Live, Lives
    <2>3. \A x \in Pid : act'[x] = IF x = p THEN Idle ELSE act[x]
        BY <1>11 DEF SpgrpStore, Return, Goto, IInv, TypeOK
    <2>4. \A u \in Tty : fg'[u] = IF u = t THEN act[p].group ELSE fg[u]
        BY <1>11, <2>1 DEF SpgrpStore, IInv, TypeOK
    <2>5. TypeOK' /\ OneSession'
        <3>1. fg' \in [Tty -> Pid \cup {0}]
            BY <1>11, <2>1 DEF SpgrpStore, IInv, TypeOK
        <3>2. act' \in [Pid -> Act]
            BY <1>0, <1>11 DEF SpgrpStore, Return, Goto, IInv, TypeOK
        <3> QED BY <3>1, <3>2, <2>2 DEF IInv, TypeOK, OneSession
    <2>6. Recorded' /\ Taking' /\ NobodyInCall'
        BY <1>0, <2>1, <2>2, <2>3 DEF IInv, Recorded, Taking, NobodyInCall, Live
    <2>7. ForegroundOfSession'
        <3> SUFFICES ASSUME NEW u \in Tty \ overtaken,
                            owner[u] # None, fg'[u] # 0, ctty[owner[u]] = u,
                            \A q \in Pid : act'[q].pc = "scttyfg" => act'[q].tty # u
                     PROVE  <<owner[u], fg'[u]>> \in groups
            BY <2>2 DEF ForegroundOfSession
        <3>1. CASE u = t
            <4>1. owner[t] = sess[p]
                BY <2>1, <3>1 DEF IInv, OneSession
            <4> QED BY <2>1, <2>4, <3>1, <4>1 DEF IInv, Recorded
        <3>2. CASE u # t
            <4>1. \A q \in Pid : act[q].pc = "scttyfg" => act[q].tty # u
                BY <2>1, <2>3
            <4> QED BY <2>4, <3>2, <4>1 DEF IInv, ForegroundOfSession
        <3> QED BY <3>1, <3>2
    <2> QED BY <2>5, <2>6, <2>7 DEF IInv
<1>12. ASSUME NEW p \in Pid, NEW t \in Tty,
              ReadTty(p, t) \/ WriteTty(p, t) \/ HangUp(p, t) \/ Continue(p)
       PROVE  IInv'
    <2>1. p \in Live /\ UNCHANGED <<sess, grp, ctty, owner, fg, groups, overtaken, act>>
        BY <1>12 DEF ReadTty, WriteTty, HangUp, Continue, Calls, Live
    <2> QED
        BY <2>1 DEF IInv, TypeOK, OneSession, Recorded, Taking, NobodyInCall,
                    ForegroundOfSession, Live, Lives
<1>13. CASE UNCHANGED vars
    BY <1>13 DEF vars, IInv, TypeOK, OneSession, Recorded, Taking, NobodyInCall,
                 ForegroundOfSession, Live, Lives
<1> QED
    BY <1>1, <1>2, <1>3, <1>4, <1>5, <1>6, <1>7, <1>8, <1>9, <1>10, <1>11, <1>12, <1>13
       DEF Next, Step

\* The first process starts as the leader of a session, with a terminal or without.
LEMMA InitInv ==
    ASSUME ProcessesAndTerminals, NEW tty \in Tty \cup {None}, Started(tty)
    PROVE  IInv
<1> USE DEF Started, ProcessesAndTerminals
<1>1. Idle \in Act
    BY DEF Idle, Act
<1>2. TypeOK
    BY <1>1 DEF TypeOK
<1>3. Live = {1} /\ \A p \in Pid : act[p].pc = "run"
    BY DEF Live, Lives, Idle
<1>4. OneSession /\ ForegroundOfSession
    BY DEF OneSession, ForegroundOfSession
<1>5. Recorded /\ Taking /\ NobodyInCall
    BY <1>3 DEF Recorded, Taking, NobodyInCall
<1> QED BY <1>2, <1>4, <1>5 DEF IInv

---------------------------------------------------------------------------
(* The streams of the pump *)

\* What the theorems assume of the pump's constants.
PumpSizes == Input \in Nat /\ Chunk \in Nat

Stream == Seq(Nat)

PumpTypeOK ==
    /\ stdin \in Stream /\ toGuest \in Stream /\ read \in Stream
    /\ toHost \in Stream /\ shown \in Stream /\ written \in Nat
    /\ DOMAIN pump = {"pc", "events", "error", "buf"} /\ pump.buf \in Stream
    /\ cut \in BOOLEAN

\* A read takes a prefix: what it takes and what it leaves are the whole.
LEMMA TakeDrop ==
    ASSUME NEW s \in Stream, NEW n \in Nat
    PROVE  /\ Take(n, s) \in Stream
           /\ Drop(Len(Take(n, s)), s) \in Stream
           /\ Take(n, s) \o Drop(Len(Take(n, s)), s) = s
           /\ n <= Len(s) => Len(Take(n, s)) = n
<1> USE DEF Stream
<1> DEFINE k == IF Len(s) < n THEN Len(s) ELSE n
<1>1. k \in 0..Len(s) /\ (n <= Len(s) => k = n)
    OBVIOUS
<1>2. Take(n, s) = SubSeq(s, 1, k)
    BY DEF Take
<1> HIDE DEF k
<1>3. SubSeq(s, 1, k) \in Seq(Nat) /\ Len(SubSeq(s, 1, k)) = k
    BY <1>1, SubSeqProperties
<1>4. Drop(k, s) \in Seq(Nat)
    <2>1. \A i \in (k + 1)..Len(s) : s[i] \in Nat
        BY <1>1
    <2> QED BY <1>1, <2>1, SubSeqProperties DEF Drop
<1>5. SubSeq(s, 1, k) \o SubSeq(s, k + 1, Len(s)) = SubSeq(s, 1, Len(s))
    <2>1. 1 \in 1..(Len(s) + 1) /\ k \in (1 - 1)..Len(s) /\ Len(s) \in k..Len(s)
        BY <1>1
    <2> QED BY <2>1, ConcatAdjacentSubSeq
<1>6. SubSeq(s, 1, Len(s)) = s
    BY SubSeqFull
<1> QED BY <1>1, <1>2, <1>3, <1>4, <1>5, <1>6 DEF Drop

\* One more byte is written.
LEMMA BytesNext ==
    ASSUME NEW n \in Nat
    PROVE  /\ Bytes(n) \in Stream /\ Bytes(n + 1) \in Stream
           /\ Append(Bytes(n), n + 1) = Bytes(n + 1)
<1>1. Bytes(n) \in Stream /\ Len(Bytes(n)) = n /\ Bytes(n + 1) \in Stream
      /\ Len(Bytes(n + 1)) = n + 1
    BY DEF Bytes, Stream
<1>2. Append(Bytes(n), n + 1) \in Stream /\ Len(Append(Bytes(n), n + 1)) = n + 1
    BY <1>1 DEF Stream
<1>3. \A i \in 1..(n + 1) : Append(Bytes(n), n + 1)[i] = Bytes(n + 1)[i]
    BY <1>1 DEF Bytes, Stream
<1> QED BY <1>1, <1>2, <1>3, SeqEqual DEF Stream

\* The pump keeps its types.
LEMMA PumpTypeStep ==
    ASSUME PumpSizes, PumpTypeOK,
           \/ Guest \/ Pump \/ (\E s \in HostSig : Raise(s) \/ RouteSignal(s))
           \/ UNCHANGED pumpVars
    PROVE  PumpTypeOK'
<1> USE DEF PumpTypeOK, PumpSizes
<1>1. CASE Guest
    <2>1. CASE GuestWrite
        BY <2>1 DEF GuestWrite, Stream
    <2>2. CASE GuestRead
        <3>1. toGuest \in Seq(Nat) /\ toGuest # <<>>
            BY <2>2 DEF GuestRead, Stream
        <3>2. Head(toGuest) \in Nat /\ Tail(toGuest) \in Seq(Nat)
            BY <3>1
        <3> QED BY <2>2, <3>2 DEF GuestRead, Stream
    <2>3. CASE GuestClose
        BY <2>3 DEF GuestClose
    <2> QED BY <1>1, <2>1, <2>2, <2>3 DEF Guest
<1>2. CASE Sleep
    BY <1>2 DEF Sleep
<1>3. CASE StdinEnd \/ StdinFails \/ BatchDone
    <2>1. <<>> \in Stream
        BY DEF Stream
    <2>2. pump' = [Pumping EXCEPT !.pc = "done"] \/ pump' = Pumping
        BY <1>3 DEF StdinEnd, StdinFails, BatchDone
    <2>3. DOMAIN pump' = {"pc", "events", "error", "buf"} /\ pump'.buf \in Stream
        BY <2>1, <2>2 DEF Pumping
    <2> QED BY <1>3, <2>3 DEF StdinEnd, StdinFails, BatchDone
<1>4. CASE StdinRead
    BY <1>4, TakeDrop DEF StdinRead
<1>5. CASE MasterRead
    BY <1>5, TakeDrop DEF MasterRead
<1>6. ASSUME NEW n \in 1..Len(pump.buf),
             \/ pump' = [Handled EXCEPT !.pc = "event", !.buf = <<>>]
             \/ pump' = [pump EXCEPT !.buf = Drop(n, @)]
      PROVE  /\ Take(n, pump.buf) \in Stream
             /\ DOMAIN pump' = {"pc", "events", "error", "buf"} /\ pump'.buf \in Stream
    <2>1. n \in Nat /\ n <= Len(pump.buf)
        BY DEF Stream
    <2>2. Take(n, pump.buf) \in Stream /\ Drop(n, pump.buf) \in Stream
        BY <2>1, TakeDrop
    <2>3. CASE pump' = [Handled EXCEPT !.pc = "event", !.buf = <<>>]
        BY <2>2, <2>3 DEF Handled, Stream
    <2>4. CASE pump' = [pump EXCEPT !.buf = Drop(n, @)]
        BY <2>2, <2>4
    <2> QED BY <1>6, <2>2, <2>3, <2>4
<1>7. CASE Feed
    <2>1. PICK n \in 1..Len(pump.buf) :
             /\ pump.pc = "feed" /\ toGuest' = toGuest \o Take(n, pump.buf)
             /\ pump' = IF n = Len(pump.buf) THEN [Handled EXCEPT !.pc = "event", !.buf = <<>>]
                        ELSE [pump EXCEPT !.buf = Drop(n, @)]
             /\ UNCHANGED <<stdin, read, written, toHost, shown, cut>>
        BY <1>7 DEF Feed
    <2>2. toGuest' \in Stream
        BY <1>6, <2>1 DEF Stream
    <2> QED BY <1>6, <2>1, <2>2
<1>8. CASE Show
    <2>1. PICK n \in 1..Len(pump.buf) :
             /\ pump.pc = "show" /\ shown' = shown \o Take(n, pump.buf)
             /\ pump' = IF n = Len(pump.buf) THEN [Handled EXCEPT !.pc = "event", !.buf = <<>>]
                        ELSE [pump EXCEPT !.buf = Drop(n, @)]
             /\ UNCHANGED <<stdin, read, written, toHost, toGuest, cut>>
        BY <1>8 DEF Show
    <2>2. shown' \in Stream
        BY <1>6, <2>1 DEF Stream
    <2> QED BY <1>6, <2>1, <2>2
<1>9. CASE FeedFails \/ ShowFails \/ HungUp
    <2>1. <<>> \in Stream
        BY DEF Stream
    <2>2. \/ pump' = [Handled EXCEPT !.pc = "event", !.buf = <<>>]
          \/ pump' = [Handled EXCEPT !.error = TRUE]
        BY <1>9 DEF FeedFails, ShowFails, HungUp
    <2>3. DOMAIN pump' = {"pc", "events", "error", "buf"} /\ pump'.buf \in Stream
        BY <2>1, <2>2 DEF Handled
    <2> QED BY <1>9, <2>3 DEF FeedFails, ShowFails, HungUp
<1>10. ASSUME NEW s \in HostSig, Raise(s) \/ RouteSignal(s) PROVE PumpTypeOK'
    BY <1>10 DEF Raise, RouteSignal, Handled, Event
<1>11. CASE UNCHANGED pumpVars
    BY <1>11 DEF pumpVars
<1> QED
    BY <1>1, <1>2, <1>3, <1>4, <1>5, <1>7, <1>8, <1>9, <1>10, <1>11 DEF Pump

\* Streams: concatenation is associative, ...
LEMMA Assoc ==
    ASSUME NEW a \in Stream, NEW b \in Stream, NEW c \in Stream
    PROVE  a \o (b \o c) = (a \o b) \o c /\ a \o b \in Stream
<1>1. a \o b \in Stream BY DEF Stream
<1>2. a \in Seq(Nat) /\ b \in Seq(Nat) /\ c \in Seq(Nat) BY DEF Stream
<1>3. (a \o b) \o c = a \o (b \o c) BY <1>2
<1> QED BY <1>1, <1>3

\* ... the empty stream is its unit, ...
LEMMA Unit ==
    ASSUME NEW a \in Stream
    PROVE  a \o <<>> = a
BY DEF Stream

\* ... a byte the guest reads moves from the head of one to the end of the other, ...
LEMMA HeadMoves ==
    ASSUME NEW a \in Stream, NEW b \in Stream, b # <<>>
    PROVE  Append(a, Head(b)) \in Stream /\ Tail(b) \in Stream
           /\ Append(a, Head(b)) \o Tail(b) = a \o b
<1> USE DEF Stream
<1>1. Head(b) \in Nat /\ Tail(b) \in Seq(Nat) /\ Len(Tail(b)) = Len(b) - 1
    OBVIOUS
<1> DEFINE l == Append(a, Head(b)) \o Tail(b)
           r == a \o b
<1>2. l \in Seq(Nat) /\ r \in Seq(Nat) /\ Len(l) = Len(r)
    BY <1>1
<1>3. \A i \in 1..Len(l) : l[i] = r[i]
    BY <1>1
<1>4. l = r
    <2> HIDE DEF l, r
    <2> QED BY <1>2, <1>3, SeqEqual
<1> QED BY <1>1, <1>4

\* ... a byte the guest writes is the last one, ...
LEMMA AppendMoves ==
    ASSUME NEW a \in Stream, NEW b \in Stream, NEW e \in Nat
    PROVE  a \o Append(b, e) = Append(a \o b, e)
BY DEF Stream

\* ... and a chunk moves from the head of one to the end of the other.
LEMMA ChunkMoves ==
    ASSUME NEW a \in Stream, NEW b \in Stream, NEW n \in Nat, n <= Len(b)
    PROVE  (a \o Take(n, b)) \o Drop(n, b) = a \o b
<1>1. /\ Take(n, b) \in Stream /\ Drop(n, b) \in Stream
      /\ Take(n, b) \o Drop(n, b) = b
    BY TakeDrop
<1>2. a \o (Take(n, b) \o Drop(n, b)) = (a \o Take(n, b)) \o Drop(n, b)
    BY <1>1, Assoc, Zenon
<1> QED BY <1>1, <1>2, Zenon

\* The beginning of the bytes in order is the bytes in order.
LEMMA Beginning ==
    ASSUME NEW a \in Stream, NEW b \in Stream, NEW n \in Nat, a \o b = Bytes(n)
    PROVE  a = Bytes(Len(a))
<1> USE DEF Stream
<1>1. Len(a) \in Nat /\ Len(b) \in Nat /\ Len(a \o b) = Len(a) + Len(b)
    OBVIOUS
<1>2. Len(Bytes(n)) = n /\ \A i \in 1..n : Bytes(n)[i] = i
    BY DEF Bytes
<1>3. Len(a) <= n
    BY <1>1, <1>2
<1>4. \A i \in 1..Len(a) : a[i] = i
    <2> TAKE i \in 1..Len(a)
    <2>1. (a \o b)[i] = a[i]
        OBVIOUS
    <2> QED BY <1>1, <1>2, <1>3, <2>1
<1>5. Bytes(Len(a)) \in Seq(Nat) /\ Len(Bytes(Len(a))) = Len(a)
      /\ \A i \in 1..Len(a) : Bytes(Len(a))[i] = i
    BY <1>1 DEF Bytes
<1> QED BY <1>4, <1>5, SeqEqual

\* Bytes in ascending order, the last one n at most.
Ordered(s, n) == Ascending(s) /\ \A i \in DOMAIN s : s[i] <= n

\* The next byte written keeps the order, ...
LEMMA OrderedNext ==
    ASSUME NEW s \in Stream, NEW n \in Nat, Ordered(s, n)
    PROVE  Ordered(Append(s, n + 1), n + 1)
<1> DEFINE t == Append(s, n + 1)
<1>1. DOMAIN t = 1..(Len(s) + 1) /\ DOMAIN s = 1..Len(s) /\ Len(s) \in Nat
    BY DEF Stream
<1>2. \A i \in DOMAIN t : t[i] = (IF i \in DOMAIN s THEN s[i] ELSE n + 1)
                          /\ (i \in DOMAIN s => s[i] \in Nat)
                          /\ (i \notin DOMAIN s => i = Len(s) + 1)
    BY <1>1 DEF Stream
<1> HIDE DEF t
<1>3. \A i \in DOMAIN t : t[i] <= n + 1
    BY <1>1, <1>2 DEF Ordered
<1>4. ASSUME NEW i \in DOMAIN t, NEW j \in DOMAIN t, i < j PROVE t[i] < t[j]
    <2>1. i \in DOMAIN s
        BY <1>1, <1>4
    <2>2. CASE j \in DOMAIN s
        BY <1>2, <1>4, <2>1, <2>2 DEF Ordered, Ascending
    <2>3. CASE j \notin DOMAIN s
        BY <1>2, <2>1, <2>3 DEF Ordered
    <2> QED BY <2>2, <2>3
<1> QED BY <1>3, <1>4 DEF Ordered, Ascending, t

\* ... and so does the loss of what is between.
LEMMA OrderedCut ==
    ASSUME NEW a \in Stream, NEW b \in Stream, NEW c \in Stream, NEW n \in Nat,
           Ordered((a \o b) \o c, n)
    PROVE  Ordered(a \o c, n)
<1> USE DEF Stream
<1> DEFINE s == (a \o b) \o c
           t == a \o c
           at(i) == IF i <= Len(a) THEN i ELSE i + Len(b)
<1>1. /\ Len(a) \in Nat /\ Len(b) \in Nat /\ Len(c) \in Nat
      /\ DOMAIN t = 1..(Len(a) + Len(c)) /\ DOMAIN s = 1..(Len(a) + Len(b) + Len(c))
    OBVIOUS
<1>2. \A i \in DOMAIN t : at(i) \in DOMAIN s /\ t[i] = s[at(i)]
    <2>1. \A i \in DOMAIN t : t[i] = IF i <= Len(a) THEN a[i] ELSE c[i - Len(a)]
        OBVIOUS
    <2>2. \A i \in DOMAIN s : s[i] = IF i <= Len(a) + Len(b) THEN (a \o b)[i]
                                     ELSE c[i - (Len(a) + Len(b))]
        OBVIOUS
    <2>3. \A i \in 1..Len(a) : (a \o b)[i] = a[i]
        OBVIOUS
    <2> HIDE DEF s, t
    <2> TAKE i \in DOMAIN t
    <2>4. i \in Nat /\ i >= 1 /\ i <= Len(a) + Len(c) /\ at(i) \in DOMAIN s
        BY <1>1
    <2>5. CASE i <= Len(a)
        <3>1. at(i) = i /\ i \in 1..Len(a) /\ i <= Len(a) + Len(b)
            BY <1>1, <2>4, <2>5
        <3>2. t[i] = a[i] /\ s[i] = (a \o b)[i] /\ (a \o b)[i] = a[i]
            BY <2>1, <2>2, <2>3, <2>4, <2>5, <3>1
        <3> QED BY <2>4, <3>1, <3>2
    <2>6. CASE ~(i <= Len(a))
        <3>1. (i + Len(b)) - (Len(a) + Len(b)) = i - Len(a) /\ ~(i + Len(b) <= Len(a) + Len(b))
            BY <1>1, <2>4, <2>6
        <3> QED BY <1>1, <2>1, <2>2, <2>4, <2>6, <3>1
    <2> QED BY <2>5, <2>6
<1>3. \A i, j \in DOMAIN t : i < j => at(i) < at(j)
    BY <1>1
<1> HIDE DEF s, t, at
<1>4. Ascending(t) /\ \A i \in DOMAIN t : t[i] <= n
    BY <1>2, <1>3 DEF Ordered, Ascending, s
<1> QED BY <1>4 DEF Ordered, t

---------------------------------------------------------------------------
(* The pump *)

AllIn == ((read \o toGuest) \o Held("feed")) \o stdin
AllOut == (shown \o Held("show")) \o toHost

\* InOrder, of what is on its way to the guest too, and with the bytes that are on their
\* way to the host written before.
PumpInv ==
    /\ slave /\ pump.pc # "done" => AllIn = Bytes(Input)
    /\ read \o toGuest = Bytes(Len(read \o toGuest))
    /\ Ordered(AllOut, written)
    /\ ~cut => shown = Bytes(Len(shown))
    /\ ~cut /\ pump.pc # "done" => AllOut = Bytes(written)

\* A step that moves no byte over the ends keeps the invariant.
LEMMA NothingMoves ==
    ASSUME PumpInv, AllIn' = AllIn, AllOut' = AllOut, (read \o toGuest)' = read \o toGuest,
           UNCHANGED <<shown, written, cut>>,
           slave' /\ pump'.pc # "done" => slave /\ pump.pc # "done",
           pump'.pc # "done" => pump.pc # "done"
    PROVE  PumpInv'
BY DEF PumpInv

\* Every step keeps both streams in order.
LEMMA PumpInvStep ==
    ASSUME PumpSizes, PumpTypeOK, PumpInv,
           \/ Guest \/ Pump \/ (\E s \in HostSig : Raise(s) \/ RouteSignal(s))
           \/ UNCHANGED pumpVars
    PROVE  PumpInv'
<1> DEFINE in == read \o toGuest
<1>1. in \in Stream /\ <<>> \in Stream /\ \A pc : Held(pc) \in Stream
    BY DEF PumpTypeOK, Stream, Held
<1>2. CASE GuestWrite
    <2>1. shown \o Held("show") \in Stream /\ toHost \in Stream /\ written \in Nat
        BY <1>1, Assoc DEF PumpTypeOK
    <2>2. AllOut \in Stream
        BY <2>1, Assoc DEF AllOut
    <2>3. AllOut' = Append(AllOut, written + 1)
        <3>1. (shown \o Held("show")) \o Append(toHost, written + 1)
                 = Append((shown \o Held("show")) \o toHost, written + 1)
            <4>1. written + 1 \in Nat
                BY <2>1
            <4> QED BY <2>1, <4>1, AppendMoves, Zenon
        <3> QED BY <1>2, <3>1 DEF GuestWrite, AllOut, Held
    <2>4. Ordered(AllOut', written')
        BY <1>2, <2>1, <2>2, <2>3, OrderedNext DEF PumpInv, GuestWrite
    <2>5. Append(Bytes(written), written + 1) = Bytes(written + 1)
        BY <2>1, BytesNext
    <2> QED BY <1>2, <2>3, <2>4, <2>5 DEF GuestWrite, PumpInv, AllIn, Held
<1>3. CASE GuestRead
    <2>1. in' = in
        BY <1>3, HeadMoves DEF GuestRead, PumpTypeOK
    <2> QED BY <1>3, <2>1, NothingMoves DEF GuestRead, AllIn, AllOut, Held
<1>4. CASE GuestClose
    BY <1>4, NothingMoves DEF GuestClose, AllIn, AllOut, Held
<1>5. CASE StdinRead
    <2> DEFINE T == Take(Chunk, stdin)
    <2>1. T \in Stream /\ T \o Drop(Len(T), stdin) = stdin /\ Drop(Len(T), stdin) \in Stream
        BY TakeDrop DEF PumpTypeOK, PumpSizes
    <2>2. /\ pump.pc = "event" /\ pump'.pc = "feed" /\ pump'.buf = T
          /\ stdin' = Drop(Len(T), stdin)
          /\ UNCHANGED <<toGuest, read, toHost, shown, written, slave, cut>>
        BY <1>5 DEF StdinRead, Event, PumpTypeOK
    <2> HIDE DEF T
    <2>3. (in \o T) \o stdin' = in \o stdin
        <3> HIDE DEF in
        <3>1. in \o (T \o stdin') = (in \o T) \o stdin'
            <4>1. in \in Stream /\ T \in Stream /\ stdin' \in Stream
                BY <1>1, <2>1, <2>2
            <4> QED BY <4>1, Assoc, Zenon
        <3> QED BY <2>1, <2>2, <3>1, Zenon
    <2>4. in \o <<>> = in
        BY <1>1, Unit
    <2>5. AllIn' = AllIn
        BY <2>2, <2>3, <2>4 DEF AllIn, Held
    <2> QED BY <2>2, <2>5, NothingMoves DEF AllOut, Held
<1>6. CASE MasterRead
    <2> DEFINE T == Take(Chunk, toHost)
    <2>1. T \in Stream /\ T \o Drop(Len(T), toHost) = toHost /\ Drop(Len(T), toHost) \in Stream
        BY TakeDrop DEF PumpTypeOK, PumpSizes
    <2>2. /\ pump.pc = "event" /\ pump'.pc = "show" /\ pump'.buf = T
          /\ toHost' = Drop(Len(T), toHost)
          /\ UNCHANGED <<toGuest, read, stdin, shown, written, slave, cut>>
        BY <1>6 DEF MasterRead, Event, PumpTypeOK
    <2> HIDE DEF T
    <2>3. (shown \o T) \o toHost' = shown \o toHost
        <3>1. shown \o (T \o toHost') = (shown \o T) \o toHost'
            <4>1. shown \in Stream /\ T \in Stream /\ toHost' \in Stream
                BY <2>1, <2>2 DEF PumpTypeOK
            <4> QED BY <4>1, Assoc, Zenon
        <3> QED BY <2>1, <2>2, <3>1, Zenon
    <2>4. shown \o <<>> = shown
        BY Unit DEF PumpTypeOK
    <2>5. AllOut' = AllOut
        BY <2>2, <2>3, <2>4 DEF AllOut, Held
    <2> QED BY <2>2, <2>5, NothingMoves DEF AllIn, Held
<1>7. ASSUME NEW n \in 1..Len(pump.buf),
             pump' = IF n = Len(pump.buf) THEN [Handled EXCEPT !.pc = "event", !.buf = <<>>]
                     ELSE [pump EXCEPT !.buf = Drop(n, @)],
             NEW pc \in {"feed", "show"}, pump.pc = pc, NEW a \in Stream
      PROVE  /\ Take(n, pump.buf) \in Stream
             /\ (a \o Take(n, pump.buf)) \o Held(pc)' = a \o pump.buf
             /\ \A x \in {"feed", "show"} \ {pc} : pump'.pc # x /\ pump.pc # x
             /\ pump'.pc # "done"
    <2>1. n \in Nat /\ n <= Len(pump.buf) /\ pump.buf \in Stream
        BY DEF PumpTypeOK, Stream
    <2>2. Take(n, pump.buf) \in Stream /\ (a \o Take(n, pump.buf)) \o Drop(n, pump.buf) = a \o pump.buf
        BY <2>1, ChunkMoves, TakeDrop
    <2>3. CASE n = Len(pump.buf)
        <3>1. Drop(n, pump.buf) = <<>>
            BY <2>1, <2>3 DEF Drop, Stream
        <3>2. pump'.pc = "event"
            BY <1>7, <2>3 DEF Handled, PumpTypeOK
        <3> QED BY <1>7, <2>2, <3>1, <3>2 DEF Held
    <2>4. CASE n # Len(pump.buf)
        <3>1. pump'.pc = pc /\ pump'.buf = Drop(n, pump.buf)
            BY <1>7, <2>4 DEF PumpTypeOK
        <3> QED BY <1>7, <2>2, <3>1 DEF Held
    <2> QED BY <2>3, <2>4
<1>8. CASE Feed
    <2>1. PICK n \in 1..Len(pump.buf) :
             /\ pump.pc = "feed" /\ slave /\ toGuest' = toGuest \o Take(n, pump.buf)
             /\ pump' = IF n = Len(pump.buf) THEN [Handled EXCEPT !.pc = "event", !.buf = <<>>]
                        ELSE [pump EXCEPT !.buf = Drop(n, @)]
             /\ UNCHANGED <<stdin, read, written, toHost, shown, slave, cut>>
        BY <1>8 DEF Feed
    <2>2. /\ Take(n, pump.buf) \in Stream
          /\ (in \o Take(n, pump.buf)) \o Held("feed")' = in \o pump.buf
          /\ pump'.pc # "show" /\ pump'.pc # "done"
        BY <1>1, <1>7, <2>1
    <2>3. in' = in \o Take(n, pump.buf)
        <3>1. read \o (toGuest \o Take(n, pump.buf)) = (read \o toGuest) \o Take(n, pump.buf)
            <4>1. read \in Stream /\ toGuest \in Stream
                BY DEF PumpTypeOK
            <4> QED BY <2>2, <4>1, Assoc, Zenon
        <3> QED BY <2>1, <3>1, Zenon
    <2>4. AllIn' = AllIn /\ AllOut' = AllOut
        BY <2>1, <2>2, <2>3 DEF AllIn, AllOut, Held
    <2>5. AllIn' = Bytes(Input)
        BY <2>1, <2>4 DEF PumpInv
    <2>6. in' = Bytes(Len(in'))
        <3>1. in' \in Stream /\ Held("feed")' \in Stream /\ stdin' \in Stream
            BY <2>1, PumpTypeStep DEF PumpTypeOK, Held, Stream, Pump
        <3>2. in' \o (Held("feed")' \o stdin') = Bytes(Input) /\ Held("feed")' \o stdin' \in Stream
            BY <2>5, <3>1, Assoc DEF AllIn
        <3> QED BY <3>1, <3>2, Beginning DEF PumpSizes
    <2> QED BY <2>1, <2>2, <2>4, <2>5, <2>6 DEF PumpInv
<1>9. CASE Show
    <2>1. PICK n \in 1..Len(pump.buf) :
             /\ pump.pc = "show" /\ shown' = shown \o Take(n, pump.buf)
             /\ pump' = IF n = Len(pump.buf) THEN [Handled EXCEPT !.pc = "event", !.buf = <<>>]
                        ELSE [pump EXCEPT !.buf = Drop(n, @)]
             /\ UNCHANGED <<stdin, read, written, toHost, toGuest, slave, cut>>
        BY <1>9 DEF Show
    <2>2. /\ shown' \o Held("show")' = shown \o pump.buf
          /\ pump'.pc # "feed" /\ pump'.pc # "done"
        BY <1>7, <2>1 DEF PumpTypeOK
    <2>3. AllIn' = AllIn /\ AllOut' = AllOut
        BY <2>1, <2>2 DEF AllIn, AllOut, Held
    <2>4. ASSUME ~cut PROVE shown' = Bytes(Len(shown'))
        <3>1. shown' \in Stream /\ Held("show")' \in Stream /\ toHost' \in Stream
            BY <1>9, PumpTypeStep DEF PumpTypeOK, Held, Stream, Pump
        <3>2. AllOut' = Bytes(written)
            BY <2>1, <2>3, <2>4 DEF PumpInv
        <3>3. shown' \o (Held("show")' \o toHost') = AllOut'
              /\ Held("show")' \o toHost' \in Stream
            BY <3>1, Assoc DEF AllOut
        <3> QED BY <3>1, <3>2, <3>3, Beginning DEF PumpTypeOK
    <2> QED BY <2>1, <2>2, <2>3, <2>4 DEF PumpInv
<1>10. CASE FeedFails
    <2>1. /\ ~slave' /\ pump.pc = "feed" /\ pump'.pc = "event"
          /\ UNCHANGED <<shown, toHost, written, cut, read, toGuest>>
        BY <1>10 DEF FeedFails, Handled, PumpTypeOK
    <2> QED BY <2>1 DEF PumpInv, AllOut, Held
<1>11. CASE ShowFails
    <2>1. /\ cut' /\ pump.pc = "show" /\ pump'.pc = "event"
          /\ UNCHANGED <<shown, toHost, written, read, toGuest, stdin, slave>>
        BY <1>11 DEF ShowFails, Handled, PumpTypeOK
    <2>2. Ordered(shown \o toHost, written)
        BY <1>1, OrderedCut DEF PumpInv, AllOut, PumpTypeOK
    <2>3. AllOut' = shown \o toHost
        <3>1. shown \o <<>> = shown
            BY Unit DEF PumpTypeOK
        <3> QED BY <2>1, <3>1 DEF AllOut, Held
    <2> QED BY <2>1, <2>2, <2>3 DEF PumpInv, AllIn, Held
<1>12. ASSUME pump.pc \notin {"feed", "show", "done"}, pump'.pc \notin {"feed", "show"},
              UNCHANGED <<stdin, toGuest, read, written, toHost, shown, slave, cut>>
       PROVE  PumpInv'
    BY <1>12, NothingMoves DEF AllIn, AllOut, Held
<1>13. CASE Sleep \/ StdinEnd \/ StdinFails \/ HungUp \/ BatchDone
    <2>1. pump.pc \notin {"feed", "show", "done"} /\ pump'.pc \notin {"feed", "show"}
        <3>1. CASE Sleep
            BY <3>1 DEF Sleep, PumpTypeOK
        <3>2. CASE StdinEnd \/ StdinFails
            BY <3>2 DEF StdinEnd, StdinFails, Event, Pumping, PumpTypeOK
        <3>3. CASE HungUp
            BY <3>3 DEF HungUp, Event, Handled, PumpTypeOK
        <3>4. CASE BatchDone
            BY <3>4 DEF BatchDone, Pumping, PumpTypeOK
        <3> QED BY <1>13, <3>1, <3>2, <3>3, <3>4
    <2> QED BY <1>12, <1>13, <2>1 DEF Sleep, StdinEnd, StdinFails, HungUp, BatchDone
<1>14. ASSUME NEW s \in HostSig, RouteSignal(s) PROVE PumpInv'
    <2>1. pump.pc = "event" /\ pump'.pc = "event"
        BY <1>14 DEF RouteSignal, Event, Handled, PumpTypeOK
    <2> QED BY <1>12, <1>14, <2>1 DEF RouteSignal
<1>15. ASSUME NEW s \in HostSig, Raise(s) PROVE PumpInv'
    BY <1>15, NothingMoves DEF Raise, AllIn, AllOut, Held
<1>16. CASE UNCHANGED pumpVars
    BY <1>16, NothingMoves DEF pumpVars, AllIn, AllOut, Held
<1> QED
    BY <1>2, <1>3, <1>4, <1>5, <1>6, <1>8, <1>9, <1>10, <1>11, <1>13, <1>14, <1>15, <1>16
       DEF Guest, Pump

---------------------------------------------------------------------------
(* The theorems *)

ConsoleInv == IInv /\ PumpTypeOK /\ PumpInv

\* The invariant of the terminals and of the pump holds of both together.
THEOREM Inductive ==
    ASSUME ProcessesAndTerminals, PumpSizes
    PROVE  ConsoleSpec => []ConsoleInv
<1>1. ConsoleInit => ConsoleInv
    <2> SUFFICES ASSUME ConsoleInit PROVE ConsoleInv
        OBVIOUS
    <2>1. IInv
        BY InitInv DEF ConsoleInit, ProcessesAndTerminals
    <2>2. Bytes(Input) \in Stream /\ Bytes(0) = <<>> /\ <<>> \in Stream
        BY DEF PumpSizes, Bytes, Stream
    <2>3. PumpTypeOK
        BY <2>2 DEF ConsoleInit, PumpInit, PumpTypeOK, Pumping
    <2>4. <<>> \o <<>> = <<>> /\ <<>> \o Bytes(Input) = Bytes(Input)
        BY <2>2 DEF Stream
    <2>5. PumpInv
        <3>1. <<>> = Bytes(Len(<<>>)) /\ DOMAIN <<>> = {}
            BY <2>2
        <3> QED BY <2>2, <2>4, <3>1 DEF ConsoleInit, PumpInit, PumpInv, Ordered, Ascending, AllIn,
                                       AllOut, Held, Pumping
    <2> QED BY <2>1, <2>3, <2>5 DEF ConsoleInv
<1>2. ConsoleInv /\ [ConsoleNext]_consoleVars => ConsoleInv'
    <2> SUFFICES ASSUME ConsoleInv, [ConsoleNext]_consoleVars PROVE ConsoleInv'
        OBVIOUS
    <2>1. [Next]_vars \/ \E s \in HostSig : HostSignal(s)
        BY DEF ConsoleNext, PumpStep, consoleVars
    <2>2. \/ Guest \/ Pump \/ (\E s \in HostSig : Raise(s) \/ RouteSignal(s))
          \/ UNCHANGED pumpVars
        BY DEF ConsoleNext, PumpStep, Outside, consoleVars
    <2>3. IInv'
        <3>1. ASSUME NEW s \in HostSig, HostSignal(s) PROVE IInv'
            BY <3>1 DEF ConsoleInv, HostSignal, IInv, TypeOK, OneSession, Recorded, Taking,
                        NobodyInCall, ForegroundOfSession, Live, Lives
        <3> QED BY <2>1, <3>1, InvStep DEF ConsoleInv
    <2>4. PumpTypeOK' /\ PumpInv'
        BY <2>2, PumpTypeStep, PumpInvStep DEF ConsoleInv
    <2> QED BY <2>3, <2>4 DEF ConsoleInv
<1> QED BY <1>1, <1>2, PTL DEF ConsoleSpec

\* Whatever processes call setsid, TIOCSCTTY (with force or without) and exit in any
\* order, a terminal is the controlling terminal of one session at most, its owner_.
THEOREM TerminalHasOneSession ==
    ASSUME ProcessesAndTerminals, PumpSizes
    PROVE  ConsoleSpec => []OneSession
<1>1. ConsoleInv => OneSession
    BY DEF ConsoleInv, IInv
<1> QED BY <1>1, Inductive, PTL

\* The group TIOCSPGRP or TIOCSCTTY has stored in a terminal is a group of the session
\* the terminal controls, although both store it outside of pid_map_mutex.
THEOREM ForegroundIsOwn ==
    ASSUME ProcessesAndTerminals, PumpSizes
    PROVE  ConsoleSpec => []ForegroundOfSession
<1>1. ConsoleInv => ForegroundOfSession
    BY DEF ConsoleInv, IInv
<1> QED BY <1>1, Inductive, PTL

\* However much the pump reads at a time and the terminal takes, and wherever a read, a
\* write or the guest's end of the terminal fails: the guest reads the input from its
\* beginning without a gap, the host sees no byte twice and none overtaken; a byte is
\* lost only by a failed write, by the guest's close, or in what the pump leaves behind.
THEOREM PumpKeepsOrder ==
    ASSUME ProcessesAndTerminals, PumpSizes
    PROVE  ConsoleSpec => []InOrder
<1>1. ConsoleInv => InOrder
    <2> SUFFICES ASSUME ConsoleInv PROVE InOrder
        OBVIOUS
    <2>1. read \in Stream /\ toGuest \in Stream /\ read \o toGuest \in Stream
        BY Assoc DEF ConsoleInv, PumpTypeOK
    <2>2. Len(read \o toGuest) \in Nat
        BY <2>1 DEF Stream
    <2>3. read = Bytes(Len(read))
        BY <2>1, <2>2, Beginning DEF ConsoleInv, PumpInv
    <2> QED BY <2>3 DEF ConsoleInv, PumpInv, InOrder, AllIn, AllOut, Ordered
<1> QED BY <1>1, Inductive, PTL
=============================================================================
