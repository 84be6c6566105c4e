------------------------------ MODULE Terminal ------------------------------
(***************************************************************************)
(* Sessions, process groups and controlling terminals: session.cpp, the    *)
(* terminal requests of do_ioctl, tty_bg_check and deliver_to_ctty_fg.     *)
(*                                                                         *)
(* A session and a group are named by the pid they were made with.  The    *)
(* only lock is pid_map_mutex; what a call does outside of it is a step of *)
(* its own, so that a parent's setpgid meets its child's setsid, and two   *)
(* sessions take the same terminal at once.                                *)
(***************************************************************************)
EXTENDS Naturals, FiniteSets

CONSTANTS
    Pid,        \* process ids, 1 the first process
    Tty,        \* terminals; console is the one whose master the pump has
    console,
    None,
    Ignoring,   \* processes that ignore SIGTTIN and SIGTTOU, as shells do
    Quota       \* bounds tried on the calls the processes make in all

VARIABLES
    sess,       \* sess[p]: the session of p, None when p does not exist
    grp,        \* grp[p]: its group
    par,        \* par[p]: its parent
    ctty,       \* ctty[s]: Session::ctty
    owner,      \* owner[t]: GuestTty::owner_
    fg,         \* fg[t]: GuestTty::fg_pgrp, 0 when none
    got,        \* got[p]: terminal signals queued for p
    act,        \* act[p]: the call p is in
    groups,     \* history: the groups each session has had, <<session, group>>
    overtaken,  \* history: terminals taken while another session was taking them
    left        \* calls that may still be made

vars == <<sess, grp, par, ctty, owner, fg, got, act, groups, overtaken, left>>

Idle == [pc |-> "run", who |-> 1, group |-> 0, tty |-> console, force |-> FALSE]

\* The first process, with the controlling terminal tty or with None.
Started(tty) ==
    /\ sess = [p \in Pid |-> IF p = 1 THEN 1 ELSE None]
    /\ grp = [p \in Pid |-> IF p = 1 THEN 1 ELSE 0]
    /\ par = [p \in Pid |-> 0]
    /\ ctty = [s \in Pid |-> IF s = 1 THEN tty ELSE None]
    /\ owner = [t \in Tty |-> IF t = tty THEN 1 ELSE None]
    /\ fg = [t \in Tty |-> IF t = tty THEN 1 ELSE 0]
    /\ got = [p \in Pid |-> {}] /\ act = [p \in Pid |-> Idle]
    /\ groups = {<<1, 1>>} /\ overtaken = {} /\ left \in Quota

---------------------------------------------------------------------------
Lives(p) == sess[p] # None
Live == {p \in Pid : Lives(p)}

\* A process makes a call; a stopped one makes none.
Calls(p) == Lives(p) /\ act[p].pc = "run" /\ got[p] \cap {"TTIN", "TTOU"} = {}
            /\ left > 0 /\ left' = left - 1
At(p, pc) == Lives(p) /\ act[p].pc = pc /\ UNCHANGED left

Goto(p, r) == act' = [act EXCEPT ![p] = r]
Return(p) == Goto(p, Idle)

\* The groups there have been, with the change of this step.
Record == groups' = groups \cup {<<sess'[p], grp'[p]>> : p \in {q \in Pid : sess'[q] # None}}

---------------------------------------------------------------------------
(* Processes and groups *)

Fork(p, q) ==
    /\ Calls(p) /\ ~Lives(q) /\ \A s \in Pid : <<q, s>> \notin groups /\ <<s, q>> \notin groups
    /\ sess' = [sess EXCEPT ![q] = sess[p]] /\ grp' = [grp EXCEPT ![q] = grp[p]]
    /\ par' = [par EXCEPT ![q] = p]
    /\ UNCHANGED <<ctty, owner, fg, got, act, groups, overtaken>>

\* The end of a process leaves its session's terminal as it is.
Exit(p) ==
    /\ Calls(p) /\ p # 1
    /\ sess' = [sess EXCEPT ![p] = None]
    /\ par' = [q \in Pid |-> IF par[q] = p THEN 1 ELSE par[q]]
    /\ UNCHANGED <<grp, ctty, owner, fg, got, act, groups, overtaken>>

Setsid(p) ==
    /\ Calls(p) /\ grp[p] # p
    /\ sess' = [sess EXCEPT ![p] = p] /\ grp' = [grp EXCEPT ![p] = p]
    /\ ctty' = [ctty EXCEPT ![p] = None]
    /\ Record
    /\ UNCHANGED <<par, owner, fg, got, act, overtaken>>

\* setpgid of p itself or of a child: the checks, ...
Setpgid(p, q, g) ==
    /\ Calls(p) /\ Lives(q) /\ (q = p \/ par[q] = p)
    /\ sess[q] = sess[p] /\ sess[q] # q /\ grp[q] # g
    /\ g # q => Lives(g) /\ sess[g] = sess[p]
    /\ Goto(p, [Idle EXCEPT !.pc = "setpgid", !.who = q, !.group = g])
    /\ UNCHANGED <<sess, grp, par, ctty, owner, fg, got, groups, overtaken>>

\* ... and the new group.
SetpgidStore(p) ==
    /\ At(p, "setpgid")
    /\ grp' = [grp EXCEPT ![act[p].who] = act[p].group]
    /\ Return(p) /\ UNCHANGED sess /\ Record
    /\ UNCHANGED <<par, ctty, owner, fg, got, overtaken>>

---------------------------------------------------------------------------
(* The controlling terminal *)

\* TIOCSCTTY: a session leader, and not of the terminal it has already.
Sctty(p, t, force) ==
    /\ Calls(p) /\ sess[p] = p /\ ctty[p] # t
    /\ Goto(p, [Idle EXCEPT !.pc = "sctty", !.tty = t, !.force = force])
    /\ UNCHANGED <<sess, grp, par, ctty, owner, fg, got, groups, overtaken>>

\* Mutant: the session that had the terminal keeps it.
ScttyTakeOnly(p) ==
    LET t == act[p].tty
    IN  /\ At(p, "sctty") /\ (owner[t] \in {None, p} \/ act[p].force)
        /\ ctty' = [ctty EXCEPT ![p] = t]
        /\ owner' = [owner EXCEPT ![t] = p]
        /\ overtaken' = overtaken \cup {u \in {t} : \E q \in Pid \ {p} :
                                          act[q].pc = "scttyfg" /\ act[q].tty = u}
        /\ Goto(p, [act[p] EXCEPT !.pc = "scttyfg"])
        /\ UNCHANGED <<sess, grp, par, fg, got, groups>>

\* Under the lock: take it from the session that has it, if forced, and bind it.
ScttyTake(p) ==
    LET t == act[p].tty
    IN  /\ At(p, "sctty") /\ (owner[t] \in {None, p} \/ act[p].force)
        /\ ctty' = [s \in Pid |-> IF s = p THEN t
                                  ELSE IF s = owner[t] THEN None ELSE ctty[s]]
        /\ owner' = [owner EXCEPT ![t] = p]
        /\ overtaken' = overtaken \cup {u \in {t} : \E q \in Pid \ {p} :
                                          act[q].pc = "scttyfg" /\ act[q].tty = u}
        /\ Goto(p, [act[p] EXCEPT !.pc = "scttyfg"])
        /\ UNCHANGED <<sess, grp, par, fg, got, groups>>

ScttyRefused(p) ==
    /\ At(p, "sctty") /\ owner[act[p].tty] \notin {None, p} /\ ~act[p].force
    /\ Return(p)
    /\ UNCHANGED <<sess, grp, par, ctty, owner, fg, got, groups, overtaken>>

\* The foreground group is stored after the lock is released.
ScttyForeground(p) ==
    /\ At(p, "scttyfg")
    /\ fg' = [fg EXCEPT ![act[p].tty] = grp[p]]
    /\ Return(p)
    /\ UNCHANGED <<sess, grp, par, ctty, owner, got, groups, overtaken>>

\* Mutant: any group that exists will do.
SpgrpAnywhere(p, g) ==
    /\ Calls(p) /\ ctty[sess[p]] # None /\ \E q \in Live : grp[q] = g
    /\ Goto(p, [Idle EXCEPT !.pc = "spgrp", !.group = g])
    /\ UNCHANGED <<sess, grp, par, ctty, owner, fg, got, groups, overtaken>>

\* TIOCSPGRP: a group with a member in the session, ...
Spgrp(p, g) ==
    /\ Calls(p) /\ ctty[sess[p]] # None
    /\ \E q \in Live : sess[q] = sess[p] /\ grp[q] = g
    /\ Goto(p, [Idle EXCEPT !.pc = "spgrp", !.group = g])
    /\ UNCHANGED <<sess, grp, par, ctty, owner, fg, got, groups, overtaken>>

\* ... stored in the terminal the session has by now.  Undefined when it has lost it.
SpgrpStore(p) ==
    /\ At(p, "spgrp")
    /\ IF ctty[sess[p]] = None THEN UNCHANGED fg
       ELSE fg' = [fg EXCEPT ![ctty[sess[p]]] = act[p].group]
    /\ Return(p)
    /\ UNCHANGED <<sess, grp, par, ctty, owner, got, groups, overtaken>>

---------------------------------------------------------------------------
(* Terminal access and terminal signals *)

\* tty_bg_check: p is in the background of its own terminal t.
Background(p, t) == ctty[sess[p]] = t /\ fg[t] # 0 /\ grp[p] # fg[t]

Queue(ps, sig) == got' = [p \in Pid |-> IF p \in ps THEN got[p] \cup {sig} ELSE got[p]]

\* A read in the background: EIO for who ignores SIGTTIN, SIGTTIN for the others.
ReadTty(p, t) ==
    /\ Calls(p) /\ Background(p, t)
    /\ Queue({p} \ Ignoring, "TTIN")
    /\ UNCHANGED <<sess, grp, par, ctty, owner, fg, act, groups, overtaken>>

\* A write in the background with TOSTOP set: SIGTTOU, and the write goes on for who
\* ignores it (the signal is queued all the same, and dropped).
WriteTty(p, t) ==
    /\ Calls(p) /\ Background(p, t)
    /\ Queue({p} \ Ignoring, "TTOU")
    /\ UNCHANGED <<sess, grp, par, ctty, owner, fg, act, groups, overtaken>>

\* SIGCONT ends the stop.
Continue(p) ==
    /\ Lives(p) /\ got[p] \cap {"TTIN", "TTOU"} # {}
    /\ got' = [got EXCEPT ![p] = @ \ {"TTIN", "TTOU"}]
    /\ UNCHANGED <<sess, grp, par, ctty, owner, fg, act, groups, overtaken, left>>

\* deliver_to_ctty_fg: the members of the foreground group that have the terminal.
Foreground(t) ==
    IF owner[t] = None THEN {} ELSE {p \in Live : grp[p] = fg[t] /\ ctty[sess[p]] = t}

\* host_signal, on behalf of the first process: the foreground of its terminal, or
\* without one its own group; when that is empty, itself.
Targets ==
    LET t == ctty[sess[1]]
        own == {p \in Live : grp[p] = grp[1] /\ sess[p] = sess[1]}
    IN  IF t # None THEN Foreground(t) ELSE IF own # {} THEN own ELSE {1}

HostSignal(sig) ==
    /\ Queue(Targets, sig)
    /\ UNCHANGED <<sess, grp, par, ctty, owner, fg, act, groups, overtaken, left>>

\* The last master of a terminal is closed by p.
HangUp(p, t) ==
    /\ Calls(p) /\ t # console
    /\ Queue(Foreground(t), "HUP")
    /\ UNCHANGED <<sess, grp, par, ctty, owner, fg, act, groups, overtaken>>

Step(p) ==
    \/ Exit(p) \/ Setsid(p) \/ SetpgidStore(p) \/ Continue(p)
    \/ ScttyTake(p) \/ ScttyRefused(p) \/ ScttyForeground(p) \/ SpgrpStore(p)
    \/ \E q \in Pid : Fork(p, q) \/ Spgrp(p, q)
    \/ \E q, g \in Pid : Setpgid(p, q, g)
    \/ \E t \in Tty : ReadTty(p, t) \/ WriteTty(p, t) \/ HangUp(p, t)
    \/ \E t \in Tty, force \in BOOLEAN : Sctty(p, t, force)

Next == \E p \in Pid : Step(p)

---------------------------------------------------------------------------
(* Properties *)

\* A terminal controls one session at most, the one it says owns it, although sessions
\* take terminals from each other and bind a second one while they have a first.
OneSession == \A s \in Pid : ctty[s] # None => owner[ctty[s]] = s

\* The foreground group of a terminal is a group of the session the terminal controls,
\* once TIOCSCTTY has stored it: a terminal signal and tty_bg_check never go by a group
\* of somebody else.  (Of a terminal that two sessions took at the same time this is not
\* so: the first one's store comes last.)
ForegroundOfSession ==
    \A t \in Tty \ overtaken :
        /\ owner[t] # None /\ fg[t] # 0 /\ ctty[owner[t]] = t
        /\ \A p \in Pid : act[p].pc = "scttyfg" => act[p].tty # t
        => <<owner[t], fg[t]>> \in groups

\* All processes of a group are in the same session.
GroupInOneSession == \A p, q \in Live : grp[p] = grp[q] => sess[p] = sess[q]

\* TIOCSPGRP finds the terminal it looked for still there.
TerminalThere == \A p \in Live : act[p].pc = "spgrp" => ctty[sess[p]] # None
=============================================================================
