---------------------------- MODULE MCJobControl ----------------------------
(***************************************************************************)
(* Who stops and runs whom, for TLC: one behaviour is a behaviour of stops  *)
(* and continues in a thread group, of sessions and their terminals, of the *)
(* pump thread, of the pump with the sessions, or of the debugger.  The     *)
(* variables of the parts that do not run keep their initial values.        *)
(***************************************************************************)
EXTENDS JobControl, Sequences, TLC

CONSTANTS c1, c2, none, d1, d2

VARIABLES
    which,      \* the part that runs
    sess, grp, par, ctty, owner, fg, got, act, groups, overtaken, left,
    mode, stdin, toGuest, read, written, toHost, shown, slave, master, pending, routed, pump,
    cut,
    ses, dflags, at, vpc, native, tasks, cur, srv, told, ran, skipped, packets

\* Three processes, two terminals; a terminal that holds two bytes, three bytes to the
\* guest and two from it.
T == INSTANCE Console WITH
    Pid <- {1, 2, 3}, Tty <- {c1, c2}, console <- c1, None <- none, Ignoring <- {1},
    Quota <- {5}, Input <- 3, Output <- 2, Capacity <- 2, Chunk <- 2, HostSig <- {"INT"},
    Mode <- {"pty"}

\* Two processes that make two calls, and the pump with a terminal it soon fills.
C == INSTANCE Console WITH
    Pid <- {1, 2}, Tty <- {c1}, console <- c1, None <- none, Ignoring <- {1},
    Quota <- {2}, Input <- 2, Output <- 0, Capacity <- 1, Chunk <- 2,
    HostSig <- {"INT"}, Mode <- {"pty", "plain"}

\* A program, in a loop, and what GDB negotiated: a task that forks, with fork events, with
\* --stop and without; two that stop and continue each other; catch syscall, exec events.
Gdb(program, catch, events, stop, bound) ==
    [kind |-> [a \in 0..Len(program) - 1 |-> program[a + 1]], catch |-> catch,
     events |-> events, stop |-> stop, packets |-> bound]

MCSession == {
    Gdb(<<"plain", "fork", "exit">>, FALSE, TRUE, TRUE, 3),
    Gdb(<<"plain", "fork">>, FALSE, TRUE, FALSE, 2),
    Gdb(<<"fork", "kill">>, FALSE, FALSE, TRUE, 3),
    Gdb(<<"plain", "sys", "exec">>, TRUE, TRUE, FALSE, 3),
    Gdb(<<"plain", "sys", "exec">>, FALSE, FALSE, TRUE, 3)}

\* Two tasks and GDB.
D == INSTANCE Debugger WITH
    Vm <- {d1, d2}, Main <- d1, Session <- MCSession, BreakAddr <- {1}, flags <- dflags,
    left <- packets

termVars == <<sess, grp, par, ctty, owner, fg, got, act, groups, overtaken, left>>
pumpVars == <<mode, stdin, toGuest, read, written, toHost, shown, slave, master, pending,
              routed, pump, cut>>
gdbVars == <<ses, dflags, at, vpc, native, tasks, cur, srv, told, ran, skipped, packets>>
suiteVars == <<vars, termVars, pumpVars, gdbVars, which>>

SuiteInit ==
    /\ which \in {"jobs", "terminal", "pump", "console", "debugger"}
    /\ Init
    /\ IF which = "console" THEN C!ConsoleInit ELSE T!ConsoleInit
    /\ D!Init /\ (which # "debugger" => ses = CHOOSE s \in MCSession : TRUE)

Jobs(A) == which = "jobs" /\ A /\ UNCHANGED <<which, termVars, pumpVars, gdbVars>>
Term(A) == which = "terminal" /\ A /\ UNCHANGED <<which, vars, pumpVars, gdbVars>>
Copy(A) == which = "pump" /\ A /\ UNCHANGED <<which, vars, gdbVars>>
Cons(A) == which = "console" /\ A /\ UNCHANGED <<which, vars, gdbVars>>
Debug(A) == which = "debugger" /\ A /\ UNCHANGED <<which, vars, termVars, pumpVars>>

SuiteNext ==
    \/ Jobs(Next) \/ Term(T!Next) \/ Cons(C!ConsoleNext)
    \/ Copy((T!Outside /\ UNCHANGED termVars) \/ T!PumpStep)
    \/ Debug(D!Next)

\* The fairness of each part.
SuiteSpec ==
    /\ SuiteInit /\ [][SuiteNext]_suiteVars
    /\ \A t \in Thread : WF_suiteVars(Jobs(ThreadStep(t)))
    /\ \A s \in Sender : WF_suiteVars(Jobs(SenderStep(s)))
    /\ WF_suiteVars(Copy(T!PumpStep) \/ Cons(C!PumpStep))
    /\ WF_suiteVars(Debug(D!ServerStep /\ UNCHANGED <<ses, packets>>))
    /\ \A v \in {d1, d2} : WF_suiteVars(Debug(D!GuestStep(v) /\ UNCHANGED <<ses, packets>>))

---------------------------------------------------------------------------
\* A terminal controls one session at most, the one it says owns it (TIOCSCTTY).
OneSession == IF which = "console" THEN C!OneSession ELSE T!OneSession

\* The foreground group of a terminal is a group of the session the terminal controls,
\* once TIOCSCTTY has stored it and unless two sessions took it at once.
ForegroundOfSession ==
    IF which = "console" THEN C!ForegroundOfSession ELSE T!ForegroundOfSession

\* The pump thread keeps the bytes of both directions in order, and complete until it
\* ends or a write to standard output fails.
InOrder == IF which = "console" THEN C!InOrder ELSE T!InOrder

\* A host signal the pump can read ends up with a member of the foreground group, or of
\* the first process's group when it has no terminal.
SignalArrives == C!SignalArrives

\* Once GDB has been told of a stop, no traced task completes more than the instruction,
\* or the stretch of compiled code, it was in, unless stop_all_vms passed over it.
AllStop == D!AllStop

\* Once a task has stopped, GDB is told, unless a task that stop_all_vms passed over as
\* job-stopped has been continued.
StopReported == D!StopReported
=============================================================================
