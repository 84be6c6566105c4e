------------------------------ MODULE Console ------------------------------
(***************************************************************************)
(* The pump thread and the guest's sessions together: a host signal the    *)
(* pump reads goes, in the same step, to the foreground group of the first *)
(* process's terminal, or to its own group when it has none.               *)
(***************************************************************************)
EXTENDS Terminal, PtyPump

consoleVars == <<vars, pumpVars>>

\* PosixSyscall::init: without a pseudo-terminal the first process has no terminal.
ConsoleInit == PumpInit /\ Started(IF mode = "pty" THEN console ELSE None)

Outside == Guest \/ \E s \in HostSig : Raise(s)

PumpStep ==
    \/ Pump /\ UNCHANGED vars
    \/ \E s \in HostSig : RouteSignal(s) /\ HostSignal(s)

ConsoleNext ==
    \/ Next /\ UNCHANGED pumpVars
    \/ Outside /\ UNCHANGED vars
    \/ PumpStep

\* The pump thread runs as long as it has something to do.
ConsoleFairness == WF_consoleVars(PumpStep)

ConsoleSpec == ConsoleInit /\ [][ConsoleNext]_consoleVars /\ ConsoleFairness

\* A host signal ends up with somebody: with a member of the foreground group of the
\* first process's terminal, unless that group has no member left, the pump has ended,
\* or the guest never reads its full terminal; with a member of the first process's own
\* group, always, when bpfvm runs without a pseudo-terminal and none was acquired.
SignalArrives ==
    \A s \in HostSig :
        s \in pending ~> \/ \E p \in Pid : s \in got[p]
                        \/ Targets = {} \/ pump.pc = "done" \/ [](pump.pc = "feed")
=============================================================================
