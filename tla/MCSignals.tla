----------------------------- MODULE MCSignals -----------------------------
(***************************************************************************)
(* Signals for TLC: a behaviour has one sender and a thread that waits in  *)
(* wait_for and sigsuspend, or two senders and a thread that also makes    *)
(* host system calls, reads a signalfd, jumps and changes dispositions.    *)
(***************************************************************************)
EXTENDS Signals

CONSTANTS s1, s2

VARIABLE which      \* "calls" or "host"

Host == INSTANCE Signals WITH
    Sender <- {s1, s2}, Sig <- {"A"},
    Disp <- {"catch", "ign", "dfl_ign", "dfl_term", "dfl_stop"}, MaxDepth <- 1,
    Special <- {"KILL", "STOP", "CONT"},
    Ops <- {"cond", "host", "mask", "action", "signalfd", "longjmp"}

suiteVars == <<vars, which>>

SuiteInit == which \in {"calls", "host"} /\ IF which = "calls" THEN Init ELSE Host!Init
Calls(A) == which = "calls" /\ A /\ UNCHANGED which
Hosts(A) == which = "host" /\ A /\ UNCHANGED which
SuiteNext == Calls(Next) \/ Hosts(Host!Next)

SuiteSpec ==
    /\ SuiteInit /\ [][SuiteNext]_suiteVars
    /\ WF_suiteVars(Calls(Target)) /\ \A s \in Sender : WF_suiteVars(Calls(SendKick(s)))

---------------------------------------------------------------------------
\* The restart of an interrupted call is honoured, unless SIGCONT withdraws the stop the
\* call was interrupted by before deliver_signal looks (the second kind).
CallsRestartHonoured == which = "calls" => RestartHonoured

\* The signals and kills of the first kind get through; the senders of the second kind
\* can lose a kick (queue_signal and a host call), which SignalsKickLost shows.
CallsGetThrough == which = "calls" => Delivered /\ KillEnds
=============================================================================
