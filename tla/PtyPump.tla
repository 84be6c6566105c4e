------------------------------ MODULE PtyPump ------------------------------
(***************************************************************************)
(* The pump thread (pty.cpp): it copies the host's standard input to the   *)
(* master of the guest's terminal and the master's output to standard      *)
(* output, and routes the blocked host signals to the guest.               *)
(*                                                                         *)
(* Input and output are sequences of bytes 1, 2, ...; the host side of the *)
(* terminal (its line discipline and the epoll set) is external.           *)
(***************************************************************************)
EXTENDS Naturals, FiniteSets, Functions, Sequences

CONSTANTS
    Input,      \* bytes standard input supplies before its end of file
    Output,     \* bytes the guest writes to its terminal
    Capacity,   \* bytes the terminal buffers in each direction
    Chunk,      \* bytes a read takes at most (buf)
    HostSig,    \* host signals that may be raised
    Mode        \* {"pty"}, {"plain"} or both: the ways bpfvm is started

VARIABLES
    mode,       \* whether there is a pseudo-terminal
    stdin,      \* bytes not read yet; the end of file is behind them
    toGuest,    \* bytes in the terminal the guest has not read
    read,       \* bytes the guest has read
    written,    \* number of bytes the guest has written
    toHost,     \* bytes in the terminal the pump has not read
    shown,      \* bytes written to standard output
    slave,      \* the guest has the slave open
    master,     \* the pump has the master open
    pending,    \* host signals raised and not read from the signalfd
    routed,     \* signals handed to host_signal
    pump,       \* the pump thread
    cut         \* history: a write to standard output has failed

pumpVars == <<mode, stdin, toGuest, read, written, toHost, shown, slave, master, pending,
              routed, pump, cut>>

Bytes(n) == [k \in 1..n |-> k]

Pumping == [pc |-> "wait", events |-> <<>>, error |-> FALSE, buf |-> <<>>]

PumpInit ==
    /\ mode \in Mode
    /\ stdin = Bytes(Input) /\ toGuest = <<>> /\ read = <<>> /\ written = 0
    /\ toHost = <<>> /\ shown = <<>> /\ pending = {} /\ routed = {}
    /\ slave = (mode = "pty") /\ master = (mode = "pty")
    /\ pump = Pumping /\ cut = FALSE

---------------------------------------------------------------------------
(* The guest and the host *)

\* Once the pump has closed the master, a write fails.
GuestWrite ==
    /\ slave /\ master /\ written < Output /\ Len(toHost) < Capacity
    /\ written' = written + 1 /\ toHost' = Append(toHost, written + 1)
    /\ UNCHANGED <<mode, stdin, toGuest, read, shown, slave, master, pending, routed, pump, cut>>

GuestRead ==
    /\ slave /\ toGuest # <<>>
    /\ read' = Append(read, Head(toGuest)) /\ toGuest' = Tail(toGuest)
    /\ UNCHANGED <<mode, stdin, written, toHost, shown, slave, master, pending, routed, pump, cut>>

\* The last guest descriptor of the terminal is closed.
GuestClose ==
    /\ slave /\ slave' = FALSE
    /\ UNCHANGED <<mode, stdin, toGuest, read, written, toHost, shown, master, pending,
                   routed, pump, cut>>

Raise(s) ==
    /\ s \notin pending \cup routed /\ pending' = pending \cup {s}
    /\ UNCHANGED <<mode, stdin, toGuest, read, written, toHost, shown, slave, master,
                   routed, pump, cut>>

---------------------------------------------------------------------------
(* The pump thread *)

\* Mutant: the signalfd is watched only when there is a pseudo-terminal.
ReadyPtyOnly ==
    {e \in {"signal", "master", "hup"} :
        /\ mode = "pty"
        /\ \/ e = "signal" /\ pending # {}
           \/ e = "master" /\ slave /\ toHost # <<>>
           \/ e = "hup" /\ ~slave}

\* What the epoll set reports: the signalfd; the master, readable; the master hung up,
\* once the guest has closed its side; and standard input, readable or at its end, or
\* hung up (as a pipe is without its writer, read or not), as the host likes.
Ready ==
    {e \in {"signal", "master", "hup"} :
        \/ e = "signal" /\ pending # {}
        \/ e = "master" /\ mode = "pty" /\ slave /\ toHost # <<>>
        \/ e = "hup" /\ mode = "pty" /\ ~slave}
HostInput == IF mode = "pty" THEN {{}, {"stdin"}, {"hup"}} ELSE {{}}

Sleep ==
    /\ pump.pc = "wait"
    /\ \E in \in HostInput :
        /\ Ready \cup in # {}
        /\ \E es \in [1..Cardinality(Ready \cup in) -> Ready \cup in] :
            /\ IsInjective(es)
            /\ pump' = [pump EXCEPT !.pc = "event", !.events = es, !.error = FALSE]
    /\ UNCHANGED <<mode, stdin, toGuest, read, written, toHost, shown, slave, master,
                   pending, routed, cut>>

Take(n, s) == SubSeq(s, 1, IF Len(s) < n THEN Len(s) ELSE n)
Drop(n, s) == SubSeq(s, n + 1, Len(s))

Event(e) == pump.pc = "event" /\ pump.events # <<>> /\ Head(pump.events) = e
Handled == [pump EXCEPT !.events = Tail(@)]

\* Read the signalfd until it is empty, one signal at a time.
RouteSignal(s) ==
    /\ Event("signal") /\ s \in pending
    /\ pending' = pending \ {s} /\ routed' = routed \cup {s}
    /\ pump' = IF pending = {s} THEN Handled ELSE pump
    /\ UNCHANGED <<mode, stdin, toGuest, read, written, toHost, shown, slave, master, cut>>

\* End of file on standard input: the master is closed and the thread ends.
StdinEnd ==
    /\ Event("stdin") /\ stdin = <<>>
    /\ master' = FALSE /\ pump' = [Pumping EXCEPT !.pc = "done"]
    /\ UNCHANGED <<mode, stdin, toGuest, read, written, toHost, shown, slave, pending, routed, cut>>

\* ... which a read that fails does not close.
StdinFails ==
    /\ Event("stdin")
    /\ pump' = [Pumping EXCEPT !.pc = "done"]
    /\ UNCHANGED <<mode, stdin, toGuest, read, written, toHost, shown, slave, master,
                   pending, routed, cut>>

StdinRead ==
    /\ Event("stdin") /\ stdin # <<>>
    /\ pump' = [pump EXCEPT !.pc = "feed", !.buf = Take(Chunk, stdin)]
    /\ stdin' = Drop(Len(Take(Chunk, stdin)), stdin)
    /\ UNCHANGED <<mode, toGuest, read, written, toHost, shown, slave, master, pending, routed, cut>>

\* Mutant: a short write is taken for a whole one.
FeedOnce ==
    \E n \in 1..Len(pump.buf) :
        /\ pump.pc = "feed" /\ slave /\ Len(toGuest) + n <= Capacity
        /\ toGuest' = toGuest \o Take(n, pump.buf)
        /\ pump' = [Handled EXCEPT !.pc = "event", !.buf = <<>>]
        /\ UNCHANGED <<mode, stdin, read, written, toHost, shown, slave, master, pending, routed, cut>>

\* write(master) takes what there is room for, and is repeated for the rest.
Feed ==
    \E n \in 1..Len(pump.buf) :
        /\ pump.pc = "feed" /\ slave /\ Len(toGuest) + n <= Capacity
        /\ toGuest' = toGuest \o Take(n, pump.buf)
        /\ pump' = IF n = Len(pump.buf) THEN [Handled EXCEPT !.pc = "event", !.buf = <<>>]
                   ELSE [pump EXCEPT !.buf = Drop(n, @)]
        /\ UNCHANGED <<mode, stdin, read, written, toHost, shown, slave, master, pending, routed, cut>>

\* Nobody has the slave open: the write fails, the rest of the chunk is dropped.
FeedFails ==
    /\ pump.pc = "feed" /\ ~slave
    /\ pump' = [Handled EXCEPT !.pc = "event", !.buf = <<>>]
    /\ UNCHANGED <<mode, stdin, toGuest, read, written, toHost, shown, slave, master,
                   pending, routed, cut>>

MasterRead ==
    /\ Event("master")
    /\ pump' = [pump EXCEPT !.pc = "show", !.buf = Take(Chunk, toHost)]
    /\ toHost' = Drop(Len(Take(Chunk, toHost)), toHost)
    /\ UNCHANGED <<mode, stdin, toGuest, read, written, shown, slave, master, pending, routed, cut>>

Show ==
    \E n \in 1..Len(pump.buf) :
        /\ pump.pc = "show"
        /\ shown' = shown \o Take(n, pump.buf)
        /\ pump' = IF n = Len(pump.buf) THEN [Handled EXCEPT !.pc = "event", !.buf = <<>>]
                   ELSE [pump EXCEPT !.buf = Drop(n, @)]
        /\ UNCHANGED <<mode, stdin, toGuest, read, written, toHost, slave, master, pending, routed, cut>>

\* write(STDOUT) fails: the rest of the chunk is dropped, and the pump goes on.
ShowFails ==
    /\ pump.pc = "show"
    /\ pump' = [Handled EXCEPT !.pc = "event", !.buf = <<>>] /\ cut' = TRUE
    /\ UNCHANGED <<mode, stdin, toGuest, read, written, toHost, shown, slave, master,
                   pending, routed>>

\* A hang-up is noted; the other events of the batch are still handled.
HungUp ==
    /\ Event("hup")
    /\ pump' = [Handled EXCEPT !.error = TRUE]
    /\ UNCHANGED <<mode, stdin, toGuest, read, written, toHost, shown, slave, master,
                   pending, routed, cut>>

BatchDone ==
    /\ pump.pc = "event" /\ pump.events = <<>>
    /\ pump' = IF pump.error THEN [Pumping EXCEPT !.pc = "done"] ELSE Pumping
    /\ UNCHANGED <<mode, stdin, toGuest, read, written, toHost, shown, slave, master,
                   pending, routed, cut>>

Guest == GuestWrite \/ GuestRead \/ GuestClose
\* What the pump does by itself; RouteSignal involves the guest's sessions too.
Pump ==
    \/ Sleep \/ StdinEnd \/ StdinFails \/ StdinRead \/ Feed \/ FeedFails \/ MasterRead
    \/ Show \/ ShowFails \/ HungUp \/ BatchDone

---------------------------------------------------------------------------
(* Properties *)

Held(pc) == IF pump.pc = pc THEN pump.buf ELSE <<>>
Ascending(s) == \A i, j \in DOMAIN s : i < j => s[i] < s[j]

\* Whatever the sizes of the reads and the short writes: the guest reads the input from
\* its beginning without a gap, and until the pump ends or the guest gives up its
\* terminal, what it has not read is in the terminal, with the pump or in standard input.
\* The host sees nothing twice and nothing overtaken; unless a write to standard output
\* fails it sees the output from its beginning without a gap, and until the pump ends
\* the rest is with the pump or in the terminal.  (What is there when it ends stays.)
InOrder ==
    /\ read = Bytes(Len(read))
    /\ slave /\ pump.pc # "done" => read \o toGuest \o Held("feed") \o stdin = Bytes(Input)
    /\ Ascending(shown \o Held("show") \o toHost)
    /\ ~cut => shown = Bytes(Len(shown))
    /\ ~cut /\ pump.pc # "done" => shown \o Held("show") \o toHost = Bytes(written)
=============================================================================
