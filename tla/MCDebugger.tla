----------------------------- MODULE MCDebugger -----------------------------
(* One session of GDB, for TLC: two tasks that stop and continue each other.    *)
EXTENDS Debugger, Sequences

Kills == {[kind |-> [a \in 0..1 |-> <<"fork", "kill">>[a + 1]],
           catch |-> FALSE, events |-> FALSE, stop |-> TRUE, packets |-> 3]}
=============================================================================
