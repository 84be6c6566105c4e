------------------------------ MODULE VmFlags ------------------------------
(***************************************************************************)
(* The flags word of a guest task and the two primitives every blocking    *)
(* operation is built from (src/src/insn.h, src/src/insn.cpp).             *)
(*                                                                         *)
(* A task's flags are the set of the bits that are set.  wait_for sleeps   *)
(* while BLOCKED is set and no interrupting bit is; it re-reads the word   *)
(* after every broadcast and at least once a second, so a sleeping task is *)
(* a task whose WaitDone and WaitInterrupted are both false.               *)
(***************************************************************************)

Flag == {"EXITED", "STOPPED", "KILLED", "SIGNAL_PENDING", "BLOCKED", "DEBUG_STOP"}

\* The bits that make wait_for return -EINTR.
Interrupting == {"KILLED", "SIGNAL_PENDING", "STOPPED", "DEBUG_STOP"}

\* The bits that make safepoint leave the interpreter loop.
Leaving == {"EXITED", "KILLED"}

\* set_flags and clear_flags on the word of task t.
SetFlag(flags, t, f) == [flags EXCEPT ![t] = @ \cup {f}]

ClearFlag(flags, t, f) == [flags EXCEPT ![t] = @ \ {f}]

SetFlagAll(flags, ts, f) ==
    [t \in DOMAIN flags |-> IF t \in ts THEN flags[t] \cup {f} ELSE flags[t]]

ClearFlagAll(flags, ts, f) ==
    [t \in DOMAIN flags |-> IF t \in ts THEN flags[t] \ {f} ELSE flags[t]]

\* wait_for returns 0: some waker ran wakeup(true).  This test comes first in
\* the loop, so a wake-up beats an interruption that arrived with it.
WaitDone(f) == "BLOCKED" \notin f

\* wait_for returns -EINTR.
WaitInterrupted(f) == "BLOCKED" \in f /\ f \cap Interrupting # {}
=============================================================================
