-------------------------------- MODULE Guest --------------------------------
(***************************************************************************)
(* What running a guest program means, whoever runs it: instructions one at  *)
(* a time, signals delivered between two of them, and the ways to end.       *)
(***************************************************************************)
EXTENDS GuestMachine

CONSTANT Signal     \* the signals others may send

VARIABLES
    m,              \* the machine
    pend,           \* the signals queued
    killed,         \* SIGKILL, or exit_group of another thread, has reached the task
    fin             \* Running, Killed, or Exited(v)

gvars == <<m, pend, killed, fin>>

-----------------------------------------------------------------------------
GInit == m \in {Start(p) : p \in DOMAIN Programs} /\ pend = {} /\ killed = FALSE /\ fin = Running

End(f) == fin' = f /\ m' = NoMachine

(* The actions, from the machine x.                                                *)
Execute(x) ==
    /\ fin = Running /\ UNCHANGED <<pend, killed, fin>>
    /\ ~AtBottom(x) /\ ~Quits(x) /\ ~Overflows(x)
    /\ m' = Exec(x)

Finish(x) == fin = Running /\ (AtBottom(x) \/ Quits(x)) /\ End(Exited(x.r0)) /\ UNCHANGED <<pend, killed>>

(* No room for a frame ends the task, and so does the limit on its instructions.   *)
NoRoom(x, n) == Cardinality(pend) >= n /\ x.r10 + n > StackMax

Fail(x) == /\ fin = Running /\ (killed \/ Overflows(x) \/ NoRoom(x, 1) \/ NoRoom(x, 2) \/ Programs[x.prog].limit)
           /\ End(Killed) /\ pend' \in SUBSET pend /\ UNCHANGED killed

(* One safepoint delivers one signal, or two in a row.                              *)
Deliver(x) ==
    /\ fin = Running /\ UNCHANGED <<killed, fin>>
    /\ \E s \in pend :
         /\ ~NoRoom(x, 1)
         /\ \/ pend' = pend \ {s} /\ m' \in Delivered(x, s)
            \/ \E t \in pend \ {s} :
                 /\ ~NoRoom(x, 2) /\ pend' = pend \ {s, t}
                 /\ \E y \in Delivered(x, s) : m' \in Delivered(y, t)

(* The queue of a task that has ended.                                             *)
Discard(x) == fin # Running /\ pend' \in SUBSET pend /\ UNCHANGED <<killed, fin>> /\ m' = x

Raise(x) == /\ fin = Running /\ (\E s \in Signal : pend' = pend \cup {s})
            /\ UNCHANGED <<killed, fin>> /\ m' = x
Kill(x)  == ~killed /\ killed' = TRUE /\ UNCHANGED <<pend, fin>> /\ m' = x

GNext == \E x \in {m} : \/ Execute(x) \/ Finish(x) \/ Fail(x) \/ Deliver(x)
                        \/ Discard(x) \/ Raise(x) \/ Kill(x)

GSpec == GInit /\ [][GNext]_gvars
=============================================================================
