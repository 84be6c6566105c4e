----------------------------- MODULE FlatMemory -----------------------------
(***************************************************************************)
(* What guest memory promises, with no host pages, sharing or TLB: every   *)
(* process has its own contents, all its threads see them, and fork copies *)
(* them.                                                                   *)
(***************************************************************************)
CONSTANTS Thread, Proc, Home, Seg, Val, Zero, Unmapped

VARIABLES
    mem,    \* contents of each segment of each process
    reg     \* the value each thread loaded last

vars == <<mem, reg>>

Init ==
    /\ mem \in [Proc -> [Seg -> Val \cup {Unmapped}]]
    /\ reg = [t \in Thread |-> Zero]

Store(t, s, v) ==
    /\ mem[Home[t]][s] # Unmapped
    /\ mem' = [mem EXCEPT ![Home[t]][s] = v]
    /\ UNCHANGED reg

Load(t, s) ==
    /\ mem[Home[t]][s] # Unmapped
    /\ reg' = [reg EXCEPT ![t] = mem[Home[t]][s]]
    /\ UNCHANGED mem

Map(p, s) == mem' = [mem EXCEPT ![p][s] = Zero] /\ UNCHANGED reg

Unmap(p, s) == mem' = [mem EXCEPT ![p][s] = Unmapped] /\ UNCHANGED reg

Fork(p, q) == mem' = [mem EXCEPT ![q] = mem[p]] /\ UNCHANGED reg

Exit(p) == mem' = [mem EXCEPT ![p] = [s \in Seg |-> Unmapped]] /\ UNCHANGED reg

Next ==
    \/ \E t \in Thread, s \in Seg : Load(t, s) \/ \E v \in Val : Store(t, s, v)
    \/ \E p \in Proc, s \in Seg : Map(p, s) \/ Unmap(p, s)
    \/ \E p, q \in Proc : Fork(p, q)
    \/ \E p \in Proc : Exit(p)

Spec == Init /\ [][Next]_vars
=============================================================================
