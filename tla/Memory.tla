------------------------------ MODULE Memory ------------------------------
(***************************************************************************)
(* Guest memory as the VM keeps it: per process a list of segments         *)
(* (memmap), each backed by host pages that fork shares copy-on-write, and *)
(* per thread a TLB of segments it translated recently.                    *)
(*                                                                         *)
(* A segment stands for one memmap; splitting a memmap is not modelled.  A *)
(* load or store is two steps, translation (mmu, mmu_w) and the access     *)
(* through the host pointer it returned, with other threads in between.    *)
(* The host may give a released page to the next allocation.               *)
(***************************************************************************)
EXTENDS Naturals, FiniteSets

CONSTANTS
    Thread,     \* guest threads
    Proc,       \* processes
    Home,       \* the process of each thread
    First,      \* the process that runs initially
    Seg,        \* guest segments
    Val,        \* contents
    Zero,       \* contents of a fresh anonymous segment
    HPage,      \* host memory, in units of one segment
    Unmapped,   \* no such segment
    Ops         \* which of "fork", "mmap", "munmap", "mprotect", "exit" happen

ASSUME MemoryAssumption ==
    /\ Home \in [Thread -> Proc] /\ First \in Proc
    /\ IsFiniteSet(Proc) /\ IsFiniteSet(Seg)
    /\ Zero \in Val /\ Unmapped \notin Val \cup HPage
    /\ Seg \cap Proc = {} /\ {"run", "access"} \cap (Seg \cup Proc) = {}

VARIABLES
    maps,       \* the segments of each process
    alive,      \* the processes that exist
    content,    \* contents of the host pages
    tlb,        \* the TLB of each thread
    pc,         \* what each thread is doing
    ptr,        \* the access it translated and has not made yet
    reg         \* the value it loaded last

vars == <<maps, alive, content, tlb, pc, ptr, reg>>

None == [host |-> Unmapped]
Entry == [host : HPage, w : BOOLEAN, cow : BOOLEAN]
Ptr == [op : {"load", "store"}, seg : Seg, host : HPage, v : Val]

Used == {maps[p][s].host : p \in Proc, s \in Seg} \ {Unmapped}
Mapped(p) == {s \in Seg : maps[p][s] # None}

\* The threads of p; they share one maps list.
Group(p) == {t \in Thread : Home[t] = p}

Init ==
    /\ alive = {First}
    /\ \E f \in [Seg -> HPage] :
         /\ \A s, r \in Seg : f[s] = f[r] => s = r
         /\ maps = [p \in Proc |-> [s \in Seg |->
              IF p = First THEN [host |-> f[s], w |-> TRUE, cow |-> FALSE] ELSE None]]
    /\ content = [h \in HPage |-> Zero]
    /\ tlb = [t \in Thread |-> [s \in Seg |-> None]]
    /\ pc = [t \in Thread |-> "run"]
    /\ ptr = [t \in Thread |-> None]
    /\ reg = [t \in Thread |-> Zero]

Running(t) == Home[t] \in alive /\ pc[t] = "run"
Flushed(ts) == [t \in Thread |-> IF t \in ts THEN [s \in Seg |-> None] ELSE tlb[t]]

---------------------------------------------------------------------------
(* mmu, mmu_w and the access *)

Hold(t, op, s, h, v) ==
    /\ ptr' = [ptr EXCEPT ![t] = [op |-> op, seg |-> s, host |-> h, v |-> v]]
    /\ pc' = [pc EXCEPT ![t] = "access"]

\* mmu: the TLB entry, or mmu_slow, which fills it from the list.
Mmu(t, s) ==
    /\ Running(t)
    /\ LET e == IF tlb[t][s] # None THEN tlb[t][s] ELSE maps[Home[t]][s] IN
         /\ e # None
         /\ tlb' = [tlb EXCEPT ![t][s] = e]
         /\ Hold(t, "load", s, e.host, Zero)
    /\ UNCHANGED <<maps, alive, content, reg>>

\* mmu_w: a writable entry without copy-on-write is used as it is.
MmuWFast(t, s, v) ==
    /\ Running(t)
    /\ tlb[t][s] # None /\ tlb[t][s].w /\ ~tlb[t][s].cow
    /\ Hold(t, "store", s, tlb[t][s].host, v)
    /\ UNCHANGED <<maps, alive, content, tlb, reg>>

\* Mutant: only the other references are counted.
UseCountOthers(h) ==
    Cardinality({x \in Proc \X Seg : maps[x[1]][x[2]] # None
                    /\ maps[x[1]][x[2]].host = h /\ maps[x[1]][x[2]].cow}) - 1

\* The references to the shared host page of a segment: cow_data.use_count().
UseCount(h) ==
    Cardinality({x \in Proc \X Seg : maps[x[1]][x[2]] # None
                    /\ maps[x[1]][x[2]].host = h /\ maps[x[1]][x[2]].cow})

Fresh(h) == h \in HPage \ Used

\* mmu_w_slow: resolve copy-on-write by taking over a page nobody else refers to,
\* or by copying it; then flush this thread's TLB and fill the entry.
MmuWSlow(t, s, v) ==
    LET m == maps[Home[t]][s] IN
    /\ Running(t)
    /\ ~(tlb[t][s] # None /\ tlb[t][s].w /\ ~tlb[t][s].cow)
    /\ m # None /\ m.w
    /\ \E h \in HPage :
         /\ \/ ~m.cow /\ h = m.host /\ UNCHANGED content
            \/ m.cow /\ UseCount(m.host) = 1 /\ h = m.host /\ UNCHANGED content
            \/ /\ m.cow /\ UseCount(m.host) > 1 /\ Fresh(h)
               /\ content' = [content EXCEPT ![h] = content[m.host]]
         /\ LET e == [host |-> h, w |-> TRUE, cow |-> FALSE] IN
              /\ maps' = [maps EXCEPT ![Home[t]][s] = e]
              /\ tlb' = [tlb EXCEPT ![t] =
                   [r \in Seg |-> IF r = s THEN e ELSE IF m.cow THEN None ELSE @[r]]]
         /\ Hold(t, "store", s, h, v)
    /\ UNCHANGED <<alive, reg>>

\* The instruction reads or writes through the host pointer.
Access(t) ==
    /\ pc[t] = "access"
    /\ \/ /\ ptr[t].op = "load"
          /\ reg' = [reg EXCEPT ![t] = content[ptr[t].host]]
          /\ UNCHANGED content
       \/ /\ ptr[t].op = "store"
          /\ content' = [content EXCEPT ![ptr[t].host] = ptr[t].v]
          /\ UNCHANGED reg
    /\ ptr' = [ptr EXCEPT ![t] = None]
    /\ pc' = [pc EXCEPT ![t] = "run"]
    /\ UNCHANGED <<maps, alive, tlb>>

\* A translation of another address takes the entry's slot.
Evict(t, s) ==
    /\ Running(t) /\ tlb[t][s] # None
    /\ tlb' = [tlb EXCEPT ![t][s] = None]
    /\ UNCHANGED <<maps, alive, content, pc, ptr, reg>>

---------------------------------------------------------------------------
(* The calls that change the list; each flushes the caller's TLB *)

\* do_mmap(MAP_FIXED, anonymous): punch_hole in one critical section, the new
\* segment in a second one.
MmapPunch(t, s) ==
    /\ Running(t) /\ "mmap" \in Ops
    /\ maps' = [maps EXCEPT ![Home[t]][s] = None]
    /\ tlb' = Flushed({t})
    /\ pc' = [pc EXCEPT ![t] = s]
    /\ UNCHANGED <<alive, content, ptr, reg>>

MmapAdd(t) ==
    /\ pc[t] \in Seg
    /\ \E h \in HPage :
         /\ Fresh(h)
         /\ maps' = [maps EXCEPT ![Home[t]][pc[t]] = [host |-> h, w |-> TRUE, cow |-> FALSE]]
         /\ content' = [content EXCEPT ![h] = Zero]
    /\ tlb' = Flushed({t})
    /\ pc' = [pc EXCEPT ![t] = "run"]
    /\ UNCHANGED <<alive, ptr, reg>>

\* Mutant: the TLB is not flushed.
DoMunmapNoFlush(t, s) ==
    /\ Running(t) /\ "munmap" \in Ops /\ s \in Mapped(Home[t])
    /\ maps' = [maps EXCEPT ![Home[t]][s] = None]
    /\ UNCHANGED <<alive, content, tlb, pc, ptr, reg>>

DoMunmap(t, s) ==
    /\ Running(t) /\ "munmap" \in Ops /\ s \in Mapped(Home[t])
    /\ maps' = [maps EXCEPT ![Home[t]][s] = None]
    /\ tlb' = Flushed({t})
    /\ UNCHANGED <<alive, content, pc, ptr, reg>>

DoMprotect(t, s, w) ==
    /\ Running(t) /\ "mprotect" \in Ops /\ s \in Mapped(Home[t])
    /\ maps' = [maps EXCEPT ![Home[t]][s].w = w]
    /\ tlb' = Flushed({t})
    /\ UNCHANGED <<alive, content, pc, ptr, reg>>

\* fork: under the maps lock every segment becomes shared; the TLBs of the whole
\* group are flushed afterwards, without that lock.
ForkShare(t, q) ==
    /\ Running(t) /\ "fork" \in Ops /\ q \notin alive \cup {pc[u] : u \in Thread}
    /\ LET shared == [s \in Seg |-> IF maps[Home[t]][s] = None THEN None
                                    ELSE [maps[Home[t]][s] EXCEPT !.cow = TRUE]]
       IN  maps' = [maps EXCEPT ![Home[t]] = shared, ![q] = shared]
    /\ pc' = [pc EXCEPT ![t] = q]
    /\ UNCHANGED <<alive, content, tlb, ptr, reg>>

\* Mutant: fork returns without flushing.
ForkNoFlush(t) ==
    /\ pc[t] \in Proc
    /\ alive' = alive \cup {pc[t]}
    /\ pc' = [pc EXCEPT ![t] = "run"]
    /\ UNCHANGED <<maps, content, tlb, ptr, reg>>

ForkFlush(t) ==
    /\ pc[t] \in Proc
    /\ tlb' = Flushed(Group(Home[t]))
    /\ alive' = alive \cup {pc[t]}
    /\ pc' = [pc EXCEPT ![t] = "run"]
    /\ UNCHANGED <<maps, content, ptr, reg>>

\* The last thread of a process ends: fini drops its maps.
Exit(p) ==
    /\ p \in alive /\ "exit" \in Ops /\ \A t \in Group(p) : pc[t] = "run"
    /\ alive' = alive \ {p}
    /\ maps' = [maps EXCEPT ![p] = [s \in Seg |-> None]]
    /\ tlb' = Flushed(Group(p))
    /\ UNCHANGED <<content, pc, ptr, reg>>

---------------------------------------------------------------------------
Next ==
    \/ \E t \in Thread :
         \/ Access(t) \/ MmapAdd(t) \/ ForkFlush(t)
         \/ \E s \in Seg :
              \/ Mmu(t, s) \/ Evict(t, s) \/ MmapPunch(t, s) \/ DoMunmap(t, s)
              \/ \E v \in Val : MmuWFast(t, s, v) \/ MmuWSlow(t, s, v)
              \/ \E w \in BOOLEAN : DoMprotect(t, s, w)
         \/ \E q \in Proc : ForkShare(t, q)
    \/ \E p \in Proc : Exit(p)

Spec == Init /\ [][Next]_vars

---------------------------------------------------------------------------
(* Properties *)

TypeOK ==
    /\ maps \in [Proc -> [Seg -> Entry \cup {None}]]
    /\ alive \subseteq Proc
    /\ content \in [HPage -> Val]
    /\ tlb \in [Thread -> [Seg -> Entry \cup {None}]]
    /\ pc \in [Thread -> {"run", "access"} \cup Seg \cup Proc]
    /\ ptr \in [Thread -> Ptr \cup {None}]
    /\ reg \in [Thread -> Val]

\* The memory the guest sees: contents of the page behind every segment.
Contents ==
    [p \in Proc |-> [s \in Seg |->
        IF maps[p][s] = None THEN Unmapped ELSE content[maps[p][s].host]]]

Flat == INSTANCE FlatMemory WITH mem <- Contents

\* With one thread per process, segments, copy-on-write and TLB implement flat
\* private memories: a store changes its own process only, a load returns the last
\* store, fork copies, and resolving copy-on-write is invisible.
FlatSpec == Flat!Spec

\* A TLB entry that lets mmu_w skip the list belongs to a page no other segment of
\* any process refers to: what fork's flush of the whole group is for.
WritableIsExclusive ==
    \A t \in Thread, s \in Seg :
        Home[t] \in alive /\ pc[t] = "run" /\ tlb[t][s] # None /\ tlb[t][s].w /\ ~tlb[t][s].cow =>
            \A x \in Proc \X Seg :
                maps[x[1]][x[2]].host = tlb[t][s].host => x = <<Home[t], s>>

\* A TLB entry names the page that backs the segment now, whenever no thread of the
\* process is inside a call that changes the list: translations never outlive what
\* they translate.
TlbCoherent ==
    \A t \in Thread, s \in Seg :
        /\ Home[t] \in alive /\ tlb[t][s] # None
        /\ \A u \in Group(Home[t]) : pc[u] \in {"run", "access"}
        => tlb[t][s].host = maps[Home[t]][s].host
=============================================================================
