---------------------------- MODULE MemoryProofs ----------------------------
(***************************************************************************)
(* Segments, copy-on-write and the TLB implement flat private memories,    *)
(* for any number of processes of one thread each: the inductive invariant *)
(* and the refinement of FlatMemory.                                       *)
(***************************************************************************)
EXTENDS Memory, FiniteSetTheorems, TLAPS

\* Every process has at most one thread.
OneThreadEach == \A t, u \in Thread : Home[t] = Home[u] => t = u

\* A thread whose process does not exist has nothing cached and does nothing.
Dormant ==
    \A t \in Thread : Home[t] \notin alive =>
        pc[t] = "run" /\ \A s \in Seg : tlb[t][s] = None

\* An entry names the page behind its segment, and one that lets mmu_w skip the list
\* is as the list has it, except between the two halves of the thread's own fork.
CachedBy(t) ==
    \A s \in Seg : tlb[t][s] # None =>
        /\ pc[t] \notin Seg
        /\ maps[Home[t]][s] # None /\ tlb[t][s].host = maps[Home[t]][s].host
        /\ pc[t] \notin Proc /\ tlb[t][s].w /\ ~tlb[t][s].cow =>
             maps[Home[t]][s].w /\ ~maps[Home[t]][s].cow

\* Two segments with one page are both copy-on-write.
SharedIsCow ==
    \A p, q \in Proc, s, r \in Seg :
        /\ maps[p][s] # None /\ maps[q][r] # None /\ maps[p][s].host = maps[q][r].host
        /\ p # q \/ s # r
        => maps[p][s].cow /\ maps[q][r].cow

\* A translated access goes to the page behind its segment, a store to one of its own.
TranslatedBy(t) ==
    pc[t] = "access" =>
        /\ ptr[t] \in Ptr /\ maps[Home[t]][ptr[t].seg] # None
        /\ ptr[t].host = maps[Home[t]][ptr[t].seg].host
        /\ ptr[t].op = "store" => ~maps[Home[t]][ptr[t].seg].cow

Cached == \A t \in Thread : CachedBy(t)
Translated == \A t \in Thread : TranslatedBy(t)

IInv == TypeOK /\ Dormant /\ Cached /\ SharedIsCow /\ Translated

---------------------------------------------------------------------------
(* Entries, pages and types *)

\* An entry is never None, and marking one copy-on-write or read-only gives an entry.
LEMMA EntryFacts ==
    /\ None.host = Unmapped
    /\ \A e \in Entry : e # None /\ e.host \in HPage /\ e.host # Unmapped
    /\ \A h \in HPage : [host |-> h, w |-> TRUE, cow |-> FALSE] \in Entry
    /\ \A e \in Entry : [e EXCEPT !.cow = TRUE] \in Entry
    /\ \A e \in Entry, b \in BOOLEAN : [e EXCEPT !.w = b] \in Entry
<1>1. None.host = Unmapped BY DEF None
<1>2. \A e \in Entry : e.host \in HPage /\ e.host # Unmapped BY MemoryAssumption DEF Entry
<1>3. \A e \in Entry : e # None BY <1>1, <1>2
<1>4. \A h \in HPage : [host |-> h, w |-> TRUE, cow |-> FALSE] \in Entry BY DEF Entry
<1>5. \A e \in Entry : [e EXCEPT !.cow = TRUE] \in Entry BY DEF Entry
<1>6. \A e \in Entry, b \in BOOLEAN : [e EXCEPT !.w = b] \in Entry BY DEF Entry
<1>7. QED BY <1>1, <1>2, <1>3, <1>4, <1>5, <1>6

\* A fresh page backs no segment.
LEMMA FreshFacts ==
    ASSUME TypeOK, NEW h, Fresh(h)
    PROVE  /\ h \in HPage
           /\ \A p \in Proc, s \in Seg : maps[p][s].host # h
BY MemoryAssumption DEF Fresh, Used

\* A use count of one: no other segment refers to the page.
LEMMA UseCountOne ==
    ASSUME TypeOK, SharedIsCow, NEW p \in Proc, NEW s \in Seg, maps[p][s] # None,
           maps[p][s].cow, UseCount(maps[p][s].host) = 1
    PROVE  \A q \in Proc, r \in Seg :
             maps[q][r] # None /\ maps[q][r].host = maps[p][s].host => q = p /\ r = s
<1> DEFINE h == maps[p][s].host
           S == {x \in Proc \X Seg : maps[x[1]][x[2]] # None
                    /\ maps[x[1]][x[2]].host = h /\ maps[x[1]][x[2]].cow}
<1>1. Cardinality(S) = 1 BY DEF UseCount
<1>2. IsFiniteSet(Proc \X Seg) BY MemoryAssumption, FS_Product
<1>3. S \subseteq Proc \X Seg OBVIOUS
<1>4. IsFiniteSet(S) BY <1>2, <1>3, FS_Subset
<1>5. PICK x : S = {x} BY <1>1, <1>4, FS_Singleton
<1>6. <<p, s>> \in S OBVIOUS
<1> SUFFICES ASSUME NEW q \in Proc, NEW r \in Seg, maps[q][r] # None, maps[q][r].host = h,
                    q # p \/ r # s
             PROVE  FALSE
  OBVIOUS
<1>7. maps[q][r].cow BY DEF SharedIsCow
<1>8. <<q, r>> \in S BY <1>7
<1>9. <<q, r>> = <<p, s>> BY <1>5, <1>6, <1>8
<1>10. QED BY <1>9

\* At the start one process has its own pages and nothing is cached.
LEMMA InitInv == Init => IInv
<1> SUFFICES ASSUME Init PROVE IInv OBVIOUS
<1>1. PICK f \in [Seg -> HPage] :
        /\ \A s, r \in Seg : f[s] = f[r] => s = r
        /\ maps = [p \in Proc |-> [s \in Seg |->
             IF p = First THEN [host |-> f[s], w |-> TRUE, cow |-> FALSE] ELSE None]]
  BY DEF Init
<1>2. \A p \in Proc, s \in Seg :
        maps[p][s] = IF p = First THEN [host |-> f[s], w |-> TRUE, cow |-> FALSE] ELSE None
  BY <1>1
<1>3. TypeOK BY <1>1, EntryFacts, MemoryAssumption DEF Init, TypeOK
<1>4. SharedIsCow BY <1>1, <1>2 DEF SharedIsCow
<1>5. Dormant /\ Cached /\ Translated
  BY DEF Init, Dormant, Cached, CachedBy, Translated, TranslatedBy
<1>6. QED BY <1>3, <1>4, <1>5 DEF IInv

\* flush_tlb keeps the type of the TLBs.
LEMMA FlushedType ==
    ASSUME TypeOK, NEW ts
    PROVE  Flushed(ts) \in [Thread -> [Seg -> Entry \cup {None}]]
BY DEF Flushed, TypeOK

\* mmu hands out the entry it found or filled from the list.
LEMMA MmuFacts ==
    ASSUME TypeOK, NEW t \in Thread, NEW s \in Seg, Mmu(t, s)
    PROVE  \E e \in Entry :
             /\ e = tlb[t][s] \/ (tlb[t][s] = None /\ e = maps[Home[t]][s])
             /\ tlb' = [tlb EXCEPT ![t][s] = e]
             /\ Hold(t, "load", s, e.host, Zero)
<1> DEFINE e == IF tlb[t][s] # None THEN tlb[t][s] ELSE maps[Home[t]][s]
<1>1. e # None /\ tlb' = [tlb EXCEPT ![t][s] = e] /\ Hold(t, "load", s, e.host, Zero)
  BY DEF Mmu
<1>2. tlb[t][s] \in Entry \cup {None} BY DEF TypeOK
<1>3. maps[Home[t]][s] \in Entry \cup {None} BY MemoryAssumption DEF TypeOK
<1>4. e \in Entry BY <1>1, <1>2, <1>3
<1>5. e = tlb[t][s] \/ (tlb[t][s] = None /\ e = maps[Home[t]][s]) OBVIOUS
<1> HIDE DEF e
<1>6. QED BY <1>1, <1>5, <1>4

\* Every step keeps the types.
LEMMA TypeStep == ASSUME TypeOK, Translated, [Next]_vars PROVE TypeOK'
<1> USE DEF TypeOK
<1>0. \A t \in Thread : Home[t] \in Proc BY MemoryAssumption
<1>1. ASSUME NEW t \in Thread, Access(t) PROVE TypeOK'
  <2>1. ptr[t] \in Ptr BY <1>1 DEF Access, Translated, TranslatedBy
  <2>2. content[ptr[t].host] \in Val /\ ptr[t].v \in Val BY <2>1 DEF Ptr
  <2>3. reg' \in [Thread -> Val] /\ content' \in [HPage -> Val] BY <1>1, <2>2 DEF Access
  <2>4. QED BY <1>1, <2>3 DEF Access
<1>2. ASSUME NEW t \in Thread, NEW s \in Seg, Mmu(t, s) PROVE TypeOK'
  <2>1. PICK e \in Entry : tlb' = [tlb EXCEPT ![t][s] = e] /\ Hold(t, "load", s, e.host, Zero)
    BY <1>2, MmuFacts
  <2>2. e.host \in HPage BY EntryFacts
  <2>3. QED BY <1>2, <2>1, <2>2, MemoryAssumption DEF Mmu, Hold, Ptr
<1>3. ASSUME NEW t \in Thread, NEW s \in Seg, NEW v \in Val, MmuWFast(t, s, v) PROVE TypeOK'
  <2>1. tlb[t][s].host \in HPage BY <1>3, EntryFacts DEF MmuWFast
  <2>2. QED BY <1>3, <2>1 DEF MmuWFast, Hold, Ptr
<1>4. ASSUME NEW t \in Thread, NEW s \in Seg, NEW v \in Val, MmuWSlow(t, s, v) PROVE TypeOK'
  <2>1. PICK h \in HPage :
          LET m == maps[Home[t]][s]
              e == [host |-> h, w |-> TRUE, cow |-> FALSE]
          IN  /\ UNCHANGED content \/ content' = [content EXCEPT ![h] = content[m.host]]
              /\ maps' = [maps EXCEPT ![Home[t]][s] = e]
              /\ tlb' = [tlb EXCEPT ![t] =
                   [r \in Seg |-> IF r = s THEN e ELSE IF m.cow THEN None ELSE @[r]]]
              /\ Hold(t, "store", s, h, v)
    BY <1>4 DEF MmuWSlow
  <2>2. maps[Home[t]][s].host \in HPage BY <1>0, <1>4, EntryFacts DEF MmuWSlow
  <2>3. content' \in [HPage -> Val] BY <2>1, <2>2
  <2>4. [host |-> h, w |-> TRUE, cow |-> FALSE] \in Entry BY EntryFacts
  <2>5. maps' \in [Proc -> [Seg -> Entry \cup {None}]] BY <1>0, <2>1, <2>4
  <2>6. tlb' \in [Thread -> [Seg -> Entry \cup {None}]] BY <2>1, <2>4
  <2>7. QED BY <1>4, <2>1, <2>3, <2>5, <2>6 DEF MmuWSlow, Hold, Ptr
<1>5. ASSUME NEW t \in Thread, NEW s \in Seg, Evict(t, s) PROVE TypeOK' BY <1>5 DEF Evict
<1>6. ASSUME NEW t \in Thread, NEW s \in Seg, MmapPunch(t, s) PROVE TypeOK'
  BY <1>0, <1>6, FlushedType DEF MmapPunch
<1>7. ASSUME NEW t \in Thread, MmapAdd(t) PROVE TypeOK'
  <2>1. PICK h \in HPage :
          /\ maps' = [maps EXCEPT ![Home[t]][pc[t]] = [host |-> h, w |-> TRUE, cow |-> FALSE]]
          /\ content' = [content EXCEPT ![h] = Zero]
    BY <1>7 DEF MmapAdd
  <2>2. [host |-> h, w |-> TRUE, cow |-> FALSE] \in Entry BY EntryFacts
  <2>3. maps' \in [Proc -> [Seg -> Entry \cup {None}]] BY <1>0, <1>7, <2>1, <2>2 DEF MmapAdd
  <2>4. content' \in [HPage -> Val] BY <2>1, MemoryAssumption
  <2>5. QED BY <1>7, <2>3, <2>4, FlushedType DEF MmapAdd
<1>8. ASSUME NEW t \in Thread, NEW s \in Seg, DoMunmap(t, s) PROVE TypeOK'
  BY <1>0, <1>8, FlushedType DEF DoMunmap
<1>9. ASSUME NEW t \in Thread, NEW s \in Seg, NEW w \in BOOLEAN, DoMprotect(t, s, w)
      PROVE  TypeOK'
  <2>1. maps[Home[t]][s] \in Entry BY <1>0, <1>9 DEF DoMprotect, Mapped
  <2>2. [maps[Home[t]][s] EXCEPT !.w = w] \in Entry BY <2>1, EntryFacts
  <2>3. maps' = [maps EXCEPT ![Home[t]][s] = [maps[Home[t]][s] EXCEPT !.w = w]]
    BY <1>0, <1>9 DEF DoMprotect
  <2>4. maps' \in [Proc -> [Seg -> Entry \cup {None}]] BY <1>0, <2>2, <2>3
  <2>5. QED BY <1>9, <2>4, FlushedType DEF DoMprotect
<1>10. ASSUME NEW t \in Thread, NEW q \in Proc, ForkShare(t, q) PROVE TypeOK'
  <2> DEFINE shared == [s \in Seg |-> IF maps[Home[t]][s] = None THEN None
                                      ELSE [maps[Home[t]][s] EXCEPT !.cow = TRUE]]
  <2>1. shared \in [Seg -> Entry \cup {None}] BY <1>0, EntryFacts
  <2>2. maps' = [maps EXCEPT ![Home[t]] = shared, ![q] = shared] BY <1>10 DEF ForkShare
  <2>3. maps' \in [Proc -> [Seg -> Entry \cup {None}]]
    <3> HIDE DEF shared
    <3> QED BY <1>0, <2>1, <2>2
  <2>4. QED BY <1>10, <2>3 DEF ForkShare
<1>11. ASSUME NEW t \in Thread, ForkFlush(t) PROVE TypeOK' BY <1>11, FlushedType DEF ForkFlush
<1>12. ASSUME NEW p \in Proc, Exit(p) PROVE TypeOK' BY <1>12, FlushedType DEF Exit
<1>13. CASE UNCHANGED vars BY <1>13 DEF vars
<1>14. QED
  BY <1>1, <1>2, <1>3, <1>4, <1>5, <1>6, <1>7, <1>8, <1>9, <1>10, <1>11, <1>12, <1>13 DEF Next

---------------------------------------------------------------------------
(* The invariant, one lemma per action *)

\* A flush empties the TLBs of the given threads and of no others.
LEMMA FlushFacts ==
    ASSUME TypeOK, NEW ts
    PROVE  \A u \in Thread, r \in Seg : Flushed(ts)[u][r] = IF u \in ts THEN None ELSE tlb[u][r]
BY DEF Flushed, TypeOK

\* What the threads are doing is told apart, and a thread that does it is of a process
\* that exists.
LEMMA PcFacts ==
    ASSUME IInv, NEW t \in Thread
    PROVE  /\ Home[t] \in Proc
           /\ pc[t] # "run" \/ (\E s \in Seg : tlb[t][s] # None) => Home[t] \in alive
           /\ "run" \notin Seg \cup Proc /\ "access" \notin Seg \cup Proc
           /\ \A s \in Seg : s \notin Proc
BY MemoryAssumption DEF IInv, Dormant

\* A thread keeps its part of the invariant when neither it nor its process changes.
LEMMA OthersKeep ==
    ASSUME IInv, NEW u \in Thread,
           pc'[u] = pc[u], ptr'[u] = ptr[u], tlb'[u] = tlb[u], maps'[Home[u]] = maps[Home[u]]
    PROVE  CachedBy(u)' /\ TranslatedBy(u)'
BY DEF IInv, Cached, CachedBy, Translated, TranslatedBy

\* A load or store through a translated pointer keeps the invariant.
LEMMA AccessInv == ASSUME IInv, NEW t \in Thread, Access(t) PROVE IInv'
<1> USE DEF TypeOK
<1>1. TypeOK' BY TypeStep DEF IInv, Next
<1>2. UNCHANGED <<maps, alive, tlb>> /\ pc'[t] = "run" BY DEF Access, IInv
<1>3. \A u \in Thread \ {t} : pc'[u] = pc[u] /\ ptr'[u] = ptr[u] BY DEF Access, IInv
<1>4. pc[t] = "access" /\ Home[t] \in alive BY PcFacts DEF Access
<1>5. Dormant' BY <1>2, <1>3, <1>4 DEF IInv, Dormant
<1>6. CachedBy(t)' BY <1>2, <1>4, PcFacts DEF IInv, Cached, CachedBy
<1>7. TranslatedBy(t)' BY <1>2 DEF TranslatedBy
<1>8. Cached' /\ Translated' BY <1>2, <1>3, <1>6, <1>7, OthersKeep DEF Cached, Translated
<1>9. SharedIsCow' BY <1>2 DEF IInv, SharedIsCow
<1>10. QED BY <1>1, <1>5, <1>8, <1>9 DEF IInv

\* A translation: the thread takes hold of the page behind the segment.
LEMMA HoldInv ==
    ASSUME IInv, NEW t \in Thread, NEW s \in Seg, NEW h \in HPage, NEW v \in Val,
           NEW op \in {"load", "store"}, TypeOK', Running(t), Hold(t, op, s, h, v),
           UNCHANGED alive,
           \A u \in Thread \ {t} : tlb'[u] = tlb[u] /\ maps'[Home[u]] = maps[Home[u]],
           maps'[Home[t]][s] # None, h = maps'[Home[t]][s].host,
           op = "store" => ~maps'[Home[t]][s].cow
    PROVE  Dormant' /\ Translated' /\ \A u \in Thread \ {t} : CachedBy(u)'
<1>1. pc'[t] = "access" /\ ptr'[t] = [op |-> op, seg |-> s, host |-> h, v |-> v]
  BY DEF Hold, IInv, TypeOK
<1>2. \A u \in Thread \ {t} : pc'[u] = pc[u] /\ ptr'[u] = ptr[u] BY DEF Hold, IInv, TypeOK
<1>3. Dormant' BY <1>2 DEF IInv, Dormant, Running
<1>4. TranslatedBy(t)' BY <1>1 DEF TranslatedBy, Ptr
<1>5. \A u \in Thread \ {t} : CachedBy(u)' /\ TranslatedBy(u)' BY <1>2, OthersKeep
<1>6. QED BY <1>3, <1>4, <1>5 DEF Translated

\* mmu caches the entry of the list.
LEMMA MmuInv == ASSUME IInv, NEW t \in Thread, NEW s \in Seg, Mmu(t, s) PROVE IInv'
<1> USE DEF TypeOK
<1>1. TypeOK' BY TypeStep DEF IInv, Next
<1>2. PICK e \in Entry :
        /\ e = tlb[t][s] \/ (tlb[t][s] = None /\ e = maps[Home[t]][s])
        /\ tlb' = [tlb EXCEPT ![t][s] = e]
        /\ Hold(t, "load", s, e.host, Zero)
  BY MmuFacts DEF IInv
<1>3. UNCHANGED <<maps, alive>> /\ Running(t) BY DEF Mmu
<1>4. e # None /\ e.host \in HPage BY EntryFacts
<1>5. maps[Home[t]][s] # None /\ e.host = maps[Home[t]][s].host
  BY <1>2, <1>4 DEF IInv, Cached, CachedBy
<1>6. \A u \in Thread \ {t} : tlb'[u] = tlb[u] BY <1>2 DEF IInv
<1>7. Dormant' /\ Translated' /\ \A u \in Thread \ {t} : CachedBy(u)'
  BY <1>1, <1>2, <1>3, <1>4, <1>5, <1>6, HoldInv, MemoryAssumption
<1>8. \A r \in Seg : tlb'[t][r] = IF r = s THEN e ELSE tlb[t][r] BY <1>2 DEF IInv
<1>9. pc[t] = "run" /\ pc'[t] = "access" BY <1>2, <1>3 DEF Hold, Running, IInv
<1>10. CachedBy(t)'
  <2>1. CachedBy(t) BY DEF IInv, Cached
  <2>2. pc[t] \notin Seg \cup Proc /\ pc'[t] \notin Seg \cup Proc BY <1>9, PcFacts
  <2> SUFFICES ASSUME NEW r \in Seg, tlb'[t][r] # None
        PROVE  /\ maps[Home[t]][r] # None /\ tlb'[t][r].host = maps[Home[t]][r].host
               /\ tlb'[t][r].w /\ ~tlb'[t][r].cow =>
                    maps[Home[t]][r].w /\ ~maps[Home[t]][r].cow
    BY <1>3, <2>2 DEF CachedBy
  <2>3. CASE r = s /\ e = tlb[t][s] BY <1>8, <2>1, <2>2, <2>3 DEF CachedBy
  <2>4. CASE r = s /\ e = maps[Home[t]][s] BY <1>5, <1>8, <2>4
  <2>5. CASE r # s BY <1>8, <2>1, <2>2, <2>5 DEF CachedBy
  <2>6. QED BY <1>2, <2>3, <2>4, <2>5
<1>11. SharedIsCow' BY <1>3 DEF IInv, SharedIsCow
<1>12. QED BY <1>1, <1>7, <1>10, <1>11 DEF IInv, Cached

\* mmu_w's fast path translates to a page of the thread's own.
LEMMA MmuWFastInv ==
    ASSUME IInv, NEW t \in Thread, NEW s \in Seg, NEW v \in Val, MmuWFast(t, s, v) PROVE IInv'
<1> USE DEF TypeOK
<1>1. TypeOK' BY TypeStep DEF IInv, Next
<1>2. UNCHANGED <<maps, alive, tlb>> /\ Running(t) /\ Hold(t, "store", s, tlb[t][s].host, v)
  BY DEF MmuWFast
<1>3. pc[t] = "run" /\ pc'[t] = "access" BY <1>2 DEF Hold, Running, IInv
<1>4. tlb[t][s].host \in HPage BY EntryFacts DEF MmuWFast, IInv
<1>5. /\ maps[Home[t]][s] # None /\ tlb[t][s].host = maps[Home[t]][s].host
      /\ ~maps[Home[t]][s].cow
  BY <1>3, PcFacts DEF MmuWFast, IInv, Cached, CachedBy
<1>6. Dormant' /\ Translated' /\ \A u \in Thread \ {t} : CachedBy(u)'
  BY <1>1, <1>2, <1>4, <1>5, HoldInv
<1>7. CachedBy(t)' BY <1>2, <1>3, PcFacts DEF IInv, Cached, CachedBy
<1>8. SharedIsCow' BY <1>2 DEF IInv, SharedIsCow
<1>9. QED BY <1>1, <1>6, <1>7, <1>8 DEF IInv, Cached

\* mmu_w_slow leaves the segment with a page no other segment refers to, which holds
\* what the segment held.
Resolved(t, s, v, h) ==
    /\ maps' = [maps EXCEPT ![Home[t]][s] = [host |-> h, w |-> TRUE, cow |-> FALSE]]
    /\ \A r \in Seg : tlb'[t][r] = IF r = s THEN [host |-> h, w |-> TRUE, cow |-> FALSE]
                                 ELSE IF maps[Home[t]][s].cow THEN None ELSE tlb[t][r]
    /\ \A u \in Thread \ {t} : tlb'[u] = tlb[u]
    /\ Hold(t, "store", s, h, v)
    /\ \A q \in Proc, r \in Seg :
         maps[q][r] # None /\ maps[q][r].host = h => q = Home[t] /\ r = s
    /\ content'[h] = content[maps[Home[t]][s].host]
    /\ \A g \in HPage \ {h} : content'[g] = content[g]

\* mmu_w's slow path leaves a segment with a page of its own and the same contents.
LEMMA MmuWSlowFacts ==
    ASSUME IInv, NEW t \in Thread, NEW s \in Seg, NEW v \in Val, MmuWSlow(t, s, v)
    PROVE  \E h \in HPage : Resolved(t, s, v, h)
<1> DEFINE m == maps[Home[t]][s]
<1>1. PICK h \in HPage :
        /\ \/ ~m.cow /\ h = m.host /\ UNCHANGED content
           \/ m.cow /\ UseCount(m.host) = 1 /\ h = m.host /\ UNCHANGED content
           \/ /\ m.cow /\ UseCount(m.host) > 1 /\ Fresh(h)
              /\ content' = [content EXCEPT ![h] = content[m.host]]
        /\ maps' = [maps EXCEPT ![Home[t]][s] = [host |-> h, w |-> TRUE, cow |-> FALSE]]
        /\ tlb' = [tlb EXCEPT ![t] = [r \in Seg |->
             IF r = s THEN [host |-> h, w |-> TRUE, cow |-> FALSE]
             ELSE IF m.cow THEN None ELSE @[r]]]
        /\ Hold(t, "store", s, h, v)
  BY DEF MmuWSlow
<1>2. Home[t] \in Proc /\ m # None BY PcFacts DEF MmuWSlow
<1>3. \A q \in Proc, r \in Seg :
        maps[q][r] # None /\ maps[q][r].host = h => q = Home[t] /\ r = s
  <2>1. CASE ~m.cow /\ h = m.host BY <1>2, <2>1 DEF IInv, SharedIsCow
  <2>2. CASE m.cow /\ UseCount(m.host) = 1 /\ h = m.host BY <1>2, <2>2, UseCountOne DEF IInv
  <2>3. CASE Fresh(h) BY <2>3, FreshFacts DEF IInv
  <2>4. QED BY <1>1, <2>1, <2>2, <2>3
<1>4. content'[h] = content[m.host] /\ \A g \in HPage \ {h} : content'[g] = content[g]
  BY <1>1 DEF IInv, TypeOK
<1>5. \A r \in Seg : tlb'[t][r] = IF r = s THEN [host |-> h, w |-> TRUE, cow |-> FALSE]
                                ELSE IF m.cow THEN None ELSE tlb[t][r]
  BY <1>1 DEF IInv, TypeOK
<1>6. \A u \in Thread \ {t} : tlb'[u] = tlb[u] BY <1>1 DEF IInv, TypeOK
<1>7. Resolved(t, s, v, h) BY <1>1, <1>3, <1>4, <1>5, <1>6 DEF Resolved
<1>8. QED BY <1>7

\* Resolving copy-on-write keeps the invariant: the page is fresh, or nobody else has it.
LEMMA MmuWSlowInv ==
    ASSUME IInv, OneThreadEach, NEW t \in Thread, NEW s \in Seg, NEW v \in Val,
           MmuWSlow(t, s, v)
    PROVE  IInv'
<1> USE DEF TypeOK
<1>1. TypeOK' BY TypeStep DEF IInv, Next
<1>2. PICK h \in HPage : Resolved(t, s, v, h) BY MmuWSlowFacts
<1> DEFINE e == [host |-> h, w |-> TRUE, cow |-> FALSE]
<1>3. UNCHANGED alive /\ Running(t) BY DEF MmuWSlow
<1>4. Home[t] \in Proc BY PcFacts
<1>5. \A q \in Proc, r \in Seg :
        maps'[q][r] = IF q = Home[t] /\ r = s THEN e ELSE maps[q][r]
  BY <1>2, <1>4 DEF IInv, Resolved
<1>6. e # None /\ e.host = h /\ e.w /\ ~e.cow BY EntryFacts
<1>7. \A u \in Thread \ {t} : maps'[Home[u]] = maps[Home[u]]
  BY <1>2, <1>4, PcFacts DEF IInv, OneThreadEach, Resolved
<1>8. maps'[Home[t]][s] = e BY <1>4, <1>5
<1>9. Dormant' /\ Translated' /\ \A u \in Thread \ {t} : CachedBy(u)'
  <2> HIDE DEF e
  <2>1. Hold(t, "store", s, h, v) /\ \A u \in Thread \ {t} : tlb'[u] = tlb[u] BY <1>2 DEF Resolved
  <2>2. QED BY <1>1, <1>3, <1>6, <1>7, <1>8, <2>1, HoldInv
<1>10. pc[t] = "run" /\ pc'[t] = "access" BY <1>2, <1>3 DEF Resolved, Hold, Running, IInv
<1>11. \A r \in Seg : tlb'[t][r] # None => r = s \/ tlb'[t][r] = tlb[t][r]
  BY <1>2 DEF Resolved
<1>12. tlb'[t][s] = e BY <1>2 DEF Resolved
<1>13. CachedBy(t)'
  <2> HIDE DEF e
  <2>1. SUFFICES ASSUME NEW r \in Seg, tlb'[t][r] # None
        PROVE  /\ maps'[Home[t]][r] # None /\ tlb'[t][r].host = maps'[Home[t]][r].host
               /\ tlb'[t][r].w /\ ~tlb'[t][r].cow =>
                    maps'[Home[t]][r].w /\ ~maps'[Home[t]][r].cow
    BY <1>10, PcFacts DEF CachedBy
  <2>2. CASE r = s BY <1>6, <1>8, <1>12, <2>2
  <2>3. CASE r # s
    <3>1. tlb'[t][r] = tlb[t][r] /\ maps'[Home[t]][r] = maps[Home[t]][r]
      BY <1>4, <1>5, <1>11, <2>1, <2>3
    <3>2. CachedBy(t) BY DEF IInv, Cached
    <3>3. pc[t] \notin Seg \cup Proc BY <1>10, PcFacts
    <3>4. QED BY <2>1, <3>1, <3>2, <3>3 DEF CachedBy
  <2>4. QED BY <2>2, <2>3
<1>14. SharedIsCow'
  <2> HIDE DEF e
  <2>1. SUFFICES ASSUME NEW p \in Proc, NEW q \in Proc, NEW r \in Seg, NEW x \in Seg,
                        maps'[p][r] # None, maps'[q][x] # None,
                        maps'[p][r].host = maps'[q][x].host, p # q \/ r # x
                 PROVE  maps'[p][r].cow /\ maps'[q][x].cow
    BY DEF SharedIsCow
  <2>2. ~(p = Home[t] /\ r = s) /\ ~(q = Home[t] /\ x = s) BY <1>2, <1>5, <1>6, <2>1 DEF Resolved
  <2>3. maps'[p][r] = maps[p][r] /\ maps'[q][x] = maps[q][x] BY <1>5, <2>2
  <2>4. QED BY <2>1, <2>3 DEF IInv, SharedIsCow
<1>15. QED BY <1>1, <1>9, <1>13, <1>14 DEF IInv, Cached

\* An entry whose slot another translation takes is simply gone.
LEMMA EvictInv == ASSUME IInv, NEW t \in Thread, NEW s \in Seg, Evict(t, s) PROVE IInv'
<1> USE DEF TypeOK
<1>1. TypeOK' BY TypeStep DEF IInv, Next
<1>2. \A u \in Thread, r \in Seg : tlb'[u][r] # None => tlb'[u][r] = tlb[u][r]
  BY DEF IInv, Evict
<1>3. UNCHANGED <<maps, alive, pc, ptr>> BY DEF Evict
<1>4. Dormant'
  <2>1. \A u \in Thread, r \in Seg : tlb[u][r] = None => tlb'[u][r] = None BY <1>2
  <2>2. QED BY <1>3, <2>1 DEF IInv, Dormant
<1>5. Cached' BY <1>2, <1>3 DEF IInv, Cached, CachedBy
<1>6. SharedIsCow' /\ Translated' BY <1>3 DEF IInv, SharedIsCow, Translated, TranslatedBy
<1>7. QED BY <1>1, <1>4, <1>5, <1>6 DEF IInv

\* A call that changes the list of t's process and flushes t's TLB.
LEMMA FlushInv ==
    ASSUME IInv, OneThreadEach, NEW t \in Thread, Home[t] \in alive, UNCHANGED alive,
           pc'[t] # "access", tlb' = Flushed({t}), UNCHANGED ptr,
           \A u \in Thread \ {t} : pc'[u] = pc[u],
           \A p \in Proc \ {Home[t]} : maps'[p] = maps[p]
    PROVE  Dormant' /\ Cached' /\ Translated'
<1>1. \A u \in Thread, r \in Seg : tlb'[u][r] = IF u = t THEN None ELSE tlb[u][r]
  BY FlushFacts DEF IInv
<1>2. Dormant' BY <1>1 DEF IInv, Dormant
<1>3. CachedBy(t)' /\ TranslatedBy(t)' BY <1>1 DEF CachedBy, TranslatedBy
<1>4. ASSUME NEW u \in Thread \ {t} PROVE CachedBy(u)' /\ TranslatedBy(u)'
  <2>1. tlb'[u] = tlb[u] BY DEF Flushed
  <2>2. maps'[Home[u]] = maps[Home[u]] BY MemoryAssumption DEF OneThreadEach
  <2>3. QED BY <2>1, <2>2, OthersKeep
<1>5. QED BY <1>2, <1>3, <1>4 DEF Cached, Translated

\* A segment of t's process is dropped: fewer segments share a page.
LEMMA DropInv ==
    ASSUME IInv, NEW t \in Thread, NEW s \in Seg, maps' = [maps EXCEPT ![Home[t]][s] = None]
    PROVE  SharedIsCow' /\ \A p \in Proc \ {Home[t]} : maps'[p] = maps[p]
<1>1. Home[t] \in Proc BY PcFacts
<1>2. \A q \in Proc, r \in Seg : maps'[q][r] # None => maps'[q][r] = maps[q][r]
  BY <1>1 DEF IInv, TypeOK
<1>3. SharedIsCow' BY <1>2 DEF IInv, SharedIsCow
<1>4. QED BY <1>1, <1>3 DEF IInv, TypeOK

\* mmap's removal of the old segment keeps the invariant: the thread flushes its TLB.
LEMMA MmapPunchInv ==
    ASSUME IInv, OneThreadEach, NEW t \in Thread, NEW s \in Seg, MmapPunch(t, s) PROVE IInv'
<1>1. TypeOK' BY TypeStep DEF IInv, Next
<1>2. SharedIsCow' /\ \A p \in Proc \ {Home[t]} : maps'[p] = maps[p]
  BY DropInv DEF MmapPunch
<1>3. pc'[t] = s /\ \A u \in Thread \ {t} : pc'[u] = pc[u] BY DEF MmapPunch, IInv, TypeOK
<1>4. Dormant' /\ Cached' /\ Translated'
  BY <1>2, <1>3, FlushInv, PcFacts DEF MmapPunch, Running
<1>5. QED BY <1>1, <1>2, <1>4 DEF IInv

\* mmap's new segment is on a fresh page.
LEMMA MmapAddInv ==
    ASSUME IInv, OneThreadEach, NEW t \in Thread, MmapAdd(t) PROVE IInv'
<1> DEFINE e(h) == [host |-> h, w |-> TRUE, cow |-> FALSE]
<1>1. TypeOK' BY TypeStep DEF IInv, Next
<1>2. PICK h \in HPage : Fresh(h) /\ maps' = [maps EXCEPT ![Home[t]][pc[t]] = e(h)]
  BY DEF MmapAdd
<1>3. Home[t] \in Proc /\ Home[t] \in alive /\ pc[t] \in Seg BY PcFacts DEF MmapAdd
<1>4. pc'[t] = "run" /\ \A u \in Thread \ {t} : pc'[u] = pc[u] BY DEF MmapAdd, IInv, TypeOK
<1>5. \A p \in Proc \ {Home[t]} : maps'[p] = maps[p] BY <1>2, <1>3 DEF IInv, TypeOK
<1>6. Dormant' /\ Cached' /\ Translated' BY <1>3, <1>4, <1>5, FlushInv DEF MmapAdd
<1>7. \A q \in Proc, r \in Seg :
        maps'[q][r] = IF q = Home[t] /\ r = pc[t] THEN e(h) ELSE maps[q][r]
  BY <1>2, <1>3 DEF IInv, TypeOK
<1>8. \A q \in Proc, r \in Seg : maps[q][r].host # h BY <1>2, FreshFacts DEF IInv
<1>9. e(h).host = h OBVIOUS
<1> HIDE DEF e
<1>10. SharedIsCow' BY <1>7, <1>8, <1>9 DEF IInv, SharedIsCow
<1>11. QED BY <1>1, <1>6, <1>10 DEF IInv

\* munmap keeps the invariant: the thread flushes its TLB.
LEMMA DoMunmapInv ==
    ASSUME IInv, OneThreadEach, NEW t \in Thread, NEW s \in Seg, DoMunmap(t, s) PROVE IInv'
<1>1. TypeOK' BY TypeStep DEF IInv, Next
<1>2. SharedIsCow' /\ \A p \in Proc \ {Home[t]} : maps'[p] = maps[p]
  BY DropInv DEF DoMunmap
<1>3. Dormant' /\ Cached' /\ Translated' BY <1>2, FlushInv DEF DoMunmap, Running
<1>4. QED BY <1>1, <1>2, <1>3 DEF IInv

\* mprotect changes no page and no sharing.
LEMMA DoMprotectFacts ==
    ASSUME IInv, NEW t \in Thread, NEW s \in Seg, NEW w \in BOOLEAN, DoMprotect(t, s, w)
    PROVE  /\ \A p \in Proc \ {Home[t]} : maps'[p] = maps[p]
           /\ \A q \in Proc, r \in Seg :
                /\ maps'[q][r] = None <=> maps[q][r] = None
                /\ maps[q][r] # None => /\ maps'[q][r].host = maps[q][r].host
                                       /\ maps'[q][r].cow = maps[q][r].cow
<1> DEFINE e == [maps[Home[t]][s] EXCEPT !.w = w]
<1>1. Home[t] \in Proc BY PcFacts
<1>2. maps[Home[t]][s] \in Entry BY <1>1 DEF DoMprotect, Mapped, IInv, TypeOK
<1>3. e \in Entry /\ e # None BY <1>2, EntryFacts
<1>4. e.host = maps[Home[t]][s].host /\ e.cow = maps[Home[t]][s].cow BY <1>2 DEF Entry
<1>5. maps' = [maps EXCEPT ![Home[t]][s] = e] BY <1>1 DEF DoMprotect, IInv, TypeOK
<1>6. maps[Home[t]][s] # None BY <1>2, EntryFacts
<1> HIDE DEF e
<1>7. \A q \in Proc, r \in Seg : maps'[q][r] = IF q = Home[t] /\ r = s THEN e ELSE maps[q][r]
  BY <1>1, <1>5 DEF IInv, TypeOK
<1>8. \A p \in Proc \ {Home[t]} : maps'[p] = maps[p] BY <1>1, <1>5 DEF IInv, TypeOK
<1>9. QED BY <1>3, <1>4, <1>6, <1>7, <1>8

\* mprotect keeps the invariant: the thread flushes its TLB.
LEMMA DoMprotectInv ==
    ASSUME IInv, OneThreadEach, NEW t \in Thread, NEW s \in Seg, NEW w \in BOOLEAN,
           DoMprotect(t, s, w)
    PROVE  IInv'
<1>1. TypeOK' BY TypeStep DEF IInv, Next
<1>2. \A p \in Proc \ {Home[t]} : maps'[p] = maps[p] BY DoMprotectFacts
<1>3. SharedIsCow' BY DoMprotectFacts DEF IInv, SharedIsCow
<1>4. Dormant' /\ Cached' /\ Translated' BY <1>2, FlushInv DEF DoMprotect, Running
<1>5. QED BY <1>1, <1>3, <1>4 DEF IInv

\* After fork's first half parent and child refer to the same pages, all copy-on-write.
LEMMA ForkShareFacts ==
    ASSUME IInv, NEW t \in Thread, NEW q \in Proc, ForkShare(t, q)
    PROVE  /\ q # Home[t] /\ Home[t] \in Proc /\ Home[t] \in alive /\ q \notin alive
           /\ \A p \in Proc \ {Home[t], q} : maps'[p] = maps[p]
           /\ maps'[q] = maps'[Home[t]]
           /\ \A s \in Seg :
                /\ maps'[Home[t]][s] = None <=> maps[Home[t]][s] = None
                /\ maps[Home[t]][s] # None => /\ maps'[Home[t]][s].host = maps[Home[t]][s].host
                                             /\ maps'[Home[t]][s].cow
<1> DEFINE e(s) == [maps[Home[t]][s] EXCEPT !.cow = TRUE]
           shared == [s \in Seg |-> IF maps[Home[t]][s] = None THEN None ELSE e(s)]
<1>1. q # Home[t] /\ Home[t] \in Proc /\ Home[t] \in alive /\ q \notin alive
  BY PcFacts DEF ForkShare, Running
<1>2. maps' = [maps EXCEPT ![Home[t]] = shared, ![q] = shared] BY DEF ForkShare
<1>3. \A s \in Seg : maps[Home[t]][s] # None =>
        e(s) # None /\ e(s).host = maps[Home[t]][s].host /\ e(s).cow
  <2>1. ASSUME NEW s \in Seg, maps[Home[t]][s] # None PROVE maps[Home[t]][s] \in Entry
    BY <1>1, <2>1 DEF IInv, TypeOK
  <2>2. QED BY <2>1, EntryFacts DEF Entry
<1>4. \A s \in Seg : shared[s] = IF maps[Home[t]][s] = None THEN None ELSE e(s) OBVIOUS
<1> HIDE DEF e, shared
<1>5. maps'[Home[t]] = shared /\ maps'[q] = shared BY <1>1, <1>2 DEF IInv, TypeOK
<1>6. \A p \in Proc \ {Home[t], q} : maps'[p] = maps[p] BY <1>1, <1>2 DEF IInv, TypeOK
<1>7. QED BY <1>1, <1>3, <1>4, <1>5, <1>6

\* fork marks both copies of every segment copy-on-write.
LEMMA ForkShareInv ==
    ASSUME IInv, OneThreadEach, NEW t \in Thread, NEW q \in Proc, ForkShare(t, q) PROVE IInv'
<1>1. TypeOK' BY TypeStep DEF IInv, Next
<1>2. UNCHANGED <<alive, tlb, ptr>> BY DEF ForkShare
<1>3. pc'[t] = q /\ \A u \in Thread \ {t} : pc'[u] = pc[u] BY DEF ForkShare, IInv, TypeOK
<1>4. pc[t] = "run" BY DEF ForkShare, Running
<1>5. Dormant' BY <1>2, <1>3, ForkShareFacts DEF IInv, Dormant
<1>6. CachedBy(t)' /\ TranslatedBy(t)'
  <2>1. q \notin Seg /\ q # "access" BY PcFacts
  <2>2. \A s \in Seg :
          /\ maps'[Home[t]][s] = None <=> maps[Home[t]][s] = None
          /\ maps[Home[t]][s] # None => maps'[Home[t]][s].host = maps[Home[t]][s].host
    BY ForkShareFacts
  <2>3. \A s \in Seg : tlb[t][s] # None =>
          maps[Home[t]][s] # None /\ tlb[t][s].host = maps[Home[t]][s].host
    BY DEF IInv, Cached, CachedBy
  <2>4. CachedBy(t)' BY <1>2, <1>3, <2>1, <2>2, <2>3 DEF CachedBy
  <2>5. TranslatedBy(t)' BY <1>3, <2>1 DEF TranslatedBy
  <2>6. QED BY <2>4, <2>5
<1>7. ASSUME NEW u \in Thread \ {t} PROVE CachedBy(u)' /\ TranslatedBy(u)'
  <2>1. CASE Home[u] = q
    <3>1. pc'[u] = "run" /\ \A s \in Seg : tlb'[u][s] = None
      <4>1. Home[u] \notin alive BY <2>1, ForkShareFacts
      <4>2. QED BY <1>2, <1>3, <4>1 DEF IInv, Dormant
    <3>2. QED BY <3>1 DEF CachedBy, TranslatedBy
  <2>2. CASE Home[u] # q
    <3>1. maps'[Home[u]] = maps[Home[u]]
      BY <2>2, ForkShareFacts, PcFacts DEF OneThreadEach
    <3>2. QED BY <1>2, <1>3, <3>1, OthersKeep
  <2>3. QED BY <2>1, <2>2
<1>8. SharedIsCow'
  <2>1. SUFFICES ASSUME NEW p1 \in Proc, NEW p2 \in Proc, NEW s1 \in Seg, NEW s2 \in Seg,
                        maps'[p1][s1] # None, maps'[p2][s2] # None,
                        maps'[p1][s1].host = maps'[p2][s2].host, p1 # p2 \/ s1 # s2
                 PROVE  maps'[p1][s1].cow
    BY DEF SharedIsCow
  <2>2. CASE p1 \in {Home[t], q} BY <2>1, <2>2, ForkShareFacts
  <2>3. CASE p1 \notin {Home[t], q} /\ p2 \in {Home[t], q}
    <3>1. /\ maps[p1][s1] # None /\ maps[Home[t]][s2] # None
          /\ maps[p1][s1].host = maps[Home[t]][s2].host /\ maps'[p1] = maps[p1]
      BY <2>1, <2>3, ForkShareFacts
    <3>2. QED BY <2>3, <3>1, PcFacts DEF IInv, SharedIsCow
  <2>4. CASE p1 \notin {Home[t], q} /\ p2 \notin {Home[t], q}
    <3>1. maps'[p1] = maps[p1] /\ maps'[p2] = maps[p2] BY <2>4, ForkShareFacts
    <3>2. QED BY <2>1, <3>1 DEF IInv, SharedIsCow
  <2>5. QED BY <2>2, <2>3, <2>4
<1>9. QED BY <1>1, <1>5, <1>6, <1>7, <1>8 DEF IInv, Cached, Translated

\* fork's flush removes what the parent had cached as its own.
LEMMA ForkFlushInv ==
    ASSUME IInv, OneThreadEach, NEW t \in Thread, ForkFlush(t) PROVE IInv'
<1>1. TypeOK' BY TypeStep DEF IInv, Next
<1>2. UNCHANGED <<maps, ptr>> /\ alive \subseteq alive' BY DEF ForkFlush
<1>3. pc'[t] = "run" /\ \A u \in Thread \ {t} : pc'[u] = pc[u] BY DEF ForkFlush, IInv, TypeOK
<1>4. Group(Home[t]) = {t} BY DEF Group, OneThreadEach
<1>5. tlb' = Flushed({t}) BY <1>4 DEF ForkFlush
<1>6. \A u \in Thread, r \in Seg : tlb'[u][r] = IF u = t THEN None ELSE tlb[u][r]
  BY <1>5, FlushFacts DEF IInv
<1>7. \A u \in Thread \ {t} : tlb'[u] = tlb[u] BY <1>5 DEF Flushed
<1>8. Dormant' BY <1>2, <1>3, <1>6 DEF IInv, Dormant
<1>9. CachedBy(t)' /\ TranslatedBy(t)' BY <1>3, <1>6 DEF CachedBy, TranslatedBy
<1>10. \A u \in Thread \ {t} : CachedBy(u)' /\ TranslatedBy(u)'
  BY <1>2, <1>3, <1>7, OthersKeep
<1>11. SharedIsCow' BY <1>2 DEF IInv, SharedIsCow
<1>12. QED BY <1>1, <1>8, <1>9, <1>10, <1>11 DEF IInv, Cached, Translated

\* The end of a process frees its segments and its TLB.
LEMMA ExitInv == ASSUME IInv, NEW p \in Proc, Exit(p) PROVE IInv'
<1>1. TypeOK' BY TypeStep DEF IInv, Next
<1>2. UNCHANGED <<pc, ptr>> /\ alive' = alive \ {p} BY DEF Exit
<1>3. \A q \in Proc, s \in Seg : maps'[q][s] = IF q = p THEN None ELSE maps[q][s]
  BY DEF Exit, IInv, TypeOK
<1>4. \A u \in Thread, r \in Seg : tlb'[u][r] = IF Home[u] = p THEN None ELSE tlb[u][r]
  BY FlushFacts DEF Exit, Group, IInv
<1>5. \A u \in Thread : Home[u] = p => pc[u] = "run" BY DEF Exit, Group
<1>6. Dormant' BY <1>2, <1>4, <1>5 DEF IInv, Dormant
<1>7. ASSUME NEW u \in Thread PROVE CachedBy(u)' /\ TranslatedBy(u)'
  <2>1. CASE Home[u] = p BY <1>2, <1>4, <1>5, <2>1 DEF CachedBy, TranslatedBy
  <2>2. CASE Home[u] # p
    <3>1. tlb'[u] = tlb[u] BY <2>2 DEF Exit, Flushed, Group
    <3>2. maps'[Home[u]] = maps[Home[u]] BY <2>2, PcFacts DEF Exit, IInv, TypeOK
    <3>3. QED BY <1>2, <3>1, <3>2, OthersKeep
  <2>3. QED BY <2>1, <2>2
<1>8. SharedIsCow' BY <1>3 DEF IInv, SharedIsCow
<1>9. QED BY <1>1, <1>6, <1>7, <1>8 DEF IInv, Cached, Translated

\* For processes of one thread, TLB entries, copy-on-write marks and translated pointers
\* agree with the segment lists in every reachable state.
THEOREM Inductive == ASSUME OneThreadEach PROVE Spec => []IInv
<1>1. ASSUME IInv, [Next]_vars PROVE IInv'
  <2>1. CASE Next
    BY <1>1, <2>1, AccessInv, MmuInv, MmuWFastInv, MmuWSlowInv, EvictInv, MmapPunchInv,
       MmapAddInv, DoMunmapInv, DoMprotectInv, ForkShareInv, ForkFlushInv, ExitInv DEF Next
  <2>2. CASE UNCHANGED vars
    <3>1. TypeOK' BY <1>1, <2>2 DEF vars, IInv, TypeOK
    <3>2. Dormant' BY <1>1, <2>2 DEF vars, IInv, Dormant
    <3>3. Cached' BY <1>1, <2>2 DEF vars, IInv, Cached, CachedBy
    <3>4. SharedIsCow' BY <1>1, <2>2 DEF vars, IInv, SharedIsCow
    <3>5. Translated' BY <1>1, <2>2 DEF vars, IInv, Translated, TranslatedBy
    <3>6. QED BY <3>1, <3>2, <3>3, <3>4, <3>5 DEF IInv
  <2>3. QED BY <1>1, <2>1, <2>2
<1>2. QED BY <1>1, InitInv, PTL DEF Spec

\* An entry mmu_w uses without a look at the list is of a page nobody else refers to.
THEOREM WritesStayPrivate == ASSUME OneThreadEach PROVE Spec => []WritableIsExclusive
<1>1. ASSUME IInv PROVE WritableIsExclusive
  <2> SUFFICES ASSUME NEW t \in Thread, NEW s \in Seg, pc[t] = "run",
                      tlb[t][s] # None, tlb[t][s].w, ~tlb[t][s].cow,
                      NEW p \in Proc, NEW r \in Seg, maps[p][r].host = tlb[t][s].host
               PROVE  p = Home[t] /\ r = s
    BY DEF WritableIsExclusive
  <2>1. Home[t] \in Proc BY <1>1, PcFacts
  <2>2. tlb[t][s].host # Unmapped BY <1>1, EntryFacts DEF IInv, TypeOK
  <2>3. maps[p][r] # None BY <2>2, EntryFacts
  <2>4. maps[Home[t]][s] # None /\ tlb[t][s].host = maps[Home[t]][s].host
        /\ ~maps[Home[t]][s].cow
    BY <1>1, PcFacts DEF IInv, Cached, CachedBy
  <2>5. SharedIsCow BY <1>1 DEF IInv
  <2>6. maps[Home[t]][s].host = maps[p][r].host BY <2>4
  <2>7. QED BY <2>1, <2>3, <2>4, <2>5, <2>6 DEF SharedIsCow
<1>2. IInv => WritableIsExclusive BY <1>1
<1>3. QED BY <1>2, Inductive, PTL

\* Translations do not outlive what they translate.
THEOREM TranslationsCurrent == ASSUME OneThreadEach PROVE Spec => []TlbCoherent
<1>1. IInv => TlbCoherent BY DEF IInv, Cached, CachedBy, TlbCoherent
<1>2. QED BY <1>1, Inductive, PTL

---------------------------------------------------------------------------
(* Flat private memories *)

\* What the guest sees, segment by segment, with the lists m and the pages c.
Mem(m, c) ==
    [p \in Proc |-> [s \in Seg |-> IF m[p][s] = None THEN Unmapped ELSE c[m[p][s].host]]]

\* What a segment list and the host pages hold, segment by segment.
LEMMA ContentsFacts ==
    ASSUME NEW m \in [Proc -> [Seg -> Entry \cup {None}]], NEW c \in [HPage -> Val]
    PROVE  /\ Mem(m, c) \in [Proc -> [Seg -> Val \cup {Unmapped}]]
           /\ \A p \in Proc, s \in Seg :
                Mem(m, c)[p][s] = IF m[p][s] = None THEN Unmapped ELSE c[m[p][s].host]
<1>1. \A p \in Proc, s \in Seg : m[p][s] # None => c[m[p][s].host] \in Val
  BY EntryFacts
<1>2. QED BY <1>1 DEF Mem

\* The refinement mapping before and after a step, segment by segment.
LEMMA MemFacts ==
    ASSUME TypeOK, TypeOK'
    PROVE  /\ Contents \in [Proc -> [Seg -> Val \cup {Unmapped}]]
           /\ Contents' \in [Proc -> [Seg -> Val \cup {Unmapped}]]
           /\ \A p \in Proc, s \in Seg :
                /\ Contents[p][s] = IF maps[p][s] = None THEN Unmapped
                                    ELSE content[maps[p][s].host]
                /\ Contents'[p][s] = IF maps'[p][s] = None THEN Unmapped
                                     ELSE content'[maps'[p][s].host]
<1>1. Contents = Mem(maps, content) /\ Contents' = Mem(maps', content') BY DEF Contents, Mem
<1>2. /\ maps \in [Proc -> [Seg -> Entry \cup {None}]] /\ content \in [HPage -> Val]
      /\ maps' \in [Proc -> [Seg -> Entry \cup {None}]] /\ content' \in [HPage -> Val]
  BY DEF TypeOK
<1>3. QED BY <1>1, <1>2, ContentsFacts

\* Two memories that agree on every segment are equal.
LEMMA SameMemory ==
    ASSUME NEW V, NEW f \in [Proc -> [Seg -> V]], NEW g \in [Proc -> [Seg -> V]],
           \A p \in Proc, s \in Seg : f[p][s] = g[p][s]
    PROVE  f = g
<1>1. \A p \in Proc : f[p] = g[p] OBVIOUS
<1>2. QED BY <1>1

\* A step that leaves every segment its page and every page its contents is invisible.
LEMMA Invisible ==
    ASSUME TypeOK, TypeOK',
           \A p \in Proc, s \in Seg :
             /\ maps'[p][s] = None <=> maps[p][s] = None
             /\ maps[p][s] # None => content'[maps'[p][s].host] = content[maps[p][s].host]
    PROVE  Contents' = Contents
<1>1. \A p \in Proc, s \in Seg : Contents'[p][s] = Contents[p][s] BY MemFacts
<1>2. QED BY <1>1, MemFacts, SameMemory

\* A step that changes what one segment holds.
LEMMA OneSegment ==
    ASSUME TypeOK, TypeOK', NEW p \in Proc, NEW s \in Seg, NEW v \in Val \cup {Unmapped},
           v = IF maps'[p][s] = None THEN Unmapped ELSE content'[maps'[p][s].host],
           \A q \in Proc, r \in Seg : q # p \/ r # s =>
             /\ maps'[q][r] = None <=> maps[q][r] = None
             /\ maps[q][r] # None => content'[maps'[q][r].host] = content[maps[q][r].host]
    PROVE  Contents' = [Contents EXCEPT ![p][s] = v]
<1> DEFINE g == [Contents EXCEPT ![p][s] = v]
<1>1. g \in [Proc -> [Seg -> Val \cup {Unmapped}]] BY MemFacts
<1>2. \A q \in Proc, r \in Seg : g[q][r] = IF q = p /\ r = s THEN v ELSE Contents[q][r]
  BY MemFacts
<1> HIDE DEF g
<1>3. \A q \in Proc, r \in Seg : Contents'[q][r] = g[q][r] BY <1>2, MemFacts
<1>4. Contents' = g BY <1>1, <1>3, MemFacts, SameMemory
<1>5. QED BY <1>4 DEF g

FlatStep == Flat!Next \/ UNCHANGED Flat!vars

\* A load or store is FlatMemory's Load or Store.
LEMMA AccessFlat == ASSUME IInv, NEW t \in Thread, Access(t) PROVE FlatStep
<1> DEFINE p == Home[t]
           s == ptr[t].seg
<1>1. TypeOK /\ TypeOK' BY AccessInv DEF IInv
<1>2. p \in Proc /\ pc[t] = "access" BY PcFacts DEF Access
<1>3. ptr[t] \in Ptr /\ maps[p][s] # None /\ ptr[t].host = maps[p][s].host
      /\ (ptr[t].op = "store" => ~maps[p][s].cow)
  BY <1>2 DEF IInv, Translated, TranslatedBy
<1>4. s \in Seg /\ ptr[t].v \in Val /\ ptr[t].host \in HPage BY <1>3 DEF Ptr
<1>5. Contents[p][s] = content[ptr[t].host] /\ Contents[p][s] # Unmapped
  <2>1. Contents[p][s] = content[ptr[t].host] BY <1>1, <1>2, <1>3, <1>4, MemFacts
  <2>2. content[ptr[t].host] \in Val BY <1>1, <1>4 DEF TypeOK
  <2>3. QED BY <2>1, <2>2, MemoryAssumption
<1>6. UNCHANGED maps BY DEF Access
<1>7. CASE ptr[t].op = "load"
  <2>1. reg' = [reg EXCEPT ![t] = content[ptr[t].host]] /\ UNCHANGED content
    BY <1>7 DEF Access
  <2>2. Contents' = Contents BY <1>6, <2>1 DEF Contents
  <2>3. Flat!Load(t, s) BY <1>5, <2>1, <2>2 DEF Flat!Load
  <2>4. QED BY <1>4, <2>3 DEF FlatStep, Flat!Next
<1>8. CASE ptr[t].op = "store"
  <2>1. content' = [content EXCEPT ![ptr[t].host] = ptr[t].v] /\ UNCHANGED reg
    BY <1>8 DEF Access
  <2>2. content'[ptr[t].host] = ptr[t].v
        /\ \A h \in HPage : h # ptr[t].host => content'[h] = content[h]
    BY <1>1, <1>4, <2>1 DEF TypeOK
  <2>3. \A q \in Proc, r \in Seg :
          (q # p \/ r # s) /\ maps[q][r] # None => maps[q][r].host # ptr[t].host
    <3> SUFFICES ASSUME NEW q \in Proc, NEW r \in Seg, q # p \/ r # s, maps[q][r] # None,
                        maps[q][r].host = ptr[t].host
                 PROVE  FALSE
      OBVIOUS
    <3>1. SharedIsCow BY DEF IInv
    <3>2. ~maps[p][s].cow /\ maps[p][s].host = maps[q][r].host BY <1>3, <1>8
    <3> HIDE DEF p, s
    <3>3. QED BY <1>2, <1>3, <1>4, <3>1, <3>2 DEF SharedIsCow
  <2>4. \A q \in Proc, r \in Seg : maps[q][r] # None => maps[q][r].host \in HPage
    BY <1>1, EntryFacts DEF TypeOK
  <2>5. \A q \in Proc, r \in Seg : q # p \/ r # s =>
          /\ maps'[q][r] = None <=> maps[q][r] = None
          /\ maps[q][r] # None => content'[maps'[q][r].host] = content[maps[q][r].host]
    BY <1>6, <2>2, <2>3, <2>4
  <2>6. ptr[t].v = IF maps'[p][s] = None THEN Unmapped ELSE content'[maps'[p][s].host]
    BY <1>3, <1>6, <2>2
  <2>7. Contents' = [Contents EXCEPT ![p][s] = ptr[t].v]
    <3> HIDE DEF p, s
    <3> QED BY <1>1, <1>2, <1>4, <2>5, <2>6, OneSegment
  <2>8. Flat!Store(t, s, ptr[t].v) BY <1>5, <2>1, <2>7 DEF Flat!Store
  <2>9. QED BY <1>4, <2>8 DEF FlatStep, Flat!Next
<1>9. QED BY <1>3, <1>7, <1>8 DEF Ptr

\* Resolving copy-on-write changes no contents.
LEMMA MmuWSlowFlat ==
    ASSUME IInv, OneThreadEach, NEW t \in Thread, NEW s \in Seg, NEW v \in Val,
           MmuWSlow(t, s, v)
    PROVE  FlatStep
<1>1. TypeOK /\ TypeOK' BY MmuWSlowInv DEF IInv
<1>2. PICK h \in HPage : Resolved(t, s, v, h) BY MmuWSlowFacts
<1>3. Home[t] \in Proc /\ maps[Home[t]][s] # None BY PcFacts DEF MmuWSlow
<1> DEFINE e == [host |-> h, w |-> TRUE, cow |-> FALSE]
<1>4. \A q \in Proc, r \in Seg :
        maps'[q][r] = IF q = Home[t] /\ r = s THEN e ELSE maps[q][r]
  BY <1>1, <1>2, <1>3 DEF Resolved, TypeOK
<1>5. e # None /\ e.host = h BY EntryFacts
<1> HIDE DEF e
<1>6. \A q \in Proc, r \in Seg : maps[q][r] # None => maps[q][r].host \in HPage
  BY <1>1, EntryFacts DEF TypeOK
<1>7. \A q \in Proc, r \in Seg :
        /\ maps'[q][r] = None <=> maps[q][r] = None
        /\ maps[q][r] # None => content'[maps'[q][r].host] = content[maps[q][r].host]
  <2> SUFFICES ASSUME NEW q \in Proc, NEW r \in Seg
               PROVE  /\ maps'[q][r] = None <=> maps[q][r] = None
                      /\ maps[q][r] # None =>
                           content'[maps'[q][r].host] = content[maps[q][r].host]
    OBVIOUS
  <2>1. CASE q = Home[t] /\ r = s
    <3>1. maps'[q][r] = e BY <1>4, <2>1
    <3>2. content'[h] = content[maps[Home[t]][s].host] BY <1>2 DEF Resolved
    <3>3. QED BY <1>3, <1>5, <2>1, <3>1, <3>2
  <2>2. CASE ~(q = Home[t] /\ r = s)
    <3>1. maps'[q][r] = maps[q][r] BY <1>4, <2>2
    <3>2. maps[q][r] # None => maps[q][r].host # h BY <1>2, <2>2 DEF Resolved
    <3>3. QED BY <1>2, <1>6, <3>1, <3>2 DEF Resolved
  <2>3. QED BY <2>1, <2>2
<1>8. Contents' = Contents BY <1>1, <1>7, Invisible
<1>9. UNCHANGED reg BY DEF MmuWSlow
<1>10. QED BY <1>8, <1>9 DEF FlatStep, Flat!vars

\* A segment of p is unmapped.
LEMMA UnmapFlat ==
    ASSUME TypeOK, TypeOK', NEW p \in Proc, NEW s \in Seg, UNCHANGED <<content, reg>>,
           maps' = [maps EXCEPT ![p][s] = None]
    PROVE  FlatStep
<1>1. maps'[p][s] = None /\ \A q \in Proc, r \in Seg : q # p \/ r # s => maps'[q][r] = maps[q][r]
  BY DEF TypeOK
<1>2. Contents' = [Contents EXCEPT ![p][s] = Unmapped] BY <1>1, OneSegment
<1>3. Flat!Unmap(p, s) BY <1>2 DEF Flat!Unmap
<1>4. QED BY <1>3 DEF FlatStep, Flat!Next

\* mmap's new segment is FlatMemory's Map.
LEMMA MmapAddFlat ==
    ASSUME IInv, OneThreadEach, NEW t \in Thread, MmapAdd(t) PROVE FlatStep
<1> DEFINE p == Home[t]
           s == pc[t]
           e(h) == [host |-> h, w |-> TRUE, cow |-> FALSE]
<1>1. TypeOK /\ TypeOK' BY MmapAddInv DEF IInv
<1>2. PICK h \in HPage : /\ Fresh(h) /\ maps' = [maps EXCEPT ![p][s] = e(h)]
                         /\ content' = [content EXCEPT ![h] = Zero]
  BY DEF MmapAdd
<1>3. p \in Proc /\ s \in Seg BY PcFacts DEF MmapAdd
<1>4. \A q \in Proc, r \in Seg : maps'[q][r] = IF q = p /\ r = s THEN e(h) ELSE maps[q][r]
  BY <1>1, <1>2, <1>3 DEF TypeOK
<1>5. e(h) # None /\ e(h).host = h BY EntryFacts
<1>6. \A q \in Proc, r \in Seg : maps[q][r].host # h BY <1>1, <1>2, FreshFacts
<1>7. \A q \in Proc, r \in Seg : maps[q][r] # None => maps[q][r].host \in HPage
  BY <1>1, EntryFacts DEF TypeOK
<1>8. content'[h] = Zero /\ \A g \in HPage \ {h} : content'[g] = content[g]
  BY <1>1, <1>2 DEF TypeOK
<1> HIDE DEF e, p, s
<1>9. Contents' = [Contents EXCEPT ![p][s] = Zero]
  BY <1>1, <1>3, <1>4, <1>5, <1>6, <1>7, <1>8, OneSegment, MemoryAssumption
<1>10. UNCHANGED reg BY DEF MmapAdd
<1>11. Flat!Map(p, s) BY <1>9, <1>10 DEF Flat!Map
<1>12. QED BY <1>3, <1>11 DEF FlatStep, Flat!Next

\* mprotect changes no contents.
LEMMA DoMprotectFlat ==
    ASSUME IInv, OneThreadEach, NEW t \in Thread, NEW s \in Seg, NEW w \in BOOLEAN,
           DoMprotect(t, s, w)
    PROVE  FlatStep
<1>1. TypeOK /\ TypeOK' BY DoMprotectInv DEF IInv
<1>2. UNCHANGED <<content, reg>> BY DEF DoMprotect
<1>3. Contents' = Contents BY <1>1, <1>2, DoMprotectFacts, Invisible
<1>4. QED BY <1>2, <1>3 DEF FlatStep, Flat!vars

\* fork's sharing of the pages is FlatMemory's Fork.
LEMMA ForkShareFlat ==
    ASSUME IInv, OneThreadEach, NEW t \in Thread, NEW q \in Proc, ForkShare(t, q)
    PROVE  FlatStep
<1> DEFINE p == Home[t]
           g == [Contents EXCEPT ![q] = Contents[p]]
<1>1. TypeOK /\ TypeOK' BY ForkShareInv DEF IInv
<1>2. UNCHANGED <<content, reg>> /\ p \in Proc BY ForkShareFacts DEF ForkShare
<1>3. g \in [Proc -> [Seg -> Val \cup {Unmapped}]] BY <1>1, <1>2, MemFacts
<1>4. \A x \in Proc, r \in Seg : g[x][r] = IF x = q THEN Contents[p][r] ELSE Contents[x][r]
  BY <1>1, <1>2, MemFacts
<1>5. \A x \in Proc, r \in Seg :
        /\ maps'[x][r] = None <=> maps[IF x = q THEN p ELSE x][r] = None
        /\ maps'[x][r] # None => maps'[x][r].host = maps[IF x = q THEN p ELSE x][r].host
  <2>1. ASSUME NEW x \in Proc, x \in {p, q}, NEW r \in Seg
        PROVE  /\ maps'[x][r] = None <=> maps[p][r] = None
               /\ maps'[x][r] # None => maps'[x][r].host = maps[p][r].host
    <3>1. maps'[x] = maps'[p] BY <2>1, ForkShareFacts
    <3>2. /\ maps'[p][r] = None <=> maps[p][r] = None
          /\ maps[p][r] # None => maps'[p][r].host = maps[p][r].host
      BY ForkShareFacts
    <3>3. QED BY <3>1, <3>2
  <2>2. \A x \in Proc \ {p, q} : maps'[x] = maps[x] BY ForkShareFacts
  <2>3. QED BY <2>1, <2>2
<1> HIDE DEF g, p
<1>6. \A x \in Proc, r \in Seg : Contents'[x][r] = g[x][r]
  <2> SUFFICES ASSUME NEW x \in Proc, NEW r \in Seg PROVE Contents'[x][r] = g[x][r] OBVIOUS
  <2> DEFINE z == IF x = q THEN p ELSE x
  <2>1. z \in Proc /\ g[x][r] = Contents[z][r] BY <1>2, <1>4
  <2>2. /\ maps'[x][r] = None <=> maps[z][r] = None
        /\ maps'[x][r] # None => maps'[x][r].host = maps[z][r].host
    BY <1>5
  <2> HIDE DEF z
  <2>3. Contents'[x][r] = Contents[z][r] BY <1>1, <1>2, <2>1, <2>2, MemFacts
  <2>4. QED BY <2>1, <2>3
<1>7. Contents' = g
  <2>1. Contents' \in [Proc -> [Seg -> Val \cup {Unmapped}]] BY <1>1, MemFacts
  <2>2. QED BY <1>3, <1>6, <2>1, SameMemory
<1>8. Flat!Fork(p, q) BY <1>2, <1>7 DEF Flat!Fork, g
<1>9. QED BY <1>2, <1>8 DEF FlatStep, Flat!Next

\* The end of a process is FlatMemory's Exit.
LEMMA ExitFlat == ASSUME IInv, NEW p \in Proc, Exit(p) PROVE FlatStep
<1> DEFINE g == [Contents EXCEPT ![p] = [s \in Seg |-> Unmapped]]
<1>1. TypeOK /\ TypeOK' BY ExitInv DEF IInv
<1>2. UNCHANGED <<content, reg>> BY DEF Exit
<1>3. g \in [Proc -> [Seg -> Val \cup {Unmapped}]] BY <1>1, MemFacts
<1>4. \A x \in Proc, r \in Seg : g[x][r] = IF x = p THEN Unmapped ELSE Contents[x][r]
  BY <1>1, MemFacts
<1>5. \A x \in Proc, r \in Seg : maps'[x][r] = IF x = p THEN None ELSE maps[x][r]
  BY <1>1 DEF Exit, TypeOK
<1> HIDE DEF g
<1>6. \A x \in Proc, r \in Seg : Contents'[x][r] = g[x][r] BY <1>1, <1>2, <1>4, <1>5, MemFacts
<1>7. Contents' = g BY <1>1, <1>3, <1>6, MemFacts, SameMemory
<1>8. Flat!Exit(p) BY <1>2, <1>7 DEF Flat!Exit, g
<1>9. QED BY <1>8 DEF FlatStep, Flat!Next

\* Every step is a step of FlatMemory or leaves its variables alone.
LEMMA StepFlat == ASSUME IInv, OneThreadEach, [Next]_vars PROVE FlatStep
<1>1. ASSUME UNCHANGED <<maps, content, reg>> PROVE FlatStep
  <2>1. Contents' = Contents BY <1>1 DEF Contents
  <2>2. QED BY <1>1, <2>1 DEF FlatStep, Flat!vars
<1>2. ASSUME NEW t \in Thread, NEW s \in Seg, Mmu(t, s) \/ Evict(t, s) PROVE FlatStep
  BY <1>1, <1>2 DEF Mmu, Evict
<1>3. ASSUME NEW t \in Thread, NEW s \in Seg, NEW v \in Val, MmuWFast(t, s, v) PROVE FlatStep
  BY <1>1, <1>3 DEF MmuWFast
<1>4. ASSUME NEW t \in Thread, ForkFlush(t) PROVE FlatStep BY <1>1, <1>4 DEF ForkFlush
<1>5. ASSUME NEW t \in Thread, NEW s \in Seg, MmapPunch(t, s) PROVE FlatStep
  <2>1. TypeOK /\ TypeOK' BY <1>5, MmapPunchInv DEF IInv
  <2>2. QED BY <1>5, <2>1, UnmapFlat, PcFacts DEF MmapPunch
<1>6. ASSUME NEW t \in Thread, NEW s \in Seg, DoMunmap(t, s) PROVE FlatStep
  <2>1. TypeOK /\ TypeOK' BY <1>6, DoMunmapInv DEF IInv
  <2>2. QED BY <1>6, <2>1, UnmapFlat, PcFacts DEF DoMunmap
<1>7. CASE UNCHANGED vars BY <1>1, <1>7 DEF vars
<1>8. QED
  BY <1>2, <1>3, <1>4, <1>5, <1>6, <1>7, AccessFlat, MmuWSlowFlat, MmapAddFlat,
     DoMprotectFlat, ForkShareFlat, ExitFlat DEF Next

\* With one thread per process, segments with copy-on-write and TLBs implement flat
\* private memories: a store changes its own process only, a load returns the last
\* store, fork copies, and resolving copy-on-write is invisible.
THEOREM MemoryIsFlat == ASSUME OneThreadEach PROVE Spec => FlatSpec
<1>1. Init => Flat!Init
  <2> SUFFICES ASSUME Init PROVE Flat!Init OBVIOUS
  <2>1. TypeOK BY InitInv DEF IInv
  <2>2. Contents = Mem(maps, content) BY DEF Contents, Mem
  <2>3. maps \in [Proc -> [Seg -> Entry \cup {None}]] /\ content \in [HPage -> Val]
    BY <2>1 DEF TypeOK
  <2>4. QED BY <2>2, <2>3, ContentsFacts DEF Init, Flat!Init
<1>2. IInv /\ [Next]_vars => [Flat!Next]_(Flat!vars) BY StepFlat DEF FlatStep
<1>3. QED BY <1>1, <1>2, Inductive, PTL DEF Spec, FlatSpec, Flat!Spec
=============================================================================
