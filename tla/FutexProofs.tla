---------------------------- MODULE FutexProofs ----------------------------
(***************************************************************************)
(* Theorems about Futex for any threads, futex words and wake counts.  A   *)
(* bucket only ever gains the thread that registers, which is in none, and *)
(* loses the tail that a wake takes or the thread that detaches itself;    *)
(* so a thread asleep is in its bucket or in the list of a waker, and that *)
(* list is emptied by wakeup(true) calls only.                             *)
(***************************************************************************)
EXTENDS Futex, SequenceTheorems, TLAPS

---------------------------------------------------------------------------
(* Sequences of waiters *)

\* Registration puts one element at the end (waiters.push_back).
LEMMA AppendFacts ==
  ASSUME NEW S, NEW s \in Seq(S), NEW e \in S
  PROVE  /\ Append(s, e) \in Seq(S)
         /\ Range(Append(s, e)) = Range(s) \cup {e}
         /\ IsInjective(s) /\ e \notin Range(s) => IsInjective(Append(s, e))
<1> DEFINE n == Len(s)
           r == Append(s, e)
<1>1. n \in Nat /\ DOMAIN s = 1 .. n
  OBVIOUS
<1>2. r \in Seq(S) /\ DOMAIN r = 1 .. n + 1
  BY AppendProperties
<1>3. r[n + 1] = e /\ \A i \in 1 .. n : r[i] = s[i]
  BY AppendProperties
<1> HIDE DEF n, r
<1>4. Range(r) = Range(s) \cup {e}
  <2>1. Range(r) \subseteq Range(s) \cup {e}
    BY <1>1, <1>2, <1>3 DEF Range
  <2>2. e \in Range(r)
    BY <1>1, <1>2, <1>3 DEF Range
  <2>3. Range(s) \subseteq Range(r)
    <3> SUFFICES ASSUME NEW i \in 1 .. n PROVE s[i] \in Range(r)
      BY <1>1 DEF Range
    <3>1. i \in 1 .. n + 1 /\ r[i] = s[i]
      BY <1>1, <1>3
    <3>2. QED
      BY <1>2, <3>1 DEF Range
  <2>4. QED
    BY <2>1, <2>2, <2>3
<1>5. ASSUME IsInjective(s), e \notin Range(s) PROVE IsInjective(r)
  <2>1. \A i \in 1 .. n : s[i] # e
    BY <1>1, <1>5 DEF Range
  <2>2. \A i, j \in 1 .. n : s[i] = s[j] => i = j
    BY <1>1, <1>5 DEF IsInjective
  <2>3. QED
    BY <1>1, <1>2, <1>3, <2>1, <2>2 DEF IsInjective
<1>6. QED
  BY <1>2, <1>4, <1>5 DEF r

\* A bucket cut at k: what stays and what a wake takes make up the bucket
\* (waiters.pop_back in futex_wake).
LEMMA CutFacts ==
  ASSUME NEW S, NEW s \in Seq(S), NEW k \in 0 .. Len(s)
  PROVE  LET left == SubSeq(s, 1, k)
             taken == Reverse(SubSeq(s, k + 1, Len(s)))
         IN  /\ left \in Seq(S) /\ taken \in Seq(S)
             /\ Range(s) = Range(left) \cup Range(taken)
             /\ IsInjective(s) => IsInjective(left)
             /\ k < Len(s) => taken # <<>>
<1> DEFINE n == Len(s)
           left == SubSeq(s, 1, k)
           rest == SubSeq(s, k + 1, n)
           taken == Reverse(rest)
<1>1. n \in Nat /\ k \in 0 .. n /\ DOMAIN s = 1 .. n
  OBVIOUS
<1>2. left \in Seq(S) /\ DOMAIN left = 1 .. k /\ \A i \in 1 .. k : left[i] = s[i]
  OBVIOUS
<1>3. /\ rest \in Seq(S) /\ Len(rest) = n - k
      /\ \A i \in 1 .. n - k : rest[i] = s[k + i]
  OBVIOUS
<1> HIDE DEF left, rest, n
<1>4. /\ taken \in Seq(S) /\ DOMAIN taken = 1 .. n - k /\ Len(taken) = n - k
      /\ \A i \in 1 .. n - k : taken[i] = s[n - i + 1]
  <2>1. taken = [i \in 1 .. n - k |-> rest[(n - k) - i + 1]]
    BY <1>3 DEF Reverse
  <2>2. \A i \in 1 .. n - k : (n - k) - i + 1 \in 1 .. n - k /\ k + ((n - k) - i + 1) = n - i + 1
    BY <1>1
  <2>3. ASSUME NEW i \in 1 .. n - k PROVE rest[(n - k) - i + 1] = s[n - i + 1]
    <3>1. rest[(n - k) - i + 1] = s[k + ((n - k) - i + 1)]
      BY <1>3, <2>2
    <3>2. QED
      BY <2>2, <3>1
  <2>4. \A i \in 1 .. n - k : rest[(n - k) - i + 1] \in S
    BY <1>3, <2>2
  <2>5. n - k \in Nat
    BY <1>1
  <2>6. taken \in [1 .. n - k -> S]
    BY <2>1, <2>4
  <2>7. taken \in Seq(S) /\ Len(taken) = n - k
    BY <2>5, <2>6
  <2>8. QED
    BY <2>1, <2>3, <2>6, <2>7
<1> HIDE DEF taken
<1>5. Range(s) \subseteq Range(left) \cup Range(taken)
  <2> SUFFICES ASSUME NEW i \in 1 .. n
               PROVE  s[i] \in Range(left) \cup Range(taken)
    BY <1>1 DEF Range
  <2>1. CASE i <= k
    <3>1. i \in 1 .. k
      BY <1>1, <2>1
    <3>2. QED
      BY <1>2, <3>1 DEF Range
  <2>2. CASE i > k
    <3>1. n - i + 1 \in 1 .. n - k /\ n - (n - i + 1) + 1 = i
      BY <1>1, <2>2
    <3>2. taken[n - i + 1] = s[i]
      BY <1>4, <3>1
    <3>3. QED
      BY <1>4, <3>1, <3>2 DEF Range
  <2>3. QED
    BY <1>1, <2>1, <2>2
<1>6. Range(left) \subseteq Range(s)
  <2>1. \A i \in 1 .. k : i \in 1 .. n
    BY <1>1
  <2>2. QED
    BY <1>1, <1>2, <2>1 DEF Range
<1>7. Range(taken) \subseteq Range(s)
  <2>1. \A i \in 1 .. n - k : n - i + 1 \in 1 .. n
    BY <1>1
  <2>2. QED
    BY <1>1, <1>4, <2>1 DEF Range
<1>8. IsInjective(s) => IsInjective(left)
  <2>1. \A i \in 1 .. k : i \in 1 .. n
    BY <1>1
  <2>2. QED
    BY <1>1, <1>2, <2>1 DEF IsInjective
<1>9. k < n => taken # <<>>
  BY <1>1, <1>4
<1>10. QED
  BY <1>2, <1>4, <1>5, <1>6, <1>7, <1>8, <1>9 DEF left, taken, rest, n

\* futex_detach removes the thread, and only the thread, from a bucket it stands in once.
LEMMA DetachFacts ==
  ASSUME NEW S, NEW s \in Seq(S), NEW e, IsInjective(s)
  PROVE  /\ futex_detach(s, e) \in Seq(S)
         /\ Range(futex_detach(s, e)) = Range(s) \ {e}
         /\ IsInjective(futex_detach(s, e))
<1>1. CASE ~ \E i \in 1 .. Len(s) : s[i] = e
  <2>1. futex_detach(s, e) = s
    BY <1>1 DEF futex_detach, RemoveFirst
  <2>2. e \notin Range(s)
    BY <1>1 DEF Range
  <2>3. QED
    BY <2>1, <2>2
<1>2. ASSUME NEW i \in 1 .. Len(s), s[i] = e
      PROVE  /\ futex_detach(s, e) \in Seq(S)
             /\ Range(futex_detach(s, e)) = Range(s) \ {e}
             /\ IsInjective(futex_detach(s, e))
  <2> DEFINE n == Len(s)
             head == SubSeq(s, 1, i - 1)
             tail == SubSeq(s, i + 1, n)
             r == RemoveAt(s, i)
  <2>1. n \in Nat /\ DOMAIN s = 1 .. n /\ i \in 1 .. n
    OBVIOUS
  <2>2. \A j, m \in 1 .. n : s[j] = s[m] => j = m
    BY <2>1 DEF IsInjective
  <2>3. futex_detach(s, e) = r
    <3>1. {j \in 1 .. Len(s) : s[j] = e} = {i}
      BY <1>2, <2>2
    <3>2. Min({i}) = i
      BY <2>1 DEF Min
    <3>3. SelectInSeq(s, LAMBDA v : v = e) = i
      BY <3>1, <3>2 DEF SelectInSeq
    <3>4. QED
      BY <1>2, <3>3 DEF futex_detach, RemoveFirst
  <2>4. head \in Seq(S) /\ Len(head) = i - 1 /\ \A j \in 1 .. i - 1 : head[j] = s[j]
    OBVIOUS
  <2>5. tail \in Seq(S) /\ Len(tail) = n - i /\ \A j \in 1 .. n - i : tail[j] = s[i + j]
    OBVIOUS
  <2> HIDE DEF n, head, tail
  <2>6. r = head \o tail
    BY DEF r, RemoveAt, head, tail, n
  <2> HIDE DEF r
  <2>7. r \in Seq(S) /\ Len(r) = n - 1 /\ DOMAIN r = 1 .. n - 1
    <3>1. r \in Seq(S) /\ Len(r) = Len(head) + Len(tail)
      BY <2>4, <2>5, <2>6, ConcatProperties, Zenon
    <3>2. Len(head) + Len(tail) = n - 1
      BY <2>1, <2>4, <2>5
    <3>3. QED
      BY <3>1, <3>2, LenProperties
  <2>8. \A j \in 1 .. n - 1 : r[j] = IF j < i THEN s[j] ELSE s[j + 1]
    <3> SUFFICES ASSUME NEW j \in 1 .. n - 1
                 PROVE  r[j] = IF j < i THEN s[j] ELSE s[j + 1]
      OBVIOUS
    <3>1. r[j] = IF j <= i - 1 THEN head[j] ELSE tail[j - (i - 1)]
      BY <2>1, <2>4, <2>5, <2>6, ConcatProperties
    <3>2. CASE j < i
      BY <2>1, <2>4, <3>1, <3>2
    <3>3. CASE ~(j < i)
      <4>1. j - (i - 1) \in 1 .. n - i /\ i + (j - (i - 1)) = j + 1
        BY <2>1, <3>3
      <4>2. QED
        BY <2>1, <2>5, <3>1, <3>3, <4>1
    <3>4. QED
      BY <3>2, <3>3
  <2>9. Range(r) \subseteq Range(s) \ {e}
    <3> SUFFICES ASSUME NEW j \in 1 .. n - 1 PROVE r[j] \in Range(s) \ {e}
      BY <2>7 DEF Range
    <3>1. PICK m \in 1 .. n : r[j] = s[m] /\ m # i
      BY <2>1, <2>8
    <3>2. QED
      BY <1>2, <2>1, <2>2, <3>1 DEF Range
  <2>10. Range(s) \ {e} \subseteq Range(r)
    <3> SUFFICES ASSUME NEW j \in 1 .. n, j # i PROVE s[j] \in Range(r)
      BY <1>2, <2>1 DEF Range
    <3>1. CASE j < i
      <4>1. j \in 1 .. n - 1 /\ r[j] = s[j]
        BY <2>1, <2>8, <3>1
      <4>2. QED
        BY <2>7, <4>1 DEF Range
    <3>2. CASE j > i
      <4>1. j - 1 \in 1 .. n - 1 /\ ~(j - 1 < i) /\ (j - 1) + 1 = j
        BY <2>1, <3>2
      <4>2. r[j - 1] = s[j]
        BY <2>8, <4>1
      <4>3. QED
        BY <2>7, <4>1, <4>2 DEF Range
    <3>3. QED
      BY <2>1, <3>1, <3>2
  <2>11. IsInjective(r)
    <3> SUFFICES ASSUME NEW j \in 1 .. n - 1, NEW m \in 1 .. n - 1, r[j] = r[m]
                 PROVE  j = m
      BY <2>7 DEF IsInjective
    <3>1. (IF j < i THEN j ELSE j + 1) = (IF m < i THEN m ELSE m + 1)
      BY <2>1, <2>2, <2>8
    <3>2. QED
      BY <2>1, <3>1
  <2>12. QED
    BY <2>3, <2>7, <2>9, <2>10, <2>11
<1>3. QED
  BY <1>1, <1>2

\* The first waiter of a list that is not empty, and the others (futex_wake's wake list).
LEMMA TailFacts ==
  ASSUME NEW s \in Seq(Thread), s # <<>>
  PROVE  /\ Tail(s) \in Seq(Thread)
         /\ Tail(s) = <<>> <=> Len(s) = 1
         /\ Head(s) \in Thread /\ Head(s) \in Range(s)
         /\ Range(s) \subseteq Range(Tail(s)) \cup {Head(s)}
<1> DEFINE n == Len(s)
<1>1. n \in Nat /\ n # 0
  BY EmptySeq
<1>2. Tail(s) \in Seq(Thread) /\ Len(Tail(s)) = n - 1
  BY HeadTailProperties
<1>3. \A i \in 1 .. Len(Tail(s)) : Tail(s)[i] = s[i + 1]
  BY HeadTailProperties
<1>4. Head(s) = s[1] /\ Head(s) \in Thread
  BY HeadTailProperties
<1>5. Tail(s) = <<>> <=> Len(Tail(s)) = 0
  BY <1>2, EmptySeq
<1>6. Tail(s) = <<>> <=> n = 1
  <2> HIDE DEF n
  <2> QED  BY <1>1, <1>2, <1>5
<1>7. DOMAIN s = 1 .. n
  OBVIOUS
<1>8. DOMAIN Tail(s) = 1 .. Len(Tail(s))
  BY <1>2
<1>9. ASSUME NEW i \in 1 .. n, i # 1 PROVE s[i] \in Range(Tail(s))
  <2> HIDE DEF n
  <2>1. i - 1 \in 1 .. Len(Tail(s)) /\ (i - 1) + 1 = i
    BY <1>1, <1>2, <1>9
  <2>2. Tail(s)[i - 1] = s[(i - 1) + 1]
    BY <1>3, <2>1
  <2>3. QED
    BY <1>8, <2>1, <2>2 DEF Range
<1>10. 1 \in DOMAIN s
  <2> HIDE DEF n
  <2> QED  BY <1>1, <1>7
<1>11. Head(s) \in Range(s)
  BY <1>4, <1>10 DEF Range
<1>12. Range(s) \subseteq Range(Tail(s)) \cup {Head(s)}
  BY <1>4, <1>7, <1>9 DEF Range
<1>13. QED
  BY <1>2, <1>4, <1>6, <1>11, <1>12

---------------------------------------------------------------------------
(* Types *)

\* The initial state is well typed.
LEMMA InitType == Init => TypeOK
<1> SUFFICES ASSUME Init PROVE TypeOK
  OBVIOUS
<1>1. AnyAddr \in Addr
  BY FutexAssumption DEF AnyAddr
<1>2. bucket \in [Addr -> Seq(Thread)] /\ towake \in [Thread -> Seq(Thread)]
  BY DEF Init
<1>3. QED
  BY <1>1, <1>2, FutexAssumption DEF Init, TypeOK, Rc, Flag

\* What a wake of n waiters takes and leaves (futex_wake, futex_child_tid_clear).
LEMMA WakeFacts ==
  ASSUME TypeOK, NEW a \in Addr, NEW n \in Nat
  PROVE  /\ Left(a, n) \in Seq(Thread) /\ Taken(a, n) \in Seq(Thread)
         /\ Range(bucket[a]) = Range(Left(a, n)) \cup Range(Taken(a, n))
         /\ IsInjective(bucket[a]) => IsInjective(Left(a, n))
         /\ n > 0 /\ bucket[a] # <<>> => Taken(a, n) # <<>>
<1>1. bucket[a] \in Seq(Thread) /\ Len(bucket[a]) \in Nat
  BY DEF TypeOK
<1>2. Stay(a, n) \in 0 .. Len(bucket[a])
  BY <1>1 DEF Stay
<1>3. n > 0 /\ bucket[a] # <<>> => Stay(a, n) < Len(bucket[a])
  BY <1>1, EmptySeq DEF Stay
<1>4. QED
  BY <1>1, <1>2, <1>3, CutFacts DEF Left, Taken

\* The list of a waker is empty exactly when it is not waking (futex_wake returns after
\* its last wakeup).
WakeLists == \A t \in Thread : pc[t] = "waking" <=> towake[t] # <<>>

\* The inductive invariant.
IInv == TypeOK /\ BucketExact /\ WakeLists /\ NoLostWake

\* Every step keeps the types.
LEMMA TypeStep == IInv /\ [Next]_vars => TypeOK'
<1> SUFFICES ASSUME IInv, [Next]_vars PROVE TypeOK'
  OBVIOUS
<1> USE DEF IInv, TypeOK, Rc, Flag, SetFlag, ClearFlag, ClearFlagAll
<1>a. AnyAddr \in Addr
  BY FutexAssumption DEF AnyAddr
<1>1. ASSUME NEW t \in Thread, NEW a \in Addr, NEW v \in Val, Store(t, a, v) PROVE TypeOK'
  BY <1>1 DEF Store
<1>2. ASSUME NEW t \in Thread, NEW a \in Addr, NEW v \in Val, WaitAgain(t, a, v) PROVE TypeOK'
  BY <1>2, <1>a, FutexAssumption DEF WaitAgain, Forget
<1>3. ASSUME NEW t \in Thread, NEW a \in Addr, NEW v \in Val, WaitRegister(t, a, v) PROVE TypeOK'
  <2>1. Append(bucket[a], t) \in Seq(Thread)
    BY AppendFacts
  <2>2. bucket' \in [Addr -> Seq(Thread)]
    BY <1>3, <2>1 DEF WaitRegister
  <2>3. QED
    BY <1>3, <2>2 DEF WaitRegister
<1>4. ASSUME NEW t \in Thread, WaitForDone(t) PROVE TypeOK'
  BY <1>4 DEF WaitForDone
<1>5. ASSUME NEW t \in Thread, WaitTimeout(t) PROVE TypeOK'
  BY <1>5 DEF WaitTimeout
<1>6. ASSUME NEW t \in Thread, WaitDetach(t) PROVE TypeOK'
  <2>1. futex_detach(bucket[addr[t]], t) \in Seq(Thread)
    BY DetachFacts DEF BucketExact
  <2>2. bucket' \in [Addr -> Seq(Thread)]
    BY <1>6, <2>1 DEF WaitDetach
  <2>3. addr' \in [Thread -> Addr] /\ val' \in [Thread -> Val] /\ rc' \in [Thread -> Rc]
    <3>1. CASE UNCHANGED <<addr, val, rc>>
      BY <3>1
    <3>2. CASE rc' = [rc EXCEPT ![t] = "none"] /\ Forget(t)
      BY <3>2, <1>a, FutexAssumption DEF Forget
    <3>3. QED
      BY <1>6, <3>1, <3>2 DEF WaitDetach, Return
  <2>4. QED
    BY <1>6, <2>2, <2>3 DEF WaitDetach, Return
<1>7. ASSUME NEW t \in Thread, NEW a \in Addr, NEW n \in Nat, WakeTake(t, a, n) PROVE TypeOK'
  BY <1>7, WakeFacts DEF WakeTake
<1>8. ASSUME NEW t \in Thread, WakeOne(t) PROVE TypeOK'
  <2>1. towake[t] # <<>>
    BY <1>8 DEF WakeOne, WakeLists
  <2>2. Head(towake[t]) \in Thread /\ Tail(towake[t]) \in Seq(Thread)
    BY <2>1
  <2>3. towake' \in [Thread -> Seq(Thread)] /\ flags' \in [Thread -> SUBSET Flag]
    BY <1>8, <2>2 DEF WakeOne
  <2>4. QED
    BY <1>8, <2>3 DEF WakeOne
<1>9. ASSUME NEW t \in Thread, NEW a \in Addr, ChildTidClear(t, a) PROVE TypeOK'
  <2>1. bucket' \in [Addr -> Seq(Thread)]
    BY <1>9, WakeFacts DEF ChildTidClear
  <2>2. QED
    BY <1>9, <2>1, FutexAssumption DEF ChildTidClear
<1>10. ASSUME NEW t \in Thread, Signal(t) PROVE TypeOK'
  BY <1>10 DEF Signal
<1>11. ASSUME NEW t \in Thread, Safepoint(t) PROVE TypeOK'
  <2>1. addr' \in [Thread -> Addr] /\ val' \in [Thread -> Val] /\ rc' \in [Thread -> Rc]
    <3>1. CASE UNCHANGED <<addr, val, rc>>
      BY <3>1
    <3>2. CASE rc' = [rc EXCEPT ![t] = "none"] /\ Forget(t)
      BY <3>2, <1>a, FutexAssumption DEF Forget
    <3>3. QED
      BY <1>11, <3>1, <3>2 DEF Safepoint
  <2>2. QED
    BY <1>11, <2>1 DEF Safepoint
<1>12. CASE UNCHANGED vars
  BY <1>12 DEF vars
<1>13. QED
  <2>1. \A a \in Addr : Len(bucket[a]) \in Nat
    OBVIOUS
  <2>2. QED
    BY <1>1, <1>2, <1>3, <1>4, <1>5, <1>6, <1>7, <1>8, <1>9, <1>10, <1>11, <1>12, <2>1,
       FutexAssumption DEF Next, InCall, Guest, Requeue

---------------------------------------------------------------------------
(* Buckets *)

\* Every step keeps the buckets exact.
LEMMA BucketStep == IInv /\ [Next]_vars => BucketExact'
<1> SUFFICES ASSUME IInv, [Next]_vars PROVE BucketExact'
  OBVIOUS
<1>a. /\ bucket \in [Addr -> Seq(Thread)] /\ pc \in [Thread -> {"guest", "wait", "detach", "waking", "gone"}]
      /\ addr \in [Thread -> Addr]
  BY DEF IInv, TypeOK
<1>b. ASSUME NEW a \in Addr PROVE Range(bucket[a]) \subseteq Thread /\ IsInjective(bucket[a])
  BY <1>a DEF IInv, BucketExact, Range
<1>c. ASSUME NEW a \in Addr, NEW t \in Range(bucket[a])
      PROVE  pc[t] \in {"wait", "detach"} /\ addr[t] = a
  BY DEF IInv, BucketExact
<1>d. ASSUME bucket' = bucket,
             \A t \in Thread : pc[t] \in {"wait", "detach"} =>
                                 pc'[t] \in {"wait", "detach"} /\ addr'[t] = addr[t]
      PROVE  BucketExact'
  BY <1>b, <1>c, <1>d DEF BucketExact
<1>1. ASSUME NEW t \in Thread, NEW a \in Addr, NEW v \in Val, Store(t, a, v) PROVE BucketExact'
  BY <1>1, <1>d DEF Store
<1>2. ASSUME NEW t \in Thread, NEW a \in Addr, NEW v \in Val, WaitAgain(t, a, v) PROVE BucketExact'
  BY <1>2, <1>a, <1>d DEF WaitAgain, WaitCall, Forget
<1>3. ASSUME NEW t \in Thread, NEW a \in Addr, NEW v \in Val, WaitRegister(t, a, v)
      PROVE  BucketExact'
  <2>1. /\ pc[t] = "guest" /\ pc' = [pc EXCEPT ![t] = "wait"]
        /\ bucket' = [bucket EXCEPT ![a] = Append(@, t)] /\ addr' = [addr EXCEPT ![t] = a]
    BY <1>3 DEF WaitRegister, WaitCall
  <2>2. \A b \in Addr : t \notin Range(bucket[b])
    BY <1>c, <2>1
  <2>3. IsInjective(bucket'[a]) /\ Range(bucket'[a]) = Range(bucket[a]) \cup {t}
    BY <1>a, <1>b, <2>1, <2>2, AppendFacts
  <2>4. \A b \in Addr \ {a} : bucket'[b] = bucket[b]
    BY <1>a, <2>1
  <2>5. ASSUME NEW b \in Addr, NEW u \in Range(bucket[b])
        PROVE  pc'[u] \in {"wait", "detach"} /\ addr'[u] = b
    BY <1>a, <1>b, <1>c, <2>1, <2>2, <2>5
  <2>6. pc'[t] = "wait" /\ addr'[t] = a
    BY <1>a, <2>1
  <2>7. QED
    BY <1>b, <2>3, <2>4, <2>5, <2>6 DEF BucketExact
<1>4. ASSUME NEW t \in Thread, WaitForDone(t) PROVE BucketExact'
  BY <1>4, <1>a, <1>d DEF WaitForDone
<1>5. ASSUME NEW t \in Thread, WaitTimeout(t) PROVE BucketExact'
  BY <1>5, <1>a, <1>d DEF WaitTimeout
<1>6. ASSUME NEW t \in Thread, WaitDetach(t) PROVE BucketExact'
  <2> DEFINE b == addr[t]
  <2>1. /\ pc' = [pc EXCEPT ![t] = "guest"] /\ b \in Addr
        /\ bucket' = [bucket EXCEPT ![b] = futex_detach(@, t)]
        /\ \A u \in Thread \ {t} : addr'[u] = addr[u]
    BY <1>6, <1>a DEF WaitDetach, Return, Forget
  <2>2. IsInjective(bucket'[b]) /\ Range(bucket'[b]) = Range(bucket[b]) \ {t}
    BY <1>a, <1>b, <2>1, DetachFacts
  <2>3. ASSUME NEW a \in Addr, a # b PROVE bucket'[a] = bucket[a] /\ t \notin Range(bucket[a])
    BY <1>a, <1>c, <2>1, <2>3
  <2>4. ASSUME NEW a \in Addr, NEW u \in Range(bucket[a]), u # t
        PROVE  pc'[u] \in {"wait", "detach"} /\ addr'[u] = a
    BY <1>a, <1>b, <1>c, <2>1, <2>4
  <2>5. QED
    BY <1>b, <2>2, <2>3, <2>4 DEF BucketExact
<1>7. ASSUME NEW t \in Thread, NEW a \in Addr, NEW n \in Nat, WakeTake(t, a, n)
      PROVE  BucketExact'
  <2>1. /\ pc[t] = "guest" /\ pc' = [pc EXCEPT ![t] = "waking"] /\ addr' = addr
        /\ bucket' = [bucket EXCEPT ![a] = Left(a, n)]
    BY <1>7 DEF WakeTake
  <2>2. \A b \in Addr : IsInjective(bucket'[b]) /\ Range(bucket'[b]) \subseteq Range(bucket[b])
    BY <1>a, <1>b, <2>1, WakeFacts DEF IInv
  <2>3. ASSUME NEW b \in Addr, NEW u \in Range(bucket[b])
        PROVE  pc'[u] \in {"wait", "detach"} /\ addr'[u] = b
    BY <1>a, <1>b, <1>c, <2>1, <2>3
  <2>4. QED
    BY <2>2, <2>3 DEF BucketExact
<1>8. ASSUME NEW t \in Thread, WakeOne(t) PROVE BucketExact'
  BY <1>8, <1>a, <1>d DEF WakeOne
<1>9. ASSUME NEW t \in Thread, NEW a \in Addr, ChildTidClear(t, a) PROVE BucketExact'
  <2>1. /\ pc[t] = "guest" /\ pc' = [pc EXCEPT ![t] = "gone"] /\ addr' = addr
        /\ bucket' = [bucket EXCEPT ![a] = Left(a, 1)]
    BY <1>9 DEF ChildTidClear
  <2>2. \A b \in Addr : IsInjective(bucket'[b]) /\ Range(bucket'[b]) \subseteq Range(bucket[b])
    <3>1. IsInjective(Left(a, 1)) /\ Range(Left(a, 1)) \subseteq Range(bucket[a])
      BY <1>b, WakeFacts DEF IInv
    <3>2. QED
      BY <1>a, <1>b, <2>1, <3>1
  <2>3. ASSUME NEW b \in Addr, NEW u \in Range(bucket[b])
        PROVE  pc'[u] \in {"wait", "detach"} /\ addr'[u] = b
    BY <1>a, <1>b, <1>c, <2>1, <2>3
  <2>4. QED
    BY <2>2, <2>3 DEF BucketExact
<1>10. ASSUME NEW t \in Thread, Signal(t) PROVE BucketExact'
  BY <1>10, <1>d DEF Signal
<1>11. ASSUME NEW t \in Thread, Safepoint(t) PROVE BucketExact'
  BY <1>11, <1>a, <1>d DEF Safepoint, Forget
<1>12. CASE UNCHANGED vars
  BY <1>12, <1>d DEF vars
<1>13. QED
  <2>1. \A a \in Addr : Len(bucket[a]) \in Nat
    BY <1>a
  <2>2. QED
    BY <1>1, <1>2, <1>3, <1>4, <1>5, <1>6, <1>7, <1>8, <1>9, <1>10, <1>11, <1>12, <2>1,
       FutexAssumption DEF Next, InCall, Guest, Requeue

---------------------------------------------------------------------------
(* Wakers and sleepers *)

\* A waker's list is empty when it starts and when it returns.
LEMMA WakeListsStep == IInv /\ [Next]_vars => WakeLists'
<1> SUFFICES ASSUME IInv, [Next]_vars PROVE WakeLists'
  OBVIOUS
<1>a. /\ pc \in [Thread -> {"guest", "wait", "detach", "waking", "gone"}]
      /\ towake \in [Thread -> Seq(Thread)]
  BY DEF IInv, TypeOK
<1>b. \A t \in Thread : pc[t] = "waking" <=> towake[t] # <<>>
  BY DEF IInv, WakeLists
<1>c. ASSUME towake' = towake, \A t \in Thread : pc[t] = "waking" <=> pc'[t] = "waking"
      PROVE  WakeLists'
  BY <1>b, <1>c DEF WakeLists
<1>1. ASSUME NEW t \in Thread, NEW a \in Addr, NEW v \in Val, Store(t, a, v) PROVE WakeLists'
  BY <1>1, <1>c DEF Store
<1>2. ASSUME NEW t \in Thread, NEW a \in Addr, NEW v \in Val, WaitAgain(t, a, v) PROVE WakeLists'
  BY <1>2, <1>c DEF WaitAgain
<1>3. ASSUME NEW t \in Thread, NEW a \in Addr, NEW v \in Val, WaitRegister(t, a, v)
      PROVE  WakeLists'
  BY <1>3, <1>a, <1>c DEF WaitRegister, WaitCall
<1>4. ASSUME NEW t \in Thread, WaitForDone(t) PROVE WakeLists'
  BY <1>4, <1>a, <1>c DEF WaitForDone
<1>5. ASSUME NEW t \in Thread, WaitTimeout(t) PROVE WakeLists'
  BY <1>5, <1>a, <1>c DEF WaitTimeout
<1>6. ASSUME NEW t \in Thread, WaitDetach(t) PROVE WakeLists'
  BY <1>6, <1>a, <1>c DEF WaitDetach, Return
<1>7. ASSUME NEW t \in Thread, NEW a \in Addr, NEW n \in Nat, WakeTake(t, a, n)
      PROVE  WakeLists'
  <2>1. Taken(a, n) # <<>>
    BY <1>7, WakeFacts DEF WakeTake, IInv
  <2>2. towake'[t] = Taken(a, n) /\ pc'[t] = "waking"
    BY <1>7, <1>a DEF WakeTake
  <2>3. \A u \in Thread \ {t} : towake'[u] = towake[u] /\ pc'[u] = pc[u]
    BY <1>7, <1>a DEF WakeTake
  <2>4. QED
    BY <1>b, <2>1, <2>2, <2>3 DEF WakeLists
<1>8. ASSUME NEW t \in Thread, WakeOne(t) PROVE WakeLists'
  <2>1. towake[t] \in Seq(Thread) /\ towake[t] # <<>>
    BY <1>8, <1>a, <1>b DEF WakeOne
  <2>2. Tail(towake[t]) = <<>> <=> Len(towake[t]) = 1
    BY <2>1, TailFacts
  <2>3. towake'[t] = Tail(towake[t])
    BY <1>8, <1>a DEF WakeOne
  <2>4. pc'[t] = IF Len(towake[t]) = 1 THEN "guest" ELSE "waking"
    BY <1>8, <1>a DEF WakeOne
  <2>5. \A u \in Thread \ {t} : towake'[u] = towake[u] /\ pc'[u] = pc[u]
    BY <1>8, <1>a DEF WakeOne
  <2>6. QED
    BY <1>b, <2>2, <2>3, <2>4, <2>5 DEF WakeLists
<1>9. ASSUME NEW t \in Thread, NEW a \in Addr, ChildTidClear(t, a) PROVE WakeLists'
  BY <1>9, <1>a, <1>c DEF ChildTidClear
<1>10. ASSUME NEW t \in Thread, Signal(t) PROVE WakeLists'
  BY <1>10, <1>c DEF Signal
<1>11. ASSUME NEW t \in Thread, Safepoint(t) PROVE WakeLists'
  BY <1>11, <1>c DEF Safepoint
<1>12. CASE UNCHANGED vars
  BY <1>12, <1>c DEF vars
<1>13. QED
  <2>1. \A a \in Addr : Len(bucket[a]) \in Nat
    BY DEF IInv, TypeOK
  <2>2. QED
    BY <1>1, <1>2, <1>3, <1>4, <1>5, <1>6, <1>7, <1>8, <1>9, <1>10, <1>11, <1>12, <2>1,
       FutexAssumption DEF Next, InCall, Guest, Requeue

\* A sleeper leaves its bucket only into the list of a waker, or with BLOCKED cleared.
LEMMA SleepStep == IInv /\ [Next]_vars => NoLostWake'
<1> SUFFICES ASSUME IInv, [Next]_vars PROVE NoLostWake'
  OBVIOUS
<1> DEFINE Reached(t) == t \in Range(bucket[addr[t]]) \/ \E u \in Thread : t \in Range(towake[u])
<1> USE DEF SetFlag, ClearFlag, ClearFlagAll
<1>a. /\ pc \in [Thread -> {"guest", "wait", "detach", "waking", "gone"}]
      /\ towake \in [Thread -> Seq(Thread)] /\ flags \in [Thread -> SUBSET Flag]
      /\ addr \in [Thread -> Addr] /\ bucket \in [Addr -> Seq(Thread)]
  BY DEF IInv, TypeOK
<1>b. \A t \in Thread : pc[t] = "wait" /\ "BLOCKED" \in flags[t] => Reached(t)
  BY DEF IInv, NoLostWake
<1>c. ASSUME \A t \in Thread : pc'[t] = "wait" /\ "BLOCKED" \in flags'[t] =>
               /\ pc[t] = "wait" /\ "BLOCKED" \in flags[t] /\ addr'[t] = addr[t]
               /\ t \in Range(bucket[addr[t]]) =>
                    t \in Range(bucket'[addr[t]]) \/ \E u \in Thread : t \in Range(towake'[u])
               /\ \A u \in Thread : t \in Range(towake[u]) =>
                    \E w \in Thread : t \in Range(towake'[w])
      PROVE  NoLostWake'
  BY <1>b, <1>c DEF NoLostWake
<1>1. ASSUME NEW t \in Thread, NEW a \in Addr, NEW v \in Val, Store(t, a, v) PROVE NoLostWake'
  BY <1>1, <1>c DEF Store
<1>2. ASSUME NEW t \in Thread, NEW a \in Addr, NEW v \in Val, WaitAgain(t, a, v) PROVE NoLostWake'
  BY <1>2, <1>a, <1>c DEF WaitAgain, WaitCall, Forget
<1>3. ASSUME NEW t \in Thread, NEW a \in Addr, NEW v \in Val, WaitRegister(t, a, v)
      PROVE  NoLostWake'
  <2>1. Range(bucket'[a]) = Range(bucket[a]) \cup {t}
    BY <1>3, <1>a, AppendFacts DEF WaitRegister
  <2>2. t \in Range(bucket'[addr'[t]])
    BY <1>3, <1>a, <2>1 DEF WaitRegister
  <2>3. ASSUME NEW u \in Thread \ {t}, pc'[u] = "wait", "BLOCKED" \in flags'[u]
        PROVE  Reached(u)'
    <3>1. pc[u] = "wait" /\ "BLOCKED" \in flags[u] /\ addr'[u] = addr[u] /\ towake' = towake
      BY <1>3, <1>a, <2>3 DEF WaitRegister
    <3>2. \A b \in Addr : Range(bucket[b]) \subseteq Range(bucket'[b])
      BY <1>3, <1>a, <2>1 DEF WaitRegister
    <3>3. QED
      BY <1>a, <1>b, <3>1, <3>2
  <2>4. QED
    BY <2>2, <2>3 DEF NoLostWake
<1>4. ASSUME NEW t \in Thread, WaitForDone(t) PROVE NoLostWake'
  BY <1>4, <1>a, <1>c DEF WaitForDone
<1>5. ASSUME NEW t \in Thread, WaitTimeout(t) PROVE NoLostWake'
  BY <1>5, <1>a, <1>c DEF WaitTimeout
<1>6. ASSUME NEW t \in Thread, WaitDetach(t) PROVE NoLostWake'
  <2>1. /\ pc' = [pc EXCEPT ![t] = "guest"] /\ towake' = towake
        /\ flags' = [flags EXCEPT ![t] = @ \ {"BLOCKED"}]
        /\ \A u \in Thread \ {t} : addr'[u] = addr[u]
    BY <1>6, <1>a DEF WaitDetach, Return, Forget
  <2>2. \A b \in Addr : Range(bucket[b]) \ {t} \subseteq Range(bucket'[b])
    <3>1. Range(futex_detach(bucket[addr[t]], t)) = Range(bucket[addr[t]]) \ {t}
      BY <1>a, DetachFacts DEF IInv, BucketExact
    <3>2. QED
      BY <1>6, <1>a, <3>1 DEF WaitDetach
  <2>3. QED
    BY <1>a, <1>c, <2>1, <2>2
<1>7. ASSUME NEW t \in Thread, NEW a \in Addr, NEW n \in Nat, WakeTake(t, a, n)
      PROVE  NoLostWake'
  <2>1. /\ pc[t] = "guest" /\ pc' = [pc EXCEPT ![t] = "waking"] /\ addr' = addr /\ flags' = flags
        /\ bucket' = [bucket EXCEPT ![a] = Left(a, n)]
        /\ towake' = [towake EXCEPT ![t] = Taken(a, n)]
    BY <1>7 DEF WakeTake
  <2>2. Range(bucket[a]) = Range(bucket'[a]) \cup Range(towake'[t])
    BY <1>a, <2>1, WakeFacts DEF IInv
  <2>3. \A b \in Addr \ {a} : bucket'[b] = bucket[b]
    BY <1>a, <2>1
  <2>4. Range(towake[t]) = {}
    <3>1. towake[t] = <<>>
      BY <2>1 DEF IInv, WakeLists
    <3>2. QED
      BY <3>1 DEF Range
  <2>5. \A u \in Thread \ {t} : towake'[u] = towake[u]
    BY <1>a, <2>1
  <2>6. QED
    BY <1>a, <1>c, <2>1, <2>2, <2>3, <2>4, <2>5
<1>8. ASSUME NEW t \in Thread, WakeOne(t) PROVE NoLostWake'
  <2> DEFINE h == Head(towake[t])
  <2>1. towake[t] \in Seq(Thread) /\ towake[t] # <<>>
    BY <1>8, <1>a DEF WakeOne, IInv, WakeLists
  <2>2. h \in Thread /\ Range(towake[t]) \subseteq Range(Tail(towake[t])) \cup {h}
    BY <2>1, TailFacts
  <2>3. /\ flags' = [flags EXCEPT ![h] = @ \ {"BLOCKED"}] /\ addr' = addr /\ bucket' = bucket
        /\ towake' = [towake EXCEPT ![t] = Tail(@)]
        /\ \A u \in Thread : pc'[u] = "wait" => pc[u] = "wait"
    BY <1>8, <1>a DEF WakeOne
  <2> HIDE DEF h
  <2>4. \A u \in Thread \ {h} : u \in Range(towake[t]) => u \in Range(towake'[t])
    BY <1>a, <2>2, <2>3
  <2>5. "BLOCKED" \notin flags'[h] /\ \A u \in Thread \ {h} : flags'[u] = flags[u]
    BY <1>a, <2>2, <2>3
  <2>6. \A u \in Thread \ {t} : towake'[u] = towake[u]
    BY <1>a, <2>3
  <2>7. QED
    BY <1>c, <2>3, <2>4, <2>5, <2>6
<1>9. ASSUME NEW t \in Thread, NEW a \in Addr, ChildTidClear(t, a) PROVE NoLostWake'
  <2>1. /\ pc[t] = "guest" /\ pc' = [pc EXCEPT ![t] = "gone"] /\ addr' = addr
        /\ towake' = towake /\ bucket' = [bucket EXCEPT ![a] = Left(a, 1)]
        /\ flags' = ClearFlagAll(flags, Range(Taken(a, 1)), "BLOCKED")
    BY <1>9 DEF ChildTidClear
  <2>2. Range(bucket[a]) = Range(bucket'[a]) \cup Range(Taken(a, 1))
    <3>1. Range(bucket[a]) = Range(Left(a, 1)) \cup Range(Taken(a, 1))
      BY WakeFacts DEF IInv
    <3>2. QED
      BY <1>a, <2>1, <3>1
  <2>3. \A b \in Addr \ {a} : bucket'[b] = bucket[b]
    BY <1>a, <2>1
  <2>4. \A u \in Thread : "BLOCKED" \in flags'[u] => "BLOCKED" \in flags[u] /\ u \notin Range(Taken(a, 1))
    BY <1>a, <2>1
  <2>5. \A u \in Thread : pc'[u] = "wait" => pc[u] = "wait"
    BY <1>a, <2>1
  <2>6. QED
    BY <1>a, <1>c, <2>1, <2>2, <2>3, <2>4, <2>5
<1>10. ASSUME NEW t \in Thread, Signal(t) PROVE NoLostWake'
  BY <1>10, <1>a, <1>c DEF Signal
<1>11. ASSUME NEW t \in Thread, Safepoint(t) PROVE NoLostWake'
  <2>1. /\ pc[t] = "guest" /\ pc' = pc /\ bucket' = bucket /\ towake' = towake
        /\ flags' = [flags EXCEPT ![t] = @ \ {"SIGNAL_PENDING"}]
        /\ \A u \in Thread \ {t} : addr'[u] = addr[u]
    BY <1>11, <1>a DEF Safepoint, Forget
  <2>2. QED
    BY <1>a, <1>c, <2>1
<1>12. CASE UNCHANGED vars
  BY <1>12, <1>c DEF vars
<1>13. QED
  <2>1. \A a \in Addr : Len(bucket[a]) \in Nat
    BY <1>a
  <2>2. QED
    BY <1>1, <1>2, <1>3, <1>4, <1>5, <1>6, <1>7, <1>8, <1>9, <1>10, <1>11, <1>12, <2>1,
       FutexAssumption DEF Next, InCall, Guest, Requeue

---------------------------------------------------------------------------
(* Theorems *)

\* Nobody waits and nobody wakes in the initial state.
LEMMA InitInv == Init => IInv
<1> SUFFICES ASSUME Init PROVE IInv
  OBVIOUS
<1>1. TypeOK
  BY InitType
<1>2. BucketExact
  BY DEF Init, BucketExact, IsInjective, Range
<1>3. WakeLists /\ NoLostWake
  BY DEF Init, WakeLists, NoLostWake
<1>4. QED
  BY <1>1, <1>2, <1>3 DEF IInv

\* The invariant of the futex table holds in every reachable state.
THEOREM Inductive == Spec => []IInv
<1>1. IInv /\ [Next]_vars => IInv'
  BY TypeStep, BucketStep, WakeListsStep, SleepStep DEF IInv
<1>2. QED
  BY InitInv, <1>1, PTL DEF Spec

\* Type correctness of the futex table and of the calls on it.
THEOREM TypeCorrect == Spec => []TypeOK
<1>1. IInv => TypeOK
  BY DEF IInv
<1>2. QED
  BY Inductive, <1>1, PTL

\* A bucket of g_futex_table holds exactly the threads whose futex_wait on the word is not
\* finished, each once, for any number of threads and words.
THEOREM BucketIsExact == Spec => []BucketExact
<1>1. IInv => BucketExact
  BY DEF IInv
<1>2. QED
  BY Inductive, <1>1, PTL

\* No sleeper is out of reach of a wake although wakeups run outside g_futex_mutex.
THEOREM WakeIsNotLost == Spec => []NoLostWake
<1>1. IInv => NoLostWake
  BY DEF IInv
<1>2. QED
  BY Inductive, <1>1, PTL
=============================================================================
