----------------------------- MODULE MCMemory -----------------------------
(* Instances of Memory for TLC. *)
EXTENDS Memory, TLC

CONSTANTS t1, t2, t3, p1, p2, p3, s1, s2, h1, h2, h3, h4, v0, v1, nil

\* One thread per process.
Single == t1 :> p1 @@ t2 :> p2 @@ t3 :> p3

\* Two threads in the first process.
Threaded == t1 :> p1 @@ t2 :> p1 @@ t3 :> p2

\* Host pages are interchangeable, and so are the two processes that run later,
\* each together with its thread.
Later == {t2 :> t2 @@ t3 :> t3 @@ p2 :> p2 @@ p3 :> p3,
          t2 :> t3 @@ t3 :> t2 @@ p2 :> p3 @@ p3 :> p2}
Symmetry == {f @@ g : f \in Permutations(HPage), g \in Later}
=============================================================================
