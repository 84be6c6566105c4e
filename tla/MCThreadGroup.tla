--------------------------- MODULE MCThreadGroup ---------------------------
(* Instances of ThreadGroup for TLC. *)
EXTENDS ThreadGroup
=============================================================================
