------------------------------ MODULE MCFutex ------------------------------
(* Instances of Futex for TLC. *)
EXTENDS Futex
=============================================================================
