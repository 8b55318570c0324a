-------------------------- MODULE MCObjectPool --------------------------
(* A small instance of ObjectPool for TLC. *)
EXTENDS ObjectPool

CONSTANTS t1, t2, t3
============================================================================
