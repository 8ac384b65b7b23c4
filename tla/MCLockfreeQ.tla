---------------------------- MODULE MCLockfreeQ ----------------------------
(* Model-checking instance of LockfreeQ. *)
EXTENDS LockfreeQ, TLC

(* Threads and values are interchangeable in every safety property. *)
Symmetric == Permutations(Threads) \cup Permutations(Values)
=============================================================================
