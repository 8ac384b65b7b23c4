---------------------------- MODULE MCThreadPool ----------------------------
(* Model-checking instance of ThreadPool. *)
EXTENDS ThreadPool, TLC

(* Workers and tasks are interchangeable in every safety property. *)
Symmetric == Permutations(Workers) \cup Permutations(Tasks)
=============================================================================
