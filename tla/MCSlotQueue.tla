---------------------------- MODULE MCSlotQueue ----------------------------
(* Model-checking instance of SlotQueue. *)
EXTENDS SlotQueue, TLC

(* Threads and values are interchangeable in every property checked here. *)
Symmetric == Permutations(Threads) \cup Permutations(Values)
=============================================================================
