--------------------------- MODULE MCSocketHandle ---------------------------
(* SocketHandle for TLC: two objects for a thread, one for another. *)
EXTENDS SocketHandle, TLC

CONSTANTS t1, t2, a, b, c

SomeThreads == (a :> t1) @@ (b :> t1) @@ (c :> t2)

SomeRequests ==
  {<<"timeout", 2000>>, <<"closeWait", 0>>, <<"closeWait", -1>>, <<"flag", 1>>}

Symmetry == Permutations({a, b})
=============================================================================
