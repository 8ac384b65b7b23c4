----------------------------- MODULE MCByteBuf -----------------------------
(* Buffers for TLC: one byte besides 0, in a few sequences. *)
EXTENDS ByteBuf, TLC

CONSTANT x

MCInputs == {<<>>, <<x>>, <<x, Nul>>}

Symmetric == Permutations(Bufs)
=============================================================================
