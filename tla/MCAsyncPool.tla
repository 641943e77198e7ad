----------------------------- MODULE MCAsyncPool -----------------------------
(* Two or three tasks over a store of one or two connections.               *)
EXTENDS AsyncPool, TLC

Symmetry == Permutations(Tasks) \cup Permutations(Addresses)
=============================================================================
