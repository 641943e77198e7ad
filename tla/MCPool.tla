------------------------------- MODULE MCPool -------------------------------
(* Small pools: two or three threads, three or four connections.            *)
EXTENDS Pool, TLC

Symmetry == Permutations(Threads) \cup Permutations(Conns)
=============================================================================
