------------------------------ MODULE MCWrites -------------------------------
EXTENDS Writes, TLC
Symmetry == Permutations(Objects) \cup Permutations(Keys)
(* A batch of two is one statement on one engine and two on the others.       *)
Chunks == "postgres" :> 2 @@ "mysql" :> 1 @@ "sqlite" :> 1
==============================================================================
