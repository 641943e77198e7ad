------------------------------ MODULE MCOrders ------------------------------
(* An order desk small enough to check: two orders that want the same SKUs. *)
EXTENDS Orders

Both == {[s \in {1, 2} |-> 1], [s \in {2} |-> 2]}
=============================================================================
