------------------------------ MODULE MCSession ------------------------------
(* Sessions small enough to nest two blocks in two attempts.               *)
EXTENDS Session
=============================================================================
