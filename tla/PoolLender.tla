----------------------------- MODULE PoolLender -----------------------------
(***************************************************************************)
(* What a connection pool promises: a connection is lent to one borrower at *)
(* a time, and what a borrower left uncommitted is gone before the next one *)
(* has the connection.                                                     *)
(***************************************************************************)
CONSTANTS Threads, Conns, None

VARIABLES
  lent,  \* per thread, the connection it was lent
  work   \* the connections with uncommitted work on them

Init == lent = [t \in Threads |-> None] /\ work = {}

Lend(t, c) ==
  /\ lent[t] = None /\ c \notin work
  /\ \A u \in Threads : lent[u] # c
  /\ lent' = [lent EXCEPT ![t] = c]
  /\ UNCHANGED work

Work(t) ==
  /\ lent[t] # None
  /\ work' = work \cup {lent[t]}
  /\ UNCHANGED lent

(* The work ends: committed, rolled back or lost with the server.           *)
EndWork ==
  /\ work' \in SUBSET work
  /\ UNCHANGED lent

TakeBack(t) ==
  /\ lent[t] # None
  /\ lent' = [lent EXCEPT ![t] = None]
  /\ UNCHANGED work

Next ==
  \/ \E t \in Threads, c \in Conns : Lend(t, c)
  \/ \E t \in Threads : Work(t) \/ TakeBack(t)
  \/ EndWork

Spec == Init /\ [][Next]_<<lent, work>>
=============================================================================
