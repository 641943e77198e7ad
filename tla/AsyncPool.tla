------------------------------ MODULE AsyncPool ------------------------------
(***************************************************************************)
(* The asynchronous pool (src/src/snakeorm/drivers/asyncpool.py) over the   *)
(* store of connections the demo applications give it                      *)
(* (src/frameworks/shared/config.py). Tasks of one event loop: a task runs  *)
(* alone from one await to the next, and may be cancelled at any await.    *)
(*                                                                         *)
(* A connection object is known by its address, the id() the pool keys its  *)
(* birthdays by: once the object is gone, a new one may have its address.  *)
(***************************************************************************)
EXTENDS Integers, Sequences, FiniteSets, SequencesExt

CONSTANTS
  Tasks,        \* the tasks that borrow
  Addresses,    \* bound: the addresses connection objects may have
  Size,         \* the ceiling of the store
  PrePing,      \* pre_ping
  Recycle,      \* recycle_seconds is set
  Timeout,      \* timeout_seconds is set
  Cancels,      \* the awaits a task may be cancelled in
  MaxDiscards,  \* _MAX_DISCARDS
  None          \* no connection

ASSUME SizeAssumption == Size \in Nat \ {0} /\ MaxDiscards \in Nat \ {0}
ASSUME AddressesAssumption == IsFiniteSet(Addresses) /\ None \notin Addresses
ASSUME FlagsAssumption == {PrePing, Recycle, Timeout} \subseteq BOOLEAN

VARIABLES
  free,       \* the store's free connections
  live,       \* the store's count of the connections there are
  conn,       \* per address: none, open, broken (the server is gone)
  work,       \* the connections with uncommitted work of a borrower
  born,       \* per address, whether the lifetime since its stamp is over
  overdue,    \* the connections first lent a lifetime ago
  at,         \* per task, the await it is in
  hand,       \* per task, the connection it holds
  discarded,  \* per task, the dead connections of this acquire
  late        \* per task, the deadline of this acquire has passed

storeVars == <<free, live>>
ageVars == <<born, overdue>>
vars == <<storeVars, conn, work, ageVars, at, hand, discarded, late>>

Places == {"out", "asking", "connecting", "pinging", "throwing", "lent", "rolling", "returned"}
Acquiring == {"asking", "connecting", "pinging", "throwing"}
Holding == {"pinging", "lent", "rolling"}
Awaits == Acquiring \cup {"rolling"}
ASSUME CancelsAssumption == Cancels \subseteq Awaits

Init ==
  /\ free = <<>> /\ live = 0 /\ work = {} /\ overdue = {}
  /\ conn = [a \in Addresses |-> "none"]
  /\ born = [a \in Addresses |-> "none"]
  /\ at = [t \in Tasks |-> "out"]
  /\ hand = [t \in Tasks |-> None]
  /\ discarded = [t \in Tasks |-> 0]
  /\ late = [t \in Tasks |-> FALSE]

GoTo(t, place) == at' = [at EXCEPT ![t] = place]

-----------------------------------------------------------------------------
Acquire(t) ==
  /\ at[t] = "out"
  /\ GoTo(t, "asking")
  /\ discarded' = [discarded EXCEPT ![t] = 0]
  /\ late' = [late EXCEPT ![t] = FALSE]
  /\ UNCHANGED <<storeVars, conn, work, ageVars, hand>>

TooOld(a) == Recycle /\ born[a] = "old"

(* setdefault: the first stamp stays.                                      *)
Stamp(a) == IF born[a] = "none" THEN [born EXCEPT ![a] = "young"] ELSE born

(* _throw_away up to its await: the birthday, and the slot of the store.    *)
(* Mutants: the birthday is kept; the slot is.                              *)
ThrowAwayKeepingAge(t, a, n) ==
  /\ UNCHANGED born
  /\ live' = IF n > 0 THEN n - 1 ELSE 0
  /\ GoTo(t, "throwing")

ThrowAwayKeepingSlot(t, a, n) ==
  /\ born' = [born EXCEPT ![a] = "none"]
  /\ live' = n
  /\ GoTo(t, "throwing")

ThrowAway(t, a, n) ==
  /\ born' = [born EXCEPT ![a] = "none"]
  /\ live' = IF n > 0 THEN n - 1 ELSE 0
  /\ GoTo(t, "throwing")

(* The connection is borrowed; the age is looked at before the next await.  *)
Take(t, a, n) ==
  /\ hand' = [hand EXCEPT ![t] = a]
  /\ IF TooOld(a) THEN ThrowAway(t, a, n)
     ELSE /\ live' = n
          /\ IF PrePing THEN GoTo(t, "pinging") /\ UNCHANGED born
             ELSE GoTo(t, "lent") /\ born' = Stamp(a)
  /\ UNCHANGED <<work, overdue, discarded, late>>

BorrowFree(t) ==
  /\ at[t] = "asking" /\ free # <<>>
  /\ Take(t, Last(free), live)
  /\ free' = Front(free)
  /\ UNCHANGED conn

(* There is room: connect. The count goes up when the connection is there.  *)
Connect(t) ==
  /\ at[t] = "asking" /\ free = <<>> /\ live < Size
  /\ GoTo(t, "connecting")
  /\ UNCHANGED <<storeVars, conn, work, ageVars, hand, discarded, late>>

Connected(t) ==
  /\ at[t] = "connecting"
  /\ \E a \in Addresses : /\ conn[a] = "none"
                          /\ conn' = [conn EXCEPT ![a] = "open"]
                          /\ Take(t, a, live + 1)
  /\ UNCHANGED free

(* The store is empty, or the server refuses: ask again while there is time. *)
(* Mutant: the deadline is not looked at.                                  *)
WaitsForever(t) == Timeout

Waits(t) == Timeout /\ ~late[t]

Refused(t) == at[t] = "connecting" \/ (at[t] = "asking" /\ free = <<>> /\ live >= Size)

BorrowFails(t) ==
  /\ Refused(t)
  /\ GoTo(t, IF Waits(t) THEN "asking" ELSE "out")
  /\ UNCHANGED <<storeVars, conn, work, ageVars, hand, discarded, late>>

GetLate(t) ==
  /\ Timeout /\ at[t] \in Acquiring /\ ~late[t]
  /\ late' = [late EXCEPT ![t] = TRUE]
  /\ UNCHANGED <<storeVars, conn, work, ageVars, at, hand, discarded>>

Lend(t) ==
  /\ at[t] = "pinging" /\ conn[hand[t]] = "open"
  /\ born' = Stamp(hand[t])
  /\ GoTo(t, "lent")
  /\ UNCHANGED <<storeVars, conn, work, overdue, hand, discarded, late>>

PingFails(t) ==
  /\ at[t] = "pinging" /\ conn[hand[t]] = "broken"
  /\ ThrowAway(t, hand[t], live)
  /\ UNCHANGED <<free, conn, work, overdue, hand, discarded, late>>

(* The object in the hands of the task is gone, and its address is free.    *)
Drop(t) ==
  /\ conn' = [conn EXCEPT ![hand[t]] = "none"]
  /\ work' = work \ {hand[t]}
  /\ overdue' = overdue \ {hand[t]}
  /\ hand' = [hand EXCEPT ![t] = None]

Counted(t) == discarded[t] + 1

GivesUp(t) == Counted(t) >= MaxDiscards \/ (Timeout /\ late[t])

Thrown(t) ==
  /\ at[t] = "throwing"
  /\ Drop(t)
  /\ GoTo(t, IF GivesUp(t) THEN "out" ELSE "asking")
  /\ discarded' = [discarded EXCEPT ![t] = Counted(t)]
  /\ UNCHANGED <<storeVars, born, late>>

-----------------------------------------------------------------------------
(* The loan, and close(): the rollback is awaited, the return is not.       *)

Work(t) ==
  /\ at[t] = "lent" /\ conn[hand[t]] = "open"
  /\ work' = work \cup {hand[t]}
  /\ UNCHANGED <<storeVars, conn, ageVars, at, hand, discarded, late>>

Commit(t) ==
  /\ at[t] = "lent" /\ conn[hand[t]] = "open"
  /\ work' = work \ {hand[t]}
  /\ UNCHANGED <<storeVars, conn, ageVars, at, hand, discarded, late>>

(* close() again, by whoever wrapped the session, returns nothing twice.    *)
Returned(t) == at[t] = "returned"

Close(t) ==
  /\ at[t] \in {"lent", "returned"} /\ ~Returned(t)
  /\ GoTo(t, "rolling")
  /\ UNCHANGED <<storeVars, conn, work, ageVars, hand, discarded, late>>

GiveBack(t) == free' = Append(free, hand[t]) /\ UNCHANGED live /\ GoTo(t, "returned")

(* Whether it ran or raised on a dead socket.                              *)
(* Mutant: close() is give_back alone.                                     *)
RolledNothing(t) ==
  /\ at[t] = "rolling"
  /\ GiveBack(t)
  /\ UNCHANGED <<conn, work, ageVars, hand, discarded, late>>

Rolled(t) ==
  /\ at[t] = "rolling"
  /\ work' = work \ {hand[t]}
  /\ GiveBack(t)
  /\ UNCHANGED <<conn, ageVars, hand, discarded, late>>

Forget(t) ==
  /\ at[t] = "returned"
  /\ GoTo(t, "out")
  /\ hand' = [hand EXCEPT ![t] = None]
  /\ UNCHANGED <<storeVars, conn, work, ageVars, discarded, late>>

-----------------------------------------------------------------------------
(* CancelledError is no Exception: it goes through every except of the pool. *)

Cancel(t) ==
  /\ at[t] \in Cancels
  /\ IF at[t] = "rolling" THEN GiveBack(t) ELSE GoTo(t, "out") /\ UNCHANGED storeVars
  /\ IF at[t] \in {"pinging", "throwing"} THEN Drop(t) ELSE UNCHANGED <<conn, work, overdue, hand>>
  /\ UNCHANGED <<born, discarded, late>>

Break(a) ==
  /\ conn[a] = "open"
  /\ conn' = [conn EXCEPT ![a] = "broken"]
  /\ work' = work \ {a}
  /\ UNCHANGED <<storeVars, ageVars, at, hand, discarded, late>>

(* Time passes: for the connection, and for the stamp of its address.       *)
GrowOld(a) ==
  /\ born[a] # "none"
  /\ born' = [born EXCEPT ![a] = "old"]
  /\ overdue' = IF conn[a] = "none" THEN overdue ELSE overdue \cup {a}
  /\ UNCHANGED <<storeVars, conn, work, at, hand, discarded, late>>

Try(t) == \/ BorrowFree(t) \/ Connect(t) \/ Connected(t) \/ BorrowFails(t)
          \/ Lend(t) \/ PingFails(t) \/ Thrown(t)

Next ==
  \/ \E t \in Tasks :
       \/ Acquire(t) \/ Try(t) \/ GetLate(t)
       \/ Work(t) \/ Commit(t) \/ Close(t) \/ Rolled(t) \/ Forget(t) \/ Cancel(t)
  \/ \E a \in Addresses : Break(a) \/ GrowOld(a)

Spec == Init /\ [][Next]_vars

(* The loop runs every task that can go on, and the clock advances.         *)
FairSpec == Spec /\ \A t \in Tasks : WF_vars(Try(t)) /\ WF_vars(GetLate(t))

-----------------------------------------------------------------------------
TypeOK ==
  /\ free \in Seq(Addresses) /\ live \in Nat
  /\ conn \in [Addresses -> {"none", "open", "broken"}]
  /\ work \subseteq Addresses /\ overdue \subseteq Addresses
  /\ born \in [Addresses -> {"none", "young", "old"}]
  /\ at \in [Tasks -> Places]
  /\ hand \in [Tasks -> Addresses \cup {None}]
  /\ discarded \in [Tasks -> 0..MaxDiscards] /\ late \in [Tasks -> BOOLEAN]

HeldConnections == {hand[t] : t \in {u \in Tasks : at[u] \in Holding}}

(* close() "must not cost the pool a connection for ever" (asyncpool.py:107): *)
(* the store counts the connections that are free or in the hands of a task, *)
(* and no other.                                                           *)
LiveCountsTheOpen == live = Len(free) + Cardinality(HeldConnections)

(* "A free connection, or a brand new one while the ceiling allows it"       *)
(* (frameworks/shared/config.py:440): the connections in use or free never   *)
(* pass the ceiling.                                                       *)
CeilingHolds == Cardinality(HeldConnections \cup Range(free)) <= Size

(* "the pool would end up measuring the neighbour's age" (asyncpool.py:147)  *)
(* is what its keys prevent: a connection is thrown away for its age only    *)
(* when it is that old, and lent only when it is not.                       *)
AgeIsItsOwn ==
  [][\A t \in Tasks : BorrowFree(t) \/ Connected(t) =>
       (Recycle => (at'[t] = "throwing" <=> hand'[t] \in overdue))]_vars

(* Connections are lent to one task at a time, "ROLLED BACK"                *)
(* (asyncpool.py:95).                                                      *)
Lender == INSTANCE PoolLender WITH
  Threads <- Tasks, Conns <- Addresses,
  lent <- [t \in Tasks |-> IF at[t] = "lent" THEN hand[t] ELSE None]
LendsCleanConnections == Lender!Spec

(* "an infinite loop throwing connections away and asking for another"       *)
(* (asyncpool.py:17) never happens: acquire lends or raises.                *)
AcquireEnds == \A t \in Tasks : at[t] \in Acquiring ~> at[t] \in {"lent", "out"}
=============================================================================
