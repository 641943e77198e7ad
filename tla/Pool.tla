-------------------------------- MODULE Pool --------------------------------
(***************************************************************************)
(* The connection pool of the synchronous drivers                          *)
(* (src/src/snakeorm/drivers/pool.py): threads that borrow a connection for *)
(* a whole session, and give it back. The backend that owns the connections *)
(* is psycopg2's ThreadedConnectionPool (psycopg_pool builds one), or a     *)
(* plain queue of connections for whoever builds SnakePool by hand.        *)
(***************************************************************************)
EXTENDS Naturals, Sequences, FiniteSets, SequencesExt

CONSTANTS
  Threads,      \* the threads that borrow
  Conns,        \* bound: the connections that can ever be opened
  MinConn,      \* the connections opened at the start, and kept when idle
  MaxConn,      \* the connections lent at most
  Psycopg2,     \* the backend is psycopg2's pool, not a queue
  PrePing,      \* pre_ping
  Recycle,      \* recycle_seconds is set
  Timeout,      \* timeout_seconds is set
  MaxDiscards,  \* _MAX_DISCARDS
  None          \* no connection

ASSUME SizeAssumption ==
  /\ MinConn \in Nat /\ MaxConn \in Nat /\ 1 <= MinConn /\ MinConn <= MaxConn
  /\ MaxDiscards \in Nat \ {0}
ASSUME ConnsAssumption == IsFiniteSet(Conns) /\ MinConn <= Cardinality(Conns) /\ None \notin Conns
ASSUME FlagsAssumption == {Psycopg2, PrePing, Recycle, Timeout} \subseteq BOOLEAN

VARIABLES
  idle,       \* the backend's free connections, the last one is lent first
  used,       \* the connections the backend counts as lent
  conn,       \* per connection: fresh, open, broken (the server is gone), closed
  began,      \* the connections inside a transaction
  work,       \* the ones with uncommitted work of a borrower in it
  adopted,    \* the connections psycopg_pool keeps a driver for
  born,       \* per connection, whether the lifetime since its stamp is over
  overdue,    \* the connections first lent a lifetime ago
  shut,       \* the pool was closed
  at,         \* per thread, where it stands
  hand,       \* per thread, the connection it holds
  discarded,  \* per thread, the dead connections of this acquire
  late        \* per thread, the deadline of this acquire has passed

backendVars == <<idle, used, conn, began, work, adopted, shut>>
ageVars == <<born, overdue>>
threadVars == <<at, hand, discarded, late>>
vars == <<backendVars, ageVars, threadVars>>

Places == {"out", "borrowing", "checking", "pinging", "discarding",
           "lent", "rolling", "returning", "returned"}
Acquiring == {"borrowing", "checking", "pinging", "discarding"}
Holding == {"checking", "pinging", "discarding", "lent", "rolling", "returning"}

(* The pool is built with MinConn connections open.                        *)
Init ==
  /\ \E open \in kSubset(MinConn, Conns) :
       /\ idle \in SetToSeqs(open)
       /\ conn = [c \in Conns |-> IF c \in open THEN "open" ELSE "fresh"]
  /\ used = {} /\ began = {} /\ work = {} /\ adopted = {} /\ overdue = {}
  /\ born = [c \in Conns |-> "none"]
  /\ shut = FALSE
  /\ at = [t \in Threads |-> "out"]
  /\ hand = [t \in Threads |-> None]
  /\ discarded = [t \in Threads |-> 0]
  /\ late = [t \in Threads |-> FALSE]

GoTo(t, place) == at' = [at EXCEPT ![t] = place]
Close(c) == conn' = [conn EXCEPT ![c] = "closed"]

-----------------------------------------------------------------------------
(* acquire: borrow, look at the age, look at the pulse, lend.               *)

Acquire(t) ==
  /\ at[t] = "out"
  /\ GoTo(t, "borrowing")
  /\ discarded' = [discarded EXCEPT ![t] = 0]
  /\ late' = [late EXCEPT ![t] = FALSE]
  /\ UNCHANGED <<backendVars, ageVars, hand>>

Hold(t, c) ==
  /\ GoTo(t, "checking")
  /\ hand' = [hand EXCEPT ![t] = c]
  /\ used' = used \cup {c}
  /\ adopted' = IF Psycopg2 THEN adopted \cup {c} ELSE adopted

BorrowIdle(t) ==
  /\ at[t] = "borrowing" /\ ~shut /\ idle # <<>>
  /\ Hold(t, Last(idle))
  /\ idle' = Front(idle)
  /\ UNCHANGED <<conn, began, work, shut, ageVars, discarded, late>>

Room == Psycopg2 /\ Cardinality(used) < MaxConn

BorrowNew(t) ==
  /\ at[t] = "borrowing" /\ ~shut /\ idle = <<>> /\ Room
  /\ \E c \in Conns : /\ conn[c] = "fresh"
                      /\ Hold(t, c)
                      /\ conn' = [conn EXCEPT ![c] = "open"]
  /\ UNCHANGED <<idle, began, work, shut, ageVars, discarded, late>>

(* The pool is drained or shut, or the server refuses a new connection: wait *)
(* and ask again while there is time, or raise.                            *)
Refused == shut \/ idle = <<>>

(* Mutant: the deadline is not looked at.                                  *)
WaitsForever(t) == Timeout

Waits(t) == Timeout /\ ~late[t]

BorrowFails(t) ==
  /\ at[t] = "borrowing" /\ Refused /\ ~Waits(t)
  /\ GoTo(t, "out")
  /\ UNCHANGED <<backendVars, ageVars, hand, discarded, late>>

(* The deadline of the acquire passes.                                     *)
GetLate(t) ==
  /\ Timeout /\ at[t] \in Acquiring /\ ~late[t]
  /\ late' = [late EXCEPT ![t] = TRUE]
  /\ UNCHANGED <<backendVars, ageVars, at, hand, discarded>>

CheckAge(t) ==
  /\ at[t] = "checking"
  /\ GoTo(t, IF Recycle /\ born[hand[t]] = "old" THEN "discarding" ELSE "pinging")
  /\ UNCHANGED <<backendVars, ageVars, hand, discarded, late>>

(* setdefault: the first stamp stays. The ping is a statement, and psycopg2  *)
(* opens a transaction for it.                                             *)
(* Mutant: every loan stamps the connection again.                         *)
StampAgain(c) == Recycle

Stamps(c) == Recycle /\ born[c] = "none"

Answers(c) == conn[c] = "open"

Lend(t) ==
  /\ at[t] = "pinging" /\ (PrePing => Answers(hand[t]))
  /\ born' = IF Stamps(hand[t]) THEN [born EXCEPT ![hand[t]] = "young"] ELSE born
  /\ began' = IF PrePing THEN began \cup {hand[t]} ELSE began
  /\ GoTo(t, "lent")
  /\ UNCHANGED <<idle, used, conn, work, adopted, shut, overdue, hand, discarded, late>>

(* A ping that fails shows the client that the connection is gone.          *)
PingFails(t) ==
  /\ at[t] = "pinging" /\ PrePing /\ ~Answers(hand[t])
  /\ Close(hand[t])
  /\ GoTo(t, "discarding")
  /\ UNCHANGED <<idle, used, began, work, adopted, shut, ageVars, hand, discarded, late>>

(* _throw_away, then the two reasons to give up.                           *)
Counted(t) == discarded[t] + 1

GivesUp(t) == Counted(t) >= MaxDiscards \/ (Timeout /\ late[t])

(* A connection thrown away is gone from every table, and a new one may take *)
(* its place.                                                              *)
ThrowAway(t) ==
  /\ at[t] = "discarding"
  /\ born' = [born EXCEPT ![hand[t]] = "none"]
  /\ overdue' = overdue \ {hand[t]}
  /\ adopted' = adopted \ {hand[t]}
  /\ used' = IF shut THEN used ELSE used \ {hand[t]}
  /\ conn' = [conn EXCEPT ![hand[t]] = IF shut THEN "closed" ELSE "fresh"]
  /\ began' = began \ {hand[t]}
  /\ work' = work \ {hand[t]}
  /\ hand' = [hand EXCEPT ![t] = None]
  /\ GoTo(t, IF shut \/ GivesUp(t) THEN "out" ELSE "borrowing")
  /\ discarded' = [discarded EXCEPT ![t] = Counted(t)]
  /\ UNCHANGED <<idle, shut, late>>

-----------------------------------------------------------------------------
(* The loan: statements leave work, a commit ends it.                      *)

Work(t) ==
  /\ at[t] = "lent" /\ conn[hand[t]] = "open"
  /\ began' = began \cup {hand[t]}
  /\ work' = work \cup {hand[t]}
  /\ UNCHANGED <<idle, used, conn, adopted, shut, ageVars, threadVars>>

CommitWork(t) ==
  /\ at[t] = "lent" /\ conn[hand[t]] = "open" /\ hand[t] \in began
  /\ began' = began \ {hand[t]}
  /\ work' = work \ {hand[t]}
  /\ UNCHANGED <<idle, used, conn, adopted, shut, ageVars, threadVars>>

(* close(), by the session and again by whoever wrapped it: the rollback,   *)
(* which may raise, and then the return, whatever the rollback did.        *)
(* Mutant: a second close() goes through.                                  *)
NeverReturned(t) == FALSE

Returned(t) == at[t] = "returned"

CloseLoan(t) ==
  /\ at[t] \in {"lent", "returned"} /\ ~Returned(t)
  /\ GoTo(t, "rolling")
  /\ UNCHANGED <<backendVars, ageVars, hand, discarded, late>>

RollsBack(t) ==
  /\ at[t] = "rolling" /\ conn[hand[t]] = "open"
  /\ began' = began \ {hand[t]}
  /\ work' = work \ {hand[t]}
  /\ GoTo(t, "returning")
  /\ UNCHANGED <<idle, used, conn, adopted, shut, ageVars, hand, discarded, late>>

(* Mutant: the return is not in a finally.                                 *)
RollbackFailsAndStops(t) ==
  /\ at[t] = "rolling" /\ conn[hand[t]] # "open"
  /\ Close(hand[t])
  /\ GoTo(t, "returned")
  /\ UNCHANGED <<idle, used, began, work, adopted, shut, ageVars, hand, discarded, late>>

RollbackFails(t) ==
  /\ at[t] = "rolling" /\ conn[hand[t]] # "open"
  /\ Close(hand[t])
  /\ began' = began \ {hand[t]}
  /\ work' = work \ {hand[t]}
  /\ GoTo(t, "returning")
  /\ UNCHANGED <<idle, used, adopted, shut, ageVars, hand, discarded, late>>

(* With nothing open on it a rollback says nothing to the server, and does  *)
(* not notice that the server is gone.                                     *)
RollbackUnneeded(t) ==
  /\ at[t] = "rolling" /\ conn[hand[t]] = "broken" /\ hand[t] \notin began
  /\ GoTo(t, "returning")
  /\ UNCHANGED <<backendVars, ageVars, hand, discarded, late>>

(* putconn keeps up to MinConn connections, rolled back, and closes the     *)
(* rest and the ones known to be gone. A queue keeps them all.             *)
Keeps(c) == Psycopg2 => Len(idle) < MinConn /\ conn[c] # "closed"

GiveBack(t) ==
  /\ at[t] = "returning"
  /\ IF shut
     THEN UNCHANGED <<idle, used, conn, began, work>>
     ELSE /\ used' = used \ {hand[t]}
          /\ began' = IF Psycopg2 THEN began \ {hand[t]} ELSE began
          /\ work' = IF Psycopg2 THEN work \ {hand[t]} ELSE work
          /\ IF Keeps(hand[t])
             THEN idle' = Append(idle, hand[t]) /\ UNCHANGED conn
             ELSE Close(hand[t]) /\ UNCHANGED idle
  /\ GoTo(t, "returned")
  /\ UNCHANGED <<adopted, shut, ageVars, hand, discarded, late>>

Forget(t) ==
  /\ at[t] = "returned"
  /\ GoTo(t, "out")
  /\ hand' = [hand EXCEPT ![t] = None]
  /\ UNCHANGED <<backendVars, ageVars, discarded, late>>

-----------------------------------------------------------------------------
(* The server drops a connection, time passes, the pool is closed.         *)

Break(c) ==
  /\ conn[c] = "open"
  /\ conn' = [conn EXCEPT ![c] = "broken"]
  /\ work' = work \ {c}
  /\ UNCHANGED <<idle, used, began, adopted, shut, ageVars, threadVars>>

GrowOld(c) ==
  /\ born[c] # "none"
  /\ overdue' = overdue \cup {c}
  /\ born' = [born EXCEPT ![c] = "old"]
  /\ UNCHANGED <<backendVars, threadVars>>

CloseAll ==
  /\ ~shut
  /\ shut' = TRUE
  /\ conn' = [c \in Conns |-> IF c \in used \cup Range(idle) THEN "closed" ELSE conn[c]]
  /\ began' = {} /\ work' = {}
  /\ UNCHANGED <<idle, used, adopted, ageVars, threadVars>>

Borrow(t) == BorrowIdle(t) \/ BorrowNew(t) \/ BorrowFails(t)
Try(t) == Borrow(t) \/ CheckAge(t) \/ Lend(t) \/ PingFails(t) \/ ThrowAway(t)
Return(t) == \/ RollsBack(t) \/ RollbackFails(t) \/ RollbackUnneeded(t)
             \/ GiveBack(t) \/ Forget(t)

Next ==
  \/ \E t \in Threads :
       \/ Acquire(t) \/ Try(t) \/ GetLate(t)
       \/ Work(t) \/ CommitWork(t) \/ CloseLoan(t) \/ Return(t)
  \/ \E c \in Conns : Break(c) \/ GrowOld(c)
  \/ CloseAll

Spec == Init /\ [][Next]_vars

(* acquire is a loop that runs, and the clock advances.                    *)
FairSpec == Spec /\ \A t \in Threads : WF_vars(Try(t)) /\ WF_vars(GetLate(t))

-----------------------------------------------------------------------------
TypeOK ==
  /\ idle \in Seq(Conns) /\ used \subseteq Conns
  /\ conn \in [Conns -> {"fresh", "open", "broken", "closed"}]
  /\ work \subseteq Conns /\ began \subseteq Conns /\ adopted \subseteq Conns /\ overdue \subseteq Conns
  /\ born \in [Conns -> {"none", "young", "old"}]
  /\ shut \in BOOLEAN
  /\ at \in [Threads -> Places]
  /\ hand \in [Threads -> Conns \cup {None}]
  /\ \A t \in Threads : at[t] \in Holding => hand[t] # None
  /\ discarded \in [Threads -> 0..MaxDiscards] /\ late \in [Threads -> BOOLEAN]

(* "returning it twice would hand it to two users at once" (pool.py:100):    *)
(* no two threads hold the same connection, and a held one is not free.     *)
Exclusive ==
  \A t \in Threads : at[t] \in Holding =>
    /\ hand[t] \notin Range(idle)
    /\ \A u \in Threads \ {t} : at[u] \in Holding => hand[u] # hand[t]

(* "the backing pool went on counting that connection as lent, for ever"     *)
(* (pool.py:108) is what close() prevents: a connection counted as lent is   *)
(* in the hands of a thread that will give it back.                        *)
NothingLeaks ==
  ~shut => \A c \in used : \E t \in Threads : at[t] \in Holding /\ hand[t] = c

(* A connection first lent a lifetime ago is not lent again: every loan      *)
(* passes the age check only with a connection whose lifetime is not over.  *)
RecycledOnTime ==
  [][\A t \in Threads : CheckAge(t) /\ at'[t] = "pinging" => hand[t] \notin overdue]_vars

(* "a connection thrown away would keep its old wrapper alive" (pool.py:340) *)
(* is what leaving the map prevents: psycopg_pool keeps a driver only for    *)
(* the connections that are open, once they are given back.                 *)
KeepsNoClosedConnection == \A c \in adopted \ used : conn[c] # "closed" \/ shut

(* "a statement would open a transaction, and set_isolation() demands being  *)
(* the first one in its own" (psycopg.py:63): a connection is lent outside  *)
(* any transaction.                                                        *)
FirstStatementIsTheBorrowers == [][\A t \in Threads : Lend(t) => hand[t] \notin began']_vars

(* What the pool promises: connections lent to one borrower at a time, and   *)
(* with nothing of the borrower before on them.                            *)
Lender == INSTANCE PoolLender WITH
  lent <- [t \in Threads |-> IF at[t] = "lent" THEN hand[t] ELSE None]
LendsCleanConnections == Lender!Spec

(* "an infinite loop throwing connections away and asking for another"       *)
(* (pool.py:206) never happens: acquire lends or raises.                    *)
AcquireEnds == \A t \in Threads : at[t] \in Acquiring ~> at[t] \in {"lent", "out"}
=============================================================================
