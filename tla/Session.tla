------------------------------- MODULE Session -------------------------------
(***************************************************************************)
(* A session over one connection: `with SnakeSession(...)`, its savepoint  *)
(* blocks and with_retry (src/src/snakeorm/session/session.py, retry.py),   *)
(* over the drivers of the three engines (drivers/sqlite.py, psycopg.py,   *)
(* pymysql.py). One thread runs it: a behaviour is a program somebody may   *)
(* write, with the errors the engine may answer it.                        *)
(*                                                                         *)
(* The program catches what the guide tells it to, a SnakeError that comes  *)
(* out of a savepoint block (docs/users/guide/transactions.md:28); any other *)
(* exception leaves the unit of work.                                      *)
(***************************************************************************)
EXTENDS Naturals, Sequences, FiniteSets, SequencesExt, TLC

CONSTANTS
  Engines,    \* the engines a session may be opened on
  Faults,     \* which faults may happen
  Late,       \* the engines that may refuse the COMMIT of __exit__
  Attempts,   \* the attempts argument of with_retry
  MaxDepth,   \* bound: savepoint blocks nested
  MaxWrites   \* bound: writes, and exceptions of the program's own, in a behaviour

ASSUME EnginesAssumption == Engines \subseteq {"postgres", "mysql", "sqlite"}
ASSUME FaultsAssumption == Faults \subseteq {"constraint", "transient", "savepoint", "raise", "exit"}
ASSUME LateAssumption == Late \subseteq {"postgres", "sqlite"}
ASSUME BoundsAssumption == Attempts \in Nat \ {0} /\ MaxDepth \in Nat /\ MaxWrites \in Nat

VARIABLES
  engine,    \* the engine of this connection
  db,        \* the committed writes
  tx,        \* the engine's transaction: its state, its writes, its savepoints
  in_tx,     \* SQLiteDriver._in_tx
  depth,     \* _savepoint_depth
  blocks,    \* the savepoint blocks the program is in, with what they found
  raising,   \* the exception on its way out
  scope,     \* where the program is: out, in the session, in the work of with_retry
  attempt,   \* the attempt of with_retry
  conflict,  \* the engine has answered this attempt with a transient conflict
  believed,  \* the writes the program has made and not undone since the last commit
  written    \* the writes made so far

driverVars == <<tx, in_tx>>
blockVars == <<depth, blocks>>
retryVars == <<scope, attempt>>
vars == <<engine, db, driverVars, blockVars, raising, retryVars, conflict, believed, written>>

Writes == 1..MaxWrites
Mark(name, rows) == [name |-> name, rows |-> rows]
Transaction(state, rows, marks) == [state |-> state, rows |-> rows, marks |-> marks]
NoTransaction == Transaction("none", {}, <<>>)
Errors == {"snake", "transient", "other"}

Init ==
  /\ engine \in Engines
  /\ db = {} /\ tx = NoTransaction /\ in_tx = FALSE
  /\ depth = 0 /\ blocks = <<>> /\ raising = "none"
  /\ scope = "out" /\ attempt = 0 /\ conflict = FALSE /\ believed = {} /\ written = 0

-----------------------------------------------------------------------------
(* The engines. A statement opens the transaction if there is none; SQLite's *)
(* driver opens it itself, and without it a statement commits at once.      *)

Begun == IF tx.state = "none" /\ ~(engine = "sqlite" /\ in_tx)
         THEN [tx EXCEPT !.state = "open"]
         ELSE tx

EnsureTx == in_tx' = (engine = "sqlite")

(* What a refused statement leaves of the transaction, by the exception the  *)
(* driver raises: Postgres refuses everything until a rollback; MySQL drops  *)
(* the transaction of a deadlock's victim, not that of a wait that ran out;  *)
(* SQLite keeps it.                                                        *)
Left(t, error) ==
  CASE engine = "postgres"                      -> {[t EXCEPT !.state = "aborted"]}
    [] engine = "mysql" /\ error = "transient"  -> {t, NoTransaction}
    [] OTHER                                    -> {t}

Refused(t) == raising' = "other" /\ tx' = t

MarksNamed(t, name) == {i \in DOMAIN t.marks : t.marks[i].name = name}
LastMark(t, name) == CHOOSE i \in MarksNamed(t, name) : \A j \in MarksNamed(t, name) : j <= i

-----------------------------------------------------------------------------
(* The program: it opens the session, writes, and may call with_retry.      *)

Running == scope # "out" /\ raising = "none"

(* A new session over the driver, or the same one entered again.            *)
Open ==
  /\ scope = "out" /\ written < MaxWrites
  /\ scope' = "session" /\ depth' \in {0, depth}
  /\ UNCHANGED <<engine, db, driverVars, blocks, raising, attempt, conflict, believed, written>>

StartRetry ==
  /\ Running /\ scope = "session" /\ blocks = <<>>
  /\ scope' = "work" /\ attempt' = 1 /\ conflict' = FALSE
  /\ UNCHANGED <<engine, db, driverVars, blockVars, raising, believed, written>>

Statement == Running /\ written < MaxWrites /\ written' = written + 1 /\ EnsureTx

Write ==
  /\ Statement
  /\ believed' = believed \cup {written'}
  /\ IF Begun.state = "open"
     THEN tx' = [Begun EXCEPT !.rows = @ \cup {written'}] /\ UNCHANGED db
     ELSE db' = db \cup {written'} /\ UNCHANGED tx
  /\ UNCHANGED <<engine, blockVars, raising, retryVars, conflict>>

WriteRefused ==
  /\ Statement
  /\ \/ "constraint" \in Faults /\ raising' = "snake" /\ UNCHANGED conflict
     \/ "transient" \in Faults /\ raising' = "transient" /\ conflict' = TRUE
  /\ tx' \in Left(Begun, raising')
  /\ UNCHANGED <<engine, db, blockVars, retryVars, believed>>

(* The program raises on its own; or KeyboardInterrupt, GeneratorExit, a     *)
(* cancelled task, which are no Exception.                                 *)
Raise ==
  /\ Running /\ written < MaxWrites /\ written' = written + 1
  /\ \/ "raise" \in Faults /\ raising' = "snake"
     \/ "exit" \in Faults /\ raising' = "exit"
  /\ UNCHANGED <<engine, db, driverVars, blockVars, retryVars, conflict, believed>>

-----------------------------------------------------------------------------
(* savepoint(): SAVEPOINT on the way in, RELEASE or ROLLBACK TO on the way   *)
(* out. A name that comes back hides the older one.                         *)

(* Mutant: every level has the same name.                                  *)
OneName == 1

Name == depth + 1

(* MySQL's savepoints have a name each: the one of this name, if any, goes.   *)
Kept(name) == IF engine = "mysql" /\ MarksNamed(tx, name) # {}
              THEN RemoveAt(tx.marks, LastMark(tx, name))
              ELSE tx.marks

Savepoint ==
  /\ Running /\ Len(blocks) < MaxDepth
  /\ EnsureTx
  /\ tx' = Transaction("open", tx.rows, Append(Kept(Name), Mark(Name, tx.rows)))
  /\ blocks' = Append(blocks, Mark(Name, believed))
  /\ depth' = depth + 1
  /\ UNCHANGED <<engine, db, raising, retryVars, conflict, believed, written>>

(* The engine refuses the SAVEPOINT before the try: nothing lowers the depth. *)
SavepointRefused ==
  /\ Statement /\ "savepoint" \in Faults
  /\ depth' = depth + 1 /\ raising' = "other"
  /\ tx' \in Left(Begun, raising')
  /\ UNCHANGED <<engine, db, blocks, retryVars, conflict, believed>>

Leave == blocks' = Front(blocks) /\ depth' = depth - 1

Release ==
  /\ Running /\ blocks # <<>>
  /\ EnsureTx
  /\ LET name == Last(blocks).name
     IN IF MarksNamed(tx, name) = {}
        THEN Refused(tx)
        ELSE /\ tx' = [tx EXCEPT !.marks = SubSeq(@, 1, LastMark(tx, name) - 1)]
             /\ UNCHANGED raising
  /\ Leave
  /\ UNCHANGED <<engine, db, retryVars, conflict, believed, written>>

(* The block raised: its writes are undone, and the exception goes on, to    *)
(* the program if it is one it catches. A savepoint the engine no longer    *)
(* has is an exception of its own, in the place of the first.              *)
RollbackTo ==
  /\ raising \in Errors /\ blocks # <<>>
  /\ EnsureTx
  /\ LET name == Last(blocks).name
     IN IF MarksNamed(tx, name) = {}
        THEN Refused(tx)
        ELSE /\ tx' = Transaction("open", tx.marks[LastMark(tx, name)].rows,
                                  SubSeq(tx.marks, 1, LastMark(tx, name)))
             /\ raising' \in (IF raising = "snake" THEN {"none", raising} ELSE {raising})
  /\ believed' = Last(blocks).rows
  /\ Leave
  /\ UNCHANGED <<engine, db, retryVars, conflict, written>>

(* except Exception does not see it: nothing is sent, and finally runs.     *)
Unwind ==
  /\ raising = "exit" /\ blocks # <<>>
  /\ Leave
  /\ UNCHANGED <<engine, db, driverVars, raising, retryVars, conflict, believed, written>>

-----------------------------------------------------------------------------
(* commit and rollback, as the drivers do them. SQLite's ask the flag.      *)

Ended == tx' = NoTransaction /\ in_tx' = FALSE

(* session.commit(), __exit__ without an exception, and the end of the work  *)
(* in with_retry, which returns. A commit of a transaction Postgres aborted  *)
(* is a rollback, and says nothing.                                        *)
Commit ==
  /\ Running /\ blocks = <<>>
  /\ db' = IF tx.state = "open" THEN db \cup tx.rows ELSE db
  /\ Ended
  /\ believed' = {}
  /\ scope' \in (IF scope = "work" THEN {"session"} ELSE {"session", "out"})
  /\ UNCHANGED <<engine, blockVars, raising, attempt, conflict, written>>

(* The conflict may show at the commit: Postgres has dropped everything by   *)
(* then, SQLite finds the file locked by a reader and has dropped nothing.  *)
Unsettled == IF engine = "postgres" THEN NoTransaction ELSE tx

CommitConflicts ==
  /\ Running /\ blocks = <<>>
  /\ "transient" \in Faults /\ engine \in {"postgres", "sqlite"} /\ tx.state = "open"
  /\ tx' = Unsettled
  /\ raising' = "transient" /\ conflict' = TRUE
  /\ UNCHANGED <<engine, db, in_tx, blockVars, retryVars, believed, written>>

(* __exit__ calls commit() with no except around it: the conflict goes to    *)
(* whoever wrote the with.                                                 *)
ExitConflicts ==
  /\ Running /\ scope = "session" /\ blocks = <<>>
  /\ engine \in Late /\ tx.state = "open"
  /\ tx' = Unsettled
  /\ scope' = "out" /\ believed' = {}
  /\ UNCHANGED <<engine, db, in_tx, blockVars, raising, attempt, conflict, written>>

Rollback ==
  /\ Running /\ scope = "session" /\ blocks = <<>>
  /\ Ended
  /\ believed' = {}
  /\ UNCHANGED <<engine, db, blockVars, raising, retryVars, conflict, written>>

(* with_retry's except Exception: roll back, and once more if the conflict   *)
(* is transient and an attempt is left.                                    *)
Excepted == scope = "work" /\ raising \in Errors /\ blocks = <<>>

Again == raising = "transient" /\ attempt < Attempts

(* Mutant: the next attempt goes on in the transaction of the last.         *)
RetryWithoutRollback ==
  /\ Excepted /\ Again
  /\ attempt' = attempt + 1 /\ raising' = "none" /\ conflict' = FALSE /\ believed' = {}
  /\ UNCHANGED <<engine, db, driverVars, blockVars, scope, written>>

Retry ==
  /\ Excepted /\ Again
  /\ Ended
  /\ attempt' = attempt + 1 /\ raising' = "none" /\ conflict' = FALSE /\ believed' = {}
  /\ UNCHANGED <<engine, db, blockVars, scope, written>>

RetryRaises ==
  /\ Excepted /\ ~Again
  /\ Ended
  /\ scope' = "session" /\ believed' = {}
  /\ UNCHANGED <<engine, db, blockVars, raising, attempt, conflict, written>>

RetryInterrupted ==
  /\ scope = "work" /\ raising = "exit" /\ blocks = <<>>
  /\ scope' = "session"
  /\ UNCHANGED <<engine, db, driverVars, blockVars, raising, attempt, conflict, believed, written>>

(* __exit__ with an exception, whichever: roll back and let it through.     *)
Exit ==
  /\ scope = "session" /\ raising # "none" /\ blocks = <<>>
  /\ Ended
  /\ scope' = "out" /\ raising' = "none" /\ believed' = {}
  /\ UNCHANGED <<engine, db, blockVars, attempt, conflict, written>>

Next ==
  \/ Open \/ StartRetry \/ Write \/ WriteRefused \/ Raise
  \/ Savepoint \/ SavepointRefused \/ Release \/ RollbackTo \/ Unwind
  \/ Commit \/ CommitConflicts \/ ExitConflicts \/ Rollback
  \/ Retry \/ RetryRaises \/ RetryInterrupted \/ Exit

Spec == Init /\ [][Next]_vars

-----------------------------------------------------------------------------
TypeOK ==
  /\ engine \in Engines
  /\ db \subseteq Writes /\ believed \subseteq Writes /\ written \in 0..MaxWrites
  /\ tx.state \in {"none", "open", "aborted"} /\ tx.rows \subseteq Writes
  /\ \A i \in DOMAIN tx.marks : tx.marks[i].rows \subseteq tx.rows
  /\ in_tx \in BOOLEAN /\ (in_tx => engine = "sqlite")
  /\ depth \in 0..(MaxDepth + MaxWrites)
  /\ \A i \in DOMAIN blocks : blocks[i].name \in Nat /\ blocks[i].rows \subseteq Writes
  /\ raising \in Errors \cup {"none", "exit"}
  /\ scope \in {"out", "session", "work"} /\ attempt \in 0..Attempts

(* "it discards ONLY what is inside, the transaction stays alive"           *)
(* (session.py:810): whatever blocks were entered, left, nested and rolled   *)
(* back, the transaction holds the writes the program has not undone.       *)
TransactionIsBelieved == Running => tx.rows = believed /\ tx.state # "aborted"

(* "Closes the transaction: commit if it came out clean, rollback if there   *)
(* was an exception" (session.py:157): nothing a unit of work wrote is left  *)
(* open for whoever uses the connection next.                              *)
ExitCloses == scope = "out" => tx = NoTransaction

(* "it stays in autocommit and rollback() undoes nothing" (sqlite.py:7) is   *)
(* what the driver's own BEGIN prevents: on every engine the database moves  *)
(* at a commit, by all the program has written and not undone.              *)
OnlyCommitsPersist ==
  [][db' # db => Running /\ blocks = <<>> /\ db' = db \cup believed /\ believed' = {}]_vars

(* "the entire unit of work has to be redone along with its rollback"       *)
(* (retry.py:73): when with_retry returns, one attempt has committed all it  *)
(* made, and nothing an earlier attempt made.                              *)
ReturnIsWhole ==
  [][scope = "work" /\ scope' = "session" /\ raising' = "none" => db' = db \cup believed]_vars

(* "Runs work and REPEATS it if the engine aborted the transaction over a    *)
(* transient conflict" (retry.py:68): an exception leaves with_retry after   *)
(* such a conflict only when no attempt is left. On MySQL a deadlock inside  *)
(* a savepoint block makes an exception of it that is not retried.          *)
TransientIsRetried ==
  [][RetryRaises /\ conflict /\ engine # "mysql" => attempt = Attempts]_vars
=============================================================================
