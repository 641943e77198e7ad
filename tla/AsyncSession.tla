----------------------------- MODULE AsyncSession -----------------------------
(***************************************************************************)
(* An asynchronous session (src/src/snakeorm/session/asyncsession.py) over  *)
(* a synchronous connection served from a thread of its own                 *)
(* (drivers/threaded.py, asyncsqlite.py, sqlite.py). One task runs it, unit  *)
(* of work after unit of work, and may be cancelled at any await.           *)
(*                                                                         *)
(* What is cancelled is the await. The work it waited for is dropped if no  *)
(* thread has taken it, and otherwise goes on in its thread, and lands.     *)
(***************************************************************************)
EXTENDS Naturals, Sequences, FiniteSets, SequencesExt

CONSTANTS
  Cancels,     \* the calls at whose await the task may be cancelled
  Catches,     \* what a timeout the program catches is around: a statement, a savepoint block
  EngineEnds,  \* the engine may roll back by itself with a refused statement (a full disk)
  MaxUnits,    \* bound: units of work
  MaxWrites,   \* bound: writes and savepoint blocks in a behaviour
  MaxDepth,    \* bound: savepoint blocks nested
  MaxCancels   \* bound: cancellations in a behaviour

Calls == {"write", "savepoint", "release", "rollback_to", "commit", "rollback"}
ASSUME CancelsAssumption == Cancels \subseteq Calls /\ Catches \subseteq {"statement", "block"}
ASSUME EngineAssumption == EngineEnds \in BOOLEAN
ASSUME BoundsAssumption == {MaxUnits, MaxWrites, MaxDepth, MaxCancels} \subseteq Nat

VARIABLES
  queue,     \* the works of the executor no thread has taken
  running,   \* the work each of its threads is at
  in_tx,     \* SQLiteDriver._in_tx
  tx,        \* the engine's transaction: the rows written, the savepoints
  db,        \* the rows committed
  at,        \* where the task is: out, in a unit of work, at an await, raising
  waits,     \* the work it awaits
  answer,    \* what that work has answered
  raising,   \* the exception on its way out, and what it came out of last
  depth,     \* _savepoint_depth
  blocks,    \* the savepoint blocks it is in, with what was there before them
  unit,      \* the unit of work, by number
  sure,      \* the rows this unit has written and not undone
  maybe,     \* with those of the writes it does not know the end of
  promised,  \* what each unit of work asked to commit, and whether it was told it did
  writes,    \* writes and blocks so far
  cancels    \* cancellations so far

thread == <<queue, running>>
engine == <<in_tx, tx, db>>
belief == <<sure, maybe, promised>>
counts == <<unit, writes, cancels>>
vars == <<thread, engine, at, waits, answer, raising, depth, blocks, belief, counts>>

-----------------------------------------------------------------------------
(* A call of the driver; one that outlived its await is told from the same  *)
(* call made again by the cancellations there had been.                     *)
Work(call, arg) == [call |-> call, arg |-> arg, cancels |-> cancels]
NoWork == [call |-> "none"]
NoRaise == [what |-> "none", from |-> "none"]
Raised(what, from) == [what |-> what, from |-> from]
NoTransaction == [open |-> FALSE, rows |-> {}, marks |-> <<>>]
Mark(name, rows) == [name |-> name, rows |-> rows]
Block(name) == [name |-> name, sure |-> sure, maybe |-> maybe]
Promise(s, m, told) == [sure |-> s, maybe |-> m, told |-> told]
Row(n) == <<unit, n>>

(* Mutant: an executor of two threads.                                      *)
TwoWorkers == 2

MaxWorkers == 1
Workers == 1..MaxWorkers

Init ==
  /\ queue = <<>> /\ running = [t \in Workers |-> NoWork]
  /\ in_tx = FALSE /\ tx = NoTransaction /\ db = {}
  /\ at = "out" /\ waits = NoWork /\ answer = "none" /\ raising = NoRaise
  /\ depth = 0 /\ blocks = <<>>
  /\ unit = 0 /\ sure = {} /\ maybe = {}
  /\ promised = [u \in 1..MaxUnits |-> Promise({}, {}, FALSE)]
  /\ writes = 0 /\ cancels = 0

-----------------------------------------------------------------------------
(* The thread: it takes the works in order and runs them on the connection. *)

Take(t) ==
  /\ running[t] = NoWork /\ queue # <<>>
  /\ running' = [running EXCEPT ![t] = Head(queue)] /\ queue' = Tail(queue)
  /\ UNCHANGED <<engine, at, waits, answer, raising, depth, blocks, belief, counts>>

Marked(t, name) == {i \in DOMAIN t.marks : t.marks[i].name = name}
LastMark(t, name) == CHOOSE i \in Marked(t, name) : \A j \in Marked(t, name) : j <= i

(* The lazy BEGIN of the driver.                                            *)
Begun == IF in_tx THEN tx ELSE [tx EXCEPT !.open = TRUE]

(* What a work does to the connection, and whether it is answered. Without  *)
(* a transaction the engine commits each statement.                         *)
Executes(w, ok) ==
  \/ /\ w.call = "write" /\ in_tx' = TRUE
     /\ \/ ok /\ Begun.open /\ tx' = [Begun EXCEPT !.rows = @ \cup {w.arg}] /\ UNCHANGED db
        \/ ok /\ ~Begun.open /\ db' = db \cup {w.arg} /\ UNCHANGED tx
        \/ ~ok /\ tx' \in {Begun} \cup (IF EngineEnds THEN {NoTransaction} ELSE {}) /\ UNCHANGED db
  \/ /\ w.call = "savepoint" /\ ok /\ in_tx' = TRUE /\ UNCHANGED db
     /\ tx' = [Begun EXCEPT !.open = TRUE, !.marks = Append(@, Mark(w.arg, tx.rows))]
  \/ /\ w.call \in {"release", "rollback_to"} /\ in_tx' = TRUE /\ UNCHANGED db
     /\ ok = (Marked(Begun, w.arg) # {})
     /\ LET i == LastMark(Begun, w.arg) IN
        tx' = IF ~ok THEN Begun
              ELSE IF w.call = "release" THEN [Begun EXCEPT !.marks = SubSeq(@, 1, i - 1)]
              ELSE [Begun EXCEPT !.rows = tx.marks[i].rows, !.marks = SubSeq(@, 1, i)]
  \/ /\ w.call \in {"commit", "rollback"}
     /\ ok = (in_tx => tx.open) /\ in_tx' = ~ok
     /\ tx' = NoTransaction
     /\ db' = IF w.call = "commit" /\ in_tx THEN db \cup tx.rows ELSE db

Finish(t) ==
  \E ok \in BOOLEAN :
    /\ running[t] # NoWork
    /\ Executes(running[t], ok)
    /\ running' = [running EXCEPT ![t] = NoWork]
    /\ answer' = IF running[t] # waits THEN answer ELSE IF ok THEN "ok" ELSE "error"
    /\ UNCHANGED <<queue, at, waits, raising, depth, blocks, belief, counts>>

-----------------------------------------------------------------------------
(* The task: what it calls, and what it does with the answer.               *)

Awaits(call, arg) ==
  /\ queue' = Append(queue, Work(call, arg)) /\ waits' = Work(call, arg)
  /\ at' = "await" /\ answer' = "none"
  /\ UNCHANGED <<running, engine>>

Enter ==
  /\ at = "out" /\ unit < MaxUnits
  /\ unit' = unit + 1 /\ at' = "in" /\ sure' = {} /\ maybe' = {}
  /\ UNCHANGED <<thread, engine, waits, answer, raising, depth, blocks, promised, writes, cancels>>

Write ==
  /\ at = "in" /\ writes < MaxWrites /\ writes' = writes + 1
  /\ Awaits("write", Row(writes'))
  /\ UNCHANGED <<raising, depth, blocks, belief, unit, cancels>>

(* Mutant: every level has the same name.                                   *)
OneName == 1

Name == depth + 1

Savepoint ==
  /\ at = "in" /\ writes < MaxWrites /\ writes' = writes + 1 /\ Len(blocks) < MaxDepth
  /\ Awaits("savepoint", Name) /\ depth' = depth + 1
  /\ UNCHANGED <<raising, blocks, belief, unit, cancels>>

Release ==
  /\ at = "in" /\ blocks # <<>> /\ Awaits("release", Last(blocks).name)
  /\ UNCHANGED <<raising, depth, blocks, belief, counts>>

Commit ==
  /\ at = "in" /\ blocks = <<>> /\ Awaits("commit", unit)
  /\ promised' = [promised EXCEPT ![unit] = Promise(sure, maybe, FALSE)]
  /\ UNCHANGED <<raising, depth, blocks, sure, maybe, counts>>

LeaveBlock == blocks' = Front(blocks) /\ depth' = depth - 1
Discard == sure' = Last(blocks).sure /\ maybe' = Last(blocks).maybe
Leave == at' = "out" /\ raising' = NoRaise

Answered ==
  /\ at = "await" /\ answer = "ok" /\ waits' = NoWork /\ answer' = "none"
  /\ CASE waits.call = "write" ->
            /\ sure' = sure \cup {waits.arg} /\ maybe' = maybe \cup {waits.arg} /\ at' = "in"
            /\ UNCHANGED <<raising, depth, blocks, promised>>
       [] waits.call = "savepoint" ->
            /\ blocks' = Append(blocks, Block(waits.arg)) /\ at' = "in"
            /\ UNCHANGED <<raising, depth, belief>>
       [] waits.call = "release" ->
            LeaveBlock /\ at' = "in" /\ UNCHANGED <<raising, belief>>
       [] waits.call = "rollback_to" ->
            /\ LeaveBlock /\ Discard /\ at' = "raise" /\ raising' = [raising EXCEPT !.from = "block"]
            /\ UNCHANGED promised
       [] waits.call = "commit" ->
            /\ Leave /\ promised' = [promised EXCEPT ![unit].told = TRUE]
            /\ UNCHANGED <<depth, blocks, sure, maybe>>
       [] OTHER -> Leave /\ UNCHANGED <<depth, blocks, belief>>
  /\ UNCHANGED <<thread, engine, counts>>

(* The driver raises. A block whose mark is gone is left all the same.      *)
Refused ==
  /\ at = "await" /\ answer = "error" /\ waits' = NoWork /\ answer' = "none" /\ at' = "raise"
  /\ IF waits.call \in {"release", "rollback_to"}
     THEN LeaveBlock /\ raising' = Raised("error", "block")
     ELSE UNCHANGED <<depth, blocks>> /\ raising' = Raised("error", "statement")
  /\ UNCHANGED <<thread, engine, belief, counts>>

(* The CancelledError of an await. A work still in the queue is dropped.    *)
Cancelled ==
  /\ at = "await" /\ waits.call \in Cancels /\ cancels < MaxCancels /\ cancels' = cancels + 1
  /\ queue' = IF queue # <<>> /\ Last(queue) = waits THEN Front(queue) ELSE queue
  /\ waits' = NoWork /\ answer' = "none"
  /\ CASE waits.call = "write" ->
            /\ maybe' = maybe \cup {waits.arg} /\ at' = "raise"
            /\ raising' = Raised("cancel", "statement") /\ UNCHANGED <<depth, blocks, sure>>
       [] waits.call = "savepoint" ->
            at' = "raise" /\ raising' = Raised("cancel", "block") /\ UNCHANGED <<depth, blocks, sure, maybe>>
       [] waits.call \in {"release", "rollback_to"} ->
            LeaveBlock /\ Discard /\ at' = "raise" /\ raising' = Raised("cancel", "block")
       [] OTHER -> Leave /\ UNCHANGED <<depth, blocks, sure, maybe>>
  /\ UNCHANGED <<running, engine, promised, unit, writes>>

(* Mutant: a savepoint block that lets errors through as it does a          *)
(* cancellation.                                                            *)
NoException == FALSE

(* `except Exception` in savepoint(): a CancelledError is none, and leaves  *)
(* the block with no statement at all.                                      *)
IsException == raising.what = "error"

Unwind ==
  /\ at = "raise"
  /\ \/ /\ blocks # <<>> /\ IsException
        /\ Awaits("rollback_to", Last(blocks).name)
        /\ UNCHANGED <<raising, depth, blocks, belief, counts>>
     \/ /\ blocks # <<>> /\ ~IsException /\ LeaveBlock /\ Discard
        /\ raising' = [raising EXCEPT !.from = "block"]
        /\ UNCHANGED <<thread, engine, at, waits, answer, promised, counts>>
     \/ /\ blocks = <<>> /\ Awaits("rollback", unit)
        /\ UNCHANGED <<raising, depth, blocks, belief, counts>>

(* The program catches an error, or the TimeoutError of a timeout of its    *)
(* own, and goes on with the unit of work.                                  *)
Catch ==
  /\ at = "raise" /\ (raising.what = "cancel" => raising.from \in Catches)
  /\ at' = "in" /\ raising' = NoRaise
  /\ UNCHANGED <<thread, engine, waits, answer, depth, blocks, belief, counts>>

Task == Enter \/ Write \/ Savepoint \/ Release \/ Commit \/ Answered \/ Refused \/ Cancelled \/ Unwind \/ Catch
Next == Task \/ \E t \in Workers : Take(t) \/ Finish(t)
Spec == Init /\ [][Next]_vars

-----------------------------------------------------------------------------
Rows == (1..MaxUnits) \X (1..MaxWrites)
Quiet == queue = <<>> /\ \A t \in Workers : running[t] = NoWork

TypeOK ==
  /\ tx.rows \cup db \cup maybe \subseteq Rows /\ sure \subseteq maybe
  /\ at \in {"out", "in", "await", "raise"} /\ depth \in 0..MaxWrites
  /\ in_tx \in BOOLEAN /\ Len(queue) <= 1 /\ Len(blocks) <= MaxDepth

(* A unit of work is in the database whole or not at all, whatever awaits   *)
(* of it were cancelled while their works ran on: nothing of one that was   *)
(* rolled back gets in with a later one.                                    *)
UnitsAreWhole ==
  \A u \in 1..MaxUnits :
    LET there == {row \in db : row[1] = u} IN
    there # {} => promised[u].sure \subseteq there /\ there \subseteq promised[u].maybe

(* A commit the task was told of is in the database.                        *)
CommitIsDurable == \A u \in 1..MaxUnits : promised[u].told => promised[u].sure \subseteq db

(* With nothing on its way, the engine's transaction has what this unit has *)
(* written, and no block that raised (asyncsession.py, savepoint: "if the   *)
(* block raises it discards ONLY what is inside") has left anything in it.  *)
TransactionIsBelieved ==
  at = "in" /\ Quiet =>
    /\ sure \subseteq tx.rows
    /\ {row \in tx.rows : row[1] = unit} \subseteq maybe
=============================================================================
