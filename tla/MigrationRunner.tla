--------------------------- MODULE MigrationRunner ---------------------------
(***************************************************************************)
(* `snakeorm migrate` and `snakeorm rollback` against one database         *)
(* (src/src/snakeorm/migration/runner.py, cli/app.py), run by any number   *)
(* of deploys at once, each one able to crash between two statements, and  *)
(* `snakeorm squash` adding a file in between.                             *)
(*                                                                         *)
(* The database is its committed state and, per runner, the open           *)
(* transaction: the state that runner sees. The first write of a           *)
(* transaction waits for the other writer to end. On an engine without     *)
(* transactional DDL a schema statement commits as it runs, whatever data  *)
(* was pending with it.                                                    *)
(***************************************************************************)
EXTENDS MigrationHistory

CONSTANTS
  Runners,        \* the processes that run migrate and rollback
  Files,          \* the files at the start, a sequence of migrations
  Transactional,  \* dialect.supports_transactional_ddl
  Allowed,        \* which of "rollback", "crash", "failure" may happen
  SquashPoints,   \* the positions squash --until may name
  MaxFiles,       \* bound: the files the directory may grow to
  NoTx            \* no transaction open

ASSUME FilesAssumption ==
  /\ Files \in Seq([version : Nat, operations : Seq(Operations), replaces : SUBSET Nat])
  /\ \A i \in DOMAIN Files : Files[i].version = i   \* loader._validate_sequence
  /\ MaxFiles \in Nat /\ Len(Files) <= MaxFiles /\ SquashPoints \subseteq Nat \ {0}
ASSUME TransactionalAssumption == Transactional \in BOOLEAN
ASSUME AllowedAssumption == Allowed \subseteq {"rollback", "crash", "failure"}
(* Without transactional DDL the copy a transaction sees is right only as   *)
(* long as nobody else writes.                                             *)
ASSUME StepwiseAssumption == ~Transactional => \E r \in Runners : Runners = {r}

(* Versions are the file numbers; squashing names the next one.            *)
Versions == 1..MaxFiles
Databases == [schema : Schemas, tracked : SUBSET Versions, done : [Versions -> Int]]

ASSUME NoTxAssumption == NoTx \notin Databases

VARIABLES
  files,     \* the migrations directory
  db,        \* the committed schema, tracking table and operations in effect
  tx,        \* per runner, what its open transaction sees
  step,      \* per runner, where it stands
  batch,     \* per runner, the files it loaded
  already,   \* per runner, the set applied_versions() returned
  at,        \* per runner, the migration of the batch it has in hand
  k          \* per runner, the operations of that migration in effect

runnerVars == <<step, batch, already, at, k>>
vars == <<files, db, tx, runnerVars>>

Steps == {"idle", "opening", "reading", "choosing", "running", "marking", "committing",
          "failing", "undo opening", "undo reading", "undoing", "undo committing"}

EmptyDatabase == [schema |-> NoSchema, tracked |-> {}, done |-> [v \in Versions |-> 0]]

Init ==
  /\ files = Files
  /\ db = EmptyDatabase
  /\ tx = [r \in Runners |-> NoTx]
  /\ step = [r \in Runners |-> "idle"]
  /\ batch = [r \in Runners |-> <<>>]
  /\ already = [r \in Runners |-> {}]
  /\ at = [r \in Runners |-> 1]
  /\ k = [r \in Runners |-> 0]

-----------------------------------------------------------------------------
Seen(r) == IF tx[r] = NoTx THEN db ELSE tx[r]
(* Mutant: writers do not wait for each other.                             *)
MayAlwaysWrite(r) == TRUE

MayWrite(r) == \A other \in Runners \ {r} : tx[other] = NoTx

(* A statement that stays in the transaction, and the statements that end it. *)
Write(r, d) == MayWrite(r) /\ tx' = [tx EXCEPT ![r] = d] /\ UNCHANGED db
CommitNow(r, d) == MayWrite(r) /\ db' = d /\ tx' = [tx EXCEPT ![r] = NoTx]
Commit(r) == CommitNow(r, Seen(r))
Discard(r) == tx' = [tx EXCEPT ![r] = NoTx] /\ UNCHANGED db

Autocommits(op) == ~Transactional /\ op.kind # "data"

Statement(r, op, d) == IF Autocommits(op) THEN CommitNow(r, d) ELSE Write(r, d)

GoTo(r, s) == step' = [step EXCEPT ![r] = s]
Current(r) == batch[r][at[r]]

-----------------------------------------------------------------------------
(* snakeorm migrate: load the files, create the tracking table and commit,  *)
(* read what is applied, then decide each migration in order.              *)

Load(r) ==
  /\ step[r] = "idle"
  /\ \/ GoTo(r, "opening")
     \/ "rollback" \in Allowed /\ GoTo(r, "undo opening")
  /\ batch' = [batch EXCEPT ![r] = files]
  /\ UNCHANGED <<files, db, tx, already, at, k>>

EnsureTracking(r) ==
  /\ step[r] \in {"opening", "undo opening"}
  /\ Commit(r)
  /\ GoTo(r, IF step[r] = "opening" THEN "reading" ELSE "undo reading")
  /\ UNCHANGED <<files, batch, already, at, k>>

ReadApplied(r) ==
  /\ step[r] = "reading"
  /\ already' = [already EXCEPT ![r] = Seen(r).tracked]
  /\ at' = [at EXCEPT ![r] = 1]
  /\ GoTo(r, "choosing")
  /\ UNCHANGED <<files, db, tx, batch, k>>

Replaced(r) == UNION {m.replaces : m \in Range(batch[r])}

(* squash_already_done: all of them, none of them, or stop.                 *)
(* Mutant: one applied original is enough.                                 *)
SquashDoneIfAny(m, applied) == m.replaces \cap applied # {}

SquashDone(m, applied) == m.replaces # {} /\ m.replaces \subseteq applied

HalfWay(m, applied) == ~SquashDone(m, applied) /\ m.replaces \cap applied # {}

Choosing(r) == step[r] = "choosing" /\ at[r] <= Len(batch[r])

Skips(r) == Current(r).version \in already[r] \cup Replaced(r)

Skip(r) ==
  /\ Choosing(r) /\ Skips(r)
  /\ at' = [at EXCEPT ![r] = @ + 1]
  /\ UNCHANGED <<files, db, tx, step, batch, already, k>>

Pending(r) == Choosing(r) /\ ~Skips(r)

StartMarking(r) ==
  /\ Pending(r) /\ SquashDone(Current(r), already[r])
  /\ GoTo(r, "marking")
  /\ UNCHANGED <<files, db, tx, batch, already, at, k>>

RaiseHalfWay(r) ==
  /\ Pending(r) /\ HalfWay(Current(r), already[r])
  /\ GoTo(r, "idle")
  /\ UNCHANGED <<files, db, tx, batch, already, at, k>>

StartRunning(r) ==
  /\ Pending(r) /\ ~SquashDone(Current(r), already[r]) /\ ~HalfWay(Current(r), already[r])
  /\ GoTo(r, "running")
  /\ k' = [k EXCEPT ![r] = 0]
  /\ UNCHANGED <<files, db, tx, batch, already, at>>

Finish(r) ==
  /\ step[r] = "choosing" /\ at[r] > Len(batch[r])
  /\ GoTo(r, "idle")
  /\ UNCHANGED <<files, db, tx, batch, already, at, k>>

-----------------------------------------------------------------------------
(* _apply_atomic and _apply_stepwise: the operations in order, the record,  *)
(* the commit. A refused statement raises: the atomic one rolls back, the   *)
(* stepwise one only reports, and the command closes the connection.       *)

ForwardOp(r) == Current(r).operations[k[r] + 1]

Forward(r) ==
  /\ step[r] = "running" /\ k[r] < Len(Current(r).operations)
  /\ LET d == Seen(r)
         op == ForwardOp(r)
     IN IF Accepts(d.schema, op)
        THEN /\ Statement(r, op, [d EXCEPT !.schema = Executed(@, op),
                                           !.done[Current(r).version] = @ + 1])
             /\ k' = [k EXCEPT ![r] = @ + 1]
             /\ UNCHANGED step
        ELSE MayWrite(r) /\ GoTo(r, "failing") /\ UNCHANGED <<db, tx, k>>
  /\ UNCHANGED <<files, batch, already, at>>

AllRan(r) == k[r] = Len(Current(r).operations)

(* Mutant: the INSERT is forgotten.                                        *)
NothingRecorded(r) == Seen(r)

(* The INSERT into snake_migrations, whose primary key is the version.      *)
Recorded(r) == [Seen(r) EXCEPT !.tracked = @ \cup {Current(r).version}]

Record(r) ==
  /\ \/ step[r] = "running" /\ AllRan(r)
     \/ step[r] = "marking"
  /\ IF Current(r).version \notin Seen(r).tracked
     THEN Write(r, Recorded(r)) /\ GoTo(r, "committing")
     ELSE MayWrite(r) /\ GoTo(r, "failing") /\ UNCHANGED <<db, tx>>
  /\ UNCHANGED <<files, batch, already, at, k>>

CommitMigration(r) ==
  /\ step[r] = "committing"
  /\ Commit(r)
  /\ at' = [at EXCEPT ![r] = @ + 1]
  /\ GoTo(r, "choosing")
  /\ UNCHANGED <<files, batch, already, k>>

(* Mutants: the except clause does not roll back; or it goes on with the    *)
(* next migration instead of raising.                                      *)
RaiseWithoutRollback(r) ==
  /\ step[r] = "failing"
  /\ GoTo(r, "idle")
  /\ UNCHANGED <<files, db, tx, batch, already, at, k>>

RaiseNothing(r) ==
  /\ step[r] = "failing"
  /\ Discard(r)
  /\ GoTo(r, "choosing")
  /\ at' = [at EXCEPT ![r] = @ + 1]
  /\ UNCHANGED <<files, batch, already, k>>

Raise(r) ==
  /\ step[r] = "failing"
  /\ Discard(r)
  /\ GoTo(r, "idle")
  /\ UNCHANGED <<files, batch, already, at, k>>

-----------------------------------------------------------------------------
(* snakeorm rollback: the highest-numbered file that is recorded, its       *)
(* operations undone in reverse order, its record deleted, one commit.      *)

LastRegistered(r) ==
  {i \in DOMAIN batch[r] : batch[r][i].version \in Seen(r).tracked
     /\ \A j \in (i + 1)..Len(batch[r]) : batch[r][j].version \notin Seen(r).tracked}

ReadLast(r) ==
  /\ step[r] = "undo reading"
  /\ IF LastRegistered(r) = {}
     THEN GoTo(r, "idle") /\ UNCHANGED <<at, k>>
     ELSE \E i \in LastRegistered(r) :
            /\ at' = [at EXCEPT ![r] = i]
            /\ k' = [k EXCEPT ![r] = Len(batch[r][i].operations)]
            /\ GoTo(r, "undoing")
  /\ UNCHANGED <<files, db, tx, batch, already>>

Backward(r) ==
  /\ step[r] = "undoing" /\ k[r] > 0
  /\ LET d == Seen(r)
         op == Undone(Current(r).operations[k[r]])
     IN IF Accepts(d.schema, op)
        THEN /\ Statement(r, op, [d EXCEPT !.schema = Executed(@, op),
                                           !.done[Current(r).version] = @ - 1])
             /\ k' = [k EXCEPT ![r] = @ - 1]
             /\ UNCHANGED step
        ELSE MayWrite(r) /\ GoTo(r, "failing") /\ UNCHANGED <<db, tx, k>>
  /\ UNCHANGED <<files, batch, already, at>>

(* Mutant: the DELETE is forgotten.                                        *)
UnrecordNothing(r) ==
  /\ step[r] = "undoing" /\ k[r] = 0
  /\ Write(r, Seen(r))
  /\ GoTo(r, "undo committing")
  /\ UNCHANGED <<files, batch, already, at, k>>

Unrecord(r) ==
  /\ step[r] = "undoing" /\ k[r] = 0
  /\ Write(r, [Seen(r) EXCEPT !.tracked = @ \ {Current(r).version}])
  /\ GoTo(r, "undo committing")
  /\ UNCHANGED <<files, batch, already, at, k>>

CommitRollback(r) ==
  /\ step[r] = "undo committing"
  /\ Commit(r)
  /\ GoTo(r, "idle")
  /\ UNCHANGED <<files, batch, already, at, k>>

-----------------------------------------------------------------------------
(* The engine refuses a statement for a reason of its own (a lock timeout,  *)
(* a lost connection), the process dies, and the developer squashes.        *)

EngineFails(r) ==
  /\ "failure" \in Allowed
  /\ step[r] \in {"running", "marking", "committing", "undoing", "undo committing"}
  /\ GoTo(r, "failing")
  /\ UNCHANGED <<files, db, tx, batch, already, at, k>>

Crash(r) ==
  /\ "crash" \in Allowed /\ step[r] # "idle"
  /\ Discard(r)
  /\ GoTo(r, "idle")
  /\ UNCHANGED <<files, batch, already, at, k>>

SquashUntil(u) ==
  /\ Len(files) < MaxFiles
  /\ u <= Len(files) /\ ~HasData(SubSeq(files, 1, u))
  /\ files' = Append(files, Squash(SubSeq(files, 1, u), Len(files) + 1))
  /\ UNCHANGED <<db, tx, runnerVars>>

Migrate(r) == \/ EnsureTracking(r) \/ ReadApplied(r)
              \/ Skip(r) \/ StartMarking(r) \/ RaiseHalfWay(r) \/ StartRunning(r) \/ Finish(r)
              \/ Forward(r) \/ Record(r) \/ CommitMigration(r) \/ Raise(r)
Rollback(r) == ReadLast(r) \/ Backward(r) \/ Unrecord(r) \/ CommitRollback(r)

Next ==
  \/ \E r \in Runners : Load(r) \/ Migrate(r) \/ Rollback(r) \/ EngineFails(r) \/ Crash(r)
  \/ \E u \in SquashPoints : SquashUntil(u)

Spec == Init /\ [][Next]_vars

(* The deploy is retried, and a command that runs goes on.                 *)
FairSpec == Spec /\ \A r \in Runners : WF_vars(Load(r)) /\ WF_vars(Migrate(r)) /\ WF_vars(Rollback(r))

-----------------------------------------------------------------------------
TypeOK ==
  /\ files \in Seq([version : Versions, operations : Seq(Operations), replaces : SUBSET Versions])
  /\ db \in Databases
  /\ tx \in [Runners -> Databases \cup {NoTx}]
  /\ step \in [Runners -> Steps]
  /\ \A r \in Runners : step[r] = "idle" => tx[r] = NoTx
  /\ already \in [Runners -> SUBSET Versions]
  /\ \A r \in Runners : at[r] \in 1..(Len(batch[r]) + 1) /\ k[r] \in Nat
  /\ \A r \in Runners : step[r] \in {"running", "marking", "committing", "undoing", "undo committing"}
                          => at[r] <= Len(batch[r])

OperationsOf(v) == UNION {{Len(m.operations)} : m \in {n \in Range(files) : n.version = v}}

(* "Every migration is ATOMIC: its operations and the version record go     *)
(* together" (runner.py:204): whatever crashes, fails or runs at the same   *)
(* time, in the committed database a migration that no squash involves is   *)
(* recorded with all of its operations in effect once, or not at all.       *)
Plain(v) == \A m \in Range(files) : v \notin m.replaces /\ (m.version = v => m.replaces = {})

AllOrNothing ==
  \A v \in Versions : Plain(v) =>
    \A n \in OperationsOf(v) : db.done[v] = IF v \in db.tracked THEN n ELSE 0

(* Without transactional DDL a crash may leave operations unrecorded, but a *)
(* record never stands for operations that did not run.                    *)
RecordedMeansDone ==
  \A v \in db.tracked : Plain(v) => \A n \in OperationsOf(v) : db.done[v] >= n

(* The committed database moves by whole migrations.                       *)
Log == INSTANCE MigrationLog WITH schema <- db.schema, tracked <- db.tracked
MovesByWholeMigrations == Log!Spec

(* "It marks it applied without running it. The DB is already like that"    *)
(* (docs/users/getting-started/migrations.md:177).                         *)
MarksWhatIsThere ==
  [][\A r \in Runners : StartMarking(r) =>
       LET s == Replay(<<Current(r)>>)
       IN \A t \in Tables : s[t] \subseteq db.schema[t]]_vars

(* rollback undoes "the last applied migration" (app.py:585): when it starts *)
(* on it, the migration is still recorded.                                 *)
UndoesWhatIsRecorded ==
  [][\A r \in Runners :
       Backward(r) /\ tx[r] = NoTx /\ tx'[r] # NoTx => Current(r).version \in db.tracked]_vars

(* What the tracking table claims is the schema the database has: the       *)
(* recorded originals, and those a recorded squash stands for.              *)
SchemaMatchesRecords == db.schema = Expected(files, db.tracked)

(* "the state the schema SHOULD have according to the history"              *)
(* (autodetect.py:3): makemigrations diffs the models against the replay of *)
(* every file, so on an up-to-date database the two are the same.          *)
ReplayMatchesDatabase == UpToDate(files, db.tracked) => db.schema = Replay(files)

(* A deploy on a database nobody else touches and no engine error breaks    *)
(* never fails on a statement of its own.                                  *)
HistoryRuns == \A r \in Runners : step[r] # "failing"

(* "marking it would skip what is missing" (runner.py:51): a squash is      *)
(* refused as half-way only if some original was missing when it was read. *)
HalfWayMeansMissing ==
  [][\A r \in Runners : RaiseHalfWay(r) =>
       \E v \in Current(r).replaces : ~Covered(batch[r], v, already[r])]_vars

(* A migrate that ends without raising leaves nothing of its files pending. *)
FinishMeansUpToDate ==
  [][\A r \in Runners : Finish(r) => UpToDate(batch[r], db.tracked)]_vars

(* Deploys that race and fail are run again (applied_versions is read anew,  *)
(* runner.py:195): once no process dies and the engine holds, everything is  *)
(* applied and stays so, unless somebody rolls back. A crash that does what  *)
(* ending does, and an engine failure of a statement that would have been    *)
(* refused, disturb nothing.                                               *)
Disturbed == \E r \in Runners : (Crash(r) \/ EngineFails(r)) /\ ~Migrate(r) /\ ~Rollback(r)

EventuallyUpToDate ==
  \/ <>(\E r \in Runners : step[r] = "undo opening")
  \/ []<><<Disturbed>>_vars
  \/ <>[]UpToDate(files, db.tracked)
=============================================================================
