-------------------------- MODULE MigrationHistory --------------------------
(***************************************************************************)
(* The migration files and what they mean, away from any database          *)
(* (src/src/snakeorm/migration/operations.py, state.py, autodetect.py and  *)
(* squash.py). A schema is a function from tables to their sets of         *)
(* columns; the table with no column is the table that does not exist. An  *)
(* operation is a record; a migration is a version, a sequence of          *)
(* operations and the set of versions it replaces.                         *)
(***************************************************************************)
EXTENDS Naturals, Sequences, FiniteSets, SequencesExt

CONSTANTS Tables, Columns

ASSUME TablesAssumption == IsFiniteSet(Tables)

Schemas == [Tables -> SUBSET Columns]
NoSchema == [t \in Tables |-> {}]

CreateTable(t, cols) == [kind |-> "create", table |-> t, columns |-> cols]
DropTable(t, cols) == [kind |-> "drop", table |-> t, columns |-> cols]
AddColumn(t, c) == [kind |-> "add", table |-> t, columns |-> {c}]
DropColumn(t, c) == [kind |-> "remove", table |-> t, columns |-> {c}]
RunPython(t) == [kind |-> "data", table |-> t, columns |-> {}]

Operations == [kind : {"create", "drop", "add", "remove", "data"},
               table : Tables, columns : SUBSET Columns]

Migration(version, ops, replaces) ==
  [version |-> version, operations |-> ops, replaces |-> replaces]

-----------------------------------------------------------------------------
(* What the engine does with up_sql. A statement the engine refuses (a      *)
(* table that exists, a column that does not, the only column) raises.     *)

Accepts(s, op) ==
  CASE op.kind = "create" -> s[op.table] = {}
    [] op.kind = "drop"   -> s[op.table] # {}
    [] op.kind = "add"    -> s[op.table] # {} /\ op.columns \cap s[op.table] = {}
    [] op.kind = "remove" -> op.columns \subseteq s[op.table] /\ op.columns # s[op.table]
    [] op.kind = "data"   -> TRUE

Executed(s, op) ==
  CASE op.kind = "create" -> [s EXCEPT ![op.table] = op.columns]
    [] op.kind = "drop"   -> [s EXCEPT ![op.table] = {}]
    [] op.kind = "add"    -> [s EXCEPT ![op.table] = @ \cup op.columns]
    [] op.kind = "remove" -> [s EXCEPT ![op.table] = @ \ op.columns]
    [] op.kind = "data"   -> s

(* down_sql is the up_sql of the opposite operation; unrun for data.       *)
Opposite == [create |-> "drop", drop |-> "create", add |-> "remove", remove |-> "add", data |-> "data"]
Undone(op) == [op EXCEPT !.kind = Opposite[op.kind]]

(* apply_to_state raises nothing: a create replaces whatever was there, and *)
(* a column operation on a table the state does not have is ignored.        *)
ApplyToState(s, op) ==
  IF op.kind = "add" /\ s[op.table] = {} THEN s ELSE Executed(s, op)

ReplayOne(s, migration) == FoldLeft(ApplyToState, s, migration.operations)

(* autodetect.replay: every operation of every file, in order.             *)
Replay(migrations) == FoldLeft(ReplayOne, NoSchema, migrations)

-----------------------------------------------------------------------------
(* squash(): the replayed state as CREATE TABLEs, replacing every version   *)
(* it was given; it refuses to cross a data operation.                      *)

HasData(migrations) ==
  \E m \in Range(migrations) : \E op \in Range(m.operations) : op.kind = "data"

(* Mutant: the collapsed operations are those of the first migration only.  *)
CreateFirst(migrations) == migrations[1].operations

CreateAll(migrations) ==
  LET s == Replay(migrations)
      present == {t \in Tables : s[t] # {}}
      create[t \in Tables] == CreateTable(t, s[t])
  IN SetToSeq({create[t] : t \in present})

VersionsOf(migrations) == {m.version : m \in Range(migrations)}

Squash(migrations, version) ==
  Migration(version, CreateAll(migrations), VersionsOf(migrations))

-----------------------------------------------------------------------------
(* The reference definition the runner is judged by: the originals that are *)
(* recorded, or that a recorded squash replaces, applied in file order.     *)

Covered(migrations, v, tracked) ==
  v \in tracked \/ \E m \in Range(migrations) : m.version \in tracked /\ v \in m.replaces

Expected(migrations, tracked) ==
  FoldLeft(LAMBDA s, m : IF m.replaces = {} /\ Covered(migrations, m.version, tracked)
                         THEN ReplayOne(s, m) ELSE s,
           NoSchema, migrations)

UpToDate(migrations, tracked) ==
  \A m \in Range(migrations) : Covered(migrations, m.version, tracked)
=============================================================================
