----------------------------- MODULE SchemaChange -----------------------------
(***************************************************************************)
(* A schema that changes: somebody edits the models, makemigrations writes *)
(* the difference, migrate applies it to the database of one engine,       *)
(* rollback takes it back, squash collapses the history. A rename is       *)
(* written by hand, as operations.py says it must be.                      *)
(*                                                                         *)
(* How a migration is applied and recorded, a crash between two of its     *)
(* statements included, is MigrationRunner's; here it is one step.         *)
(***************************************************************************)
EXTENDS SchemaEngine, Naturals, FiniteSets

CONSTANTS
  Designs,         \* what the models may say: [tables, views, routines]
  Placings,        \* the tables the models may be given: a table for each model
  TableRenames,    \* <<model, new name>>: the renames of a table that may be written
  ColumnRenames,   \* <<model, old, new>>: and of a column
  Avoids,          \* the kinds of edit nobody makes
  UsedEngines,     \* the engines looked at
  MaxMigrations,   \* bound: migrations in a history
  MaxGenerated     \* bound: how many of them are generated, not written by hand

ASSUME SchemaAssumption ==
  /\ UsedEngines \subseteq Engines
  /\ MaxMigrations \in Nat /\ MaxGenerated \in Nat

VARIABLES
  engine,     \* the engine of the connection
  models,     \* the code: [design, names], what its models say and their tables
  history,    \* the migration files: [ops, models, keeps]
  applied,    \* how many of them the database has had
  db,         \* the database
  before,     \* the database before each migration it has had
  outcome     \* "ok", or how the last command ended

vars == <<engine, models, history, applied, db, before, outcome>>

-----------------------------------------------------------------------------
(* The code, as the linker and the registry give it to autodetect.          *)

LinkedKey(m, key) == Key(key.target, m.names[key.target], key.column, key.on_delete)
TableOf(m, x) ==
  LET d == m.design.tables[x]
  IN  Table(m.names[x][1], m.names[x][2], d.columns, d.indexes, d.checks,
            [r \in DOMAIN d.keys |-> LinkedKey(m, d.keys[r])], d.comment)
TriggersOfModel(m, x) ==
  {Trigger(m.names[x][1], m.names[x][2], n, m.design.tables[x].triggers[n]) :
     n \in DOMAIN m.design.tables[x].triggers}
Mapped(m) == DOMAIN m.design.tables

Current(m) ==
  LET views == m.design.views
  IN  [tables |-> {TableOf(m, x) : x \in Mapped(m)}
                    \cup {View(n, views[n].columns, views[n].body, views[n].depends_on) : n \in DOMAIN views},
       live |-> [x \in Mapped(m) |-> m.names[x]],
       routines |-> m.design.routines,
       triggers |-> AddTriggers(EmptyState, UNION {TriggersOfModel(m, x) : x \in Mapped(m)}).triggers]

Operations == [i \in DOMAIN history |-> history[i].ops]
Generated(m) == autodetect(Operations, Current(m))

-----------------------------------------------------------------------------
(* Edits of the code.                                                       *)

NoModels ==
  [design |-> [tables |-> Nothing, views |-> Nothing, routines |-> Nothing],
   names |-> CHOOSE names \in Placings : TRUE]
Models(design, names) == [design |-> design, names |-> names]
Holds(m, x, y) == \E r \in DOMAIN m.design.tables[x].keys : m.design.tables[x].keys[r].target = y
Both(m, n) == Mapped(m) \cap Mapped(n)
Moved(m, n) == {x \in Both(m, n) : m.names[x] # n.names[x]}
Leaves(m, n) == (Mapped(m) \ Mapped(n)) \cup Moved(m, n)
Parts(d) == <<d.indexes, d.checks, d.keys>>
HasParts(d) == \E i \in 1..3 : DOMAIN Parts(d)[i] # {}

Kind(kind, m, n) ==
  CASE kind = "drop a table and its trigger" ->
         \E x \in Leaves(m, n) : DOMAIN m.design.tables[x].triggers # {}
    [] kind = "reproject a view under a view" ->
         engine = "postgres" /\ \E v \in DOMAIN m.design.views \cap DOMAIN n.design.views :
           /\ DOMAIN m.design.views[v].columns # DOMAIN n.design.views[v].columns
           /\ \E views \in {m.design.views, n.design.views} :
                \E w \in DOMAIN views : v \in views[w].depends_on
    [] kind = "rebuild what a key points at" ->
         engine = "sqlite" /\ \E x \in Both(m, n) :
           /\ <<m.design.tables[x].checks, m.design.tables[x].keys>>
                # <<n.design.tables[x].checks, n.design.tables[x].keys>>
           /\ \/ \E y \in Mapped(m) \ {x} : Holds(m, y, x)
              \/ \E y \in Mapped(n) \ {x} : Holds(n, y, x)
    [] kind = "one name for two triggers" ->
         \E x, y \in Mapped(n) :
           x # y /\ DOMAIN n.design.tables[x].triggers \cap DOMAIN n.design.tables[y].triggers # {}
    [] kind = "move a table under its key" ->
         \E x \in Moved(m, n) : \E y \in Mapped(m) \ {x} : Holds(m, y, x)
    [] kind = "move between schemas" -> \E x \in Moved(m, n) : m.names[x][1] # n.names[x][1]
    [] OTHER -> FALSE
Made(m, n) == \A kind \in Avoids : ~ Kind(kind, m, n)

(* The columns whose contents an edit keeps, where they were and will be.   *)
Kept(m, n, stay, Column(_, _)) ==
  UNION {{<<<<m.names[x], c>>, <<n.names[x], Column(x, c)>>>> :
            c \in {c \in DOMAIN m.design.tables[x].columns : Column(x, c) \in DOMAIN n.design.tables[x].columns}}
           : x \in stay}
Same(x, c) == c

-----------------------------------------------------------------------------
Ready == outcome = "ok" /\ applied = Len(history) /\ Len(history) < MaxMigrations
ByHand(file) == file.ops[1].op \in {"RenameTable", "RenameColumn"}
MayGenerate == Ready /\ Len(SelectSeq(history, LAMBDA file : ~ ByHand(file))) < MaxGenerated

Writes(m, ops, keeps) ==
  /\ models' = m
  /\ history' = Append(history, [ops |-> ops, models |-> m, keeps |-> keeps])
  /\ UNCHANGED <<engine, applied, db, before, outcome>>

MakeMigrations ==
  \E design \in Designs, names \in Placings \cup {models.names} :
    LET m == Models(design, names)
    IN  /\ MayGenerate /\ Made(models, m)
        /\ ~ Unorderable(Range(replay(Operations).tables), Current(m).tables)
        /\ Generated(m) # <<>>
        /\ Writes(m, Generated(m), Kept(models, m, Both(models, m) \ Moved(models, m), Same))

(* The hand-written rename of a table, with its model's.                    *)
WriteTableRename ==
  \E rename \in TableRenames :
    LET x == rename[1]
        m == [models EXCEPT !.names[x] = <<@[1], rename[2]>>]
    IN  /\ Ready /\ x \in Mapped(models) /\ models.names[x][2] # rename[2]
        /\ "rename what has named parts" \in Avoids => ~ HasParts(models.design.tables[x])
        /\ Writes(m, <<Op("RenameTable", TableOf(models, x), "", "", rename[2])>>,
                  Kept(models, m, Both(models, m), Same))

RenamedIn(d, old, new) ==
  LET Key2(key) == IF key.column = old THEN [key EXCEPT !.column = new] ELSE key
      Carried(f) == IF old \in DOMAIN f THEN Renamed(f, old, new) ELSE f
  IN  [d EXCEPT !.columns = Carried(@), !.indexes = Carried(@), !.checks = Carried(@),
                !.keys = [r \in DOMAIN @ |-> Key2(@[r])]]
BuiltOn(d, c) ==
  c \in DOMAIN d.indexes \cup DOMAIN d.checks \/ \E r \in DOMAIN d.keys : d.keys[r].column = c

WriteColumnRename ==
  \E rename \in ColumnRenames :
    LET x == rename[1]
        old == rename[2]
        new == rename[3]
        m == [models EXCEPT !.design.tables[x] = RenamedIn(@, old, new)]
        Column(y, c) == IF y = x /\ c = old THEN new ELSE c
    IN  /\ Ready /\ x \in Mapped(models)
        /\ old \in DOMAIN models.design.tables[x].columns /\ new \notin DOMAIN models.design.tables[x].columns
        /\ "rename what has named parts" \in Avoids => ~ BuiltOn(models.design.tables[x], old)
        /\ Writes(m, <<Op("RenameColumn", TableOf(models, x), "", old, new)>>,
                  Kept(models, m, Both(models, m), Column))

-----------------------------------------------------------------------------
(* Commands on the database.                                                *)

Migrate ==
  LET next == applied + 1
      ops == history[next].ops
      done == Executes(engine, db, Forwards(engine, ops), next)
  IN  /\ outcome = "ok" /\ applied < Len(history)
      /\ UNCHANGED <<engine, models, history>>
      /\ IF Realizable(engine, ops) /\ done.ok
         THEN /\ db' = done /\ applied' = next /\ before' = Append(before, db)
              /\ UNCHANGED outcome
         ELSE /\ outcome' = IF Realizable(engine, ops) THEN "refused" ELSE "unplanned"
              /\ UNCHANGED <<db, applied, before>>

DropsParts(ops) ==
  \E i \in DOMAIN ops :
    LET t == ops[i].old
    IN  ops[i].op = "DropTable"
          /\ (t.db_comment # "" \/ DOMAIN t.indexes # {} \/ DOMAIN t.relationships # {})

Rollback ==
  LET done == Executes(engine, db, Backwards(engine, history[applied].ops), 0)
  IN  /\ outcome = "ok" /\ applied > 0
      /\ "undo the drop of a table with parts" \in Avoids => ~ DropsParts(history[applied].ops)
      /\ UNCHANGED <<engine, models, history>>
      /\ IF done.ok
         THEN /\ db' = done /\ applied' = applied - 1 /\ before' = Front(before)
              /\ UNCHANGED outcome
         ELSE outcome' = "refused" /\ UNCHANGED <<db, applied, before>>

(* The plan says what the engine cannot do: the file and the edit go.       *)
Withdraw ==
  /\ outcome = "unplanned"
  /\ history' = Front(history)
  /\ models' = IF Len(history) = 1 THEN NoModels ELSE history[Len(history) - 1].models
  /\ outcome' = "ok"
  /\ UNCHANGED <<engine, applied, db, before>>

Init ==
  /\ engine \in UsedEngines
  /\ models = NoModels
  /\ history = <<>> /\ applied = 0
  /\ db = EmptyDb /\ before = <<>>
  /\ outcome = "ok"

Next ==
  \/ MakeMigrations \/ WriteTableRename \/ WriteColumnRename
  \/ Migrate \/ Rollback \/ Withdraw

Spec == Init /\ [][Next]_vars

-----------------------------------------------------------------------------
(* What a database shows, names aside, and what the models ask for.         *)

Shape(d) ==
  [tables |-> [r \in DOMAIN d.tables |->
                 LET t == d.tables[r]
                 IN  [columns |-> [c \in DOMAIN t.columns |-> t.columns[c].type],
                      indexes |-> Range(t.indexes), checks |-> Range(t.checks), keys |-> Range(t.keys),
                      comment |-> t.comment]],
   views |-> d.views,
   triggers |-> [k \in DOMAIN d.triggers |->
                   LET g == d.triggers[k] IN IF g.function = Nothing THEN g.body ELSE d.functions[g.function]],
   functions |-> Without(d.functions, {d.triggers[k].function : k \in DOMAIN d.triggers})]

Wanted(m) ==
  LET D(x) == m.design.tables[x]
      X(r) == CHOOSE x \in Mapped(m) : m.names[x] = r
      Asked(t, x) ==
        [columns |-> t.columns,
         indexes |-> {[column |-> c, kind |-> t.indexes[c]] : c \in DOMAIN t.indexes},
         checks |-> {[column |-> c, condition |-> t.checks[c]] : c \in DOMAIN t.checks},
         keys |-> {[column |-> k.column, target |-> m.names[k.target], on_delete |-> k.on_delete] : k \in Range(t.keys)},
         comment |-> IF engine = "sqlite" THEN "" ELSE t.comment]
  IN  [tables |-> [r \in {m.names[x] : x \in Mapped(m)} |-> Asked(D(X(r)), X(r))],
       views |-> [v \in {<<DefaultSchema, n>> : n \in DOMAIN m.design.views} |->
                    LET w == m.design.views[v[2]]
                    IN  [columns |-> w.columns, body |-> w.body, reads |-> w.depends_on]],
       triggers |-> [k \in UNION {{<<m.names[x], n>> : n \in DOMAIN D(x).triggers} : x \in Mapped(m)} |->
                       D(X(k[1])).triggers[k[2]]],
       functions |-> [f \in {<<n>> : n \in DOMAIN m.design.routines} |-> m.design.routines[f[1]]]]

-----------------------------------------------------------------------------
(* Properties.                                                              *)

(* A plan realize lets through, and the way back of one that was applied,   *)
(* is never refused by the engine: every statement finds what it drops and  *)
(* nothing in the way of what it makes, in the order the diff put them.     *)
PlanIsAccepted == outcome # "refused"

(* After migrate the database is what the models ask for: nothing missing,  *)
(* nothing left behind, and what the triggers do is what they were given.   *)
MigratesToTheModels ==
  outcome = "ok" /\ applied > 0 => Shape(db) = Wanted(history[applied].models)

(* The history leads to the models, so makemigrations has nothing to say:   *)
(* a difference it kept proposing would be written again on every run, and  *)
(* an operation that refused its state would stop every makemigrations.     *)
ReplayIsTheModels ==
  applied = Len(history) => ~ replay(Operations).raised /\ Generated(models) = <<>>

(* Taking a migration back gives the database it found, the parts of what   *)
(* it dropped included.                                                     *)
UndoRestores ==
  [][Rollback /\ outcome' = "ok" =>
       Shape(db') = Shape(before[applied]) /\ db'.schemas = before[applied].schemas]_vars

(* A column that stays in the models keeps what it holds: through a rename, *)
(* through a change of type, through the rebuild of its table.              *)
DataSurvives ==
  [][Migrate /\ outcome' = "ok" =>
       \A k \in history[applied'].keeps :
         db'.tables[k[2][1]].columns[k[2][2]].since = db.tables[k[1][1]].columns[k[1][2]].since]_vars

(* A fresh database that runs the squash has the schema the history built.  *)
Squashed == Executes(engine, EmptyDb, Forwards(engine, squash(Operations)), 1)
Settled ==
  /\ outcome = "ok" /\ applied = Len(history)
  /\ ~ Unorderable({}, Range(replay(Operations).tables))
SquashBuildsTheSame == Settled => Squashed.ok /\ Shape(Squashed) = Shape(db)

(* It has all of it but the foreign keys, and those too where CREATE TABLE  *)
(* carries them: nothing the originals dropped, renamed or replaced shows.  *)
ButKeys(shape) == [shape EXCEPT !.tables = [r \in DOMAIN @ |-> [@[r] EXCEPT !.keys = {}]]]
SquashBuildsTheRest ==
  Settled => /\ Squashed.ok /\ ButKeys(Shape(Squashed)) = ButKeys(Shape(db))
             /\ "ADD_CONSTRAINT" \notin Can(engine) => Shape(Squashed) = Shape(db)
=============================================================================
