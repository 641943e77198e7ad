------------------------------ MODULE SchemaDdl ------------------------------
(***************************************************************************)
(* A plan on an engine: what migration/realize.py lets through, and the    *)
(* statements the operations emit (operations.py, ddl.py), up and down.    *)
(*                                                                         *)
(* A statement is [do, on, part, def]: the table or view it is about, the  *)
(* name of the part, its definition. Names are made of what they are made  *)
(* of: <<"ix", table, column>> is the index ix_table_column.               *)
(***************************************************************************)
EXTENDS SchemaDiff

Engines == {"postgres", "mariadb", "sqlite"}

(* The capability table, dialects/matrix.py.                                *)
Can(engine) ==
  CASE engine = "postgres" ->
         {"SCHEMAS", "ALTER_COLUMN", "CHECK_CONSTRAINT_DDL", "STORED_FUNCTIONS", "COMMENTS",
          "PARTIAL_INDEXES", "ADD_CONSTRAINT", "REPLACE_VIEW", "DROP_COLUMN_CASCADES_FK"}
    [] engine = "mariadb" ->
         {"ALTER_COLUMN", "CHECK_CONSTRAINT_DDL", "STORED_FUNCTIONS", "COMMENTS", "ADD_CONSTRAINT",
          "REPLACE_VIEW"}
    [] engine = "sqlite" -> {"PARTIAL_INDEXES"}

-----------------------------------------------------------------------------
(* realize: the guards, and the plan as it runs on this engine.             *)

_REQUIREMENTS ==
  [CreateSchema |-> "SCHEMAS", AlterColumn |-> "ALTER_COLUMN", AddCheck |-> "CHECK_CONSTRAINT_DDL",
   DropCheck |-> "CHECK_CONSTRAINT_DDL", CreateFunction |-> "STORED_FUNCTIONS",
   DropFunction |-> "STORED_FUNCTIONS", AlterFunction |-> "STORED_FUNCTIONS",
   AlterTableComment |-> "COMMENTS"]

_guard_capability(engine, o) ==
  o.op \in DOMAIN _REQUIREMENTS => _REQUIREMENTS[o.op] \in Can(engine)

_created_indexes(o) ==
  CASE o.op = "CreateIndex" -> {o.new}
    [] o.op = "CreateTable" -> Range(o.new.indexes)
    [] OTHER -> {}
_guard_partial_index(engine, o) ==
  "PARTIAL_INDEXES" \in Can(engine) \/ "partial unique" \notin _created_indexes(o)

_held_columns(t, key) == {<<t.name, key.column>>}
(* The columns a plan has freed of their keys once this operation is done.  *)
KeysDroppedBy(o) ==
  CASE o.op = "DropForeignKey" -> _held_columns(o.on, o.old)
    [] o.op = "RebuildTable" ->
         UNION {_held_columns(o.on, o.old.relationships[r]) :
                  r \in Gone(o.old.relationships, o.new.relationships)}
    [] OTHER -> {}
_guard_dropped_fk_column(engine, o, freed) ==
  o.op = "DropColumn" /\ "DROP_COLUMN_CASCADES_FK" \notin Can(engine) =>
    \A r \in DOMAIN o.on.relationships :
      LET held == _held_columns(o.on, o.on.relationships[r])
      IN  <<o.on.name, o.part>> \in held => held \subseteq freed

(* The keys a CREATE TABLE carries, where it is their only way in.          *)
inlined_foreign_keys(engine, t) ==
  IF "ADD_CONSTRAINT" \in Can(engine) THEN Nothing ELSE t.relationships

Inlines(engine, o) ==
  "ADD_CONSTRAINT" \notin Can(engine) /\ o.op \in {"AddForeignKey", "DropForeignKey"}
CreatedIn(ops) ==
  {ops[i].on.name : i \in {i \in DOMAIN ops : ops[i].op \in {"CreateTable", "DropTable"}}}

Realizable(engine, ops) ==
  \A i \in DOMAIN ops :
    /\ _guard_capability(engine, ops[i])
    /\ _guard_partial_index(engine, ops[i])
    /\ _guard_dropped_fk_column(engine, ops[i], UNION {KeysDroppedBy(ops[j]) : j \in 1..(i - 1)})
    /\ Inlines(engine, ops[i]) =>
         /\ ops[i].on.name \in CreatedIn(ops)
         /\ ops[i].part \in DOMAIN inlined_foreign_keys(engine, ops[i].on)

RealizedOp(engine, o) ==
  IF Inlines(engine, o) THEN <<>>
  ELSE IF o.op = "AlterView" /\ "REPLACE_VIEW" \notin Can(engine)
  THEN <<Op("DropView", o.old, o.part, o.old, ""), Op("CreateView", "", o.part, "", o.new)>>
  ELSE <<o>>
realize(engine, ops) == FlattenSeq(Each(ops, LAMBDA o : RealizedOp(engine, o)))

-----------------------------------------------------------------------------
(* Names.                                                                   *)

IndexName(t, c, kind) == <<IF kind = "unique" THEN "uq" ELSE "ix", t.name, c>>
CheckName(t, c) == <<"ck", t.name, c>>
foreign_key_name(t, r) == <<"fk", t.name, r>>
rebuild_scratch_name(t) == <<t.schema, t.name, "new">>
_function_name(g) == <<"fn", g.name>>

-----------------------------------------------------------------------------
(* Statements.                                                              *)

Do(what, on, part, def) == [do |-> what, on |-> on, part |-> part, def |-> def]

AsMade(f, Name(_), Def(_)) == [n \in {Name(x) : x \in DOMAIN f} |-> Def(CHOOSE x \in DOMAIN f : Name(x) = n)]
InlineKeys(engine, t) ==
  LET keys == inlined_foreign_keys(engine, t)
  IN  AsMade(keys, LAMBDA r : foreign_key_name(t, r),
             LAMBDA r : [column |-> keys[r].column, target |-> keys[r].target_table,
                         on_delete |-> keys[r].on_delete])
emit_create_table(engine, t, ref) ==
  <<Do("CreateTable", ref, "",
       [columns |-> t.columns,
        checks |-> AsMade(t.checks, LAMBDA c : CheckName(t, c),
                          LAMBDA c : [column |-> c, condition |-> t.checks[c]]),
        keys |-> InlineKeys(engine, t),
        comment |-> IF engine = "mariadb" THEN t.db_comment ELSE ""])>>
emit_drop_table(t) == <<Do("DropTable", Ref(t), "", "")>>
emit_create_index(t, c, kind) ==
  <<Do("CreateIndex", Ref(t), IndexName(t, c, kind), [column |-> c, kind |-> kind])>>
emit_drop_index(t, c, kind) == <<Do("DropIndex", Ref(t), IndexName(t, c, kind), "")>>
AllIndexes(t) == FlattenSeq(Emit(DOMAIN t.indexes, LAMBDA c : emit_create_index(t, c, t.indexes[c])))
emit_comments(engine, t) ==
  IF engine = "postgres" /\ t.db_comment # "" THEN <<Do("Comment", Ref(t), "", t.db_comment)>> ELSE <<>>
emit_add_check(t, c, condition) ==
  <<Do("AddCheck", Ref(t), CheckName(t, c), [column |-> c, condition |-> condition])>>
emit_drop_check(t, c) == <<Do("DropCheck", Ref(t), CheckName(t, c), "")>>
emit_add_foreign_key(t, r, key) ==
  <<Do("AddKey", Ref(t), foreign_key_name(t, r),
       [column |-> key.column, target |-> key.target_table, on_delete |-> key.on_delete])>>
emit_drop_foreign_key(t, r) == <<Do("DropKey", Ref(t), foreign_key_name(t, r), "")>>

emit_create_trigger(engine, g) ==
  IF engine = "postgres"
  THEN <<Do("CreateFunction", "", _function_name(g), g.body),
         Do("CreateTrigger", <<g.schema, g.table>>, g.name, [function |-> _function_name(g), body |-> ""])>>
  ELSE <<Do("CreateTrigger", <<g.schema, g.table>>, g.name, [function |-> Nothing, body |-> g.body])>>
emit_drop_trigger(engine, g) ==
  <<Do("DropTrigger", <<g.schema, g.table>>, g.name, "")>>
    \o IF engine = "postgres" THEN <<Do("DropFunctionIfExists", "", _function_name(g), "")>> ELSE <<>>

emit_create_view(v) ==
  <<Do("CreateView", Ref(v), "", [columns |-> v.columns, body |-> v.view_definition, reads |-> v.depends_on])>>
emit_drop_view(v) == <<Do("DropView", Ref(v), "", "")>>
emit_replace_view(v) == <<[emit_create_view(v)[1] EXCEPT !.do = "ReplaceView"]>>
(* A changed projection is dropped and made again, on every engine.         *)
AltersView(old, new) ==
  IF DOMAIN old.columns # DOMAIN new.columns THEN emit_drop_view(new) \o emit_create_view(new)
  ELSE emit_replace_view(new)

(* A rebuild: the least that changes, or the whole table made again.        *)
SameTarget(f, g, r) ==
  SameKey(f, g, r) /\ f[r].target_table = g[r].target_table
_minimal_constraint_alters(b, a) ==
  LET was == b.relationships
      now == a.relationships
      Stays(r) == SameTarget(was, now, r)
  IN  FlattenSeq(Emit(Dropped(b.checks, a.checks), LAMBDA c : emit_drop_check(b, c)))
        \o FlattenSeq(Emit({r \in DOMAIN was : ~ Stays(r)}, LAMBDA r : emit_drop_foreign_key(b, r)))
        \o FlattenSeq(Emit({r \in DOMAIN now : ~ Stays(r)}, LAMBDA r : emit_add_foreign_key(a, r, now[r])))
        \o FlattenSeq(Emit(Added(b.checks, a.checks), LAMBDA c : emit_add_check(a, c, a.checks[c])))

(* Mutant: the triggers went with the old table.                         *)
NoTriggers(engine, triggers) == <<>>
RECURSIVE AllTriggers(_, _)
AllTriggers(engine, triggers) ==
  IF triggers = {} THEN <<>>
  ELSE LET g == CHOOSE g \in triggers : TRUE
       IN  emit_create_trigger(engine, g) \o AllTriggers(engine, triggers \ {g})
(* Mutant: the rows are not copied.                                      *)
CopiesNoRows(scratch, ref) == <<>>
CopiesRows(scratch, ref) == <<Do("CopyRows", scratch, "", ref)>>
_remake_table(engine, b, a, triggers) ==
  LET scratch == rebuild_scratch_name(a)
  IN  <<Do("DeferKeys", "", "", "")>>
        \o emit_create_table(engine, a, scratch)
        \o CopiesRows(scratch, Ref(b))
        \o emit_drop_table(b)
        \o <<Do("RenameTable", scratch, "", Ref(a))>>
        \o AllIndexes(a)
        \o AllTriggers(engine, triggers)
emit_rebuild_table(engine, b, a, triggers) ==
  IF "ADD_CONSTRAINT" \in Can(engine) THEN _minimal_constraint_alters(b, a)
  ELSE _remake_table(engine, b, a, triggers)

-----------------------------------------------------------------------------
(* up_sql and down_sql. An operation whose reverse is another one's way up  *)
(* is turned round and emitted.                                             *)

up_sql(engine, o) ==
  CASE o.op = "CreateSchema" -> <<Do("CreateSchema", "", o.part, "")>>
    [] o.op = "CreateTable" ->
         emit_create_table(engine, o.new, Ref(o.new)) \o AllIndexes(o.new) \o emit_comments(engine, o.new)
    [] o.op = "DropTable" -> emit_drop_table(o.old)
    [] o.op \in {"AddColumn", "AlterColumn"} -> <<Do(o.op, Ref(o.on), o.part, o.new)>>
    [] o.op = "DropColumn" -> <<Do("DropColumn", Ref(o.on), o.part, "")>>
    [] o.op = "RenameColumn" -> <<Do("RenameColumn", Ref(o.on), o.old, o.new)>>
    [] o.op = "RenameTable" -> <<Do("RenameTable", Ref(o.on), "", <<o.on.schema, o.new>>)>>
    [] o.op = "RebuildTable" -> emit_rebuild_table(engine, o.old, o.new, o.part)
    [] o.op = "AlterTableComment" ->
         IF "COMMENTS" \in Can(engine) THEN <<Do("Comment", Ref(o.on), "", o.new)>> ELSE <<>>
    [] o.op = "AddCheck" -> emit_add_check(o.on, o.part, o.new)
    [] o.op = "DropCheck" -> emit_drop_check(o.on, o.part)
    [] o.op = "CreateIndex" -> emit_create_index(o.on, o.part, o.new)
    [] o.op = "DropIndex" -> emit_drop_index(o.on, o.part, o.old)
    [] o.op = "AddForeignKey" -> emit_add_foreign_key(o.on, o.part, o.new)
    [] o.op = "DropForeignKey" -> emit_drop_foreign_key(o.on, o.part)
    [] o.op = "CreateView" -> emit_create_view(o.new)
    [] o.op = "DropView" -> emit_drop_view(o.old)
    [] o.op = "AlterView" -> AltersView(o.old, o.new)
    [] o.op \in {"CreateFunction", "AlterFunction"} -> <<Do("CreateFunction", "", <<o.part>>, o.new)>>
    [] o.op = "DropFunction" -> <<Do("DropFunction", "", <<o.part>>, "")>>
    [] o.op = "CreateTrigger" -> emit_create_trigger(engine, o.new)
    [] o.op = "DropTrigger" -> emit_drop_trigger(engine, o.old)
    [] o.op = "AlterTrigger" -> emit_drop_trigger(engine, o.old) \o emit_create_trigger(engine, o.new)

ReverseOf ==
  [AddColumn |-> "DropColumn", DropColumn |-> "AddColumn", AddCheck |-> "DropCheck",
   DropCheck |-> "AddCheck", CreateIndex |-> "DropIndex", DropIndex |-> "CreateIndex",
   AddForeignKey |-> "DropForeignKey", DropForeignKey |-> "AddForeignKey", CreateView |-> "DropView",
   DropView |-> "CreateView", CreateFunction |-> "DropFunction", DropFunction |-> "CreateFunction",
   CreateTrigger |-> "DropTrigger", DropTrigger |-> "CreateTrigger"]
Turned(o) ==
  [o EXCEPT !.op = IF @ \in DOMAIN ReverseOf THEN ReverseOf[@] ELSE @, !.old = o.new, !.new = o.old]
(* Mutant: the way back of a rebuild is the way there.                   *)
TurnedButRebuilds(o) == IF o.op = "RebuildTable" THEN o ELSE Turned(o)
TurnedRound(o) == Turned(o)

down_sql(engine, o) ==
  CASE o.op = "CreateSchema" -> <<Do("DropSchema", "", o.part, "")>>
    [] o.op = "CreateTable" -> emit_drop_table(o.new)
    [] o.op = "DropTable" -> emit_create_table(engine, o.old, Ref(o.old))
    [] o.op = "RenameTable" ->
         <<Do("RenameTable", <<o.on.schema, o.new>>, "", Ref(o.on))>>
    [] OTHER -> up_sql(engine, TurnedRound(o))

(* What the runner sends, forwards and backwards.                           *)
Forwards(engine, ops) ==
  FlattenSeq(Each(realize(engine, ops), LAMBDA o : up_sql(engine, o)))
Backwards(engine, ops) ==
  FlattenSeq(Each(Reversed(realize(engine, ops)), LAMBDA o : down_sql(engine, o)))
=============================================================================
