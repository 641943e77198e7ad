----------------------------- MODULE SchemaState -----------------------------
(***************************************************************************)
(* What a migration says, and the schema a history of them leads to: the   *)
(* operations of migration/operations.py and the state of                  *)
(* migration/state.py that a replay rebuilds.                              *)
(*                                                                         *)
(* A table and a view are one kind of record, as in the source. Columns,   *)
(* indexes and CHECKs are functions: a column name to its type, the column *)
(* an index or a CHECK is on to its definition, a relation to its key. An  *)
(* operation is [op, on, part, old, new]: the snapshot it carries, the     *)
(* part of it that changes, and what it changes from and to.               *)
(***************************************************************************)
EXTENDS Sequences, Functions, SequencesExt

DefaultSchema == "public"
Nothing == <<>>                            \* no columns, no keys: the empty function

Table(schema, name, columns, indexes, checks, relationships, comment) ==
  [schema |-> schema, name |-> name, is_view |-> FALSE, columns |-> columns, indexes |-> indexes,
   checks |-> checks, relationships |-> relationships, db_comment |-> comment,
   view_definition |-> "", depends_on |-> {}]
View(name, columns, definition, depends_on) ==
  [Table(DefaultSchema, name, columns, Nothing, Nothing, Nothing, "")
     EXCEPT !.is_view = TRUE, !.view_definition = definition, !.depends_on = depends_on]

(* A to-one relation: the model it names, the table the linker resolved it to. *)
Key(target, target_table, column, on_delete) ==
  [target |-> target, target_table |-> target_table, column |-> column, on_delete |-> on_delete]
foreign_key(key) == [target |-> key.target, column |-> key.column, on_delete |-> key.on_delete]

Trigger(schema, table, name, body) == [schema |-> schema, table |-> table, name |-> name, body |-> body]

Ref(t) == <<t.schema, t.name>>
Op(op, on, part, old, new) == [op |-> op, on |-> on, part |-> part, old |-> old, new |-> new]

-----------------------------------------------------------------------------
(* SchemaState. Tables and views are indexed by their BARE name.            *)

With(f, x, y) == [z \in DOMAIN f \cup {x} |-> IF z = x THEN y ELSE f[z]]
Without(f, S) == Restrict(f, DOMAIN f \ S)
Renamed(f, old, new) ==
  [z \in {IF w = old THEN new ELSE w : w \in DOMAIN f} |-> IF z = new THEN f[old] ELSE f[z]]

(* raised: an operation refused the state it met, and the replay stopped.   *)
EmptyState ==
  [tables |-> Nothing, routines |-> Nothing, triggers |-> Nothing, schemas |-> {DefaultSchema},
   raised |-> FALSE]

add_table(st, t) == [st EXCEPT !.tables = With(@, t.name, t)]
remove_table(st, name) ==
  [st EXCEPT !.tables = Without(@, {name}), !.triggers = Without(@, {k \in DOMAIN @ : k[1] = name})]
add_trigger(st, t) == [st EXCEPT !.triggers = With(@, <<t.table, t.name>>, t)]
TriggersOf(st, name) == {st.triggers[k] : k \in {k \in DOMAIN st.triggers : k[1] = name}}

AddTriggers(st, triggers) ==
  [st EXCEPT !.triggers =
     [k \in DOMAIN @ \cup {<<t.table, t.name>> : t \in triggers} |->
        IF \E t \in triggers : <<t.table, t.name>> = k
        THEN CHOOSE t \in triggers : <<t.table, t.name>> = k ELSE @[k]]]

_repointed(t, old_ref, new_ref) ==
  [t EXCEPT !.relationships =
     [r \in DOMAIN @ |-> IF @[r].target_table = old_ref THEN [@[r] EXCEPT !.target_table = new_ref]
                         ELSE @[r]]]

(* Mutant: the triggers and the keys of the others stay where they were. *)
RenamesTableAlone(st, t, new_name) ==
  add_table(remove_table(st, t.name), [t EXCEPT !.name = new_name])
RenamesTable(st, t, new_name) ==
  LET moved == {[g EXCEPT !.table = new_name] : g \in TriggersOf(st, t.name)}
      kept == add_table(remove_table(st, t.name), [t EXCEPT !.name = new_name])
  IN  [AddTriggers(kept, moved) EXCEPT !.tables =
         [n \in DOMAIN @ |-> _repointed(@[n], Ref(t), <<t.schema, new_name>>)]]

(* The triggers of the table that its rebuild does not carry.               *)
forgotten(st, o) == {g \in TriggersOf(st, o.on.name) : \A h \in o.part : h.name # g.name}
RebuildsTable(st, o) ==
  IF forgotten(st, o) # {} THEN [st EXCEPT !.raised = TRUE]
  ELSE AddTriggers(add_table(st, o.new), o.part)

(* apply_to_state of every operation. One about a table the state does not  *)
(* have changes nothing.                                                    *)
Part(o) ==
  CASE o.op \in {"AddColumn", "DropColumn", "AlterColumn"} -> "columns"
    [] o.op \in {"AddCheck", "DropCheck"} -> "checks"
    [] o.op \in {"CreateIndex", "DropIndex"} -> "indexes"
    [] o.op \in {"AddForeignKey", "DropForeignKey"} -> "relationships"
    [] OTHER -> "none"

OnTable(st, t, o) ==
  CASE o.op = "RenameTable" -> RenamesTable(st, t, o.new)
    [] o.op = "RenameColumn" -> add_table(st, [t EXCEPT !.columns = Renamed(@, o.old, o.new)])
    [] o.op = "AlterTableComment" -> add_table(st, [t EXCEPT !.db_comment = o.new])
    [] o.op = "RebuildTable" -> RebuildsTable(st, o)
    [] o.op \in {"DropColumn", "DropCheck", "DropIndex", "DropForeignKey"} ->
         add_table(st, [t EXCEPT ![Part(o)] = Without(@, {o.part})])
    [] OTHER -> add_table(st, [t EXCEPT ![Part(o)] = With(@, o.part, o.new)])

apply_to_state(st, o) ==
  CASE o.op \in {"CreateTable", "CreateView", "AlterView"} ->
         add_table(st, [o.new EXCEPT !.relationships = Nothing])
    [] o.op \in {"DropTable", "DropView"} -> remove_table(st, o.on.name)
    [] o.op \in {"CreateFunction", "AlterFunction"} -> [st EXCEPT !.routines = With(@, o.part, o.new)]
    [] o.op = "DropFunction" -> [st EXCEPT !.routines = Without(@, {o.part})]
    [] o.op \in {"CreateTrigger", "AlterTrigger"} -> add_trigger(st, o.new)
    [] o.op = "DropTrigger" -> [st EXCEPT !.triggers = Without(@, {<<o.old.table, o.old.name>>})]
    [] o.op = "CreateSchema" -> [st EXCEPT !.schemas = @ \cup {o.part}]
    [] OTHER -> IF o.on.name \in DOMAIN st.tables THEN OnTable(st, st.tables[o.on.name], o) ELSE st

(* The state after every operation of every migration, in order.            *)
replay(migrations) == FoldLeft(apply_to_state, EmptyState, FlattenSeq(migrations))
=============================================================================
