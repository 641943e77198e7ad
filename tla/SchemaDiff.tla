------------------------------ MODULE SchemaDiff ------------------------------
(***************************************************************************)
(* The generation of migrations: migration/diff.py, autodetect.py and      *)
(* squash.py. A schema is a set of tables and views; a plan is a sequence  *)
(* of operations, and everything in it is in the order of its names.       *)
(***************************************************************************)
EXTENDS SchemaState

CONSTANTS
  Names,         \* every name of a schema, in the order names are sorted in
  SchemaNames    \* the schemas, in that order

Sorted(S) == SelectSeq(Names, LAMBDA n : n \in S)
Pairs(firsts) == FlattenSeq([i \in DOMAIN firsts |-> [j \in DOMAIN Names |-> <<firsts[i], Names[j]>>]])
SortedRefs(S) == LET all == Pairs(SchemaNames) IN SelectSeq(all, LAMBDA r : r \in S)
SortedKeys(S) == LET all == Pairs(Names) IN SelectSeq(all, LAMBDA k : k \in S)
Each(s, F(_)) == [i \in DOMAIN s |-> F(s[i])]
(* An operation for each name of a set, in order.                           *)
Emit(S, F(_)) == Each(Sorted(S), F)

New(f, g) == DOMAIN g \ DOMAIN f
Gone(f, g) == DOMAIN f \ DOMAIN g
Changed(f, g) == {n \in DOMAIN f \cap DOMAIN g : f[n] # g[n]}

ByRef(S) == [r \in {Ref(t) : t \in S} |-> CHOOSE t \in S : Ref(t) = r]
ByName(S) == [n \in {t.name : t \in S} |-> CHOOSE t \in S : t.name = n]

-----------------------------------------------------------------------------
(* Orders: what must come first, first. Before[n] is what n waits for.      *)

Cyclic(S, Before) == \E C \in SUBSET S \ {{}} : \A n \in C : Before[n] \cap C # {}

RECURSIVE Visit(_, _, _)
Visit(ordered, n, Before) ==
  IF n \in Range(ordered) THEN ordered
  ELSE Append(FoldLeft(LAMBDA acc, m : Visit(acc, m, Before), ordered, Sorted(Before[n])), n)
Order(S, Before) == FoldLeft(LAMBDA acc, n : Visit(acc, n, Before), <<>>, Sorted(S))

_referenced_tables(t) ==
  {t.relationships[r].target_table[2] : r \in DOMAIN t.relationships}
(* Mutant: tables are dropped in the order of their names.               *)
NoHolders(dropped) == [n \in DOMAIN dropped |-> {}]

(* Who holds a key into a table goes before it; its own key does not count. *)
Holders(dropped) ==
  [n \in DOMAIN dropped |->
     {h \in DOMAIN dropped \ {n} : n \in _referenced_tables(dropped[h])}]
(* Mutant: views are made in the order of their names.                   *)
NoDependencies(views) == [n \in DOMAIN views |-> {}]
Dependencies(views) == [n \in DOMAIN views |-> views[n].depends_on \cap DOMAIN views]

drop_order(dropped) == Order(DOMAIN dropped, Holders(dropped))
topological_view_order(views) == Order(DOMAIN views, Dependencies(views))

-----------------------------------------------------------------------------
(* The parts of a table both states have.                                   *)

_diff_columns(b, a) ==
  Emit(New(b.columns, a.columns) \cup Changed(b.columns, a.columns),
       LAMBDA c : IF c \in DOMAIN b.columns
                  THEN Op("AlterColumn", a, c, b.columns[c], a.columns[c])
                  ELSE Op("AddColumn", a, c, "", a.columns[c]))
    \o Emit(Gone(b.columns, a.columns), LAMBDA c : Op("DropColumn", a, c, b.columns[c], ""))

(* A CHECK or an index that changed is dropped and made again.              *)
Dropped(f, g) == Gone(f, g) \cup Changed(f, g)
Added(f, g) == New(f, g) \cup Changed(f, g)

_diff_checks(b, a) ==
  [drops |-> Emit(Dropped(b.checks, a.checks), LAMBDA c : Op("DropCheck", b, c, b.checks[c], "")),
   adds |-> Emit(Added(b.checks, a.checks), LAMBDA c : Op("AddCheck", a, c, "", a.checks[c]))]
_diff_indexes(b, a) ==
  [drops |-> Emit(Dropped(b.indexes, a.indexes), LAMBDA c : Op("DropIndex", b, c, b.indexes[c], "")),
   creates |-> Emit(Added(b.indexes, a.indexes), LAMBDA c : Op("CreateIndex", a, c, "", a.indexes[c]))]

-----------------------------------------------------------------------------
(* Foreign keys. Live is the registry: the table of each model in the code. *)

SameKey(f, g, r) ==
  r \in DOMAIN f \cap DOMAIN g /\ foreign_key(f[r]) = foreign_key(g[r])
NoTarget == <<"", "">>
_previous_target(key, before, Live) ==
  IF key.target \in DOMAIN Live THEN Live[key.target]
  ELSE IF key.target_table \in DOMAIN before THEN key.target_table ELSE NoTarget

(* A dropped key carries the table its reverse points it at.                *)
KeyOps(before, t, Live) ==
  LET was == IF Ref(t) \in DOMAIN before THEN before[Ref(t)].relationships ELSE Nothing
      now == t.relationships
      target(r) == _previous_target(was[r], before, Live)
  IN  Emit({r \in DOMAIN was : ~ SameKey(was, now, r) /\ target(r) # NoTarget},
           LAMBDA r : Op("DropForeignKey", t, r, [was[r] EXCEPT !.target_table = target(r)], ""))
        \o Emit({r \in DOMAIN now : ~ SameKey(was, now, r)},
                LAMBDA r : Op("AddForeignKey", t, r, "", now[r]))

_diff_foreign_keys(before, after, Live) ==
  LET tables == ByName(Range(after))
  IN  FlattenSeq(Emit(DOMAIN tables, LAMBDA n : KeyOps(before, tables[n], Live)))

-----------------------------------------------------------------------------
(* diff_schema.                                                             *)

_constraint_shape(b, a, keys_diffed) ==
  [b EXCEPT !.checks = a.checks, !.relationships = IF keys_diffed THEN a.relationships ELSE @]

(* The operations of one table, or its rebuild, if its constraints are all  *)
(* that changes.                                                            *)
TableDiff(b, a, keys_changed, keys_diffed, triggers) ==
  LET checks == _diff_checks(b, a)
      indexes == _diff_indexes(b, a)
      columns == _diff_columns(b, a)
      comment == IF b.db_comment = a.db_comment THEN <<>>
                 ELSE <<Op("AlterTableComment", a, "", b.db_comment, a.db_comment)>>
      others == indexes.drops \o columns \o indexes.creates
      shape == _constraint_shape(b, a, keys_diffed)
  IN  IF (checks.drops \o checks.adds # <<>> \/ keys_changed) /\ others \o comment = <<>>
      THEN [rebuilt |-> TRUE, ops |-> <<Op("RebuildTable", b, triggers, b, shape)>>]
      ELSE [rebuilt |-> FALSE, ops |-> checks.drops \o others \o checks.adds \o comment]

_diff_schemas(before, after) ==
  LET known == {t.schema : t \in before} \cup {DefaultSchema}
      needed == {t.schema : t \in after}
  IN  Each(SelectSeq(SchemaNames, LAMBDA s : s \in needed \ known),
           LAMBDA s : Op("CreateSchema", "", s, "", ""))

_bare_view(v) == [v EXCEPT !.relationships = Nothing]
Reversed(s) == [i \in DOMAIN s |-> s[Len(s) + 1 - i]]

_diff_views(before, after) ==
  LET was == ByName({v \in before : v.is_view})
      now == ByName({v \in after : v.is_view})
      created == Restrict(now, New(was, now))
      dropped == Restrict(was, Gone(was, now))
      altered == {n \in DOMAIN was \cap DOMAIN now :
                    was[n].view_definition # now[n].view_definition}
  IN  Each(topological_view_order(created), LAMBDA n : Op("CreateView", "", n, "", _bare_view(now[n])))
        \o Emit(altered, LAMBDA n : Op("AlterView", "", n, _bare_view(was[n]), _bare_view(now[n])))
        \o Each(Reversed(topological_view_order(dropped)),
                LAMBDA n : Op("DropView", was[n], n, _bare_view(was[n]), ""))

diff_schema(before, after, keys_diffed, Live, triggers) ==
  LET was == ByRef({t \in before : ~ t.is_view})
      now == ByRef({t \in after : ~ t.is_view})
      key_ops == IF keys_diffed THEN _diff_foreign_keys(was, now, Live) ELSE <<>>
      keys_changed == {Ref(key_ops[i].on) : i \in DOMAIN key_ops}
      diffs == [r \in DOMAIN was \cap DOMAIN now |->
                  TableDiff(was[r], now[r], r \in keys_changed, keys_diffed,
                            {t \in triggers : <<t.schema, t.table>> = r})]
      rebuilt == {r \in DOMAIN diffs : diffs[r].rebuilt}
      tables == FlattenSeq(Each(SortedRefs(DOMAIN now \ rebuilt),
                  LAMBDA r : IF r \in DOMAIN diffs THEN diffs[r].ops
                             ELSE <<Op("CreateTable", now[r], "", "", now[r])>>))
      rebuilds == FlattenSeq(Each(SortedRefs(rebuilt), LAMBDA r : diffs[r].ops))
      dropped == ByName({was[r] : r \in Gone(was, now)})
      drops == Each(drop_order(dropped), LAMBDA n : Op("DropTable", dropped[n], "", dropped[n], ""))
      keys(op) == SelectSeq(key_ops, LAMBDA o : o.op = op /\ Ref(o.on) \notin rebuilt)
  IN  _diff_schemas(before, after) \o keys("DropForeignKey") \o tables \o rebuilds \o drops
        \o keys("AddForeignKey") \o _diff_views(before, after)

(* What stops the generation: a cycle of keys or of views nobody can order. *)
Unorderable(before, after) ==
  LET dropped == ByName({t \in before : ~ t.is_view /\ Ref(t) \notin {Ref(u) : u \in after}})
      was == ByName({v \in before : v.is_view})
      now == ByName({v \in after : v.is_view})
      Stuck(views) == Cyclic(DOMAIN views, Dependencies(views))
  IN  \/ Cyclic(DOMAIN dropped, Holders(dropped))
      \/ Stuck(Restrict(now, New(was, now)))
      \/ Stuck(Restrict(was, Gone(was, now)))

diff_routines(was, now) ==
  Emit(New(was, now) \cup Changed(was, now),
       LAMBDA n : Op(IF n \in DOMAIN was THEN "AlterFunction" ELSE "CreateFunction", "", n,
                     IF n \in DOMAIN was THEN was[n] ELSE "", now[n]))
    \o Emit(Gone(was, now), LAMBDA n : Op("DropFunction", "", n, was[n], ""))

diff_triggers(was, now) ==
  Each(SortedKeys(New(was, now) \cup Changed(was, now)),
       LAMBDA k : IF k \in DOMAIN was THEN Op("AlterTrigger", "", "", was[k], now[k])
                  ELSE Op("CreateTrigger", "", "", "", now[k]))
    \o Each(SortedKeys(Gone(was, now)), LAMBDA k : Op("DropTrigger", "", "", was[k], ""))

-----------------------------------------------------------------------------
(* What calls it. Current is the code: its tables and views, routines and   *)
(* triggers, and the table of each model.                                   *)

autodetect(migrations, current) ==
  LET st == replay(migrations)
  IN  diff_schema(Range(st.tables), current.tables, TRUE, current.live, Range(st.triggers))
        \o diff_routines(st.routines, current.routines)
        \o diff_triggers(st.triggers, current.triggers)

(* The state a history leads to, against nothing; no target is resolved.    *)
squash(migrations) ==
  LET st == replay(migrations)
  IN  diff_schema({}, Range(st.tables), FALSE, Nothing, {})
        \o diff_routines(Nothing, st.routines)
        \o diff_triggers(Nothing, st.triggers)
=============================================================================
