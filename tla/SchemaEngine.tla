----------------------------- MODULE SchemaEngine -----------------------------
(***************************************************************************)
(* The three engines, as far as the statements of SchemaDdl need them:     *)
(* what a statement does to the catalogue, and when it is refused. It is   *)
(* no code of this repository: the rules are the ones its comments and     *)
(* integration tests say were measured. A table has rows.                  *)
(***************************************************************************)
EXTENDS SchemaDdl

EmptyDb ==
  [ok |-> TRUE, deferred |-> FALSE, schemas |-> {DefaultSchema}, tables |-> Nothing,
   views |-> Nothing, functions |-> Nothing, triggers |-> Nothing]

Relations(db) == DOMAIN db.tables \cup DOMAIN db.views
HeldBy(db, ref) ==
  {r \in DOMAIN db.tables \ {ref} : \E k \in DOMAIN db.tables[r].keys : db.tables[r].keys[k].target = ref}
On(parts, c) == {n \in DOMAIN parts : parts[n].column = c}
(* A table made in this very migration has no rows yet.                     *)
IsNew(db, ref, now) == \A c \in DOMAIN db.tables[ref].columns : db.tables[ref].columns[c].since = now
Uses(db, f) == \E k \in DOMAIN db.triggers : db.triggers[k].function = f
UnderAView(db, ref) == \E v \in DOMAIN db.views : ref[2] \in db.views[v].reads

(* Where an index of that name is looked for.                               *)
IndexScope(engine, db, ref) ==
  IF engine = "mariadb" THEN {ref} ELSE {r \in DOMAIN db.tables : r[1] = ref[1]}
OwnsIndex(engine, db, ref, name) ==
  {r \in IndexScope(engine, db, ref) \cap DOMAIN db.tables : name \in DOMAIN db.tables[r].indexes}
SameTrigger(engine, db, ref, name) ==
  {k \in DOMAIN db.triggers : k[2] = name /\ (engine # "postgres" \/ k[1] = ref)}

-----------------------------------------------------------------------------
(* Refusals.                                                                *)

OnATable ==
  {"DropTable", "CopyRows", "AddColumn", "DropColumn", "AlterColumn", "RenameColumn", "RenameTable", "Comment",
   "AddCheck", "DropCheck", "AddKey", "DropKey", "CreateIndex", "CreateTrigger"}

Accepts(engine, db, s, now) ==
  LET t == db.tables[s.on]
      Standing(ref) == engine = "sqlite" \/ ref \in DOMAIN db.tables
  IN  /\ s.do \in OnATable => s.on \in DOMAIN db.tables
      /\ CASE s.do = "DropSchema" ->
                s.part \in db.schemas /\ \A r \in Relations(db) : r[1] # s.part
           [] s.do = "CreateTable" ->
                /\ s.on \notin Relations(db) /\ s.on[1] \in db.schemas
                /\ \A parts \in {s.def.checks, s.def.keys} :
                     \A n \in DOMAIN parts : parts[n].column \in DOMAIN s.def.columns
           [] s.do = "CopyRows" -> DOMAIN t.columns \subseteq DOMAIN db.tables[s.def].columns
           [] s.do = "DropTable" ->
                IF engine = "sqlite" THEN db.deferred => \A r \in HeldBy(db, s.on) : IsNew(db, r, now)
                ELSE HeldBy(db, s.on) = {}
           [] s.do = "RenameTable" -> s.def \notin Relations(db)
           [] s.do = "AddColumn" -> s.part \notin DOMAIN t.columns
           [] s.do = "RenameColumn" -> s.part \in DOMAIN t.columns /\ s.def \notin DOMAIN t.columns
           [] s.do = "AlterColumn" -> s.part \in DOMAIN t.columns
           [] s.do = "DropColumn" ->
                /\ s.part \in DOMAIN t.columns
                /\ engine # "postgres" => On(t.keys, s.part) \cup On(t.checks, s.part) = {}
                /\ engine = "sqlite" => On(t.indexes, s.part) = {}
           [] s.do = "AddCheck" -> s.part \notin DOMAIN t.checks /\ s.def.column \in DOMAIN t.columns
           [] s.do = "AddKey" ->
                s.part \notin DOMAIN t.keys /\ s.def.column \in DOMAIN t.columns /\ Standing(s.def.target)
           [] s.do = "DropCheck" -> s.part \in DOMAIN t.checks
           [] s.do = "DropKey" -> s.part \in DOMAIN t.keys
           [] s.do = "CreateIndex" ->
                OwnsIndex(engine, db, s.on, s.part) = {} /\ s.def.column \in DOMAIN t.columns
           [] s.do = "DropIndex" -> OwnsIndex(engine, db, s.on, s.part) # {}
           [] s.do = "CreateView" ->
                /\ s.on \notin Relations(db)
                /\ engine = "sqlite" \/ \A v \in s.def.reads : <<s.on[1], v>> \in Relations(db)
           [] s.do = "ReplaceView" ->
                s.on \in DOMAIN db.views /\ DOMAIN s.def.columns = DOMAIN db.views[s.on].columns
           [] s.do = "DropView" ->
                s.on \in DOMAIN db.views /\ (engine = "postgres" => ~ UnderAView(db, s.on))
           [] s.do = "DropFunction" -> s.part \in DOMAIN db.functions
           [] s.do = "DropFunctionIfExists" -> ~ Uses(db, s.part)
           [] s.do = "CreateTrigger" -> SameTrigger(engine, db, s.on, s.part) = {}
           [] s.do = "DropTrigger" -> SameTrigger(engine, db, s.on, s.part) # {}
           [] OTHER -> TRUE

-----------------------------------------------------------------------------
(* Effects. A column remembers the migration that made it: what it holds is *)
(* lost with it.                                                            *)

ColumnMade(type, now) == [type |-> type, since |-> now]
Follows(parts, old, new) ==
  [n \in DOMAIN parts |-> IF parts[n].column = old THEN [parts[n] EXCEPT !.column = new] ELSE parts[n]]

OnItsTable(engine, t, s, now) ==
  CASE s.do = "AddColumn" -> [t EXCEPT !.columns = With(@, s.part, ColumnMade(s.def, now))]
    [] s.do = "AlterColumn" -> [t EXCEPT !.columns[s.part].type = s.def]
    [] s.do = "DropColumn" ->
         [t EXCEPT !.columns = Without(@, {s.part}), !.indexes = Without(@, On(@, s.part)),
                   !.checks = Without(@, On(@, s.part)), !.keys = Without(@, On(@, s.part))]
    [] s.do = "RenameColumn" ->
         [t EXCEPT !.columns = Renamed(@, s.part, s.def), !.indexes = Follows(@, s.part, s.def),
                   !.checks = Follows(@, s.part, s.def), !.keys = Follows(@, s.part, s.def)]
    [] s.do = "Comment" -> [t EXCEPT !.comment = s.def]
    [] s.do = "AddCheck" -> [t EXCEPT !.checks = With(@, s.part, s.def)]
    [] s.do = "DropCheck" -> [t EXCEPT !.checks = Without(@, {s.part})]
    [] s.do = "AddKey" -> [t EXCEPT !.keys = With(@, s.part, s.def)]
    [] s.do = "DropKey" -> [t EXCEPT !.keys = Without(@, {s.part})]
    [] s.do = "CreateIndex" -> [t EXCEPT !.indexes = With(@, s.part, s.def)]

(* The keys and the triggers of a renamed table follow it.                  *)
MovesTable(db, ref, new) ==
  LET moved == Renamed(db.tables, ref, new)
  IN  [db EXCEPT
        !.tables = [r \in DOMAIN moved |->
                      [moved[r] EXCEPT !.keys =
                         [k \in DOMAIN @ |-> IF @[k].target = ref THEN [@[k] EXCEPT !.target = new] ELSE @[k]]]],
        !.triggers = [k \in {<<IF j[1] = ref THEN new ELSE j[1], j[2]>> : j \in DOMAIN @} |->
                        IF k[1] = new THEN @[<<ref, k[2]>>] ELSE @[k]]]

Does(engine, db, s, now) ==
  CASE s.do = "CreateSchema" -> [db EXCEPT !.schemas = @ \cup {s.part}]
    [] s.do = "DropSchema" -> [db EXCEPT !.schemas = @ \ {s.part}]
    [] s.do = "DeferKeys" -> [db EXCEPT !.deferred = TRUE]
    [] s.do = "CreateTable" ->
         [db EXCEPT !.tables = With(@, s.on,
            [columns |-> [c \in DOMAIN s.def.columns |-> ColumnMade(s.def.columns[c], now)],
             checks |-> s.def.checks, keys |-> s.def.keys, comment |-> s.def.comment, indexes |-> Nothing])]
    [] s.do = "CopyRows" -> 
         [db EXCEPT !.tables[s.on].columns = [c \in DOMAIN @ |-> db.tables[s.def].columns[c]]]
    [] s.do = "DropTable" ->
         [db EXCEPT !.tables = Without(@, {s.on}), !.triggers = Without(@, {k \in DOMAIN @ : k[1] = s.on})]
    [] s.do = "RenameTable" -> MovesTable(db, s.on, s.def)
    [] s.do = "DropIndex" ->
         [db EXCEPT !.tables = [r \in DOMAIN @ |->
            IF r \in OwnsIndex(engine, db, s.on, s.part)
            THEN [@[r] EXCEPT !.indexes = Without(@, {s.part})] ELSE @[r]]]
    [] s.do \in {"CreateView", "ReplaceView"} -> [db EXCEPT !.views = With(@, s.on, s.def)]
    [] s.do = "DropView" -> [db EXCEPT !.views = Without(@, {s.on})]
    [] s.do = "CreateFunction" -> [db EXCEPT !.functions = With(@, s.part, s.def)]
    [] s.do \in {"DropFunction", "DropFunctionIfExists"} -> [db EXCEPT !.functions = Without(@, {s.part})]
    [] s.do = "CreateTrigger" -> [db EXCEPT !.triggers = With(@, <<s.on, s.part>>, s.def)]
    [] s.do = "DropTrigger" -> [db EXCEPT !.triggers = Without(@, SameTrigger(engine, db, s.on, s.part))]
    [] OTHER -> [db EXCEPT !.tables[s.on] = OnItsTable(engine, @, s, now)]

(* The statements of a migration, in order: ok says whether all were taken. *)
(* After a refusal the command has failed, and the schema is not looked at. *)
Executes(engine, db, statements, now) ==
  LET Step(d, s) ==
        IF ~ d.ok THEN d
        ELSE IF Accepts(engine, d, s, now) THEN Does(engine, d, s, now) ELSE [d EXCEPT !.ok = FALSE]
      done == FoldLeft(Step, db, statements)
  IN  [done EXCEPT !.deferred = FALSE]
=============================================================================
