------------------------------- MODULE Writes --------------------------------
(***************************************************************************)
(* The writes of a session (src/src/snakeorm/session/session.py, add to      *)
(* delete_where, and the twins of asyncsession.py), what they leave in the  *)
(* objects they are given (session/shared.py), the limits they enforce      *)
(* (session/guards.py) and the handlers they call (core/signals.py). One    *)
(* session, READ COMMITTED, and another transaction that commits now and    *)
(* then rows this one has not locked.                                      *)
(*                                                                         *)
(* A table of four columns: id, which the engine counts; key, UNIQUE; val,  *)
(* with a declared max_length; def, with a server default. An attribute of  *)
(* an object nobody gave a value is MISSING.                                *)
(*                                                                         *)
(* `born` is the history of a row and of an object: which insertion the row *)
(* comes from, and which one the object stands for. A row inserted again    *)
(* under its own id, after a rollback or a delete, is the same row.         *)
(***************************************************************************)
EXTENDS Integers, Sequences, FiniteSets, SequencesExt, Functions

CONSTANTS
  Engines,     \* the engines to run on, of "postgres", "mysql" and "sqlite"
  Objects,     \* the objects a program makes
  Keys,        \* the values of the unique column
  Handlers,    \* what is connected to PRE_SAVE and POST_SAVE
  ChunkRows,   \* of each engine, max_bind_params by the columns of a row
  MaxCalls,    \* bound: calls of the program
  MaxOthers    \* bound: commits of others

ASSUME WritesAssumption ==
  ChunkRows \in [Engines -> Nat \ {0}] /\ MaxCalls \in Nat /\ MaxOthers \in Nat

VARIABLES
  engine, handler,
  committed,  \* the rows of the table, by id
  mine,       \* those this transaction wrote, by id, or Gone
  counter,    \* the last id the engine counted to; an engine does not count back
  births,     \* insertions so far
  objs,       \* the objects, or Unmade
  pending,       \* the rest of a call of several statements
  raised,     \* an exception is on its way out of the with
  last,       \* the call that just returned, and the objects it wrote
  strayed,    \* a write through an object reached a row it does not stand for
  calls, others

writeVars == <<engine, handler, committed, mine, counter, births, objs, pending, raised, last,
               strayed, calls, others>>

MISSING == "missing"
NoId == 0     \* the id of an object that has none
Gone == <<>>
Unmade == <<>>
Nobody == 0
Idle == [call |-> "none", all |-> <<>>, left |-> <<>>]
Returned(call, os) == [call |-> call, wrote |-> os]
TooLong == "long"
Givens == {"short", TooLong}

-----------------------------------------------------------------------------
(* The engine. A statement is given the rows it sees and gives what it wrote *)
(* and the rows it returns, or refuses.                                     *)

Over(f, g) == [i \in DOMAIN f \cup DOMAIN g |-> IF i \in DOMAIN f THEN f[i] ELSE g[i]]
Put(m, id, row) == Over([i \in {id} |-> row], m)

Rows(m) == LET all == Over(m, committed) IN Restrict(all, {i \in DOMAIN all : all[i] # Gone})
View == Rows(mine)

Highest(S) == IF S = {} THEN 0 ELSE CHOOSE n \in S : \A k \in S : k <= n
(* SQLite's INTEGER PRIMARY KEY is one more than the highest there is.        *)
NextId(m, count) == 1 + (IF engine = "sqlite" THEN Highest(DOMAIN Rows(m)) ELSE count)

supports_returning == engine # "mysql"

Answer(id, row) ==
  [id |-> id, key |-> row.key, val |-> row.val, def |-> row.def, born |-> row.born]
Outcome(m, count, born, rows, refused) ==
  [mine |-> m, counter |-> count, births |-> born, rows |-> rows, refused |-> refused]
Untouched == Outcome(mine, counter, births, <<>>, FALSE)

HasKey(m, k) == {i \in DOMAIN Rows(m) : Rows(m)[i].key = k}

InsertOne(out, v) ==
  LET id == IF v.id = NoId THEN NextId(out.mine, out.counter) ELSE v.id
      row == [key |-> v.key, val |-> v.val, def |-> IF v.def = MISSING THEN "server" ELSE v.def,
              born |-> IF v.id = NoId THEN out.births + 1 ELSE v.born]
  IN IF out.refused \/ id \in DOMAIN Rows(out.mine) \/ HasKey(out.mine, v.key) # {}
     THEN [out EXCEPT !.refused = TRUE]
     ELSE Outcome(Put(out.mine, id, row),
                  IF v.id = NoId THEN out.counter + 1 ELSE out.counter, out.births + 1,
                  Append(out.rows, Answer(id, row)), FALSE)
emit_insert_many(values) == FoldLeft(InsertOne, Untouched, values)

(* INSERT ... ON CONFLICT (key): MySQL's fires on any unique key.            *)
Conflicts(v) ==
  IF engine = "mysql" /\ v.id \in DOMAIN View THEN {v.id} ELSE HasKey(mine, v.key)
emit_upsert(v, update) ==
  IF Conflicts(v) = {} THEN InsertOne(Untouched, v)
  ELSE LET id == CHOOSE i \in Conflicts(v) : TRUE
           row == [View[id] EXCEPT !.val = v.val]
       IN IF ~update THEN Untouched
          ELSE Outcome(Put(mine, id, row), counter, births, <<Answer(id, row)>>, FALSE)

(* UPDATE and DELETE of the row of an id: none, where it is not there.        *)
emit_update(id, values) ==
  IF id = NoId THEN [Untouched EXCEPT !.refused = TRUE]
  ELSE IF id \notin DOMAIN View THEN Untouched
  ELSE IF HasKey(mine, values.key) \ {id} # {} THEN [Untouched EXCEPT !.refused = TRUE]
  ELSE [Untouched EXCEPT !.mine =
         Put(@, id, [View[id] EXCEPT !.key = values.key, !.val = values.val,
                                     !.def = IF values.def = MISSING THEN @ ELSE values.def])]
emit_delete(id) ==
  IF id = NoId THEN [Untouched EXCEPT !.refused = TRUE]
  ELSE IF id \in DOMAIN View THEN [Untouched EXCEPT !.mine = Put(@, id, Gone)] ELSE Untouched

-----------------------------------------------------------------------------
(* What a call reads of an object, and what it leaves in it.                 *)

Object(id, key, val, def, born) == [id |-> id, key |-> key, val |-> val, def |-> def, born |-> born]
insert_values(o) == o
update_values(o) == o

_guard_declared_limits(v) == v.val # TooLong

(* Every row of a batch has the same columns.                               *)
Shape(v) == <<v.id = NoId, v.def = MISSING>>
guard_uniform_bulk_columns(values) == \A i, j \in DOMAIN values : Shape(values[i]) = Shape(values[j])

(* Mutant: only the key is read back.                                       *)
OnlyTheId(o, row) == [o EXCEPT !.id = row.id]

apply_returned(o, row) == Object(row.id, row.key, row.val, row.def, o.born)
apply_last_insert_id(o, row) == IF o.id = NoId THEN [o EXCEPT !.id = row.id] ELSE o

(* An object stands for the row its values went into.                        *)
StandsFor(o, row) == [o EXCEPT !.born = row.born]

(* Mutant: the rows an INSERT returns are given to the objects backwards.     *)
RowOfTheOther(batch, rows, o) == rows[Len(rows) + 1 - (CHOOSE i \in DOMAIN batch : batch[i] = o)]

RowOf(batch, rows, o) == rows[CHOOSE i \in DOMAIN batch : batch[i] = o]

(* The objects of a batch after its INSERT. Without RETURNING an add asks for *)
(* the id, and an add_all does not.                                         *)
Filled(os, batch, rows, single) ==
  [o \in Objects |->
     IF o \notin ToSet(batch) THEN os[o]
     ELSE LET i == CHOOSE n \in DOMAIN batch : batch[n] = o
              own == StandsFor(os[o], rows[i])
          IN CASE supports_returning -> apply_returned(own, RowOf(batch, rows, o))
               [] ~supports_returning /\ single -> apply_last_insert_id(own, rows[i])
               [] OTHER -> own]

(* PRE_SAVE: the handler may change the object, or raise.                     *)
PreSave(o) ==
  CASE handler = "trims" -> [o EXCEPT !.val = "short"]
    [] handler = "lengthens" -> [o EXCEPT !.val = TooLong]
    [] OTHER -> o
PreRaises == handler = "refuses"
PostRaises == handler = "fails after"

-----------------------------------------------------------------------------
WritesInit ==
  /\ engine \in Engines /\ handler \in Handlers
  /\ committed = <<>> /\ mine = <<>> /\ counter = 0 /\ births = 0
  /\ objs = [o \in Objects |-> Unmade]
  /\ pending = Idle /\ raised = FALSE /\ last = Returned("none", {})
  /\ strayed = FALSE /\ calls = 0 /\ others = 0

Made == {o \in Objects : objs[o] # Unmade}
MayCall == ~raised /\ pending = Idle /\ calls < MaxCalls /\ calls' = calls + 1

Statement(out) == mine' = out.mine /\ counter' = out.counter /\ births' = out.births
NoStatement == UNCHANGED <<mine, counter, births>>
Same == UNCHANGED <<engine, handler, committed, others>>

(* The call ends: with an exception, or having written some objects.          *)
Ends(failed, call, os) ==
  /\ raised' = failed
  /\ last' = IF failed THEN Returned("none", {}) ELSE Returned(call, os)
  /\ pending' = Idle

(* A write through an object reached the row of an id.                       *)
Reaches(o, id) ==
  /\ id \in DOMAIN View /\ View[id].born # objs[o].born
  /\ ~(engine = "sqlite" /\ \A i \in DOMAIN View : View[i].born # objs[o].born)

-----------------------------------------------------------------------------
(* The program.                                                             *)

Make ==
  /\ ~raised /\ pending = Idle
  /\ \E o \in Objects \ Made, k \in Keys, d \in {MISSING, "given"} :
       objs' = [objs EXCEPT ![o] = Object(NoId, k, "short", d, Nobody)]
  /\ last' = Returned("none", {})
  /\ NoStatement /\ Same /\ UNCHANGED <<pending, raised, strayed, calls>>

Assign ==
  /\ MayCall
  /\ \E o \in Made, v \in {TooLong, "other"} : objs' = [objs EXCEPT ![o].val = v]
  /\ last' = Returned("none", {})
  /\ NoStatement /\ Same /\ UNCHANGED <<pending, raised, strayed>>

(* One object inserted: the handler, the guards, the statement, the handler.  *)
Adds(o, made, call) ==
  IF PreRaises THEN objs' = made /\ NoStatement /\ Ends(TRUE, call, {})
  ELSE LET pre == [made EXCEPT ![o] = PreSave(@)]
           v == insert_values(pre[o])
           out == emit_insert_many(<<v>>)
       IN IF ~_guard_declared_limits(v) THEN objs' = pre /\ NoStatement /\ Ends(TRUE, call, {})
          ELSE IF out.refused THEN objs' = pre /\ NoStatement /\ Ends(TRUE, call, {})
          ELSE /\ objs' = Filled(pre, <<o>>, out.rows, TRUE)
               /\ Statement(out)
               /\ Ends(PostRaises, call, {o})

add ==
  /\ MayCall
  /\ \E o \in Made : Adds(o, objs, "add")
  /\ Same /\ UNCHANGED strayed

(* add_all: every PRE and every guard before the first statement.            *)
Batches == {s \in UNION {[1..n -> Made] : n \in 2..Cardinality(Objects)} : IsInjective(s)}
add_all ==
  /\ MayCall
  /\ \E batch \in Batches :
       LET pre == [o \in Objects |-> IF o \in ToSet(batch) THEN PreSave(objs[o]) ELSE objs[o]]
           values == [i \in DOMAIN batch |-> insert_values(pre[batch[i]])]
           fits == (\A i \in DOMAIN values : _guard_declared_limits(values[i]))
                     /\ guard_uniform_bulk_columns(values)
       IN /\ objs' = IF PreRaises THEN objs ELSE pre
          /\ IF PreRaises \/ ~fits THEN Ends(TRUE, "add_all", {})
             ELSE /\ pending' = [call |-> "add_all", all |-> batch, left |-> batch]
                  /\ last' = Returned("none", {}) /\ UNCHANGED raised
  /\ NoStatement /\ Same /\ UNCHANGED strayed

Chunk ==
  /\ ~raised /\ pending.call = "add_all"
  /\ LET fits == ChunkRows[engine]
         size == IF Len(pending.left) < fits THEN Len(pending.left) ELSE fits
         batch == SubSeq(pending.left, 1, size)
         rest == SubSeq(pending.left, size + 1, Len(pending.left))
         out == emit_insert_many([i \in DOMAIN batch |-> insert_values(objs[batch[i]])])
     IN IF out.refused THEN NoStatement /\ UNCHANGED objs /\ Ends(TRUE, "add_all", {})
        ELSE /\ objs' = Filled(objs, batch, out.rows, FALSE)
             /\ Statement(out)
             /\ IF rest # <<>> THEN pending' = [pending EXCEPT !.left = rest] /\ UNCHANGED <<raised, last>>
                ELSE Ends(PostRaises, "add_all", ToSet(pending.all))
  /\ Same /\ UNCHANGED <<strayed, calls>>

upsert ==
  /\ MayCall
  /\ \E o \in Made, update \in BOOLEAN :
       LET pre == [objs EXCEPT ![o] = PreSave(@)]
           v == insert_values(pre[o])
           out == emit_upsert(v, update)
       IN IF PreRaises \/ ~_guard_declared_limits(v) \/ out.refused
          THEN objs' = (IF PreRaises THEN objs ELSE pre) /\ NoStatement /\ Ends(TRUE, "upsert", {})
          ELSE LET answers == supports_returning /\ out.rows # <<>> IN
            /\ objs' = IF ~answers THEN pre
                       ELSE [pre EXCEPT ![o] =
                               apply_returned(StandsFor(@, out.rows[1]), out.rows[1])]
            /\ Statement(out)
            /\ Ends(PostRaises, "upsert", IF answers THEN {o} ELSE {})
  /\ Same /\ UNCHANGED strayed

(* update: the values are read, and their limits checked, before the handler. *)
update ==
  /\ MayCall
  /\ \E o \in Made :
       LET v == update_values(objs[o])
           out == emit_update(objs[o].id, v)
       IN IF ~_guard_declared_limits(v) \/ PreRaises
          THEN UNCHANGED <<objs, strayed>> /\ NoStatement /\ Ends(TRUE, "update", {})
          ELSE /\ objs' = [objs EXCEPT ![o] = PreSave(@)]
               /\ IF out.refused THEN NoStatement /\ UNCHANGED strayed /\ Ends(TRUE, "update", {})
                  ELSE /\ Statement(out)
                       /\ strayed' = (strayed \/ Reaches(o, objs[o].id))
                       /\ Ends(PostRaises, "update", {o})
  /\ Same

(* The handlers of a delete change nothing.                                  *)
delete ==
  /\ MayCall
  /\ \E o \in Made :
       LET out == emit_delete(objs[o].id) IN
         IF PreRaises \/ out.refused
         THEN NoStatement /\ UNCHANGED strayed /\ Ends(TRUE, "delete", {})
         ELSE /\ Statement(out)
              /\ strayed' = (strayed \/ Reaches(o, objs[o].id))
              /\ Ends(PostRaises, "delete", {})
  /\ Same /\ UNCHANGED objs

refresh ==
  /\ MayCall
  /\ \E o \in {p \in Made : objs[p].id # NoId} :
       IF objs[o].id \notin DOMAIN View THEN UNCHANGED objs /\ Ends(TRUE, "refresh", {})
       ELSE /\ objs' = [objs EXCEPT ![o] =
                 StandsFor(apply_returned(@, Answer(@.id, View[@.id])), View[@.id])]
            /\ Ends(FALSE, "refresh", {o})
  /\ NoStatement /\ Same /\ UNCHANGED strayed

(* get_or_create: a SELECT, and an add where it finds nothing. Others may     *)
(* write in between.                                                        *)
get_or_create ==
  /\ MayCall
  /\ \E o \in Objects \ Made, k \in Keys :
       IF HasKey(mine, k) # {}
       THEN LET id == CHOOSE i \in HasKey(mine, k) : TRUE IN
              /\ objs' = [objs EXCEPT ![o] =
                   Object(id, k, View[id].val, View[id].def, View[id].born)]
              /\ Ends(FALSE, "get_or_create", {o})
       ELSE /\ pending' = [call |-> "create", all |-> <<o>>, left |-> <<k>>]
            /\ last' = Returned("none", {}) /\ UNCHANGED <<objs, raised>>
  /\ NoStatement /\ Same /\ UNCHANGED strayed
Create ==
  /\ ~raised /\ pending.call = "create"
  /\ LET o == pending.all[1] IN
       Adds(o, [objs EXCEPT ![o] = Object(NoId, pending.left[1], "short", MISSING, Nobody)],
            "get_or_create")
  /\ Same /\ UNCHANGED <<strayed, calls>>

(* In bulk: the rows of a filter, no object and no handler.                  *)
SetVal(k, v) == Over([i \in HasKey(mine, k) |-> [View[i] EXCEPT !.val = v]], mine)
(* Mutant: the bulk SET does not check the declared limits.                  *)
UnguardedWhere ==
  /\ MayCall
  /\ \E k \in Keys, v \in Givens : mine' = SetVal(k, v)
  /\ UNCHANGED <<counter, births>> /\ Ends(FALSE, "update_where", {})
  /\ Same /\ UNCHANGED <<objs, strayed>>
update_where ==
  /\ MayCall
  /\ \E k \in Keys, v \in Givens :
       IF ~_guard_declared_limits([val |-> v]) THEN NoStatement /\ Ends(TRUE, "update_where", {})
       ELSE /\ mine' = SetVal(k, v)
            /\ UNCHANGED <<counter, births>> /\ Ends(FALSE, "update_where", {})
  /\ Same /\ UNCHANGED <<objs, strayed>>
delete_where ==
  /\ MayCall
  /\ \E k \in Keys : mine' = Over([i \in HasKey(mine, k) |-> Gone], mine)
  /\ UNCHANGED <<counter, births>> /\ Ends(FALSE, "delete_where", {})
  /\ Same /\ UNCHANGED <<objs, strayed>>

(* The end of a transaction: an exception leaves by a rollback.              *)
commit ==
  /\ ~raised /\ pending = Idle /\ mine # <<>>
  /\ committed' = View /\ mine' = <<>>
  /\ last' = Returned("none", {})
  /\ UNCHANGED <<engine, handler, counter, births, objs, pending, raised, strayed, calls, others>>
rollback ==
  /\ pending = Idle /\ (raised \/ mine # <<>>)
  /\ mine' = <<>> /\ raised' = FALSE
  /\ last' = Returned("none", {})
  /\ UNCHANGED <<engine, handler, committed, counter, births, objs, pending, strayed, calls, others>>

-----------------------------------------------------------------------------
(* Another transaction writes a row this one has not, whole.                 *)

Other ==
  /\ others < MaxOthers /\ others' = others + 1
  /\ engine = "sqlite" => mine = <<>>
  /\ \/ \E k \in Keys :
          /\ \A i \in DOMAIN committed : committed[i].key # k
          /\ HasKey(mine, k) = {}
          /\ committed' = Put(committed, NextId(mine, counter),
               [key |-> k, val |-> "short", def |-> "server", born |-> births + 1])
          /\ counter' = counter + 1 /\ births' = births + 1
     \/ \E i \in DOMAIN committed \ DOMAIN mine :
          /\ committed' = [committed EXCEPT ![i].val = "other"]
          /\ UNCHANGED <<counter, births>>
     \/ \E i \in DOMAIN committed \ DOMAIN mine :
          /\ committed' = Restrict(committed, DOMAIN committed \ {i})
          /\ UNCHANGED <<counter, births>>
  /\ last' = Returned("none", {})
  /\ UNCHANGED <<engine, handler, mine, objs, pending, raised, strayed, calls>>

WritesNext ==
  \/ Make \/ Assign
  \/ add \/ add_all \/ Chunk \/ upsert \/ update \/ delete \/ refresh
  \/ get_or_create \/ Create \/ update_where \/ delete_where
  \/ commit \/ rollback \/ Other

WritesSpec == WritesInit /\ [][WritesNext]_writeVars

-----------------------------------------------------------------------------
(* update() and delete() "filter by its primary key" (session.py:711): a write *)
(* through an object reaches the row the object stands for, whatever batches,  *)
(* conflicts, rollbacks and other writers came before. SQLite gives the id of *)
(* a row that is gone to another, and an object of the first reaches that one. *)
OwnRow == ~strayed

(* "With RETURNING, it assigns back ALL the columns from the DB" (session.py:  *)
(* 585): when a call returns, what the object says is what its row says, where *)
(* the row is still there. An update whose handler changes the object is the   *)
(* exception: the values were read before.                                   *)
Agrees(o, row) == \A c \in {"key", "val", "def"} : objs[o][c] \in {MISSING, row[c]}
Agree == \A o \in last.wrote : objs[o].id \in DOMAIN View => Agrees(o, View[objs[o].id])
ObjectsAreTheirRows ==
  (last.call = "update" /\ handler \in {"trims", "lengthens"}) \/ Agree

(* "Checking it here makes it hold on BOTH" (guards.py:56): no row is outside  *)
(* a declared limit, by any path.                                            *)
LimitsHold == \A i \in DOMAIN View : View[i].val # TooLong
=============================================================================
