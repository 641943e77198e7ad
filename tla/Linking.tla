------------------------------- MODULE Linking -------------------------------
(***************************************************************************)
(* From classes to tables that know each other: @snake_model registers a   *)
(* class as its module is imported (decorators/model.py, polymorphic.py,    *)
(* registry/registry.py), and snake_link() resolves the relationships of   *)
(* what is registered (linker/linker.py), which may import more             *)
(* (registry/by_module.py).                                                *)
(*                                                                         *)
(* A design is what the files say: of each module its classes in order, the *)
(* classes it imports as it runs and those under `if TYPE_CHECKING:`; of    *)
(* each class its bases (nearest first), columns and relations. A relation  *)
(* names a class as the file spells it. Names are not unique.               *)
(***************************************************************************)
EXTENDS Integers, Sequences, FiniteSets, SequencesExt, Functions

CONSTANTS
  Designs,   \* the applications
  MaxLinks   \* bound: calls of snake_link

VARIABLES
  design,    \* the application that runs
  reg,       \* the registry, and what the descriptors remember
  outcome,   \* how the last import or link ended
  fresh,     \* nothing was registered since the last link began
  links      \* calls of snake_link so far

linkVars == <<design, reg, outcome, fresh, links>>

-----------------------------------------------------------------------------
(* What the files say.                                                      *)

Class(c) == design.classes[c]
Module(c) == Class(c).module
Inherited(c) == Reverse(<<c>> \o Class(c).bases)
Is(c, roles) == Class(c).role \in roles

EmptyDict == [x \in {} |-> x]
Columns(c) == FoldLeft(LAMBDA cols, b : Class(b).columns @@ cols, EmptyDict, Inherited(c))
PrimaryKey(c) == FlattenSeq([i \in DOMAIN Inherited(c) |-> Class(Inherited(c)[i]).pk])
Indexes(c) == UNION {Class(b).indexes : b \in ToSet(Inherited(c))}

(* collect_inherited: the descriptors along the MRO, from base to child, each *)
(* with the class it was written in. No class redefines one of its base.    *)
Relations(c, kinds) ==
  LET of(b) == [n \in DOMAIN Class(b).rels |-> Class(b).rels[n] @@ [home |-> b]]
  IN SelectSeq(FlattenSeq([i \in DOMAIN Inherited(c) |-> of(Inherited(c)[i])]),
               LAMBDA r : r.kind \in kinds)
ToOne == {"to_one"}
ToMany == {"to_many", "to_many_through"}

NamesOf(cs) == [n \in {Class(c).name : c \in ToSet(cs)} |->
                CHOOSE c \in ToSet(cs) : Class(c).name = n]
Globals(m) == NamesOf(design.modules[m].classes) @@ NamesOf(design.modules[m].imports)
Typing(m) == NamesOf(design.modules[m].typing)
SeenFrom(m) == Globals(m) @@ Typing(m)

-----------------------------------------------------------------------------
(* Registering.                                                             *)

EmptyRegistry ==
  [loaded |-> {}, order |-> <<>>, tables |-> EmptyDict, owner |-> EmptyDict,
   model_by_name |-> EmptyDict, polymorphic |-> EmptyDict, frozen |-> EmptyDict, raised |-> "no"]
Refuse(s, by) == [s EXCEPT !.raised = by]
Goes(s) == s.raised = "no"

Kept(s, c, t) ==
  [s EXCEPT !.order = IF c \in ToSet(@) THEN @ ELSE Append(@, c),
            !.tables = (c :> t) @@ @, !.model_by_name = (Class(c).name :> c) @@ @]

(* A child of a hierarchy shares its base's table and owns none.             *)
register(s, c, t) ==
  IF Is(c, {"child"}) THEN [Kept(s, c, t) EXCEPT !.polymorphic = (<<t.name, Class(c).value>> :> c) @@ @]
  ELSE IF t.name \in DOMAIN s.owner /\ s.owner[t.name] # c THEN Refuse(s, "import")
  ELSE [Kept(s, c, t) EXCEPT !.owner = (t.name :> c) @@ @]

compile_model(c, placement) ==
  [name |-> placement.table, database |-> placement.database, columns |-> Columns(c),
   pk |-> PrimaryKey(c), indexes |-> Indexes(c), relationships |-> EmptyDict]

Ancestors(s, c, roles) ==
  SelectSeq(Class(c).bases, LAMBDA b : b \in DOMAIN s.tables /\ Is(b, roles))

(* The columns that are a child's own have to be nullable.                   *)
guard_child_columns(compiled, base_table) ==
  \A col \in DOMAIN compiled.columns \ DOMAIN base_table.columns : compiled.columns[col].nullable

resolve_polymorphic(s, c, bases) ==
  IF bases = <<>> THEN Refuse(s, "import")
  ELSE LET base == s.tables[bases[1]]
           compiled == compile_model(c, [table |-> base.name, database |-> base.database])
       IN IF guard_child_columns(compiled, base) THEN register(s, c, compiled)
          ELSE Refuse(s, "import")
wrap(s, c) ==
  IF ~Goes(s) \/ Is(c, {"abstract"}) THEN s
  ELSE IF Is(c, {"child"}) THEN resolve_polymorphic(s, c, Ancestors(s, c, {"base", "child"}))
  ELSE register(s, c, compile_model(c, Class(c)))

(* What a module imports is imported first; then its classes, in order.      *)
IsLoaded(s, m) == IF Goes(s) THEN [s EXCEPT !.loaded = @ \cup {m}] ELSE s
RECURSIVE Imported(_, _)
Imported(s, m) ==
  IF m \in s.loaded \/ ~Goes(s) THEN s
  ELSE LET file == design.modules[m] IN
    IsLoaded(FoldLeft(wrap, FoldLeft(LAMBDA t, c : Imported(t, Module(c)), s, file.imports),
                      file.classes), m)

-----------------------------------------------------------------------------
(* What a name means, as the linker finds out.                              *)

Annotations(c) == {<<r.home, r.target[i]>> : <<r, i>> \in
  {<<q, j>> \in ToSet(Relations(c, ToOne \cup ToMany)) \X {1, 2} : j \in DOMAIN q.target}}
Visible(c) == \A a \in Annotations(c) : a[2] \in DOMAIN Globals(Module(a[1]))

(* type_checking_names: what the class's module imports for the checker, for *)
(* real.                                                                    *)
type_checking_names(s, m) ==
  FoldLeft(LAMBDA t, c : Imported(t, Module(c)), s, design.modules[m].typing)

Hints(c, home) ==
  IF Visible(c) THEN Globals(Module(home)) ELSE Typing(Module(c)) @@ Globals(Module(home))
NameError(s, c) ==
  IF Goes(s) /\ \E a \in Annotations(c) : a[2] \notin DOMAIN Hints(c, a[1])
  THEN Refuse(s, "link") ELSE s
hints_of(s, c) ==
  IF Visible(c) THEN s ELSE NameError(type_checking_names(s, Module(c)), c)

(* The class a bridge's name refers to: of the module of the class that is   *)
(* being linked.                                                            *)
Bridge(c, name) == SeenFrom(Module(c))[name]
resolve_in_module(s, c, name) ==
  IF name \in DOMAIN Globals(Module(c)) THEN s
  ELSE IF name \notin DOMAIN Typing(Module(c)) THEN Refuse(s, "link")
  ELSE Imported(s, Module(Typing(Module(c))[name]))

-----------------------------------------------------------------------------
(* Linking. Each step folds over [reg, rels]: the registry, and what was     *)
(* resolved of the class so far.                                            *)

Info(kind, t, table, pairs, through) ==
  [kind |-> kind, target |-> Class(t).name, target_table |-> table, pairs |-> pairs,
   through |-> through]
Zipped(local, remote) == [i \in DOMAIN local |-> <<local[i], remote[i]>>]

Fails(acc) == [acc EXCEPT !.reg = Refuse(@, "link")]
Freezes(acc, r, table) == [acc EXCEPT !.reg.frozen = (<<r.home, r.attr>> :> table) @@ @]
Resolves(acc, r, info) == [acc EXCEPT !.rels = (r.attr :> info) @@ @]

(* _guard_same_database, _guard_nullability_parity, _validate_pairing.       *)
Fits(r, source, target) ==
  LET own == ToSet(r.local) \cap DOMAIN source.columns IN
    /\ source.database = target.database
    /\ own # {} => (r.optional <=> \E col \in own : source.columns[col].nullable)
    /\ Len(r.local) = Len(target.pk)
    /\ \A i \in DOMAIN r.local : r.local[i] \in own =>
         source.columns[r.local[i]].type = target.columns[target.pk[i]].type

PointsAt(acc, c, r, t) ==
  IF t \notin DOMAIN acc.reg.tables THEN Fails(acc)
  ELSE LET table == acc.reg.tables[t]
           seen == Freezes(acc, r, table)
       IN IF ~Fits(r, acc.reg.tables[c], table) THEN Fails(seen)
          ELSE Resolves(seen, r, Info("to_one", t, table.name, Zipped(r.local, table.pk), <<>>))
LinkToOne(acc, c, r) ==
  IF ~Goes(acc.reg) THEN acc
  ELSE IF Len(r.target) > 1 THEN Fails(acc)
  ELSE PointsAt(acc, c, r, Hints(c, r.home)[r.target[1]])

(* A hop of a bridge has to be one of its to-one relations.                  *)
IsHop(table, attr) ==
  attr \in DOMAIN table.relationships /\ table.relationships[attr].kind = "to_one"

Crosses(acc, r, t, bridge) ==
  LET tables == acc.reg.tables
      seen == Freezes(acc, r, tables[t])
  IN IF ~IsHop(tables[bridge], r.via) \/ ~IsHop(tables[bridge], r.to) THEN Fails(seen)
     ELSE Resolves(seen, r, Info("to_many_through", t, tables[t].name,
            tables[bridge].relationships[r.via].pairs,
            <<tables[bridge].name, tables[bridge].relationships[r.to].pairs>>))
LinkThrough(acc, c, r, t) ==
  IF ~Goes(acc.reg) THEN acc
  ELSE IF ~({Bridge(c, r.bridge), t} \subseteq DOMAIN acc.reg.tables) THEN Fails(acc)
  ELSE Crosses(acc, r, t, Bridge(c, r.bridge))

Inverts(acc, r, t) ==
  IF t \notin DOMAIN acc.reg.tables THEN Fails(acc)
  ELSE LET child == acc.reg.tables[t]
           seen == Freezes(acc, r, child)
       IN IF r.fk \notin DOMAIN child.relationships THEN Fails(seen)
          ELSE Resolves(seen, r, Info("to_many", t, child.name,
                                      child.relationships[r.fk].pairs, <<>>))
LinkToMany(acc, c, r) ==
  IF ~Goes(acc.reg) THEN acc
  ELSE IF Len(r.target) > 1 \/ r.optional THEN Fails(acc)
  ELSE IF r.kind = "to_many" THEN Inverts(acc, r, Hints(c, r.home)[r.target[1]])
  ELSE LinkThrough([acc EXCEPT !.reg = resolve_in_module(@, c, r.bridge)], c, r,
                   Hints(c, r.home)[r.target[1]])

(* One class in one pass: its relations of a kind, over the ones it has, from *)
(* the table it had when the pass came to it.                               *)
Relinked(done, c, table) ==
  IF ~Goes(done.reg) THEN done.reg
  ELSE register(done.reg, c, [table EXCEPT !.relationships = done.rels])
PassOne(s, c) ==
  IF ~Goes(s) THEN s
  ELSE Relinked(FoldLeft(LAMBDA acc, r : LinkToOne(acc, c, r),
                         [reg |-> hints_of(s, c), rels |-> EmptyDict], Relations(c, ToOne)),
                c, s.tables[c])
PassTwo(s, c) ==
  IF ~Goes(s) THEN s
  ELSE Relinked(FoldLeft(LAMBDA acc, r : LinkToMany(acc, c, r),
                         [reg |-> hints_of(s, c), rels |-> s.tables[c].relationships],
                         Relations(c, ToMany)),
                c, s.tables[c])

(* Every base is given the columns and indexes of its children.             *)
Contributed(s, base) ==
  SelectSeq(s.order, LAMBDA c : Is(c, {"child"}) /\ LET bs == Ancestors(s, c, {"base"}) IN
                                  bs # <<>> /\ bs[1] = base)
Lifted(s, base) ==
  FoldLeft(LAMBDA t, c : [t EXCEPT !.columns = @ @@ s.tables[c].columns,
                                   !.indexes = @ \cup s.tables[c].indexes],
           s.tables[base], Contributed(s, base))
Replaced(s, base, table) == IF table = s.tables[base] THEN s ELSE register(s, base, table)
_merge_polymorphic_columns(s) ==
  FoldLeft(LAMBDA t, base : Replaced(t, base, Lifted(t, base)),
           s, SelectSeq(s.order, LAMBDA c : Is(c, {"base"})))

(* Each pass goes over the models there were when it began.                  *)
FirstPass(s) == FoldLeft(PassOne, s, s.order)
SecondPass(s) == FoldLeft(PassTwo, s, s.order)

(* Mutant: one pass for both kinds of relation.                             *)
OnePass(s) == FoldLeft(LAMBDA t, c : PassTwo(PassOne(t, c), c), s, s.order)
LinkInOnePass(s) == OnePass(_merge_polymorphic_columns(s))

snake_link(s) == SecondPass(FirstPass(_merge_polymorphic_columns(s)))

-----------------------------------------------------------------------------
LinkInit ==
  /\ design \in Designs
  /\ reg = EmptyRegistry
  /\ outcome = "imported" /\ fresh = FALSE /\ links = 0

(* An application whose import raised does not go on.                        *)
Runs == outcome # "import refused"
Ended(s, as) ==
  CASE s.raised = "no" -> as [] s.raised = "link" -> "refused" [] OTHER -> "import refused"

Import ==
  /\ Runs
  /\ \E m \in DOMAIN design.modules \ reg.loaded : \E s \in {Imported(reg, m)} :
       /\ reg' = [s EXCEPT !.raised = "no"]
       /\ outcome' = Ended(s, "imported")
  /\ fresh' = FALSE
  /\ UNCHANGED <<design, links>>

Link ==
  /\ Runs /\ links < MaxLinks
  /\ links' = links + 1
  /\ \E s \in {snake_link(reg)} :
       /\ reg' = [s EXCEPT !.raised = "no"]
       /\ outcome' = Ended(s, "linked")
       /\ fresh' = (s.order = reg.order)
  /\ UNCHANGED design

LinkNext == Import \/ Link

LinkSpec == LinkInit /\ [][LinkNext]_linkVars

-----------------------------------------------------------------------------
(* What a relation declares, by the files alone: the class a name means is   *)
(* the one of the module where the relation is written.                     *)

Meant(r) == SeenFrom(Module(r.home))[r.target[1]]
MeantBridge(r) == SeenFrom(Module(r.home))[r.bridge]
Root(c) == IF Is(c, {"child"}) THEN SelectSeq(Class(c).bases, LAMBDA b : Is(b, {"base"}))[1] ELSE c
TableOf(c) == Class(Root(c)).table
DatabaseOf(c) == Class(Root(c)).database
Registered == ToSet(reg.order)

KeyOfRelation(r) == Zipped(r.local, PrimaryKey(Meant(r)))
Foreign(c, attr) == {r \in ToSet(Relations(c, ToOne)) : r.attr = attr}
DeclaredKey(c, attr) == KeyOfRelation(CHOOSE r \in Foreign(c, attr) : TRUE)

Resolvable(c, r) ==
  /\ Len(r.target) = 1 /\ r.target[1] \in DOMAIN SeenFrom(Module(r.home)) /\ Meant(r) \in Registered
  /\ CASE r.kind = "to_one" ->
            Fits(r, [columns |-> Columns(c), database |-> DatabaseOf(c)],
                 [columns |-> Columns(Meant(r)), pk |-> PrimaryKey(Meant(r)),
                  database |-> DatabaseOf(Meant(r))])
       [] r.kind = "to_many" -> ~r.optional /\ Foreign(Meant(r), r.fk) # {}
       [] r.kind = "to_many_through" ->
            /\ ~r.optional /\ r.bridge \in DOMAIN SeenFrom(Module(r.home))
            /\ MeantBridge(r) \in Registered
            /\ Foreign(MeantBridge(r), r.via) # {} /\ Foreign(MeantBridge(r), r.to) # {}

Declared(r) ==
  LET t == Meant(r) IN
    CASE r.kind = "to_one" -> Info(r.kind, t, TableOf(t), KeyOfRelation(r), <<>>)
      [] r.kind = "to_many" -> Info(r.kind, t, TableOf(t), DeclaredKey(t, r.fk), <<>>)
      [] r.kind = "to_many_through" ->
           LET b == MeantBridge(r) IN
             Info(r.kind, t, TableOf(t), DeclaredKey(b, r.via), <<TableOf(b), DeclaredKey(b, r.to)>>)

(* registry.py, resolve_relationship: by the qualified table; by name only   *)
(* where nobody owns it.                                                    *)
resolve_relationship(info) ==
  IF info.target_table \in DOMAIN reg.owner THEN reg.owner[info.target_table]
  ELSE reg.model_by_name[info.target]

(* "Register everything -> link at the end" (linker.py:3) and "the result is  *)
(* the same regardless of import order" (docs/users/guide/relationships.md:94): *)
(* whatever was imported, linked and refused before, a link that registers    *)
(* nothing new ends with every relation as its file declares it, resolved to  *)
(* the class its file means, or refuses because of a declaration.            *)
LinkedAsDeclared ==
  fresh =>
    /\ outcome = "linked" => \A c \in Registered :
         LET rels == ToSet(Relations(c, ToOne \cup ToMany)) IN
           /\ DOMAIN reg.tables[c].relationships = {r.attr : r \in rels}
           /\ \A r \in rels :
                /\ Resolvable(c, r)
                /\ reg.tables[c].relationships[r.attr] = Declared(r)
                /\ resolve_relationship(reg.tables[c].relationships[r.attr]) = Root(Meant(r))
    /\ outcome = "refused" => \E c \in Registered :
         \E r \in ToSet(Relations(c, ToOne \cup ToMany)) : ~Resolvable(c, r)

(* "The physical table is ONE, so the base has to know its children's columns *)
(* or the CREATE TABLE would come out without them" (linker.py:437), and a     *)
(* row's discriminator finds its class.                                      *)
FamilyTableIsWhole ==
  (fresh /\ outcome = "linked") => \A c \in {d \in Registered : Is(d, {"child"})} :
    /\ DOMAIN Columns(c) \subseteq DOMAIN reg.tables[Root(c)].columns
    /\ Indexes(c) \subseteq reg.tables[Root(c)].indexes
    /\ reg.polymorphic[<<TableOf(c), Class(c).value>>] = c

(* The base of a hierarchy has the keys of its children too. The linker lifts *)
(* columns, indexes and checks, and not relations.                          *)
FamilyTableHasTheKeys ==
  (fresh /\ outcome = "linked") => \A c \in {d \in Registered : Is(d, {"child"})} :
    \A r \in ToSet(Relations(c, ToOne)) :
      r.attr \in DOMAIN reg.tables[Root(c)].relationships

(* `Car.brand.country.name` "two JOINs" (docs/users/guide/      *)
(* relationships.md:112), "the same regardless of import order" (:94): once     *)
(* linked, a path goes on from a relation to any relation of its target.      *)
PathsGoOn ==
  (fresh /\ outcome = "linked") => \A c \in Registered : \A r \in ToSet(Relations(c, ToOne)) :
    \A further \in ToSet(Relations(Meant(r), ToOne)) :
      further.attr \in DOMAIN reg.frozen[<<r.home, r.attr>>].relationships
=============================================================================
