---------------------------- MODULE Application -----------------------------
(***************************************************************************)
(* An application: it imports its models and links them (Linking), and then  *)
(* one of its sessions runs a query with prefetched relationships            *)
(* (EagerLoad) or writes (Writes). A prefetch is made of what the link left   *)
(* in the tables (src/src/snakeorm/fields/relationship.py, SnakePrefetch); a  *)
(* write only needs its model registered (session/shared.py, table_of).      *)
(*                                                                         *)
(* Neither a query nor a write changes the registry, and both begin in one   *)
(* application, so that the states of the parts add up.                      *)
(***************************************************************************)
EXTENDS Linking, EagerLoad, Writes

CONSTANTS
  Served,   \* the application that serves queries and writes, of Designs
  Queried,  \* the model the query reads
  Written   \* the model the program writes

ASSUME ServedAssumption == Served \in Designs /\ {Queried, Written} \subseteq DOMAIN Served.classes

VARIABLE phase  \* "importing", "querying" or "writing"

applicationVars == <<phase, linkVars, vars, writeVars>>

-----------------------------------------------------------------------------
(* _hop_from_collection, _hops_for_then: each hop of a chain starts at the    *)
(* model the one before ends at, and is what the link resolved there.        *)
NoModel == "no model"
HopInfo(model, hop) == reg.tables[model].relationships[hop.rel]
IsHopOf(model, hop) ==
  /\ model \in DOMAIN reg.tables /\ hop.rel \in DOMAIN reg.tables[model].relationships
  /\ hop.kind = HopInfo(model, hop).kind /\ hop.width = Len(HopInfo(model, hop).pairs)
Prefetches(chain) ==
  LET model[l \in 0..Len(chain)] ==
        IF l = 0 THEN Queried
        ELSE IF IsHopOf(model[l - 1], chain[l])
        THEN resolve_relationship(HopInfo(model[l - 1], chain[l]))
        ELSE NoModel
  IN model[Len(chain)] # NoModel

-----------------------------------------------------------------------------
ApplicationInit ==
  /\ LinkInit
  /\ phase = "importing"
  /\ fk = EmptyDict /\ bridge = EmptyDict /\ heap = <<>> /\ todo = <<>> /\ next = <<>>
  /\ at = [chain |-> 0, level |-> 1] /\ binds = 0 /\ writes = 0
  /\ engine = "none" /\ handler = "none"
  /\ committed = <<>> /\ mine = <<>> /\ counter = 0 /\ births = 0
  /\ objs = [o \in Objects |-> Unmade]
  /\ pending = Idle /\ raised = FALSE /\ last = Returned("none", {})
  /\ strayed = FALSE /\ calls = 0 /\ others = 0

Importing == phase = "importing" /\ LinkNext /\ UNCHANGED <<phase, vars, writeVars>>

Serves(n) == phase = "importing" /\ design = Served /\ outcome # "import refused" /\ links = n

(* table_of: the first write of a model that is registered.                  *)
BeginWriting ==
  /\ Serves(0) /\ Written \in DOMAIN reg.tables
  /\ phase' = "writing"
  /\ engine' \in Engines /\ handler' \in Handlers
  /\ UNCHANGED <<linkVars, vars, committed, mine, counter, births, objs, pending, raised, last,
                 strayed, calls, others>>
Writing == phase = "writing" /\ WritesNext /\ UNCHANGED <<phase, linkVars, vars>>

BeginQuery ==
  /\ Serves(1) /\ outcome = "linked"
  /\ \A n \in DOMAIN Chains : Prefetches(Chains[n])
  /\ phase' = "querying"
  /\ \E d \in Databases : fk' = d.fk /\ bridge' = d.bridge
  /\ UNCHANGED <<linkVars, heap, at, todo, next, binds, writes, writeVars>>
Querying == phase = "querying" /\ Next /\ UNCHANGED <<phase, linkVars, writeVars>>

ApplicationNext == Importing \/ BeginWriting \/ Writing \/ BeginQuery \/ Querying

ApplicationSpec == ApplicationInit /\ [][ApplicationNext]_applicationVars

-----------------------------------------------------------------------------
(* "Register everything -> link at the end" (linker.py:3): a link ends with    *)
(* the relations the files declare, and with the table of a hierarchy whole   *)
(* (Linking). Nothing after it changes what it left.                         *)
LinksAreDeclared == phase = "importing" => LinkedAsDeclared /\ FamilyTableIsWhole
=============================================================================
