------------------------------ MODULE EagerLoad ------------------------------
(***************************************************************************)
(* Eager loading of relationships (src/src/snakeorm/session/session.py,      *)
(* _run, _run_prefetch, _load_level; session/planning.py, plan_level). The   *)
(* roots are read, and then each chain the query asks for is loaded level by *)
(* level, as many statements to a level as the engine's ceiling of           *)
(* placeholders needs. Other transactions write between two statements.      *)
(*                                                                         *)
(* An object of the program is an instance: two rows read in two statements  *)
(* are two instances, also when they are the same row.                      *)
(***************************************************************************)
EXTENDS Integers, Sequences, FiniteSets, SequencesExt, Functions

CONSTANTS
  Chains,     \* the chains a query asks for: each a sequence of hops
  Roots,      \* the rows of the table the query reads
  Databases,  \* what may be in the database: foreign keys and bridges
  None,       \* a NULL
  MaxBind,    \* max_bind_params
  MaxWrites   \* bound: writes of others

ASSUME BoundsAssumption == MaxBind \in Nat \ {0} /\ MaxWrites \in Nat
ASSUME ChainsAssumption ==
  /\ Chains \in Seq(Range(Chains))
  /\ \A n \in DOMAIN Chains : Chains[n] \in Seq(Range(Chains[n])) \ {<<>>}
(* The filter of a hop leaves room for the key of one parent.               *)
ASSUME RoomAssumption ==
  \A n \in DOMAIN Chains : \A l \in DOMAIN Chains[n] : LET hop == Chains[n][l] IN
    hop.width \in Nat \ {0} /\ hop.binds \in Nat /\ hop.binds + hop.width <= MaxBind
(* A primary key is never NULL, and tables are finite.                      *)
ASSUME RowsAssumption ==
  /\ IsFiniteSet(Roots) /\ None \notin Roots
  /\ \A n \in DOMAIN Chains : \A l \in DOMAIN Chains[n] : LET hop == Chains[n][l] IN
       /\ hop.kind \in {"to_many", "to_one", "to_many_through"} /\ None \notin hop.rows
       /\ \A d \in Databases :
            /\ hop.kind = "to_many" =>
                 /\ hop.rel \in DOMAIN d.fk
                 /\ IsFiniteSet(DOMAIN d.fk[hop.rel]) /\ None \notin DOMAIN d.fk[hop.rel]
            /\ hop.kind = "to_many_through" =>
                 /\ hop.rel \in DOMAIN d.bridge /\ IsFiniteSet(d.bridge[hop.rel])
                 /\ \A p \in d.bridge[hop.rel] : p = <<p[1], p[2]>> /\ p[2] # None

VARIABLES
  fk,      \* of each relationship over a foreign key, what each owning row points at
  bridge,  \* of each one through a bridge, its pairs
  heap,    \* the instances, in the order they were made
  at,      \* which chain and level is being loaded; chain 0 before the roots are read
  todo,    \* the parents of the level that have not been loaded
  next,    \* the children loaded at this level
  binds,   \* the placeholders of the last statement
  writes   \* writes of others so far

database == <<fk, bridge, writes>>
vars == <<database, heap, at, todo, next, binds>>

-----------------------------------------------------------------------------
Chain == Chains[at.chain]
Hop == Chain[at.level]

(* An instance of a row, with what it has been given: of each relationship  *)
(* that is loaded, the instances. Of a foreign key, the row that has it is  *)
(* the child of a to-many and the parent of a to-one.                       *)
Row(i) == [id |-> i,
           fk |-> [r \in {q \in DOMAIN fk : i \in DOMAIN fk[q]} |-> fk[r][i]],
           has |-> <<>>]

(* The key of a parent in a hop, as the instance has it.                     *)
KeyOf(p, hop) == IF hop.kind = "to_one" THEN heap[p].fk[hop.rel] ELSE heap[p].id

(* The keys of some parents, and how many of them a statement names: one per *)
(* parent that has one; of a to-one, one per value.                          *)
parent_keys(parents, hop) == {KeyOf(todo[i], hop) : i \in parents} \ {None}
Named(parents, hop) ==
  IF hop.kind = "to_one" THEN Cardinality(parent_keys(parents, hop))
  ELSE Cardinality({i \in parents : KeyOf(todo[i], hop) # None})

-----------------------------------------------------------------------------
Larger(a, b) == IF a > b THEN a ELSE b

(* Mutant: the placeholders of the filter are not counted.                  *)
ForgetsTheFilter(hop) == Larger(1, MaxBind \div hop.width)

(* planning.py, parents_per_batch.                                          *)
parents_per_batch(hop) == Larger(1, (MaxBind - hop.binds) \div hop.width)

(* What a statement of the level brings back, as pairs of the key it is      *)
(* grouped by and the row: in whatever order. Through a bridge the filter of *)
(* the hop is not in the statement.                                         *)
emit_select(keys, hop) ==
  CASE hop.kind = "to_many" ->
         {<<fk[hop.rel][c], c>> : c \in {c \in DOMAIN fk[hop.rel] :
            fk[hop.rel][c] \in keys /\ c \in hop.filter}}
    [] hop.kind = "to_one" -> {<<c, c>> : c \in keys \cap hop.filter \cap hop.rows}
    [] hop.kind = "to_many_through" -> {p \in bridge[hop.rel] : p[1] \in keys}

Spent(named, hop) ==
  named * hop.width + (IF hop.kind = "to_many_through" THEN 0 ELSE hop.binds)

Given(object, rel, found) ==
  [object EXCEPT !.has =
     [q \in DOMAIN object.has \cup {rel} |-> IF q = rel THEN found ELSE object.has[q]]]
Of(children, key) == {c.at : c \in {d \in children : d.key = key}}

(* Mutant: a parent with nothing to its name is left as it was.              *)
AttachToThoseWithChildren(parents, children, hop) ==
  [i \in DOMAIN heap |->
     IF i \in parents /\ Of(children, KeyOf(i, hop)) # {}
     THEN Given(heap[i], hop.rel, Of(children, KeyOf(i, hop)))
     ELSE heap[i]]

(* attach: every parent of the batch is given its children, or none.        *)
Attached(parents, children, hop) ==
  [i \in DOMAIN heap |->
     IF i \in parents THEN Given(heap[i], hop.rel, Of(children, KeyOf(i, hop))) ELSE heap[i]]

-----------------------------------------------------------------------------
Init ==
  /\ \E d \in Databases : fk = d.fk /\ bridge = d.bridge
  /\ heap = <<>> /\ todo = <<>> /\ next = <<>>
  /\ at = [chain |-> 0, level |-> 1]
  /\ binds = 0 /\ writes = 0

Indices(n, m) == [i \in 1..(m - n) |-> n + i]
RootsRead == Indices(0, Cardinality(Roots))

(* The statement of the query itself.                                       *)
LoadRoots ==
  /\ at.chain = 0
  /\ heap' = [i \in 1..Cardinality(Roots) |-> Row(SetToSeq(Roots)[i])]
  /\ at' = [chain |-> 1, level |-> 1]
  /\ todo' = RootsRead
  /\ UNCHANGED <<database, next, binds>>

Loading == at.chain \in DOMAIN Chains

(* One batch of a level. Where no parent has a key nothing is asked.        *)
LoadBatch ==
  /\ Loading /\ todo # <<>>
  /\ LET size == parents_per_batch(Hop)
         parents == {i \in 1..size : i \in DOMAIN todo}
         keys == parent_keys(parents, Hop)
         rows == SetToSeq(emit_select(keys, Hop))
         children == {[key |-> rows[i][1], at |-> Len(heap) + i] : i \in DOMAIN rows}
     IN /\ todo' = SubSeq(todo, size + 1, Len(todo))
        /\ heap' = Attached({todo[i] : i \in parents}, children, Hop)
                     \o [i \in DOMAIN rows |-> Row(rows[i][2])]
        /\ next' = next \o Indices(Len(heap), Len(heap) + Len(rows))
        /\ binds' = IF keys = {} THEN binds ELSE Spent(Named(parents, Hop), Hop)
  /\ UNCHANGED <<database, at>>

(* The children of a level are the parents of the next.                     *)
NextLevel ==
  /\ Loading /\ todo = <<>> /\ next # <<>> /\ at.level < Len(Chain)
  /\ at' = [at EXCEPT !.level = @ + 1]
  /\ todo' = next /\ next' = <<>>
  /\ UNCHANGED <<database, heap, binds>>

NextChain ==
  /\ Loading /\ todo = <<>> /\ (next = <<>> \/ at.level = Len(Chain))
  /\ at' = [chain |-> at.chain + 1, level |-> 1]
  /\ todo' = RootsRead /\ next' = <<>>
  /\ UNCHANGED <<database, heap, binds>>

(* Another transaction moves a row, or changes a bridge.                    *)
MovesRow ==
  \E r \in DOMAIN fk : \E i \in DOMAIN fk[r] : \E to \in Range(fk[r]) \cup {None} :
    fk' = [fk EXCEPT ![r][i] = to] /\ UNCHANGED bridge
ChangesBridge ==
  \E r \in DOMAIN bridge : \E p \in bridge[r] :
    bridge' = [bridge EXCEPT ![r] = @ \ {p}] /\ UNCHANGED fk
Write ==
  /\ Loading /\ writes < MaxWrites
  /\ writes' = writes + 1
  /\ MovesRow \/ ChangesBridge
  /\ UNCHANGED <<heap, at, todo, next, binds>>

Next == LoadRoots \/ LoadBatch \/ NextLevel \/ NextChain \/ Write

Spec == Init /\ [][Next]_vars

-----------------------------------------------------------------------------
Loaded == at.chain > Len(Chains)

(* The instances a program reaches from the roots along a chain.            *)
Has(i, rel) == IF rel \in DOMAIN heap[i].has THEN heap[i].has[rel] ELSE {}
Reached(chain) ==
  LET reach[l \in 0..Len(chain)] ==
        IF l = 0 THEN ToSet(RootsRead)
        ELSE UNION {Has(i, chain[l].rel) : i \in reach[l - 1]}
  IN reach

(* The children of a row by the database, one for every row of the answer.  *)
ChildrenOf(i, hop) ==
  LET key == KeyOf(i, hop) IN
    CASE hop.kind = "to_many" -> {c \in hop.filter \cap DOMAIN fk[hop.rel] : fk[hop.rel][c] = key}
      [] hop.kind = "to_one" -> {key} \cap hop.filter \cap hop.rows
      [] hop.kind = "to_many_through" -> {c \in hop.filter : <<key, c>> \in bridge[hop.rel]}

NamesItsParent(c, i, hop) ==
  CASE hop.kind = "to_many" -> heap[c].fk[hop.rel] = KeyOf(i, hop)
    [] hop.kind = "to_one" -> heap[c].id = KeyOf(i, hop)
    [] hop.kind = "to_many_through" -> TRUE

Answered(i, hop) ==
  /\ hop.rel \in DOMAIN heap[i].has
  /\ LET found == heap[i].has[hop.rel] IN
       /\ \A c \in found : NamesItsParent(c, i, hop)
       /\ \A c, d \in found : heap[c].id = heap[d].id => c = d
       /\ writes = 0 => {heap[c].id : c \in found} = ChildrenOf(i, hop)

(* What the promise below needs of a query: no relation of the roots twice,   *)
(* and no filter on a bridge, which would not be in its statement.          *)
AskedOnce == \A m, n \in DOMAIN Chains : Chains[m][1].rel = Chains[n][1].rel => m = n
BridgesAreWhole ==
  \A n \in DOMAIN Chains : \A l \in DOMAIN Chains[n] : LET hop == Chains[n][l] IN
    hop.kind = "to_many_through" => \A d \in Databases : \A p \in d.bridge[hop.rel] : p[2] \in hop.filter

(* "Every parent falls in exactly one batch, so attach assigns it its list   *)
(* exactly once" (session.py:379): every object reached along a chain has    *)
(* that relationship loaded, with objects that name it, each row once; and    *)
(* with all of those rows when nobody wrote meanwhile.                       *)
EveryParentIsAnswered ==
  Loaded => \A n \in DOMAIN Chains : \A l \in DOMAIN Chains[n] :
    \A i \in Reached(Chains[n])[l - 1] : Answered(i, Chains[n][l])

(* "How many parents fit in ONE select-in without overshooting the engine's  *)
(* placeholder ceiling" (planning.py:494).                                  *)
WithinTheCeiling == binds <= MaxBind

(* "Narrow WHICH CHILDREN get loaded at the CURRENT level" (fields/          *)
(* relationship.py:634): no object is loaded by a hop whose filter it does   *)
(* not pass. Through a bridge the filter is accepted and left out.          *)
FiltersNarrow ==
  Loaded => \A n \in DOMAIN Chains : \A l \in DOMAIN Chains[n] :
    \A i \in Reached(Chains[n])[l - 1] :
      {heap[c].id : c \in Has(i, Chains[n][l].rel)} \subseteq Chains[n][l].filter
=============================================================================
