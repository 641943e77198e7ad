---------------------------- MODULE MigrationLog ----------------------------
(***************************************************************************)
(* What the migration runner promises on an engine with transactional DDL: *)
(* the database moves by whole migrations. One step applies every operation*)
(* of one file and records it, or marks a squash whose originals are all   *)
(* recorded, or reverts every operation of one file and forgets it.        *)
(***************************************************************************)
EXTENDS MigrationHistory

VARIABLES files, schema, tracked

Init == schema = NoSchema /\ tracked = {}

(* The operations run one after the other, each on what the others left.    *)
Runs(s, ops) == FoldLeft(Executed, s, ops)
Accepted(s, ops) == \A i \in DOMAIN ops : Accepts(Runs(s, SubSeq(ops, 1, i - 1)), ops[i])
Undoing(ops) == [i \in DOMAIN ops |-> Undone(ops[Len(ops) + 1 - i])]

Apply(m) ==
  /\ m.version \notin tracked
  /\ Accepted(schema, m.operations)
  /\ schema' = Runs(schema, m.operations)
  /\ tracked' = tracked \cup {m.version}

Mark(m) ==
  /\ m.version \notin tracked /\ m.replaces # {} /\ m.replaces \subseteq tracked
  /\ tracked' = tracked \cup {m.version}
  /\ UNCHANGED schema

Revert(m) ==
  /\ m.version \in tracked
  /\ Accepted(schema, Undoing(m.operations))
  /\ schema' = Runs(schema, Undoing(m.operations))
  /\ tracked' = tracked \ {m.version}

Next == \E m \in Range(files) : Apply(m) \/ Mark(m) \/ Revert(m)

Spec == Init /\ [][Next]_<<schema, tracked>>
=============================================================================
