--------------------------- MODULE AsyncSessionProofs ---------------------------
(***************************************************************************)
(* A unit of work is in the database whole or not at all, a commit that was  *)
(* answered stays, and the engine's transaction is what the program believes *)
(* it is: for any units, nestings, writes and cancellations, while the       *)
(* rollback of the session is not cancelled itself, no timeout that the       *)
(* program catches is around a savepoint block, and the engine ends no        *)
(* transaction by itself. (Without each of these it is not so.)              *)
(***************************************************************************)
EXTENDS AsyncSession, SequenceTheorems, WellFoundedInduction, TLAPS

(* Rows by their unit of work and number, and what is written of them.      *)
AllRows == Nat \X Nat
Marks == [name : Nat, rows : SUBSET AllRows]
Transactions == [open : BOOLEAN, rows : SUBSET AllRows, marks : Seq(Marks)]
Blocks == [name : Nat, sure : SUBSET AllRows, maybe : SUBSET AllRows]
Promises == [sure : SUBSET AllRows, maybe : SUBSET AllRows, told : BOOLEAN]
WorkOK(w) ==
  /\ w = [call |-> w.call, arg |-> w.arg, cancels |-> w.cancels] /\ w.call \in Calls
  /\ w.call = "write" => w.arg \in AllRows /\ w.arg[1] \in 1..unit
  /\ w.call \in {"savepoint", "release", "rollback_to"} => w.arg \in Nat
Typed ==
  /\ tx \in Transactions /\ in_tx \in BOOLEAN /\ db \in SUBSET AllRows
  /\ blocks \in Seq(Blocks) /\ depth \in Nat
  /\ unit \in 0..MaxUnits /\ writes \in Nat /\ cancels \in Nat
  /\ sure \in SUBSET AllRows /\ maybe \in SUBSET AllRows /\ promised \in [1..MaxUnits -> Promises]
  /\ running = [t \in Workers |-> running[t]] /\ raising = Raised(raising.what, raising.from)
  /\ at \in {"out", "in", "await", "raise"} /\ answer \in {"none", "ok", "error"}

(* The one thread is at nothing, at what the task awaits, or at a work that *)
(* outlived its await; only what is awaited can be in the queue.            *)
Thread == running[1]
Stale == Thread # NoWork /\ Thread # waits
InLine ==
  /\ at # "await" => waits = NoWork /\ queue = <<>> /\ answer = "none"
  /\ at = "await" => WorkOK(waits) /\ waits.cancels = cancels
  /\ at = "await" /\ answer = "none" => IF Thread = waits THEN queue = <<>> ELSE queue = <<waits>>
  /\ answer # "none" => queue = <<>> /\ Thread = NoWork
  /\ Stale => WorkOK(Thread) /\ Thread.cancels \in Nat /\ Thread.cancels < cancels

(* Where the task is, and what it awaits there.                             *)
Placed ==
  /\ at \in {"out", "in"} => raising = NoRaise
  /\ at = "out" => blocks = <<>>
  /\ at # "out" => unit >= 1
  /\ at = "raise" => raising.what \in {"error", "cancel"}
  /\ at = "await" /\ waits.call \notin {"rollback", "rollback_to"} => raising = NoRaise
  /\ waits.call = "rollback_to" => raising.what = "error"
  /\ waits.call = "write" => waits.arg[1] = unit
  /\ waits.call = "savepoint" => waits.arg = depth /\ depth > 0 /\ \A i \in 1..Len(blocks) : blocks[i].name < depth
  /\ waits.call \in {"release", "rollback_to"} => blocks # <<>> /\ waits.arg = Last(blocks).name
  /\ waits.call \in {"commit", "rollback"} => blocks = <<>>
  /\ waits.call = "commit" => promised[unit].sure = sure /\ promised[unit].maybe = maybe /\ ~promised[unit].told
  /\ answer = "error" => waits.call = "write"

NamesGrow ==
  /\ \A i \in 1..Len(blocks) : blocks[i].name <= depth /\ blocks[i].name > 0
  /\ \A i, j \in 1..Len(blocks) : i < j => blocks[i].name < blocks[j].name
EngineAgrees == (in_tx <=> tx.open) /\ (~tx.open => tx = NoTransaction)

(* A cancellation that has left a block goes all the way to the rollback;   *)
(* a unit that was told of its commit, or stopped waiting for it, is done.  *)
Lost == raising = Raised("cancel", "block") \/ waits.call = "rollback"
Done == at = "out" \/ (waits.call = "commit" /\ answer = "ok")
Live == ~Lost /\ ~Done
Ended(u) == u # unit \/ Done
RolledBack == waits.call \in {"commit", "rollback"} /\ answer = "ok" => tx = NoTransaction

(* What the unit's rows are, and what the task will believe of them, once   *)
(* it has the answer that is there.                                         *)
Of(u, rows) == {row \in rows : row[1] = u}
Others(rows) == {row \in rows : row[1] # unit}
Got(call) == answer = "ok" /\ waits.call \in call
Sure == IF Got({"write"}) THEN sure \cup {waits.arg} ELSE IF Got({"rollback_to"}) THEN Last(blocks).sure ELSE sure
Maybe == IF Got({"write"}) THEN maybe \cup {waits.arg} ELSE IF Got({"rollback_to"}) THEN Last(blocks).maybe ELSE maybe
In == IF Got({"savepoint"}) THEN Append(blocks, Block(waits.arg))
      ELSE IF Got({"release", "rollback_to"}) THEN Front(blocks) ELSE blocks

(* Position p holds the newest savepoint of the name of the block, with the *)
(* rows there were when it was entered.                                     *)
IsOf(p, b) ==
  /\ p \in 1..Len(tx.marks) /\ tx.marks[p].name = b.name
  /\ \A q \in 1..Len(tx.marks) : q > p => tx.marks[q].name # b.name
  /\ b.sure \subseteq Of(unit, tx.marks[p].rows) /\ Of(unit, tx.marks[p].rows) \subseteq b.maybe
  /\ Others(tx.marks[p].rows) = Others(tx.rows)
BlocksHaveMarks(bs) ==
  /\ \A i \in 1..Len(bs) : \E p \in 1..Len(tx.marks) : IsOf(p, bs[i])
  /\ \A i, j \in 1..Len(bs) : i < j => \A p, q \in 1..Len(tx.marks) : IsOf(p, bs[i]) /\ IsOf(q, bs[j]) => p < q
Belief ==
  Live => /\ Sure \subseteq Of(unit, tx.rows) /\ Of(unit, tx.rows) \subseteq Maybe
          /\ \A bs \in {In} : BlocksHaveMarks(bs)

(* What a unit that ended without its commit has left in the transaction.   *)
Left(u) ==
  /\ promised[u].sure \subseteq Of(u, tx.rows) /\ Of(u, tx.rows) \subseteq promised[u].maybe
  /\ Of(u, db) = {}
OldWrite == Stale /\ Thread.call = "write" /\ Ended(Thread.arg[1])
OwnWrite == Stale /\ Thread.call = "write" /\ ~Ended(Thread.arg[1])
OldCommit == Stale /\ Thread.call = "commit"
Outlived ==
  /\ Stale /\ Thread.call \notin {"write", "commit"} => Lost
  /\ OwnWrite /\ Live => Thread.arg \in maybe
  /\ OldWrite /\ ~Lost => Left(Thread.arg[1]) /\ Thread.arg \in promised[Thread.arg[1]].maybe /\ blocks = <<>>
  /\ OldCommit => (~Done => Of(unit, tx.rows) = {}) /\ (~Lost => blocks = <<>>)
Leftovers == ~Lost \/ OldCommit => \A u \in 1..unit : Ended(u) /\ Of(u, tx.rows) # {} => Left(u)

Known(rows) == \A row \in rows : row[1] \in 1..unit
Whole ==
  /\ Known(tx.rows) /\ Known(db) /\ \A p \in 1..Len(tx.marks) : Known(tx.marks[p].rows)
  /\ \A u \in 1..unit : Of(u, db) # {} =>
       Ended(u) /\ promised[u].sure \subseteq Of(u, db) /\ Of(u, db) \subseteq promised[u].maybe
Durable ==
  /\ CommitIsDurable
  /\ Got({"commit"}) => promised[unit].sure \subseteq db

Inv == /\ Typed /\ InLine /\ Placed /\ NamesGrow /\ EngineAgrees /\ RolledBack /\ Belief /\ Outlived
       /\ Leftovers /\ Whole /\ Durable

-----------------------------------------------------------------------------
(* What cancellations, timeouts and refusals there are.                     *)
Allowed == "rollback" \notin Cancels /\ "block" \notin Catches /\ ~EngineEnds

LEMMA OneThread == Workers = {1}
  BY DEF Workers, MaxWorkers

LEMMA NothingFacts ==
  /\ NoTransaction \in Transactions
  /\ ~NoTransaction.open /\ NoTransaction.rows = {} /\ NoTransaction.marks = <<>>
<1>1. <<>> \in Seq(Marks)
  OBVIOUS
<1> QED BY <1>1 DEF Transactions, NoTransaction

LEMMA NoWorkFacts ==
  /\ NoWork.call = "none" /\ NoRaise.what = "none" /\ NoRaise = Raised("none", "none")
  /\ \A w : WorkOK(w) => w # NoWork
<1>1. NoWork.call = "none" /\ NoRaise.what = "none" /\ NoRaise = Raised("none", "none")
  BY DEF NoWork, NoRaise, Raised
<1>2. ASSUME NEW w, WorkOK(w) PROVE w # NoWork
  <2>1. w.call \in Calls /\ "none" \notin Calls
    BY <1>2 DEF WorkOK, Calls
  <2> QED BY <1>1, <2>1
<1> QED BY <1>1, <1>2

LEMMA InitInv == Init => Inv
<1> SUFFICES ASSUME Init PROVE Inv
  OBVIOUS
<1>1. /\ tx = NoTransaction /\ blocks = <<>> /\ depth = 0 /\ in_tx = FALSE /\ db = {} /\ queue = <<>>
      /\ running = [t \in Workers |-> NoWork] /\ at = "out" /\ waits = NoWork /\ answer = "none"
      /\ raising = NoRaise /\ unit = 0 /\ sure = {} /\ maybe = {} /\ writes = 0 /\ cancels = 0
      /\ promised = [u \in 1..MaxUnits |-> Promise({}, {}, FALSE)]
  BY DEF Init
<1>2. Thread = NoWork /\ ~Stale /\ MaxUnits \in Nat /\ Len(blocks) = 0 /\ Len(tx.marks) = 0
  BY <1>1, OneThread, NothingFacts, BoundsAssumption DEF Thread, Stale
<1>3. Typed
  <2>1. <<>> \in Seq(Blocks) /\ 0 \in 0..MaxUnits /\ {} \in SUBSET AllRows
    BY <1>2
  <2>2. promised \in [1..MaxUnits -> Promises]
    BY <1>1 DEF Promises, Promise
  <2>3. raising = Raised(raising.what, raising.from)
    BY <1>1 DEF NoRaise, Raised
  <2> QED BY <1>1, <2>1, <2>2, <2>3, NothingFacts DEF Typed
<1>4. InLine /\ Placed /\ NamesGrow /\ EngineAgrees /\ RolledBack
  BY <1>1, <1>2, NothingFacts, NoWorkFacts DEF InLine, Placed, NamesGrow, EngineAgrees, RolledBack
<1>5. Belief /\ Outlived
  BY <1>1, <1>2 DEF Belief, Live, Done, Outlived, OwnWrite, OldWrite, OldCommit
<1>6. Leftovers /\ Whole
  BY <1>1, <1>2, NothingFacts DEF Leftovers, Whole, Known, Of
<1>7. Durable
  <2>1. \A u \in 1..MaxUnits : ~promised[u].told
    BY <1>1 DEF Promise
  <2> QED BY <1>1, <2>1 DEF Durable, CommitIsDurable, Got
<1> QED BY <1>3, <1>4, <1>5, <1>6, <1>7 DEF Inv

-----------------------------------------------------------------------------
(* Sequences of savepoints.                                                *)
LEMMA CutFacts ==
  ASSUME NEW S, NEW s \in Seq(S), NEW n \in 0..Len(s)
  PROVE  /\ SubSeq(s, 1, n) \in Seq(S) /\ Len(SubSeq(s, 1, n)) = n
         /\ \A i \in 1..n : SubSeq(s, 1, n)[i] = s[i]
<1>1. Len(s) \in Nat /\ n \in Int /\ 1 \in Int /\ n >= 0 /\ \A i \in 1..n : s[i] \in S
  OBVIOUS
<1>2. /\ SubSeq(s, 1, n) \in Seq(S)
      /\ Len(SubSeq(s, 1, n)) = IF 1 <= n THEN n - 1 + 1 ELSE 0
      /\ \A i \in 1..(n - 1 + 1) : SubSeq(s, 1, n)[i] = s[1 + i - 1]
  BY <1>1, SubSeqProperties
<1> QED BY <1>1, <1>2

LEMMA FrontFacts ==
  ASSUME NEW S, NEW s \in Seq(S), s # <<>>
  PROVE  /\ Front(s) \in Seq(S) /\ Len(s) \in Nat \ {0} /\ Len(Front(s)) = Len(s) - 1
         /\ \A i \in 1..(Len(s) - 1) : Front(s)[i] = s[i]
         /\ Last(s) = s[Len(s)] /\ Last(s) \in S
<1>1. Len(s) \in Nat \ {0}
  BY EmptySeq, LenProperties
<1>2. Last(s) = s[Len(s)] /\ Last(s) \in S
  BY <1>1 DEF Last
<1>3. Len(s) - 1 \in 0..Len(s)
  BY <1>1
<1> QED BY <1>1, <1>2, <1>3, CutFacts DEF Front

LEMMA BegunFacts ==
  ASSUME Typed, EngineAgrees
  PROVE  /\ Begun = [open |-> TRUE, rows |-> tx.rows, marks |-> tx.marks] /\ Begun \in Transactions
         /\ tx.rows \in SUBSET AllRows /\ tx.marks \in Seq(Marks) /\ Len(tx.marks) \in Nat
         /\ \A p \in 1..Len(tx.marks) : tx.marks[p] \in Marks
<1>1. /\ tx = [open |-> tx.open, rows |-> tx.rows, marks |-> tx.marks] /\ tx.open \in BOOLEAN
      /\ tx.rows \in SUBSET AllRows /\ tx.marks \in Seq(Marks) /\ in_tx \in BOOLEAN
  BY DEF Typed, Transactions
<1>2. Begun = [open |-> TRUE, rows |-> tx.rows, marks |-> tx.marks]
  <2>1. CASE in_tx
    BY <1>1, <2>1 DEF Begun, EngineAgrees
  <2>2. CASE ~in_tx
    BY <1>1, <2>2 DEF Begun
  <2> QED BY <2>1, <2>2
<1> QED BY <1>1, <1>2 DEF Transactions

LEMMA LastMarkIs ==
  ASSUME NEW t, t.marks \in Seq(Marks), NEW n, Marked(t, n) # {}
  PROVE  /\ LastMark(t, n) \in 1..Len(t.marks) /\ t.marks[LastMark(t, n)].name = n
         /\ \A q \in 1..Len(t.marks) : q > LastMark(t, n) => t.marks[q].name # n
<1>1. Len(t.marks) \in Nat /\ DOMAIN t.marks = 1..Len(t.marks)
  OBVIOUS
<1> DEFINE N == Marked(t, n)
           Above == {b \in Nat : \A q \in N : q <= b}
<1>2. N = {q \in 1..Len(t.marks) : t.marks[q].name = n}
  BY <1>1 DEF Marked
<1>6. N \subseteq Nat /\ N # {} /\ \A q \in N : q <= Len(t.marks)
  BY <1>1, <1>2
<1> HIDE DEF N
<1>3. \E i \in N : \A j \in N : j <= i
  <2>1. Len(t.marks) \in Above
    BY <1>1, <1>6
  <2>2. PICK b \in Above : \A c \in Above : ~(<<c, b>> \in OpToRel(<, Nat))
    <3>1. IsWellFoundedOn(OpToRel(<, Nat), Nat)
      BY NatLessThanWellFounded
    <3> QED BY <2>1, <3>1, WFMin
  <2>3. \A c \in Above : ~(c < b)
    BY <2>2 DEF OpToRel
  <2>4. b \in N
    <3>1. SUFFICES ASSUME b \notin N PROVE FALSE
      OBVIOUS
    <3>2. b \in Nat /\ \A r \in N : r \in Nat /\ r <= b /\ r # b
      BY <1>6, <2>2, <3>1
    <3>6. PICK q \in N : TRUE
      BY <1>6
    <3>5. q \in Nat /\ q < b
      BY <3>2, <3>6
    <3>3. b - 1 \in Nat
      BY <3>2, <3>5
    <3>4. \A r \in N : r <= b - 1
      BY <3>2
    <3> QED BY <2>3, <3>3, <3>4
  <2> QED BY <2>2, <2>4
<1>4. LastMark(t, n) \in N /\ \A j \in N : j <= LastMark(t, n)
  BY <1>3 DEF LastMark, N
<1> QED BY <1>1, <1>2, <1>4

(* What each call does, in a transaction that it may be the one to open.    *)
LEMMA EngineDoes ==
  ASSUME Typed, EngineAgrees, ~EngineEnds, NEW w, WorkOK(w), NEW ok \in BOOLEAN, Executes(w, ok)
  PROVE  /\ w.call = "write" =>
              /\ db' = db /\ tx'.marks = tx.marks
              /\ tx'.rows = IF ok THEN tx.rows \cup {w.arg} ELSE tx.rows
         /\ w.call = "savepoint" =>
              /\ ok /\ db' = db /\ tx'.rows = tx.rows
              /\ tx'.marks = Append(tx.marks, Mark(w.arg, tx.rows))
         /\ w.call \in {"release", "rollback_to"} =>
              /\ db' = db
              /\ (\E p \in 1..Len(tx.marks) : tx.marks[p].name = w.arg) => ok
              /\ ~ok => tx'.rows = tx.rows /\ tx'.marks = tx.marks
              /\ ok => \E i \in 1..Len(tx.marks) :
                         /\ tx.marks[i].name = w.arg
                         /\ \A q \in 1..Len(tx.marks) : q > i => tx.marks[q].name # w.arg
                         /\ w.call = "release" =>
                              tx'.rows = tx.rows /\ tx'.marks = SubSeq(tx.marks, 1, i - 1)
                         /\ w.call = "rollback_to" =>
                              tx'.rows = tx.marks[i].rows /\ tx'.marks = SubSeq(tx.marks, 1, i)
         /\ w.call \in {"commit", "rollback"} =>
              /\ ok /\ tx' = NoTransaction /\ ~in_tx'
              /\ db' = IF w.call = "commit" THEN db \cup tx.rows ELSE db
         /\ w.call \notin {"commit", "rollback"} => in_tx' /\ tx'.open
         /\ tx' \in Transactions /\ in_tx' \in BOOLEAN /\ EngineAgrees'
<1>1. /\ tx \in Transactions /\ in_tx \in BOOLEAN /\ tx.open \in BOOLEAN
      /\ w.call \in Calls /\ (w.call = "write" => w.arg \in AllRows)
      /\ (w.call \in {"savepoint", "release", "rollback_to"} => w.arg \in Nat)
  BY DEF Typed, WorkOK, Transactions
<1> DEFINE b == Begun
<1>2. /\ b = [open |-> TRUE, rows |-> tx.rows, marks |-> tx.marks] /\ b \in Transactions
      /\ tx.rows \in SUBSET AllRows /\ tx.marks \in Seq(Marks) /\ Len(tx.marks) \in Nat
      /\ \A p \in 1..Len(tx.marks) : tx.marks[p] \in Marks
  BY BegunFacts
<1> HIDE DEF b
<1>3. b.open = TRUE /\ b.rows = tx.rows /\ b.marks = tx.marks
  BY <1>2
<1>8. b = [open |-> TRUE, rows |-> tx.rows, marks |-> tx.marks]
  BY <1>2
<1>4. CASE w.call = "write"
  <2>1. /\ in_tx' = TRUE /\ db' = db
        /\ ok => tx' = [b EXCEPT !.rows = @ \cup {w.arg}]
        /\ ~ok => tx' = b
    BY <1>3, <1>4 DEF Executes, b
  <2>2. CASE ok
    <3>1. tx' = [open |-> TRUE, rows |-> tx.rows \cup {w.arg}, marks |-> tx.marks]
      BY <1>2, <2>1, <2>2
    <3>2. tx' \in Transactions
      BY <1>1, <1>2, <1>4, <3>1 DEF Transactions
    <3> QED BY <1>4, <2>1, <2>2, <3>1, <3>2 DEF EngineAgrees
  <2>3. CASE ~ok
    <3>1. tx' \in Transactions /\ tx'.open /\ tx'.rows = tx.rows /\ tx'.marks = tx.marks
      BY <1>2, <1>3, <2>1, <2>3
    <3>2. EngineAgrees'
      BY <2>1, <3>1 DEF EngineAgrees
    <3> QED BY <1>4, <2>1, <2>3, <3>1, <3>2
  <2> QED BY <2>2, <2>3
<1>5. CASE w.call = "savepoint"
  <2>1. /\ ok /\ in_tx' = TRUE /\ db' = db
        /\ tx' = [b EXCEPT !.open = TRUE, !.marks = Append(@, Mark(w.arg, tx.rows))]
    BY <1>5 DEF Executes, b
  <2>2. tx' = [open |-> TRUE, rows |-> tx.rows, marks |-> Append(tx.marks, Mark(w.arg, tx.rows))]
    BY <1>2, <2>1
  <2>3. Mark(w.arg, tx.rows) \in Marks
    BY <1>1, <1>2, <1>5 DEF Mark, Marks
  <2>4. tx' \in Transactions
    BY <1>2, <2>2, <2>3, AppendProperties DEF Transactions
  <2>5. EngineAgrees' /\ tx'.open
    BY <2>1, <2>2 DEF EngineAgrees
  <2>6. tx'.rows = tx.rows /\ tx'.marks = Append(tx.marks, Mark(w.arg, tx.rows))
    BY <2>2
  <2> QED BY <1>5, <2>1, <2>4, <2>5, <2>6, Zenon
<1>6. CASE w.call \in {"release", "rollback_to"}
  <2> DEFINE i == LastMark(b, w.arg)
  <2>1. /\ in_tx' = TRUE /\ db' = db /\ ok = (Marked(b, w.arg) # {})
        /\ tx' = IF ~ok THEN b
                 ELSE IF w.call = "release" THEN [b EXCEPT !.marks = SubSeq(@, 1, i - 1)]
                 ELSE [b EXCEPT !.rows = tx.marks[i].rows, !.marks = SubSeq(@, 1, i)]
    BY <1>6 DEF Executes, b
  <2>5. DOMAIN b.marks = 1..Len(tx.marks)
    BY <1>2, <1>3
  <2>2. (\E p \in 1..Len(tx.marks) : tx.marks[p].name = w.arg) => ok
    BY <1>2, <1>3, <2>1, <2>5 DEF Marked
  <2>3. CASE ~ok
    BY <1>2, <1>6, <2>1, <2>2, <2>3 DEF EngineAgrees
  <2>4. CASE ok
    <3>8. Marked(b, w.arg) # {} /\ b.marks \in Seq(Marks)
      BY <1>2, <1>3, <2>1, <2>4
    <3>1. /\ i \in 1..Len(tx.marks) /\ tx.marks[i].name = w.arg
          /\ \A q \in 1..Len(tx.marks) : q > i => tx.marks[q].name # w.arg
      BY <1>3, <3>8, LastMarkIs
    <3> HIDE DEF i
    <3>2. i - 1 \in 0..Len(tx.marks) /\ i \in 0..Len(tx.marks)
      BY <1>2, <3>1
    <3>3. SubSeq(tx.marks, 1, i - 1) \in Seq(Marks) /\ SubSeq(tx.marks, 1, i) \in Seq(Marks)
      BY <1>2, <3>2, CutFacts
    <3>4. tx' = IF w.call = "release"
                THEN [open |-> TRUE, rows |-> tx.rows, marks |-> SubSeq(tx.marks, 1, i - 1)]
                ELSE [open |-> TRUE, rows |-> tx.marks[i].rows, marks |-> SubSeq(tx.marks, 1, i)]
      <4>1. tx' = IF w.call = "release" THEN [b EXCEPT !.marks = SubSeq(b.marks, 1, i - 1)]
                  ELSE [b EXCEPT !.rows = tx.marks[i].rows, !.marks = SubSeq(b.marks, 1, i)]
        BY <2>1, <2>4, Zenon
      <4>2. CASE w.call = "release"
        <5>1. tx' = [b EXCEPT !.marks = SubSeq(tx.marks, 1, i - 1)]
          BY <1>3, <4>1, <4>2, Zenon
        <5>2. tx' = [open |-> TRUE, rows |-> tx.rows, marks |-> SubSeq(tx.marks, 1, i - 1)]
          BY <1>8, <5>1
        <5> QED BY <4>2, <5>2, Zenon
      <4>3. CASE w.call # "release"
        <5>1. tx' = [b EXCEPT !.rows = tx.marks[i].rows, !.marks = SubSeq(tx.marks, 1, i)]
          BY <1>3, <4>1, <4>3, Zenon
        <5>2. tx' = [open |-> TRUE, rows |-> tx.marks[i].rows, marks |-> SubSeq(tx.marks, 1, i)]
          BY <1>8, <5>1
        <5> QED BY <4>3, <5>2, Zenon
      <4> QED BY <4>2, <4>3
    <3>5. tx.marks[i].rows \in SUBSET AllRows
      BY <1>2, <3>1 DEF Marks
    <3>6. tx' \in Transactions /\ tx'.open
      BY <1>2, <3>3, <3>4, <3>5 DEF Transactions
    <3>7. EngineAgrees'
      BY <2>1, <3>6 DEF EngineAgrees
    <3>9. \E k \in 1..Len(tx.marks) :
            /\ tx.marks[k].name = w.arg
            /\ \A q \in 1..Len(tx.marks) : q > k => tx.marks[q].name # w.arg
            /\ w.call = "release" => tx'.rows = tx.rows /\ tx'.marks = SubSeq(tx.marks, 1, k - 1)
            /\ w.call = "rollback_to" => tx'.rows = tx.marks[k].rows /\ tx'.marks = SubSeq(tx.marks, 1, k)
      <4>1. w.call = "release" => tx'.rows = tx.rows /\ tx'.marks = SubSeq(tx.marks, 1, i - 1)
        BY <3>4
      <4>2. w.call = "rollback_to" => tx'.rows = tx.marks[i].rows /\ tx'.marks = SubSeq(tx.marks, 1, i)
        BY <3>4
      <4> QED BY <3>1, <4>1, <4>2
    <3> QED BY <1>6, <2>1, <2>4, <3>6, <3>7, <3>9, Zenon
  <2> QED BY <2>3, <2>4
<1>7. CASE w.call \in {"commit", "rollback"}
  <2>1. /\ ok = (in_tx => tx.open) /\ in_tx' = ~ok /\ tx' = NoTransaction
        /\ db' = IF w.call = "commit" /\ in_tx THEN db \cup tx.rows ELSE db
    BY <1>7 DEF Executes
  <2>2. ok /\ ~in_tx'
    BY <2>1 DEF EngineAgrees
  <2>3. ~in_tx => tx.rows = {}
    BY NothingFacts DEF EngineAgrees
  <2>4. EngineAgrees'
    BY <2>1, <2>2, NothingFacts DEF EngineAgrees
  <2> QED BY <1>7, <2>1, <2>2, <2>3, <2>4, NothingFacts
<1> QED BY <1>1, <1>4, <1>5, <1>6, <1>7 DEF Calls

-----------------------------------------------------------------------------
(* The task. A step of it leaves the engine and the thread alone.           *)
LEMMA Unanswered ==
  /\ answer # "ok" => Sure = sure /\ Maybe = maybe /\ In = blocks
  /\ answer' # "ok" => Sure' = sure' /\ Maybe' = maybe' /\ In' = blocks'
  BY DEF Got, Sure, Maybe, In

LEMMA MarksStay ==
  ASSUME NEW bs, BlocksHaveMarks(bs), tx'.marks = tx.marks, unit' = unit,
         Others(tx.rows)' = Others(tx.rows)
  PROVE  BlocksHaveMarks(bs)'
<1>1. ASSUME NEW p, NEW b PROVE IsOf(p, b)' <=> IsOf(p, b)
  <2>1. Others(tx.marks[p].rows)' = Others(tx.marks[p].rows) /\ Of(unit, tx.marks[p].rows)' = Of(unit, tx.marks[p].rows)
    BY DEF Others, Of
  <2> QED BY <2>1 DEF IsOf
<1>2. \A i \in 1..Len(bs) : \E p \in 1..Len(tx'.marks) : IsOf(p, bs[i])'
  BY <1>1 DEF BlocksHaveMarks
<1>3. \A i, j \in 1..Len(bs) : i < j => \A p, q \in 1..Len(tx'.marks) : IsOf(p, bs[i])' /\ IsOf(q, bs[j])' => p < q
  BY <1>1 DEF BlocksHaveMarks
<1> QED BY <1>2, <1>3 DEF BlocksHaveMarks

LEMMA TaskStep ==
  ASSUME Inv, UNCHANGED <<running, in_tx, tx, db, unit>>,
         answer' # "ok", Done' <=> Done, Lost => Lost',
         Live' => Sure' \subseteq Sure /\ Maybe \subseteq Maybe' /\ maybe \subseteq maybe' /\ In' = In,
         Stale' /\ ~Lost' => blocks' = blocks,
         Stale' => \/ Stale
                   \/ /\ Thread = waits /\ ~Done /\ waits.call # "commit"
                      /\ Lost' \/ (waits.call = "write" /\ waits.arg \in maybe' /\ waits.arg[1] = unit),
         \A u \in 1..unit : Ended(u) =>
           promised'[u].sure = promised[u].sure /\ promised'[u].maybe = promised[u].maybe
  PROVE  Belief' /\ Outlived' /\ Leftovers' /\ Whole' /\ EngineAgrees' /\ RolledBack'
<1>1. /\ tx' = tx /\ db' = db /\ unit' = unit /\ in_tx' = in_tx /\ Thread' = Thread
      /\ Typed /\ InLine /\ EngineAgrees /\ Belief /\ Outlived /\ Leftovers /\ Whole
  BY DEF Inv, Thread
<1>2. \A u : Ended(u)' <=> Ended(u)
  BY <1>1 DEF Ended
<1>3. Live' => Live
  BY DEF Live
<1>4. ASSUME NEW u \in 1..unit, Ended(u) PROVE Left(u)' <=> Left(u)
  BY <1>1, <1>4 DEF Left, Of
<1>5. Belief'
  <2>1. SUFFICES ASSUME Live' PROVE Belief'
    BY DEF Belief
  <2>2. Sure \subseteq Of(unit, tx.rows) /\ Of(unit, tx.rows) \subseteq Maybe /\ \A bs \in {In} : BlocksHaveMarks(bs)
    BY <1>1, <1>3, <2>1 DEF Belief
  <2>3. Sure' \subseteq Of(unit, tx.rows)' /\ Of(unit, tx.rows)' \subseteq Maybe'
    BY <1>1, <2>1, <2>2 DEF Of
  <2>4. ASSUME NEW bs \in {In'} PROVE BlocksHaveMarks(bs)'
    <3>1. BlocksHaveMarks(bs)
      BY <2>1, <2>2, <2>4
    <3> QED BY <1>1, <3>1, MarksStay DEF Others
  <2> QED BY <2>3, <2>4 DEF Belief
<1>6. Outlived'
  <2>1. Stale' /\ Thread'.call \notin {"write", "commit"} => Lost'
    BY <1>1 DEF Outlived
  <2>2. OwnWrite' /\ Live' => Thread'.arg \in maybe'
    BY <1>1, <1>2, <1>3 DEF OwnWrite, Outlived, Live
  <2>3. ASSUME OldWrite', ~Lost'
        PROVE  (Left(Thread.arg[1]) /\ Thread.arg \in promised[Thread.arg[1]].maybe /\ blocks = <<>>)'
    <3>1. Stale' /\ Thread.call = "write" /\ Ended(Thread.arg[1])
      BY <1>1, <1>2, <2>3 DEF OldWrite
    <3>2. Stale
      BY <2>3, <3>1 DEF Ended
    <3>3. OldWrite /\ ~Lost /\ blocks' = blocks
      BY <2>3, <3>1, <3>2 DEF OldWrite
    <3>4. PICK u \in 1..unit : u = Thread.arg[1]
      BY <1>1, <3>3 DEF OldWrite, InLine, WorkOK
    <3>5. Ended(u) /\ Left(u) /\ Thread.arg \in promised[u].maybe /\ blocks = <<>>
      BY <1>1, <3>1, <3>3, <3>4 DEF Outlived
    <3>6. Left(u)' /\ u = Thread'.arg[1] /\ Thread'.arg \in promised'[u].maybe /\ blocks' = <<>>
      BY <1>1, <1>4, <3>3, <3>4, <3>5
    <3> QED BY <3>6, Zenon DEF Left, Of
  <2>4. OldCommit' => OldCommit
    BY <1>1 DEF OldCommit
  <2>5. OldCommit' => (~Done' => Of(unit', tx'.rows) = {}) /\ (~Lost' => blocks' = <<>>)
    BY <1>1, <2>4 DEF Outlived, Of, OldCommit
  <2> QED BY <2>1, <2>2, <2>3, <2>5 DEF Outlived, Left, Of
<1>7. Leftovers'
  <2>1. ~Lost' \/ OldCommit' => ~Lost \/ OldCommit
    BY <1>1 DEF OldCommit
  <2>2. SUFFICES ASSUME ~Lost' \/ OldCommit', NEW u \in 1..unit, Ended(u)', Of(u, tx.rows) # {}
                 PROVE  Left(u)'
    BY <1>1 DEF Leftovers, Of
  <2> QED BY <1>1, <1>2, <1>4, <2>1, <2>2 DEF Leftovers
<1>8. Whole'
  BY <1>1, <1>2 DEF Whole, Known, Of
<1>9. EngineAgrees' /\ RolledBack'
  BY <1>1 DEF EngineAgrees, RolledBack
<1> QED BY <1>5, <1>6, <1>7, <1>8, <1>9

LEMMA NamesAreNumbers == Typed => \A i \in 1..Len(blocks) : blocks[i] \in Blocks /\ blocks[i].name \in Nat
<1> SUFFICES ASSUME Typed, NEW i \in 1..Len(blocks) PROVE blocks[i] \in Blocks /\ blocks[i].name \in Nat
  OBVIOUS
<1>1. blocks[i] \in Blocks
  BY DEF Typed
<1> QED BY <1>1 DEF Blocks

(* A call: what is awaited is new, and the thread is not at it.              *)
LEMMA AwaitsKeeps ==
  ASSUME Inv, at \in {"in", "raise"}, NEW call \in Calls, NEW arg, Awaits(call, arg),
         call = "write" => arg \in AllRows /\ arg[1] = unit,
         call \in {"savepoint", "release", "rollback_to"} => arg \in Nat,
         UNCHANGED <<raising, blocks, sure, maybe, unit, cancels>>,
         depth' \in Nat, depth' >= depth, writes' \in Nat, promised' \in [1..MaxUnits -> Promises],
         \A u \in 1..MaxUnits : promised'[u] = promised[u] \/ (u = unit /\ ~promised'[u].told),
         Placed'
  PROVE  /\ Inv'
<1>1. /\ Typed /\ InLine /\ Placed /\ NamesGrow /\ Durable
      /\ waits = NoWork /\ queue = <<>> /\ answer = "none" /\ at # "out" /\ unit \in 1..MaxUnits
  <2>1. Typed /\ InLine /\ Placed /\ NamesGrow /\ Durable
    BY DEF Inv
  <2>2. unit >= 1 /\ unit \in 0..MaxUnits /\ MaxUnits \in Nat
    BY <2>1, BoundsAssumption DEF Placed, Typed
  <2> QED BY <2>1, <2>2 DEF InLine
<1>2. /\ waits' = [call |-> call, arg |-> arg, cancels |-> cancels] /\ queue' = <<waits'>>
      /\ at' = "await" /\ answer' = "none"
      /\ running' = running /\ in_tx' = in_tx /\ tx' = tx /\ db' = db /\ Thread' = Thread
  BY <1>1 DEF Awaits, Work, engine, Thread
<1>3. waits'.call = call /\ waits'.arg = arg /\ waits'.cancels = cancels /\ WorkOK(waits)'
  <2>1. unit' = unit /\ unit \in 1..unit
    BY <1>1
  <2>2. waits'.call = call /\ waits'.arg = arg /\ waits'.cancels = cancels
    BY <1>2
  <2> QED BY <1>2, <2>1, <2>2 DEF WorkOK
<1>4. Thread # waits' /\ (Stale' <=> Stale)
  <2>1. Thread = NoWork => Thread # waits'
    BY <1>3, NoWorkFacts DEF Calls
  <2>2. Thread # NoWork => Stale /\ Thread.cancels < cancels /\ Thread.cancels \in Nat /\ cancels \in Nat
    BY <1>1 DEF Stale, InLine, Typed
  <2>3. Thread # waits'
    BY <1>3, <2>1, <2>2
  <2> QED BY <1>1, <1>2, <2>3 DEF Stale
<1>5. ~Done /\ ~Done' /\ (Lost => Lost')
  BY <1>1, <1>2, NoWorkFacts DEF Done, Lost
<1>6. Typed'
  <2>1. /\ tx' \in Transactions /\ in_tx' \in BOOLEAN /\ db' \in SUBSET AllRows /\ blocks' \in Seq(Blocks)
        /\ unit' \in 0..MaxUnits /\ cancels' \in Nat /\ sure' \in SUBSET AllRows /\ maybe' \in SUBSET AllRows
        /\ running' = [t \in Workers |-> running'[t]] /\ raising' = Raised(raising'.what, raising'.from)
    BY <1>1, <1>2 DEF Typed
  <2> QED BY <1>2, <2>1 DEF Typed
<1>7. InLine'
  <2>1. Stale' => WorkOK(Thread)' /\ Thread'.cancels \in Nat /\ Thread'.cancels < cancels'
    BY <1>1, <1>2, <1>4 DEF InLine, WorkOK
  <2> QED BY <1>2, <1>3, <1>4, <2>1 DEF InLine
<1>8. NamesGrow'
  <2>1. \A i \in 1..Len(blocks) : blocks[i].name \in Nat
    BY <1>1, NamesAreNumbers
  <2> QED BY <1>1, <2>1 DEF NamesGrow, Typed
<1>9. Durable'
  BY <1>1, <1>2 DEF Durable, CommitIsDurable, Got
<1>10. Belief' /\ Outlived' /\ Leftovers' /\ Whole' /\ EngineAgrees' /\ RolledBack'
  <2>1. Sure' = Sure /\ Maybe' = Maybe /\ In' = In
    BY <1>1, <1>2, Unanswered
  <2>2. \A u \in 1..unit : Ended(u) => promised'[u].sure = promised[u].sure /\ promised'[u].maybe = promised[u].maybe
    <3>1. \A u \in 1..unit : u \in 1..MaxUnits
      BY <1>1, BoundsAssumption DEF Typed
    <3> QED BY <1>5, <3>1 DEF Ended
  <2> QED BY <1>1, <1>2, <1>4, <1>5, <2>1, <2>2, TaskStep
<1> QED BY <1>6, <1>7, <1>8, <1>9, <1>10 DEF Inv

LEMMA BlockFacts ==
  ASSUME Typed, blocks # <<>>
  PROVE  /\ Front(blocks) \in Seq(Blocks) /\ Len(blocks) \in Nat \ {0} /\ Len(Front(blocks)) = Len(blocks) - 1
         /\ \A i \in 1..(Len(blocks) - 1) : Front(blocks)[i] = blocks[i]
         /\ Last(blocks) = blocks[Len(blocks)] /\ Last(blocks).name \in Nat
         /\ Last(blocks).sure \in SUBSET AllRows /\ Last(blocks).maybe \in SUBSET AllRows
<1>1. blocks \in Seq(Blocks)
  BY DEF Typed
<1>2. Last(blocks) \in Blocks
  BY <1>1, FrontFacts
<1>3. /\ Last(blocks).name \in Nat /\ Last(blocks).sure \in SUBSET AllRows
      /\ Last(blocks).maybe \in SUBSET AllRows
  BY <1>2 DEF Blocks
<1> QED BY <1>1, <1>3, FrontFacts

(* Leaving a block leaves the ones around it, deeper ones' names shallower. *)
LEMMA LeaveFacts ==
  ASSUME Typed, NamesGrow, blocks # <<>>, LeaveBlock
  PROVE  /\ blocks' \in Seq(Blocks) /\ depth' \in Nat /\ NamesGrow'
<1>1. /\ blocks' = Front(blocks) /\ depth' = depth - 1 /\ depth \in Nat
  BY DEF LeaveBlock, Typed
<1>2. \A i \in 1..Len(blocks) : blocks[i].name \in Nat
  BY NamesAreNumbers
<1>3. Last(blocks).name <= depth /\ Last(blocks).name > 0 /\ Len(blocks) \in 1..Len(blocks)
  BY BlockFacts DEF NamesGrow
<1>4. depth' \in Nat
  BY <1>1, <1>3, BlockFacts
<1>5. \A i \in 1..Len(blocks') : i \in 1..Len(blocks) /\ i < Len(blocks) /\ blocks'[i] = blocks[i]
  BY <1>1, BlockFacts
<1>6. \A i \in 1..Len(blocks') : blocks'[i].name <= depth' /\ blocks'[i].name > 0
  <2> TAKE i \in 1..Len(blocks')
  <2>1. blocks[i].name < Last(blocks).name /\ blocks[i].name > 0 /\ blocks[i].name \in Nat
    BY <1>2, <1>3, <1>5, BlockFacts DEF NamesGrow
  <2> QED BY <1>1, <1>3, <1>5, <2>1, BlockFacts
<1>7. \A i, j \in 1..Len(blocks') : i < j => blocks'[i].name < blocks'[j].name
  BY <1>5 DEF NamesGrow
<1> QED BY <1>1, <1>4, <1>6, <1>7, BlockFacts DEF NamesGrow

LEMMA WriteStep == Inv /\ Write => Inv'
<1> SUFFICES ASSUME Inv, Write PROVE Inv'
  OBVIOUS
<1>1. /\ at = "in" /\ Awaits("write", <<unit, writes + 1>>) /\ writes' = writes + 1
      /\ UNCHANGED <<raising, depth, blocks, sure, maybe, promised, unit, cancels>>
  BY DEF Write, Row, belief
<1>2. Typed /\ Placed
  BY DEF Inv
<1>3. /\ unit \in Nat /\ writes \in Nat /\ writes + 1 \in Nat /\ depth \in Nat /\ depth >= depth
      /\ promised \in [1..MaxUnits -> Promises]
  BY <1>2, BoundsAssumption DEF Typed
<1> DEFINE row == <<unit, writes + 1>>
<1>4. row \in AllRows /\ row[1] = unit
  BY <1>3 DEF AllRows
<1> HIDE DEF row
<1>5. at' = "await" /\ answer' = "none" /\ waits'.call = "write" /\ waits'.arg = row
  BY <1>1 DEF Awaits, Work, row
<1>6. Placed'
  BY <1>1, <1>2, <1>4, <1>5 DEF Placed
<1>7. "write" \in Calls /\ Awaits("write", row)
  BY <1>1 DEF Calls, row
<1> QED BY <1>1, <1>3, <1>4, <1>6, <1>7, AwaitsKeeps

LEMMA SavepointStep == Inv /\ Savepoint => Inv'
<1> SUFFICES ASSUME Inv, Savepoint PROVE Inv'
  OBVIOUS
<1>1. /\ at = "in" /\ Awaits("savepoint", depth + 1) /\ writes' = writes + 1 /\ depth' = depth + 1
      /\ UNCHANGED <<raising, blocks, sure, maybe, promised, unit, cancels>>
  BY DEF Savepoint, Name, belief
<1>2. Typed /\ Placed /\ NamesGrow
  BY DEF Inv
<1>3. /\ writes \in Nat /\ writes' \in Nat /\ depth \in Nat /\ depth' \in Nat /\ depth' >= depth /\ depth' > 0
      /\ promised \in [1..MaxUnits -> Promises]
  BY <1>1, <1>2 DEF Typed
<1>4. at' = "await" /\ answer' = "none" /\ waits'.call = "savepoint" /\ waits'.arg = depth'
  BY <1>1 DEF Awaits, Work
<1>5. \A i \in 1..Len(blocks') : blocks'[i].name < depth'
  <2>1. \A i \in 1..Len(blocks) : blocks[i].name \in Nat
    BY <1>2, NamesAreNumbers
  <2> QED BY <1>1, <1>2, <1>3, <2>1 DEF NamesGrow
<1>6. Placed'
  BY <1>1, <1>2, <1>3, <1>4, <1>5 DEF Placed
<1>7. "savepoint" \in Calls /\ depth + 1 \in Nat
  BY <1>3 DEF Calls
<1> QED BY <1>1, <1>3, <1>6, <1>7, AwaitsKeeps

LEMMA ReleaseStep == Inv /\ Release => Inv'
<1> SUFFICES ASSUME Inv, Release PROVE Inv'
  OBVIOUS
<1>1. /\ at = "in" /\ blocks # <<>> /\ Awaits("release", Last(blocks).name)
      /\ UNCHANGED <<raising, depth, blocks, sure, maybe, promised, unit, writes, cancels>>
  BY DEF Release, belief, counts
<1>2. Typed /\ Placed
  BY DEF Inv
<1>3. /\ writes \in Nat /\ depth \in Nat /\ depth >= depth /\ promised \in [1..MaxUnits -> Promises]
      /\ Last(blocks).name \in Nat
  BY <1>1, <1>2, BlockFacts DEF Typed
<1>4. at' = "await" /\ answer' = "none" /\ waits'.call = "release" /\ waits'.arg = Last(blocks).name
  BY <1>1 DEF Awaits, Work
<1>6. Placed'
  BY <1>1, <1>2, <1>4 DEF Placed
<1>7. "release" \in Calls
  BY DEF Calls
<1> QED BY <1>1, <1>3, <1>6, <1>7, AwaitsKeeps

LEMMA CommitStep == Inv /\ Commit => Inv'
<1> SUFFICES ASSUME Inv, Commit PROVE Inv'
  OBVIOUS
<1>1. /\ at = "in" /\ blocks = <<>> /\ Awaits("commit", unit)
      /\ promised' = [promised EXCEPT ![unit] = [sure |-> sure, maybe |-> maybe, told |-> FALSE]]
      /\ UNCHANGED <<raising, depth, blocks, sure, maybe, unit, writes, cancels>>
  BY DEF Commit, Promise, counts
<1>2. Typed /\ Placed
  BY DEF Inv
<1>3. /\ writes \in Nat /\ depth \in Nat /\ depth >= depth /\ promised \in [1..MaxUnits -> Promises]
      /\ unit \in 1..MaxUnits /\ sure \in SUBSET AllRows /\ maybe \in SUBSET AllRows
  BY <1>1, <1>2, BoundsAssumption DEF Typed, Placed
<1>4. at' = "await" /\ answer' = "none" /\ waits'.call = "commit"
  BY <1>1 DEF Awaits, Work
<1>5. /\ promised' \in [1..MaxUnits -> Promises]
      /\ \A u \in 1..MaxUnits : promised'[u] = promised[u] \/ (u = unit /\ ~promised'[u].told)
      /\ promised'[unit] = [sure |-> sure, maybe |-> maybe, told |-> FALSE]
  BY <1>1, <1>3 DEF Promises
<1>6. Placed'
  BY <1>1, <1>2, <1>4, <1>5 DEF Placed
<1>7. "commit" \in Calls
  BY DEF Calls
<1> QED BY <1>1, <1>3, <1>5, <1>6, <1>7, AwaitsKeeps

(* Back from an await, or at none: the thread is at nothing, or at what was  *)
(* awaited before and not to its end.                                      *)
LEMMA Back ==
  ASSUME Inv, UNCHANGED <<running, db, in_tx, tx, writes>>,
         at' \in {"out", "in", "raise"}, waits' = NoWork, queue' = <<>>, answer' = "none",
         at' = "out" => blocks' = <<>>, at' \in {"out", "in"} => raising' = NoRaise,
         at' = "raise" => raising'.what \in {"error", "cancel"},
         at' # "out" => unit' >= 1, unit' \in 0..MaxUnits, unit' >= unit,
         blocks' \in Seq(Blocks), depth' \in Nat, sure' \in SUBSET AllRows, maybe' \in SUBSET AllRows,
         raising' = Raised(raising'.what, raising'.from), promised' \in [1..MaxUnits -> Promises],
         cancels' \in Nat, cancels' >= cancels, Thread = waits => Thread = NoWork \/ cancels' > cancels,
         \A u \in 1..MaxUnits : promised'[u].told => promised'[u].sure \subseteq db
  PROVE  /\ Typed' /\ InLine' /\ Placed' /\ Durable'
         /\ Stale' => Stale \/ (Thread = waits /\ Thread # NoWork)
<1>1. /\ Typed /\ InLine /\ Thread' = Thread /\ db' = db
  BY DEF Inv, Thread
<1>2. Typed'
  BY <1>1 DEF Typed
<1>3. Stale' => Stale \/ (Thread = waits /\ Thread # NoWork)
  BY <1>1 DEF Stale
<1>4. InLine'
  <2>1. Stale' => WorkOK(Thread) /\ Thread.cancels \in Nat /\ Thread.cancels < cancels'
    <3>1. CASE Stale
      BY <1>1, <3>1 DEF InLine, Typed
    <3>2. CASE Thread = waits /\ Thread # NoWork
      BY <1>1, <3>2 DEF InLine, Typed
    <3> QED BY <1>3, <3>1, <3>2
  <2>2. WorkOK(Thread) => WorkOK(Thread)'
    <3>1. \A n \in 1..unit : n \in 1..unit'
      BY <1>1, <1>2, BoundsAssumption DEF Typed
    <3> QED BY <1>1, <3>1 DEF WorkOK
  <2> QED BY <1>1, <2>1, <2>2 DEF InLine
<1>5. Placed'
  BY NoWorkFacts DEF Placed
<1>6. Durable'
  BY <1>1 DEF Durable, CommitIsDurable, Got
<1> QED BY <1>2, <1>3, <1>4, <1>5, <1>6

LEMMA Facts ==
  ASSUME Inv
  PROVE  /\ Typed /\ InLine /\ Placed /\ NamesGrow /\ EngineAgrees /\ RolledBack /\ Belief /\ Outlived
         /\ Leftovers /\ Whole /\ Durable
         /\ \A u \in 1..MaxUnits : promised[u].told => promised[u].sure \subseteq db
         /\ at # "out" => unit \in 1..MaxUnits /\ unit >= 1
         /\ cancels >= cancels /\ unit >= unit /\ unit \in Nat
<1>1. /\ Typed /\ InLine /\ Placed /\ NamesGrow /\ EngineAgrees /\ RolledBack /\ Belief /\ Outlived
      /\ Leftovers /\ Whole /\ Durable
  BY DEF Inv
<1>2. unit \in 0..MaxUnits /\ MaxUnits \in Nat /\ cancels \in Nat
  BY <1>1, BoundsAssumption DEF Typed
<1>3. at # "out" => unit \in 1..MaxUnits /\ unit >= 1
  BY <1>1, <1>2 DEF Placed
<1>4. \A u \in 1..MaxUnits : promised[u].told => promised[u].sure \subseteq db
  BY <1>1 DEF Durable, CommitIsDurable
<1> QED BY <1>1, <1>2, <1>3, <1>4

LEMMA EnterStep == Inv /\ Enter => Inv'
<1> SUFFICES ASSUME Inv, Enter PROVE Inv'
  OBVIOUS
<1>1. /\ at = "out" /\ unit < MaxUnits /\ unit' = unit + 1 /\ at' = "in" /\ sure' = {} /\ maybe' = {}
      /\ UNCHANGED <<queue, running, in_tx, tx, db, waits, answer, raising, depth, blocks, promised, writes, cancels>>
  BY DEF Enter, thread, engine
<1>2. /\ waits = NoWork /\ queue = <<>> /\ answer = "none" /\ raising = NoRaise /\ blocks = <<>>
      /\ unit' \in 1..MaxUnits /\ unit \in Nat /\ unit' >= unit /\ unit' >= 1 /\ unit' \in 0..MaxUnits
  BY <1>1, Facts, BoundsAssumption DEF InLine, Placed, Typed
<1>3. Thread' = Thread /\ (Stale' <=> Stale) /\ ~Lost /\ ~Lost' /\ Done /\ ~Done' /\ Live'
  <2>1. waits.call # "rollback" /\ waits.call # "commit" /\ NoRaise # Raised("cancel", "block")
    BY <1>2, NoWorkFacts DEF NoRaise, Raised
  <2> QED BY <1>1, <1>2, <2>1 DEF Thread, Stale, Lost, Done, Live
<1>4. Typed' /\ InLine' /\ Placed' /\ Durable'
  BY <1>1, <1>2, Facts, Back DEF Typed
<1>5. NamesGrow' /\ EngineAgrees' /\ RolledBack'
  BY <1>1, <1>2, Facts, NoWorkFacts DEF NamesGrow, EngineAgrees, RolledBack
<1>6. /\ \A u \in 1..unit : u # unit' /\ Ended(u) /\ Ended(u)'
      /\ \A u \in 1..unit' : u \in 1..unit \/ u = unit'
      /\ \A u : Left(u)' <=> Left(u)
  BY <1>1, <1>2, <1>3 DEF Ended, Left, Of
<1>7. Of(unit', tx.rows) = {} /\ Of(unit', db) = {}
  BY <1>2, <1>6, Facts DEF Whole, Known, Of
<1>8. Belief'
  <2>1. Sure' = {} /\ Maybe' = {} /\ In' = <<>>
    BY <1>1, <1>2, Unanswered
  <2>2. ASSUME NEW bs \in {In'} PROVE BlocksHaveMarks(bs)'
    <3>1. bs = <<>> /\ 1..Len(bs) = {}
      BY <2>1
    <3> QED BY <3>1 DEF BlocksHaveMarks
  <2>3. Of(unit, tx.rows)' = {}
    BY <1>1, <1>7 DEF Of
  <2> QED BY <2>1, <2>2, <2>3 DEF Belief
<1>9. Outlived'
  <2>1. Stale' => Thread.call \in {"write", "commit"}
    BY <1>3, Facts DEF Outlived
  <2>2. Stale /\ Thread.call = "write" => Thread.arg[1] \in 1..unit
    BY Facts DEF InLine, WorkOK
  <2>3. ~OwnWrite'
    BY <1>3, <1>6, <2>2 DEF OwnWrite, Ended
  <2>4. ASSUME Stale, Thread.call = "write"
        PROVE  (Left(Thread.arg[1]) /\ Thread.arg \in promised[Thread.arg[1]].maybe /\ blocks = <<>>)'
    <3>1. Left(Thread.arg[1]) /\ Thread.arg \in promised[Thread.arg[1]].maybe
      BY <1>3, <1>6, <2>2, <2>4, Facts DEF Outlived, OldWrite
    <3> QED BY <1>1, <1>2, <1>3, <3>1 DEF Left, Of
  <2> QED BY <1>1, <1>2, <1>3, <1>7, <2>1, <2>3, <2>4 DEF Outlived, OldWrite, OldCommit, Left, Of
<1>10. Leftovers'
  <2>1. SUFFICES ASSUME NEW u \in 1..unit', Of(u, tx.rows)' # {} PROVE Left(u)'
    BY DEF Leftovers
  <2>2. Of(u, tx.rows) # {}
    BY <1>1, <2>1 DEF Of
  <2> QED BY <1>3, <1>6, <1>7, <2>2, Facts DEF Leftovers
<1>11. Whole'
  <2>1. Known(tx.rows)' /\ Known(db)' /\ \A p \in 1..Len(tx'.marks) : Known(tx.marks[p].rows)'
    BY <1>1, <1>6, Facts DEF Whole, Known
  <2>2. ASSUME NEW u \in 1..unit', Of(u, db)' # {}
        PROVE  Ended(u)' /\ promised'[u].sure \subseteq Of(u, db)' /\ Of(u, db)' \subseteq promised'[u].maybe
    <3>1. Of(u, db)' = Of(u, db)
      BY <1>1 DEF Of
    <3> QED BY <1>1, <1>6, <1>7, <2>2, <3>1, Facts DEF Whole
  <2> QED BY <2>1, <2>2 DEF Whole
<1> QED BY <1>4, <1>5, <1>8, <1>9, <1>10, <1>11 DEF Inv

LEMMA CatchStep == Allowed /\ Inv /\ Catch => Inv'
<1> SUFFICES ASSUME Allowed, Inv, Catch PROVE Inv'
  OBVIOUS
<1>1. /\ at = "raise" /\ at' = "in" /\ raising' = NoRaise /\ ~(raising = Raised("cancel", "block"))
      /\ UNCHANGED <<queue, running, in_tx, tx, db, waits, answer, depth, blocks, sure, maybe, promised, unit, writes, cancels>>
  BY DEF Catch, thread, engine, belief, counts, Allowed, Raised
<1>2. waits = NoWork /\ queue = <<>> /\ answer = "none"
  BY <1>1, Facts DEF InLine
<1>3. ~Lost /\ ~Lost' /\ ~Done /\ ~Done' /\ Thread' = Thread /\ (Stale' <=> Stale)
  BY <1>1, <1>2, NoWorkFacts DEF Lost, Done, Stale, Thread, NoRaise, Raised
<1>8. raising' = Raised(raising'.what, raising'.from)
  BY <1>1 DEF NoRaise, Raised
<1>4. Typed' /\ InLine' /\ Placed' /\ Durable'
  BY <1>1, <1>2, <1>8, Facts, Back DEF Typed
<1>5. NamesGrow'
  BY <1>1, Facts DEF NamesGrow
<1>6. Sure' = Sure /\ Maybe' = Maybe /\ In' = In
  BY <1>1, <1>2, Unanswered
<1>7. Belief' /\ Outlived' /\ Leftovers' /\ Whole' /\ EngineAgrees' /\ RolledBack'
  BY <1>1, <1>2, <1>3, <1>6, TaskStep
<1> QED BY <1>4, <1>5, <1>7 DEF Inv

LEMMA RefusedStep == Inv /\ Refused => Inv'
<1> SUFFICES ASSUME Inv, Refused PROVE Inv'
  OBVIOUS
<1>1. at = "await" /\ answer = "error" /\ waits.call = "write" /\ queue = <<>> /\ Thread = NoWork /\ raising = NoRaise
  BY Facts DEF Refused, Placed, InLine
<1>2. /\ waits' = NoWork /\ answer' = "none" /\ at' = "raise" /\ raising' = Raised("error", "statement")
      /\ UNCHANGED <<queue, running, in_tx, tx, db, depth, blocks, sure, maybe, promised, unit, writes, cancels>>
  BY <1>1 DEF Refused, thread, engine, belief, counts
<1>3. ~Lost /\ ~Lost' /\ ~Done /\ ~Done' /\ Thread' = NoWork /\ ~Stale'
  BY <1>1, <1>2, NoWorkFacts DEF Lost, Done, Stale, Thread, NoRaise, Raised
<1>4. raising' = Raised(raising'.what, raising'.from) /\ raising'.what = "error"
  BY <1>2 DEF Raised
<1>5. Typed' /\ InLine' /\ Placed' /\ Durable'
  BY <1>1, <1>2, <1>4, Facts, Back DEF Typed
<1>6. NamesGrow'
  BY <1>2, Facts DEF NamesGrow
<1>7. Sure' = Sure /\ Maybe' = Maybe /\ In' = In
  BY <1>1, <1>2, Unanswered
<1>8. Belief' /\ Outlived' /\ Leftovers' /\ Whole' /\ EngineAgrees' /\ RolledBack'
  BY <1>1, <1>2, <1>3, <1>7, TaskStep
<1> QED BY <1>5, <1>6, <1>8 DEF Inv

LEMMA UnwindStep == Inv /\ Unwind => Inv'
<1> SUFFICES ASSUME Inv, Unwind PROVE Inv'
  OBVIOUS
<1>1. at = "raise" /\ waits = NoWork /\ queue = <<>> /\ answer = "none" /\ raising.what \in {"error", "cancel"}
  BY Facts DEF Unwind, InLine, Placed
<1>2. /\ writes \in Nat /\ depth \in Nat /\ depth >= depth /\ promised \in [1..MaxUnits -> Promises]
  BY Facts DEF Typed
<1>3. CASE /\ blocks # <<>> /\ IsException
           /\ Awaits("rollback_to", Last(blocks).name)
           /\ UNCHANGED <<raising, depth, blocks, belief, counts>>
  <2>1. /\ raising.what = "error" /\ at' = "await" /\ answer' = "none"
        /\ waits'.call = "rollback_to" /\ waits'.arg = Last(blocks).name
        /\ UNCHANGED <<raising, depth, blocks, sure, maybe, promised, unit, writes, cancels>>
    BY <1>3 DEF Awaits, Work, belief, counts, IsException
  <2>2. Last(blocks).name \in Nat /\ "rollback_to" \in Calls
    BY <1>3, Facts, BlockFacts DEF Calls
  <2>3. Placed'
    BY <1>1, <1>3, <2>1, Facts DEF Placed
  <2> QED BY <1>1, <1>2, <1>3, <2>1, <2>2, <2>3, AwaitsKeeps
<1>4. CASE /\ blocks # <<>> /\ ~IsException /\ LeaveBlock /\ Discard
           /\ raising' = [raising EXCEPT !.from = "block"]
           /\ UNCHANGED <<thread, engine, at, waits, answer, promised, counts>>
  <2>1. /\ raising.what = "cancel" /\ LeaveBlock /\ sure' = Last(blocks).sure /\ maybe' = Last(blocks).maybe
        /\ UNCHANGED <<queue, running, in_tx, tx, db, at, waits, answer, promised, unit, writes, cancels>>
    BY <1>1, <1>4 DEF thread, engine, counts, IsException, Discard
  <2>2. raising' = Raised("cancel", "block")
    BY <1>4, <2>1, Facts DEF Typed, Raised
  <2>3. Lost' /\ ~Done /\ ~Done' /\ Thread' = Thread /\ (Stale' <=> Stale) /\ ~Live'
    BY <1>1, <2>1, <2>2, NoWorkFacts DEF Lost, Live, Done, Stale, Thread
  <2>4. raising' = Raised(raising'.what, raising'.from) /\ raising'.what = "cancel"
    BY <2>2 DEF Raised
  <2>5. blocks' \in Seq(Blocks) /\ depth' \in Nat /\ NamesGrow'
    BY <1>4, <2>1, Facts, LeaveFacts
  <2>6. sure' \in SUBSET AllRows /\ maybe' \in SUBSET AllRows
    BY <1>4, <2>1, Facts, BlockFacts
  <2>7. Typed' /\ InLine' /\ Placed' /\ Durable'
    BY <1>1, <2>1, <2>4, <2>5, <2>6, Facts, Back DEF Typed
  <2>8. Belief' /\ Outlived' /\ Leftovers' /\ Whole' /\ EngineAgrees' /\ RolledBack'
    BY <1>1, <2>1, <2>3, TaskStep
  <2> QED BY <2>5, <2>7, <2>8 DEF Inv
<1>5. CASE blocks = <<>> /\ Awaits("rollback", unit) /\ UNCHANGED <<raising, depth, blocks, belief, counts>>
  <2>1. /\ at' = "await" /\ answer' = "none" /\ waits'.call = "rollback"
        /\ UNCHANGED <<raising, depth, blocks, sure, maybe, promised, unit, writes, cancels>>
    BY <1>5 DEF Awaits, Work, belief, counts
  <2>2. "rollback" \in Calls
    BY DEF Calls
  <2>3. Placed'
    BY <1>1, <1>5, <2>1, Facts DEF Placed
  <2> QED BY <1>1, <1>2, <1>5, <2>1, <2>2, <2>3, AwaitsKeeps
<1> QED BY <1>3, <1>4, <1>5 DEF Unwind

(* A work the thread has answered, and no commit and no rollback: what the   *)
(* task now believes is what it was to believe.                            *)
LEMMA AnsweredKeeps ==
  ASSUME Inv, at = "await", answer = "ok", waits' = NoWork, answer' = "none", at' \in {"in", "raise"},
         waits.call \in {"write", "savepoint", "release", "rollback_to"},
         UNCHANGED <<queue, running, in_tx, tx, db, promised, unit, writes, cancels>>,
         at' = "in" => raising' = NoRaise, at' = "raise" => raising' = Raised("error", "block"),
         waits.call = "rollback_to" => at' = "raise",
         sure' = Sure, maybe' = Maybe, blocks' = In,
         blocks' \in Seq(Blocks), depth' \in Nat, sure' \in SUBSET AllRows, maybe' \in SUBSET AllRows, NamesGrow'
  PROVE  Inv'
<1>1. queue = <<>> /\ Thread = NoWork
  BY Facts DEF InLine
<1>2. ~Lost /\ ~Lost' /\ ~Done /\ ~Done' /\ Thread' = NoWork /\ ~Stale'
  <2>1. raising = NoRaise \/ raising.what = "error"
    BY Facts DEF Placed
  <2>2. raising' = NoRaise \/ raising' = Raised("error", "block")
    OBVIOUS
  <2> QED BY <1>1, <2>1, <2>2, NoWorkFacts DEF Lost, Done, Stale, Thread, NoRaise, Raised
<1>3. raising' = Raised(raising'.what, raising'.from) /\ (at' = "raise" => raising'.what = "error")
  BY NoWorkFacts DEF Raised
<1>4. Typed' /\ InLine' /\ Placed' /\ Durable'
  BY <1>1, <1>3, Facts, Back DEF Typed
<1>5. /\ Sure' = Sure /\ Maybe' = Maybe /\ In' = In
  BY Unanswered
<1>6. ASSUME Live' PROVE Belief'
  <2>1. Belief /\ Live
    BY <1>2, Facts DEF Live
  <2> QED
    BY <1>5, <2>1, MarksStay DEF Belief, Of, Others
<1>7. Belief'
  BY <1>6 DEF Belief
<1>8. Outlived'
  BY <1>2 DEF Outlived, OwnWrite, OldWrite, OldCommit
<1>9. \A u : (Ended(u)' <=> Ended(u)) /\ (Left(u)' <=> Left(u))
  BY <1>2 DEF Ended, Left, Of
<1>10. Leftovers' /\ Whole' /\ EngineAgrees' /\ RolledBack'
  <2>1. Leftovers'
    BY <1>2, <1>9, Facts DEF Leftovers, Of
  <2>2. Whole'
    BY <1>2, <1>9, Facts DEF Whole, Known, Of, Left
  <2> QED BY <2>1, <2>2, Facts DEF EngineAgrees, RolledBack
<1> QED BY <1>4, <1>7, <1>8, <1>10 DEF Inv

LEMMA AnsweredStep == Inv /\ Answered => Inv'
<1> SUFFICES ASSUME Inv, Answered PROVE Inv'
  OBVIOUS
<1>1. /\ at = "await" /\ answer = "ok" /\ waits' = NoWork /\ answer' = "none"
      /\ queue = <<>> /\ Thread = NoWork /\ WorkOK(waits) /\ waits.call \in Calls
      /\ UNCHANGED <<queue, running, in_tx, tx, db, unit, writes, cancels>>
  BY Facts DEF Answered, InLine, thread, engine, counts, WorkOK
<1>2. /\ blocks \in Seq(Blocks) /\ depth \in Nat /\ sure \in SUBSET AllRows /\ maybe \in SUBSET AllRows
      /\ promised \in [1..MaxUnits -> Promises] /\ NamesGrow
      /\ waits.call \notin {"rollback", "rollback_to"} => raising = NoRaise
  BY <1>1, Facts DEF Typed, Placed
<1>3. CASE waits.call = "write"
  <2>1. /\ sure' = sure \cup {waits.arg} /\ maybe' = maybe \cup {waits.arg} /\ at' = "in"
        /\ UNCHANGED <<raising, depth, blocks, promised>>
    BY <1>3 DEF Answered
  <2>2. sure' = Sure /\ maybe' = Maybe /\ blocks' = In /\ waits.arg \in AllRows
    BY <1>1, <1>3, <2>1 DEF Sure, Maybe, In, Got, WorkOK
  <2>3. NamesGrow'
    BY <1>2, <2>1 DEF NamesGrow
  <2> QED BY <1>1, <1>2, <1>3, <2>1, <2>2, <2>3, AnsweredKeeps
<1>4. CASE waits.call = "savepoint"
  <2> DEFINE b == Block(waits.arg)
  <2>1. /\ blocks' = Append(blocks, b) /\ at' = "in"
        /\ UNCHANGED <<raising, depth, sure, maybe, promised>>
    BY <1>4 DEF Answered, belief
  <2>2. sure' = Sure /\ maybe' = Maybe /\ blocks' = In
    BY <1>1, <1>4, <2>1 DEF Sure, Maybe, In, Got
  <2>3. waits.arg \in Nat /\ waits.arg = depth /\ \A i \in 1..Len(blocks) : blocks[i].name < depth
    BY <1>1, <1>4, Facts DEF Placed, WorkOK
  <2>4. b \in Blocks /\ b.name = waits.arg
    BY <1>2, <2>3 DEF Blocks, Block
  <2> HIDE DEF b
  <2>5. /\ blocks' \in Seq(Blocks) /\ Len(blocks) \in Nat /\ Len(blocks') = Len(blocks) + 1
        /\ \A i \in 1..Len(blocks) : blocks'[i] = blocks[i]
        /\ blocks'[Len(blocks) + 1] = b
    BY <1>2, <2>1, <2>4, AppendProperties
  <2>6. NamesGrow'
    <3>1. \A i \in 1..Len(blocks') : i \in 1..Len(blocks) \/ i = Len(blocks) + 1
      BY <2>5
    <3>2. \A i \in 1..Len(blocks) : blocks[i].name > 0 /\ blocks[i].name \in Nat
      BY <1>2, Facts, NamesAreNumbers DEF NamesGrow
    <3>3. depth > 0
      BY <1>1, <1>4, Facts DEF Placed
    <3>4. \A i \in 1..Len(blocks') : blocks'[i].name <= depth /\ blocks'[i].name > 0
      BY <1>2, <2>3, <2>4, <2>5, <3>1, <3>2, <3>3
    <3>5. ASSUME NEW i \in 1..Len(blocks'), NEW j \in 1..Len(blocks'), i < j
          PROVE  blocks'[i].name < blocks'[j].name
      <4>1. i \in 1..Len(blocks)
        BY <2>5, <3>1, <3>5
      <4>2. CASE j \in 1..Len(blocks)
        BY <1>2, <2>5, <3>5, <4>1, <4>2 DEF NamesGrow
      <4>3. CASE j = Len(blocks) + 1
        BY <2>3, <2>4, <2>5, <4>1, <4>3
      <4> QED BY <3>1, <4>2, <4>3
    <3> QED BY <2>1, <3>4, <3>5 DEF NamesGrow
  <2> QED BY <1>1, <1>2, <1>4, <2>1, <2>2, <2>5, <2>6, AnsweredKeeps
<1>5. CASE waits.call = "release"
  <2>1. LeaveBlock /\ at' = "in" /\ UNCHANGED <<raising, sure, maybe, promised>> /\ blocks' = Front(blocks)
    BY <1>5 DEF Answered, LeaveBlock, belief
  <2>2. blocks # <<>>
    BY <1>1, <1>5, Facts DEF Placed
  <2>3. sure' = Sure /\ maybe' = Maybe /\ blocks' = In
    BY <1>1, <1>5, <2>1 DEF Sure, Maybe, In, Got
  <2>4. blocks' \in Seq(Blocks) /\ depth' \in Nat /\ NamesGrow'
    BY <2>1, <2>2, Facts, LeaveFacts
  <2> QED BY <1>1, <1>2, <1>5, <2>1, <2>3, <2>4, AnsweredKeeps
<1>6. CASE waits.call = "rollback_to"
  <2>1. /\ LeaveBlock /\ sure' = Last(blocks).sure /\ maybe' = Last(blocks).maybe /\ at' = "raise"
        /\ raising' = [raising EXCEPT !.from = "block"] /\ promised' = promised /\ blocks' = Front(blocks)
    BY <1>6 DEF Answered, LeaveBlock, Discard
  <2>2. blocks # <<>> /\ raising.what = "error" /\ raising = Raised(raising.what, raising.from)
    BY <1>1, <1>6, Facts DEF Placed, Typed
  <2>3. sure' = Sure /\ maybe' = Maybe /\ blocks' = In
    BY <1>1, <1>6, <2>1 DEF Sure, Maybe, In, Got
  <2>4. blocks' \in Seq(Blocks) /\ depth' \in Nat /\ NamesGrow'
    BY <2>1, <2>2, Facts, LeaveFacts
  <2>5. raising' = Raised("error", "block")
    BY <2>1, <2>2 DEF Raised
  <2>6. sure' \in SUBSET AllRows /\ maybe' \in SUBSET AllRows
    BY <2>1, <2>2, Facts, BlockFacts
  <2> QED BY <1>1, <1>2, <1>6, <2>1, <2>3, <2>4, <2>5, <2>6, AnsweredKeeps
<1>7. CASE waits.call \in {"commit", "rollback"}
  <2>1. /\ at' = "out" /\ raising' = NoRaise /\ UNCHANGED <<depth, blocks, sure, maybe>>
        /\ waits.call = "commit" => promised' = [promised EXCEPT ![unit].told = TRUE]
        /\ waits.call = "rollback" => promised' = promised
    BY <1>7 DEF Answered, Leave, belief
  <2>2. blocks = <<>> /\ unit \in 1..MaxUnits
    BY <1>1, <1>7, Facts DEF Placed
  <2>3. /\ promised' \in [1..MaxUnits -> Promises]
        /\ \A u \in 1..MaxUnits : promised'[u].sure = promised[u].sure /\ promised'[u].maybe = promised[u].maybe
        /\ \A u \in 1..MaxUnits : promised'[u].told => promised[u].told \/ (u = unit /\ waits.call = "commit")
    <3>1. CASE waits.call = "rollback"
      BY <1>2, <2>1, <3>1
    <3>2. CASE waits.call = "commit"
      <4>1. promised[unit] \in Promises
        BY <1>2, <2>2
      <4>2. promised' = [promised EXCEPT ![unit] = [promised[unit] EXCEPT !.told = TRUE]]
        BY <2>1, <3>2
      <4>3. /\ [promised[unit] EXCEPT !.told = TRUE] \in Promises
            /\ [promised[unit] EXCEPT !.told = TRUE].sure = promised[unit].sure
            /\ [promised[unit] EXCEPT !.told = TRUE].maybe = promised[unit].maybe
        BY <4>1 DEF Promises
      <4> HIDE DEF Promises
      <4> QED BY <1>2, <2>2, <3>2, <4>2, <4>3
    <3> QED BY <1>7, <3>1, <3>2
  <2>4. \A u \in 1..MaxUnits : promised'[u].told => promised'[u].sure \subseteq db
    BY <1>1, <2>3, Facts DEF Durable, Got
  <2>5. raising' = Raised(raising'.what, raising'.from)
    BY <2>1 DEF NoRaise, Raised
  <2>6. Typed' /\ InLine' /\ Placed' /\ Durable'
    BY <1>1, <1>2, <2>1, <2>2, <2>3, <2>4, <2>5, Facts, Back DEF Typed
  <2>7. tx' = NoTransaction /\ Thread' = NoWork /\ ~Stale' /\ ~Lost' /\ Done'
    <3>1. tx = NoTransaction
      BY <1>1, <1>7, Facts DEF RolledBack
    <3> QED BY <1>1, <2>1, <3>1, NoWorkFacts DEF Thread, Stale, Lost, Done, NoRaise, Raised
  <2>8. NamesGrow' /\ EngineAgrees' /\ RolledBack'
    BY <1>1, <2>1, Facts, NoWorkFacts DEF NamesGrow, EngineAgrees, RolledBack
  <2>9. Belief' /\ Outlived'
    BY <2>7 DEF Belief, Live, Outlived, OwnWrite, OldWrite, OldCommit
  <2>10. Leftovers' /\ Whole'
    <3>1. \A u : Ended(u)'
      BY <2>7 DEF Ended
    <3>2. \A u : Of(u, tx.rows)' = {}
      BY <2>7, NothingFacts DEF Of
    <3>3. Leftovers'
      BY <3>2 DEF Leftovers
    <3>4. \A u \in 1..unit : u \in 1..MaxUnits
      BY <2>2, BoundsAssumption
    <3>5. Whole'
      BY <1>1, <2>3, <3>1, <3>4, Facts DEF Whole, Known, Of
    <3> QED BY <3>3, <3>5
  <2> QED BY <2>6, <2>8, <2>9, <2>10 DEF Inv
<1> QED BY <1>1, <1>3, <1>4, <1>5, <1>6, <1>7 DEF Calls

(* The await is cancelled. The work is dropped, or at large.                *)
LEMMA CancelledFacts ==
  ASSUME Inv, Cancelled
  PROVE  /\ at = "await" /\ waits.call \in Cancels /\ waits.call \in Calls /\ WorkOK(waits)
         /\ cancels' = cancels + 1 /\ cancels' \in Nat /\ cancels' >= cancels /\ cancels' > cancels
         /\ queue' = <<>> /\ waits' = NoWork /\ answer' = "none"
         /\ UNCHANGED <<running, in_tx, tx, db, promised, unit, writes>>
         /\ Thread' = Thread /\ (Stale' => Stale \/ (Thread = waits /\ answer = "none"))
         /\ unit \in 1..MaxUnits /\ unit >= unit
<1>1. /\ at = "await" /\ waits.call \in Cancels /\ cancels' = cancels + 1
      /\ waits' = NoWork /\ answer' = "none"
      /\ UNCHANGED <<running, in_tx, tx, db, promised, unit, writes>>
      /\ queue' = IF queue # <<>> /\ Last(queue) = waits THEN Front(queue) ELSE queue
  BY DEF Cancelled, engine
<1>2. cancels \in Nat /\ WorkOK(waits) /\ waits.call \in Calls
  BY <1>1, Facts DEF Typed, InLine, WorkOK
<1>3. queue' = <<>>
  <2>1. CASE queue = <<>>
    BY <1>1, <2>1
  <2>2. CASE queue # <<>>
    <3>1. queue = <<waits>>
      BY <1>1, <2>2, Facts DEF InLine, Typed
    <3>2. Last(queue) = waits /\ Front(queue) = <<>>
      BY <3>1 DEF Last, Front
    <3> QED BY <1>1, <2>2, <3>2
  <2> QED BY <2>1, <2>2
<1>4. Thread' = Thread /\ (Stale' => Stale \/ (Thread = waits /\ answer = "none"))
  BY <1>1, <1>2, Facts, NoWorkFacts DEF Thread, Stale, InLine
<1> QED BY <1>1, <1>2, <1>3, <1>4, Facts

LEMMA CancelledWrite == Inv /\ Cancelled /\ waits.call = "write" => Inv'
<1> SUFFICES ASSUME Inv, Cancelled, waits.call = "write" PROVE Inv'
  OBVIOUS
<1>1. /\ maybe' = maybe \cup {waits.arg} /\ at' = "raise" /\ raising' = Raised("cancel", "statement")
      /\ UNCHANGED <<depth, blocks, sure>>
  BY DEF Cancelled
<1>2. waits.arg \in AllRows /\ waits.arg[1] = unit /\ raising = NoRaise
  BY CancelledFacts, Facts DEF WorkOK, Placed
<1>3. raising' = Raised(raising'.what, raising'.from) /\ raising'.what = "cancel"
  BY <1>1 DEF Raised
<1>4. maybe' \in SUBSET AllRows
  BY <1>1, <1>2, Facts DEF Typed
<1>5. Typed' /\ InLine' /\ Placed' /\ Durable'
  BY <1>1, <1>3, <1>4, Facts, CancelledFacts, Back DEF Typed
<1>6. NamesGrow'
  BY <1>1, Facts DEF NamesGrow
<1>7. ~Lost /\ ~Lost' /\ ~Done /\ ~Done'
  BY <1>1, <1>2, CancelledFacts, NoWorkFacts DEF Lost, Done, NoRaise, Raised
<1>8. Sure' \subseteq Sure /\ Maybe \subseteq Maybe' /\ maybe \subseteq maybe' /\ In' = In
  <2>1. Sure' = sure' /\ Maybe' = maybe' /\ In' = blocks'
    BY CancelledFacts, Unanswered
  <2>2. sure \subseteq Sure /\ Maybe \subseteq maybe \cup {waits.arg} /\ In = blocks
    BY DEF Sure, Maybe, In, Got
  <2> QED BY <1>1, <2>1, <2>2
<1>9. Stale' => Stale \/ (Thread = waits /\ waits.arg \in maybe')
  BY <1>1, CancelledFacts
<1>10. Belief' /\ Outlived' /\ Leftovers' /\ Whole' /\ EngineAgrees' /\ RolledBack'
  BY <1>1, <1>2, <1>7, <1>8, <1>9, CancelledFacts, TaskStep
<1> QED BY <1>5, <1>6, <1>10 DEF Inv

LEMMA CancelledBlock ==
  Inv /\ Cancelled /\ waits.call \in {"savepoint", "release", "rollback_to"} => Inv'
<1> SUFFICES ASSUME Inv, Cancelled, waits.call \in {"savepoint", "release", "rollback_to"} PROVE Inv'
  OBVIOUS
<1>1. at' = "raise" /\ raising' = Raised("cancel", "block")
  BY DEF Cancelled
<1>2. /\ blocks' \in Seq(Blocks) /\ depth' \in Nat /\ NamesGrow'
      /\ sure' \in SUBSET AllRows /\ maybe' \in SUBSET AllRows
  <2>1. CASE waits.call = "savepoint"
    <3>1. UNCHANGED <<depth, blocks, sure, maybe>>
      BY <2>1 DEF Cancelled
    <3> QED BY <3>1, Facts DEF Typed, NamesGrow
  <2>2. CASE waits.call \in {"release", "rollback_to"}
    <3>1. LeaveBlock /\ sure' = Last(blocks).sure /\ maybe' = Last(blocks).maybe
      BY <2>2 DEF Cancelled, Discard
    <3>2. blocks # <<>>
      BY <2>2, CancelledFacts, Facts DEF Placed
    <3> QED BY <3>1, <3>2, Facts, LeaveFacts, BlockFacts
  <2> QED BY <2>1, <2>2
<1>3. raising' = Raised(raising'.what, raising'.from) /\ raising'.what = "cancel"
  BY <1>1 DEF Raised
<1>5. Typed' /\ InLine' /\ Placed' /\ Durable'
  BY <1>1, <1>2, <1>3, Facts, CancelledFacts, Back DEF Typed
<1>7. Lost' /\ ~Live' /\ ~Done /\ ~Done'
  BY <1>1, CancelledFacts, NoWorkFacts DEF Lost, Live, Done
<1>8. Stale' => Stale \/ Thread = waits
  BY CancelledFacts
<1>10. Belief' /\ Outlived' /\ Leftovers' /\ Whole' /\ EngineAgrees' /\ RolledBack'
  BY <1>1, <1>7, <1>8, CancelledFacts, TaskStep
<1> QED BY <1>2, <1>5, <1>10 DEF Inv

(* The commit may yet land, or have landed: the unit is over either way.    *)
LEMMA CancelledCommit == Allowed /\ Inv /\ Cancelled /\ waits.call \in {"commit", "rollback"} => Inv'
<1> SUFFICES ASSUME Allowed, Inv, Cancelled, waits.call \in {"commit", "rollback"} PROVE Inv'
  OBVIOUS
<1>1. waits.call = "commit" /\ at' = "out" /\ raising' = NoRaise /\ UNCHANGED <<depth, blocks, sure, maybe>>
  BY CancelledFacts DEF Cancelled, Leave, Allowed
<1>2. /\ raising = NoRaise /\ blocks = <<>>
      /\ promised[unit].sure = sure /\ promised[unit].maybe = maybe
  BY <1>1, CancelledFacts, Facts DEF Placed
<1>3. raising' = Raised(raising'.what, raising'.from)
  BY <1>1 DEF NoRaise, Raised
<1>5. Typed' /\ InLine' /\ Placed' /\ Durable'
  BY <1>1, <1>2, <1>3, Facts, CancelledFacts, Back DEF Typed
<1>6. NamesGrow' /\ EngineAgrees' /\ RolledBack'
  BY <1>1, CancelledFacts, Facts, NoWorkFacts DEF NamesGrow, EngineAgrees, RolledBack
<1>7. ~Lost /\ ~Lost' /\ Done' /\ (answer # "ok" => ~Done)
  BY <1>1, <1>2, CancelledFacts, NoWorkFacts DEF Lost, Done, NoRaise, Raised
<1>8. \A u : Ended(u)' /\ (Left(u)' <=> Left(u)) /\ Of(u, tx.rows)' = Of(u, tx.rows) /\ (u # unit => Ended(u))
  BY <1>7, CancelledFacts DEF Ended, Left, Of
<1>9. answer = "ok" => tx.rows = {}
  BY <1>1, Facts, NothingFacts DEF RolledBack
<1>10. answer # "ok" => Left(unit)
  <2>1. SUFFICES ASSUME answer # "ok" PROVE Left(unit)
    OBVIOUS
  <2>2. Live /\ ~Ended(unit)
    BY <1>7, <2>1 DEF Live, Ended
  <2>3. sure \subseteq Of(unit, tx.rows) /\ Of(unit, tx.rows) \subseteq maybe
    BY <2>1, <2>2, Facts, Unanswered DEF Belief
  <2>4. Of(unit, db) = {}
    BY <2>2, Facts, CancelledFacts DEF Whole
  <2> QED BY <1>2, <2>3, <2>4 DEF Left
<1>11. Leftovers'
  <2>1. ASSUME NEW u \in 1..unit, Of(u, tx.rows) # {} PROVE Left(u)
    <3>1. CASE u = unit
      BY <1>9, <1>10, <2>1, <3>1 DEF Of
    <3>2. CASE u # unit
      BY <1>7, <1>8, <2>1, <3>2, Facts DEF Leftovers
    <3> QED BY <3>1, <3>2
  <2> QED BY <1>8, <2>1, CancelledFacts DEF Leftovers
<1>12. Outlived'
  <2>1. Stale' => Thread.call \in {"write", "commit"}
    <3>1. Stale => Thread.call \in {"write", "commit"}
      BY <1>7, Facts DEF Outlived
    <3> QED BY <1>1, <3>1, CancelledFacts
  <2>2. ~OwnWrite'
    BY <1>8, CancelledFacts DEF OwnWrite, Ended
  <2>3. ASSUME Stale', Thread.call = "write"
        PROVE  (Left(Thread.arg[1]) /\ Thread.arg \in promised[Thread.arg[1]].maybe /\ blocks = <<>>)'
    <3>1. Stale /\ Thread.arg[1] \in 1..unit /\ answer # "ok"
      BY <1>1, <2>3, CancelledFacts, Facts DEF InLine, WorkOK, Stale
    <3>2. Left(Thread.arg[1]) /\ Thread.arg \in promised[Thread.arg[1]].maybe
      <4>1. CASE Ended(Thread.arg[1])
        BY <1>7, <2>3, <3>1, <4>1, Facts DEF Outlived, OldWrite
      <4>2. CASE ~Ended(Thread.arg[1])
        <5>1. Thread.arg[1] = unit /\ Live
          BY <1>7, <3>1, <4>2 DEF Ended, Live
        <5>2. Thread.arg \in maybe
          BY <2>3, <3>1, <4>2, <5>1, Facts DEF Outlived, OwnWrite
        <5> QED BY <1>2, <1>10, <3>1, <5>1, <5>2
      <4> QED BY <4>1, <4>2
    <3> QED BY <1>1, <1>2, <3>2, CancelledFacts DEF Left, Of
  <2> QED BY <1>1, <1>2, <1>7, <2>1, <2>2, <2>3, CancelledFacts DEF Outlived, OldWrite, OldCommit, Left, Of
<1>13. Belief'
  BY <1>7 DEF Belief, Live
<1>14. Whole'
  BY <1>1, <1>8, CancelledFacts, Facts DEF Whole, Known, Of
<1> QED BY <1>5, <1>6, <1>11, <1>12, <1>13, <1>14 DEF Inv

-----------------------------------------------------------------------------
(* The thread.                                                             *)
LEMMA TakeStep == Inv /\ Take(1) => Inv'
<1> SUFFICES ASSUME Inv, Take(1) PROVE Inv'
  OBVIOUS
<1>1. /\ Thread = NoWork /\ queue # <<>> /\ running' = [running EXCEPT ![1] = Head(queue)] /\ queue' = Tail(queue)
      /\ UNCHANGED <<in_tx, tx, db, at, waits, answer, raising, depth, blocks, sure, maybe, promised, unit, writes, cancels>>
  BY DEF Take, Thread, engine, belief, counts
<1>2. at = "await" /\ answer = "none" /\ WorkOK(waits) /\ queue = <<waits>>
  <2>1. at \in {"out", "in", "await", "raise"} /\ answer \in {"none", "ok", "error"}
    BY Facts DEF Typed
  <2>2. at = "await" /\ answer = "none"
    BY <1>1, <2>1, Facts DEF InLine
  <2>3. Thread # waits
    BY <1>1, <2>2, Facts, NoWorkFacts DEF InLine
  <2> QED BY <2>2, <2>3, Facts DEF InLine
<1>3. Head(queue) = waits /\ Tail(queue) = <<>>
  BY <1>2
<1>4. running = [t \in {1} |-> running[t]]
  BY Facts, OneThread DEF Typed
<1>5. Thread' = waits /\ queue' = <<>> /\ running' = [t \in Workers |-> running'[t]] /\ ~Stale /\ ~Stale'
  <2>1. running' = [t \in {1} |-> waits]
    BY <1>1, <1>3, <1>4
  <2>2. running'[1] = waits /\ Thread' = waits
    BY <2>1 DEF Thread
  <2> QED BY <1>1, <1>3, <2>1, <2>2, OneThread DEF Stale
<1>6. Typed'
  BY <1>1, <1>5, Facts DEF Typed
<1>7. InLine'
  <2>1. WorkOK(waits)'
    BY <1>1, <1>2 DEF WorkOK
  <2> QED BY <1>1, <1>2, <1>5, <2>1, Facts DEF InLine
<1>8. Placed' /\ NamesGrow' /\ EngineAgrees' /\ RolledBack' /\ Durable'
  BY <1>1, Facts DEF Placed, NamesGrow, EngineAgrees, RolledBack, Durable, CommitIsDurable, Got
<1>9. answer' # "ok" /\ (Done' <=> Done) /\ (Lost' <=> Lost) /\ (Live' <=> Live)
  BY <1>1, <1>2 DEF Done, Lost, Live
<1>10. Sure' = Sure /\ Maybe' = Maybe /\ In' = In
  BY <1>1, <1>2, <1>9, Unanswered
<1>11. \A u : (Ended(u)' <=> Ended(u)) /\ (Left(u)' <=> Left(u))
  BY <1>1, <1>9 DEF Ended, Left, Of
<1>12. Belief'
  <2>1. SUFFICES ASSUME Live' PROVE Belief'
    BY DEF Belief
  <2>2. ASSUME NEW bs \in {In'} PROVE BlocksHaveMarks(bs)'
    <3>1. BlocksHaveMarks(bs)
      BY <1>9, <1>10, <2>1, <2>2, Facts DEF Belief
    <3> QED BY <1>1, <3>1, MarksStay DEF Others
  <2> QED BY <1>1, <1>9, <1>10, <2>1, <2>2, Facts DEF Belief, Of
<1>13. Outlived'
  BY <1>5 DEF Outlived, OwnWrite, OldWrite, OldCommit
<1>14. Leftovers' /\ Whole'
  <2>1. ~Lost' \/ OldCommit' => ~Lost
    BY <1>5, <1>9 DEF OldCommit
  <2>2. Leftovers'
    BY <1>1, <1>11, <2>1, Facts DEF Leftovers, Of
  <2>3. Whole'
    BY <1>1, <1>11, Facts DEF Whole, Known, Of
  <2> QED BY <2>2, <2>3
<1> QED BY <1>6, <1>7, <1>8, <1>12, <1>13, <1>14 DEF Inv

(* A work has come to its end, awaited still or not.                         *)
Lands(ok) ==
  /\ Thread # NoWork /\ Executes(Thread, ok)
  /\ running' = [running EXCEPT ![1] = NoWork]
  /\ answer' = IF Thread # waits THEN answer ELSE IF ok THEN "ok" ELSE "error"
  /\ UNCHANGED <<queue, at, waits, raising, depth, blocks, sure, maybe, promised, unit, writes, cancels>>

LEMMA MarksAre ==
  ASSUME Typed, EngineAgrees, ~EngineEnds, NEW w, WorkOK(w), NEW ok \in BOOLEAN, Executes(w, ok)
  PROVE  /\ \A p \in 1..Len(tx'.marks) :
              \/ p \in 1..Len(tx.marks) /\ tx'.marks[p] = tx.marks[p]
              \/ w.call = "savepoint" /\ p = Len(tx.marks) + 1 /\ tx'.marks[p] = Mark(w.arg, tx.rows)
         /\ w.call = "savepoint" =>
              /\ Len(tx'.marks) = Len(tx.marks) + 1
              /\ tx'.marks[Len(tx.marks) + 1] = Mark(w.arg, tx.rows)
              /\ \A p \in 1..Len(tx.marks) : tx'.marks[p] = tx.marks[p]
         /\ Len(tx.marks) \in Nat
<1>1. tx.marks \in Seq(Marks) /\ Len(tx.marks) \in Nat /\ tx.rows \in SUBSET AllRows
  BY BegunFacts
<1>2. CASE w.call = "write"
  BY <1>1, <1>2, EngineDoes
<1>3. CASE w.call = "savepoint"
  <2>1. tx'.marks = Append(tx.marks, Mark(w.arg, tx.rows))
    BY <1>3, EngineDoes
  <2>2. Mark(w.arg, tx.rows) \in Marks
    BY <1>1, <1>3 DEF WorkOK, Mark, Marks
  <2>3. /\ Len(tx'.marks) = Len(tx.marks) + 1 /\ tx'.marks[Len(tx.marks) + 1] = Mark(w.arg, tx.rows)
        /\ \A p \in 1..Len(tx.marks) : tx'.marks[p] = tx.marks[p]
    BY <1>1, <2>1, <2>2, AppendProperties
  <2> QED BY <1>1, <1>3, <2>3
<1>4. CASE w.call \in {"release", "rollback_to"}
  <2>1. tx'.marks = tx.marks \/ \E n \in 0..Len(tx.marks) : tx'.marks = SubSeq(tx.marks, 1, n)
    <3>1. CASE ~ok
      BY <1>4, <3>1, EngineDoes
    <3>2. CASE ok
      <4>1. PICK i \in 1..Len(tx.marks) :
              tx'.marks = SubSeq(tx.marks, 1, i - 1) \/ tx'.marks = SubSeq(tx.marks, 1, i)
        BY <1>4, <3>2, EngineDoes
      <4>2. i - 1 \in 0..Len(tx.marks) /\ i \in 0..Len(tx.marks)
        BY <1>1
      <4> QED BY <4>1, <4>2
    <3> QED BY <3>1, <3>2
  <2>2. ASSUME NEW n \in 0..Len(tx.marks), tx'.marks = SubSeq(tx.marks, 1, n)
        PROVE  Len(tx'.marks) = n /\ \A p \in 1..n : p \in 1..Len(tx.marks) /\ tx'.marks[p] = tx.marks[p]
    BY <1>1, <2>2, CutFacts
  <2> QED BY <1>4, <2>1, <2>2
<1>5. CASE w.call \in {"commit", "rollback"}
  <2>1. tx'.marks = <<>>
    BY <1>5, EngineDoes, NothingFacts
  <2> QED BY <1>1, <1>5, <2>1
<1> QED BY <1>2, <1>3, <1>4, <1>5 DEF WorkOK, Calls

LEMMA LandsFacts ==
  ASSUME Allowed, Inv, NEW ok \in BOOLEAN, Lands(ok)
  PROVE  /\ WorkOK(Thread) /\ answer = "none" /\ Thread' = NoWork /\ ~Stale' /\ (Lost' <=> Lost)
         /\ Thread.call \in Calls
         /\ Thread = waits => at = "await" /\ ~Stale
         /\ Thread # waits => Stale /\ answer' = "none" /\ Placed' /\ (Done' <=> Done)
         /\ Sure = sure /\ Maybe = maybe /\ In = blocks /\ (Done <=> at = "out") /\ ~EngineEnds
         /\ Typed' /\ InLine' /\ NamesGrow' /\ EngineAgrees' /\ Outlived'
         /\ Known(tx.rows)' /\ Known(db)' /\ \A p \in 1..Len(tx'.marks) : Known(tx.marks[p].rows)'
<1>1. /\ Thread # NoWork /\ Executes(Thread, ok) /\ running' = [running EXCEPT ![1] = NoWork]
      /\ answer' = IF Thread # waits THEN answer ELSE IF ok THEN "ok" ELSE "error"
      /\ UNCHANGED <<queue, at, waits, raising, depth, blocks, sure, maybe, promised, unit, writes, cancels>>
      /\ ~EngineEnds
  BY DEF Lands, Allowed
<1>2. answer = "none" /\ Sure = sure /\ Maybe = maybe /\ In = blocks
  BY <1>1, Facts, Unanswered DEF InLine
<1>3. WorkOK(Thread) /\ (Thread = waits => at = "await" /\ ~Stale) /\ (Thread # waits => Stale) /\ Thread.call \in Calls
  <2>1. Thread = waits => at = "await"
    BY <1>1, Facts DEF InLine, Typed
  <2> QED BY <1>1, <2>1, Facts DEF InLine, Stale, WorkOK
<1>4. Thread' = NoWork /\ running' = [t \in Workers |-> running'[t]]
  <2>1. running = [t \in {1} |-> running[t]]
    BY Facts, OneThread DEF Typed
  <2>2. running' = [t \in {1} |-> NoWork]
    BY <1>1, <2>1
  <2> QED BY <2>2, OneThread DEF Thread
<1>5. ~Stale' /\ (Lost' <=> Lost) /\ (Done <=> at = "out") /\ Outlived'
  BY <1>1, <1>2, <1>4 DEF Stale, Lost, Done, Outlived, OwnWrite, OldWrite, OldCommit
<1>6. tx' \in Transactions /\ in_tx' \in BOOLEAN /\ EngineAgrees'
  BY <1>1, <1>3, Facts, EngineDoes
<1>7. /\ tx.rows \in SUBSET AllRows /\ db \in SUBSET AllRows
      /\ \A row \in tx.rows : row[1] \in 1..unit
      /\ \A row \in db : row[1] \in 1..unit
      /\ \A p \in 1..Len(tx.marks) : \A row \in tx.marks[p].rows : row[1] \in 1..unit
  BY Facts DEF Typed, Transactions, Whole, Known
<1>8. db' \in SUBSET AllRows /\ \A row \in db' : row[1] \in 1..unit
  <2>1. db' = db \/ db' = db \cup tx.rows
    BY <1>1, <1>3, Facts, EngineDoes DEF Calls
  <2> QED BY <1>7, <2>1
<1>9. Typed'
  <2>1. answer' \in {"none", "ok", "error"}
    BY <1>1, <1>2
  <2> QED BY <1>1, <1>4, <1>6, <1>8, <2>1, Facts DEF Typed
<1>10. InLine'
  <2>1. at = "await" => WorkOK(waits)' /\ waits'.cancels = cancels'
    BY <1>1, Facts DEF InLine, WorkOK
  <2>2. answer' # "none" => queue = <<>>
    BY <1>1, <1>2, <1>3, Facts DEF InLine
  <2>3. at = "await" /\ answer' = "none" => Thread # waits
    BY <1>1
  <2>4. at = "await" => waits # NoWork
    BY Facts, NoWorkFacts DEF InLine
  <2>5. at # "await" => answer' = "none"
    BY <1>1, <1>2, <1>3
  <2> QED BY <1>1, <1>2, <1>4, <1>5, <2>1, <2>2, <2>3, <2>4, <2>5, Facts DEF InLine
<1>11. NamesGrow'
  BY <1>1, Facts DEF NamesGrow
<1>12. Thread # waits => answer' = "none" /\ Placed' /\ (Done' <=> Done)
  BY <1>1, <1>2, Facts DEF Placed, Done
<1>13. \A row \in tx'.rows : row[1] \in 1..unit
  <2>1. CASE Thread.call = "write"
    BY <1>1, <1>3, <1>7, <2>1, Facts, EngineDoes DEF WorkOK
  <2>2. CASE Thread.call = "savepoint"
    BY <1>1, <1>3, <1>7, <2>2, Facts, EngineDoes
  <2>3. CASE Thread.call \in {"release", "rollback_to"}
    <3>1. tx'.rows = tx.rows \/ \E i \in 1..Len(tx.marks) : tx'.rows = tx.marks[i].rows
      BY <1>1, <1>3, <2>3, Facts, EngineDoes
    <3> QED BY <1>7, <3>1
  <2>4. CASE Thread.call \in {"commit", "rollback"}
    BY <1>1, <1>3, <2>4, Facts, EngineDoes, NothingFacts
  <2> QED BY <1>3, <2>1, <2>2, <2>3, <2>4 DEF Calls
<1>14. \A p \in 1..Len(tx'.marks) : \A row \in tx'.marks[p].rows : row[1] \in 1..unit
  <2>1. \A p \in 1..Len(tx'.marks) : \/ p \in 1..Len(tx.marks) /\ tx'.marks[p] = tx.marks[p]
                                     \/ tx'.marks[p] = Mark(Thread.arg, tx.rows)
    BY <1>1, <1>3, Facts, MarksAre
  <2>2. Mark(Thread.arg, tx.rows).rows = tx.rows
    BY DEF Mark
  <2> QED BY <1>7, <2>1, <2>2
<1>15. Known(tx.rows)' /\ Known(db)' /\ \A p \in 1..Len(tx'.marks) : Known(tx.marks[p].rows)'
  BY <1>1, <1>8, <1>13, <1>14 DEF Known
<1> QED BY <1>1, <1>2, <1>3, <1>4, <1>5, <1>6, <1>9, <1>10, <1>11, <1>12, <1>15

(* An answer that ends nothing leaves the other units where they were.      *)
LEMMA SettledKeeps ==
  ASSUME Allowed, Inv, NEW ok \in BOOLEAN, Lands(ok), Thread = waits,
         waits.call \notin {"commit", "rollback"}, waits.call # "write" => ok,
         db' = db, Others(tx.rows)' = Others(tx.rows), Live => Belief'
  PROVE  Inv'
<1>1. /\ answer' = (IF ok THEN "ok" ELSE "error") /\ ~Done /\ ~Done' /\ (Live' <=> Live)
      /\ UNCHANGED <<queue, at, waits, raising, depth, blocks, sure, maybe, promised, unit, writes, cancels>>
  BY LandsFacts DEF Lands, Done, Live
<1>2. Placed' /\ RolledBack' /\ Durable'
  BY <1>1, Facts DEF Placed, RolledBack, Durable, CommitIsDurable, Got
<1>3. Belief'
  BY <1>1 DEF Belief
<1>4. \A u : (Ended(u)' <=> Ended(u)) /\ (Ended(u) => u # unit)
  BY <1>1 DEF Ended
<1>5. \A u : u # unit => Of(u, tx.rows)' = Of(u, tx.rows)
  BY <1>1 DEF Others, Of
<1>6. Leftovers'
  <2>1. ~Lost' \/ OldCommit' => ~Lost
    BY LandsFacts DEF OldCommit
  <2>2. SUFFICES ASSUME ~Lost, NEW u \in 1..unit, Ended(u), Of(u, tx.rows)' # {} PROVE Left(u)'
    BY <1>1, <1>4, <2>1 DEF Leftovers
  <2>3. Left(u)
    BY <1>4, <1>5, <2>2, Facts DEF Leftovers
  <2> QED BY <1>1, <1>4, <1>5, <2>2, <2>3 DEF Left, Of
<1>7. Whole'
  <2>1. \A u \in 1..unit : Of(u, db)' # {} =>
          Ended(u)' /\ promised'[u].sure \subseteq Of(u, db)' /\ Of(u, db)' \subseteq promised'[u].maybe
    BY <1>1, <1>4, Facts DEF Whole, Of
  <2> QED BY <1>1, <2>1, LandsFacts DEF Whole
<1> QED BY <1>2, <1>3, <1>6, <1>7, LandsFacts DEF Inv

LEMMA WriteLands ==
  ASSUME Allowed, Inv, NEW ok \in BOOLEAN, Lands(ok), Thread = waits, waits.call = "write"
  PROVE  Inv'
<1>1. /\ db' = db /\ tx'.marks = tx.marks
      /\ tx'.rows = IF ok THEN tx.rows \cup {waits.arg} ELSE tx.rows
      /\ WorkOK(waits) /\ waits.arg[1] = unit
  BY LandsFacts, Facts, EngineDoes DEF Lands, Placed
<1>2. /\ answer' = (IF ok THEN "ok" ELSE "error")
      /\ UNCHANGED <<waits, blocks, sure, maybe, promised, unit>>
  BY DEF Lands
<1>3. Others(tx.rows)' = Others(tx.rows)
  BY <1>1, <1>2 DEF Others
<1>4. /\ Sure' = IF ok THEN sure \cup {waits.arg} ELSE sure
      /\ Maybe' = IF ok THEN maybe \cup {waits.arg} ELSE maybe
      /\ In' = blocks
  BY <1>2 DEF Sure, Maybe, In, Got
<1>5. ASSUME Live PROVE Belief'
  <2>1. /\ sure \subseteq Of(unit, tx.rows) /\ Of(unit, tx.rows) \subseteq maybe
        /\ \A bs \in {blocks} : BlocksHaveMarks(bs)
    BY <1>5, LandsFacts, Facts DEF Belief
  <2>2. ASSUME NEW bs \in {In'} PROVE BlocksHaveMarks(bs)'
    BY <1>1, <1>2, <1>3, <1>4, <2>1, <2>2, MarksStay
  <2>3. Of(unit, tx.rows)' = IF ok THEN Of(unit, tx.rows) \cup {waits.arg} ELSE Of(unit, tx.rows)
    BY <1>1, <1>2 DEF Of
  <2> QED BY <1>4, <2>1, <2>2, <2>3 DEF Belief
<1> QED BY <1>1, <1>3, <1>5, SettledKeeps

LEMMA SavepointLands ==
  ASSUME Allowed, Inv, NEW ok \in BOOLEAN, Lands(ok), Thread = waits, waits.call = "savepoint"
  PROVE  Inv'
<1>n. PICK n : n = Len(tx.marks)
  OBVIOUS
<1>m. PICK m : m = Mark(waits.arg, tx.rows)
  OBVIOUS
<1>b. PICK b : b = Block(waits.arg)
  OBVIOUS
<1>1. /\ ok /\ db' = db /\ tx'.rows = tx.rows /\ WorkOK(waits)
      /\ \A i \in 1..Len(blocks) : blocks[i].name < waits.arg
      /\ waits.arg \in Nat /\ blocks \in Seq(Blocks) /\ \A i \in 1..Len(blocks) : blocks[i].name \in Nat
  BY LandsFacts, Facts, EngineDoes, NamesAreNumbers DEF Lands, Placed, WorkOK, Typed
<1>2. /\ n \in Nat /\ Len(tx'.marks) = n + 1 /\ tx'.marks[n + 1] = m
      /\ \A p \in 1..n : tx'.marks[p] = tx.marks[p]
  BY <1>n, <1>m, LandsFacts, Facts, MarksAre DEF Lands
<1>3. answer' = "ok" /\ UNCHANGED <<waits, blocks, sure, maybe, promised, unit>>
  BY <1>1 DEF Lands
<1>4. Others(tx.rows)' = Others(tx.rows) /\ \A rows : Others(rows)' = Others(rows)
  BY <1>1, <1>3 DEF Others
<1>5. Sure' = sure /\ Maybe' = maybe /\ In' = Append(blocks, b)
  BY <1>3, <1>b DEF Sure, Maybe, In, Got, Block
<1>6. b.name = waits.arg /\ b.sure = sure /\ b.maybe = maybe /\ m.name = waits.arg /\ m.rows = tx.rows /\ b \in Blocks
  BY <1>1, <1>m, <1>b, Facts DEF Block, Mark, Blocks, Typed
<1>7. ASSUME Live PROVE Belief'
  <2>1. /\ sure \subseteq Of(unit, tx.rows) /\ Of(unit, tx.rows) \subseteq maybe
        /\ \A bs \in {blocks} : BlocksHaveMarks(bs)
    BY <1>7, LandsFacts, Facts DEF Belief
  <2>2. /\ Len(Append(blocks, b)) = Len(blocks) + 1 /\ Len(blocks) \in Nat
        /\ \A i \in 1..Len(blocks) : Append(blocks, b)[i] = blocks[i]
        /\ Append(blocks, b)[Len(blocks) + 1] = b
    BY <1>1, <1>6, AppendProperties
  <2>3. \A p, i : i \in 1..Len(blocks) => \A c : c = blocks[i] => (IsOf(p, c)' <=> IsOf(p, c))
    <3> TAKE p, i
    <3>1. SUFFICES ASSUME i \in 1..Len(blocks), NEW c, c = blocks[i] PROVE IsOf(p, c)' <=> IsOf(p, c)
      OBVIOUS
    <3>2. c.name \in Nat /\ c.name < waits.arg
      BY <1>1, <3>1
    <3>3. \A q \in 1..Len(tx'.marks) : q \in 1..n \/ q = n + 1
      BY <1>2
    <3>4. tx'.marks[n + 1].name # c.name
      BY <1>1, <1>2, <1>6, <3>2
    <3>5. p \in 1..Len(tx'.marks) /\ tx'.marks[p].name = c.name => p \in 1..n
      BY <3>3, <3>4
    <3>6. \A q \in 1..n : tx'.marks[q] = tx.marks[q] /\ q \in 1..Len(tx'.marks) /\ q \in 1..Len(tx.marks)
      BY <1>2, <1>n
    <3>7. n = Len(tx.marks)
      BY <1>n
    <3>8. IsOf(p, c)' => IsOf(p, c)
      <4>1. SUFFICES ASSUME IsOf(p, c)' PROVE IsOf(p, c)
        OBVIOUS
      <4>2. p \in 1..n /\ tx'.marks[p] = tx.marks[p]
        BY <3>5, <3>6, <4>1 DEF IsOf
      <4> QED BY <1>1, <1>3, <3>6, <3>7, <4>1, <4>2 DEF IsOf, Others, Of
    <3>9. IsOf(p, c) => IsOf(p, c)'
      <4>1. SUFFICES ASSUME IsOf(p, c) PROVE IsOf(p, c)'
        OBVIOUS
      <4>2. p \in 1..n /\ tx'.marks[p] = tx.marks[p] /\ p \in 1..Len(tx'.marks)
        BY <3>6, <3>7, <4>1 DEF IsOf
      <4>3. \A q \in 1..Len(tx'.marks) : q > p => tx'.marks[q].name # c.name
        BY <3>3, <3>4, <3>6, <3>7, <4>1 DEF IsOf
      <4> QED BY <1>1, <1>3, <4>1, <4>2, <4>3 DEF IsOf, Others, Of
    <3> QED BY <3>8, <3>9
  <2>4. IsOf(n + 1, b)'
    <3>1. n + 1 \in 1..Len(tx'.marks) /\ ~\E q \in 1..Len(tx'.marks) : q > n + 1
      BY <1>2
    <3> QED BY <1>1, <1>2, <1>3, <1>6, <2>1, <3>1 DEF IsOf, Others, Of
  <2>5. \A q \in 1..Len(tx'.marks) : IsOf(q, b)' => q = n + 1
    <3>1. \A q \in 1..Len(tx'.marks) : q = n + 1 \/ (n + 1 > q /\ n + 1 \in 1..Len(tx'.marks))
      BY <1>2
    <3> QED BY <1>2, <1>6, <3>1 DEF IsOf
  <2>6. ASSUME NEW bs \in {In'} PROVE BlocksHaveMarks(bs)'
    <3>1. bs = Append(blocks, b)
      BY <1>5
    <3>2. \A i \in 1..Len(bs) : (i \in 1..Len(blocks) /\ bs[i] = blocks[i]) \/ (i = Len(blocks) + 1 /\ bs[i] = b)
      <4>1. Len(bs) = Len(blocks) + 1 /\ bs[Len(blocks) + 1] = b /\ \A i \in 1..Len(blocks) : bs[i] = blocks[i]
        BY <2>2, <3>1
      <4>2. \A i \in 1..Len(bs) : i \in 1..Len(blocks) \/ i = Len(blocks) + 1
        BY <2>2, <4>1
      <4> QED BY <4>1, <4>2
    <3>3. \A c \in {blocks} : BlocksHaveMarks(c)
      BY <2>1
    <3>4. ASSUME NEW i \in 1..Len(bs) PROVE \E p \in 1..Len(tx'.marks) : IsOf(p, bs[i])'
      <4>1. PICK c : c = bs[i]
        OBVIOUS
      <4>2. CASE i \in 1..Len(blocks) /\ bs[i] = blocks[i]
        <5>1. PICK p \in 1..Len(tx.marks) : IsOf(p, blocks[i])
          BY <3>3, <4>2 DEF BlocksHaveMarks
        <5>2. p \in 1..Len(tx'.marks)
          BY <1>2, <1>n
        <5>3. IsOf(p, c)'
          BY <2>3, <4>1, <4>2, <5>1
        <5> QED BY <4>1, <5>2, <5>3
      <4>3. CASE bs[i] = b
        <5>1. n + 1 \in 1..Len(tx'.marks)
          BY <1>2
        <5> QED BY <2>4, <4>3, <5>1
      <4> QED BY <3>2, <4>2, <4>3
    <3>5. ASSUME NEW i \in 1..Len(bs), NEW j \in 1..Len(bs), i < j,
                 NEW p \in 1..Len(tx'.marks), NEW q \in 1..Len(tx'.marks), IsOf(p, bs[i])', IsOf(q, bs[j])'
          PROVE  p < q
      <4>1. i \in 1..Len(blocks) /\ bs[i] = blocks[i]
        BY <2>2, <3>1, <3>2, <3>5
      <4>2. IsOf(p, blocks[i])
        BY <2>3, <3>5, <4>1
      <4>3. p \in 1..Len(tx.marks)
        BY <4>2 DEF IsOf
      <4>4. CASE j \in 1..Len(blocks) /\ bs[j] = blocks[j]
        <5>1. IsOf(q, blocks[j])
          BY <2>3, <3>5, <4>4
        <5>2. q \in 1..Len(tx.marks)
          BY <5>1 DEF IsOf
        <5> QED BY <3>3, <3>5, <4>1, <4>2, <4>3, <4>4, <5>1, <5>2 DEF BlocksHaveMarks
      <4>5. CASE bs[j] = b
        <5>1. q = n + 1
          BY <2>5, <3>5, <4>5
        <5> QED BY <1>2, <1>n, <4>3, <5>1
      <4> QED BY <3>2, <4>4, <4>5
    <3> QED BY <3>4, <3>5 DEF BlocksHaveMarks
  <2> QED BY <1>1, <1>3, <1>5, <2>1, <2>6 DEF Belief, Of
<1> QED BY <1>1, <1>4, <1>7, SettledKeeps

(* With the innermost block's mark, or from it on, the marks of the blocks    *)
(* around it stay.                                                         *)
LEMMA CutKeeps ==
  ASSUME Typed, BlocksHaveMarks(blocks), blocks # <<>>, unit' = unit,
         NEW i \in 1..Len(tx.marks), IsOf(i, Last(blocks)), NEW n \in {i - 1, i},
         tx'.marks = SubSeq(tx.marks, 1, n), Others(tx.rows)' = Others(tx.rows),
         NEW bs, bs = Front(blocks)
  PROVE  BlocksHaveMarks(bs)'
<1>1. /\ tx.marks \in Seq(Marks) /\ Len(tx.marks) \in Nat /\ i \in Nat
  BY DEF Typed, Transactions
<1>2. n \in 0..Len(tx.marks) /\ n \in Nat
  BY <1>1
<1>3. /\ Len(tx'.marks) = n
      /\ \A p \in 1..n : p \in 1..Len(tx.marks) /\ tx'.marks[p] = tx.marks[p]
  BY <1>1, <1>2, CutFacts
<1>4. /\ Len(blocks) \in 1..Len(blocks) /\ Last(blocks) = blocks[Len(blocks)]
      /\ \A k \in 1..Len(bs) : k \in 1..Len(blocks) /\ k < Len(blocks) /\ bs[k] = blocks[k]
  BY BlockFacts
<1>5. \A rows : Others(rows)' = Others(rows) /\ Of(unit, rows)' = Of(unit, rows)
  BY DEF Others, Of
<1>6. ASSUME NEW k \in 1..Len(bs)
      PROVE  \E p \in 1..n : IsOf(p, bs[k]) /\ IsOf(p, bs[k])'
  <2>1. PICK p \in 1..Len(tx.marks) : IsOf(p, blocks[k])
    BY <1>4, <1>6 DEF BlocksHaveMarks
  <2>2. p < i
    BY <1>4, <1>6, <2>1 DEF BlocksHaveMarks
  <2>3. p \in 1..n
    BY <1>1, <1>2, <2>1, <2>2
  <2>4. PICK c : c = blocks[k] /\ c = bs[k]
    BY <1>4, <1>6
  <2>5. IsOf(p, c)
    BY <2>1, <2>4
  <2>6. p \in 1..Len(tx'.marks) /\ tx'.marks[p].name = c.name
    BY <1>3, <2>3, <2>5 DEF IsOf
  <2>7. \A q \in 1..Len(tx'.marks) : q > p => tx'.marks[q].name # c.name
    BY <1>3, <2>5 DEF IsOf
  <2>8. c.sure \subseteq Of(unit, tx.marks[p].rows)' /\ Of(unit, tx.marks[p].rows)' \subseteq c.maybe
    BY <1>3, <2>3, <2>5 DEF IsOf, Of
  <2>9. Others(tx.marks[p].rows)' = Others(tx.rows)'
    BY <1>3, <2>3, <2>5 DEF IsOf, Others
  <2>10. IsOf(p, c)'
    BY <2>6, <2>7, <2>8, <2>9 DEF IsOf
  <2> QED BY <2>3, <2>4, <2>5, <2>10
<1>7. \A k \in 1..Len(bs) : \E p \in 1..Len(tx'.marks) : IsOf(p, bs[k])'
  BY <1>3, <1>6
<1>8. ASSUME NEW k \in 1..Len(bs), NEW p \in 1..n, IsOf(p, bs[k]), IsOf(p, bs[k])',
             NEW r \in 1..Len(tx'.marks), IsOf(r, bs[k])'
      PROVE  r = p
  <2>1. PICK c : c = bs[k]
    OBVIOUS
  <2>2. IsOf(p, c)' /\ IsOf(r, c)'
    BY <1>8, <2>1
  <2>3. ~(r > p) /\ ~(p > r)
    BY <2>2 DEF IsOf
  <2> QED BY <1>2, <1>3, <1>8, <2>3
<1>9. ASSUME NEW k \in 1..Len(bs), NEW j \in 1..Len(bs), k < j,
             NEW p \in 1..Len(tx'.marks), NEW q \in 1..Len(tx'.marks), IsOf(p, bs[k])', IsOf(q, bs[j])'
      PROVE  p < q
  <2>1. IsOf(p, bs[k]) /\ p \in 1..n
    BY <1>6, <1>8, <1>9
  <2>2. IsOf(q, bs[j]) /\ q \in 1..n
    BY <1>6, <1>8, <1>9
  <2>3. IsOf(p, blocks[k]) /\ IsOf(q, blocks[j]) /\ p \in 1..Len(tx.marks) /\ q \in 1..Len(tx.marks)
    BY <1>3, <1>4, <2>1, <2>2
  <2> QED BY <1>4, <1>9, <2>3 DEF BlocksHaveMarks
<1> QED BY <1>7, <1>9 DEF BlocksHaveMarks

LEMMA LeavingLands ==
  ASSUME Allowed, Inv, NEW ok \in BOOLEAN, Lands(ok), Thread = waits, waits.call \in {"release", "rollback_to"}
  PROVE  Inv'
<1>1. blocks # <<>> /\ waits.arg = Last(blocks).name /\ at = "await" /\ WorkOK(waits)
  BY LandsFacts, Facts DEF Placed
<1>2. Live
  <2>1. raising = NoRaise \/ raising.what = "error"
    BY <1>1, Facts DEF Placed
  <2> QED BY <1>1, <2>1, LandsFacts DEF Live, Lost, Done, NoRaise, Raised
<1>3. /\ sure \subseteq Of(unit, tx.rows) /\ Of(unit, tx.rows) \subseteq maybe /\ BlocksHaveMarks(blocks)
  BY <1>2, LandsFacts, Facts DEF Belief
<1>4. Len(blocks) \in 1..Len(blocks) /\ Last(blocks) = blocks[Len(blocks)]
  BY <1>1, Facts, BlockFacts
<1>5. PICK p \in 1..Len(tx.marks) : IsOf(p, Last(blocks))
  BY <1>3, <1>4 DEF BlocksHaveMarks
<1>6. ok /\ db' = db
  BY <1>1, <1>5, LandsFacts, Facts, EngineDoes DEF Lands, IsOf
<1>7. PICK i \in 1..Len(tx.marks) :
        /\ tx.marks[i].name = waits.arg
        /\ \A q \in 1..Len(tx.marks) : q > i => tx.marks[q].name # waits.arg
        /\ waits.call = "release" => tx'.rows = tx.rows /\ tx'.marks = SubSeq(tx.marks, 1, i - 1)
        /\ waits.call = "rollback_to" => tx'.rows = tx.marks[i].rows /\ tx'.marks = SubSeq(tx.marks, 1, i)
  BY <1>6, LandsFacts, Facts, EngineDoes DEF Lands
<1>8. i = p
  <2>1. ~(i > p) /\ ~(p > i)
    BY <1>1, <1>5, <1>7 DEF IsOf
  <2>2. i \in Nat /\ p \in Nat
    OBVIOUS
  <2> QED BY <2>1, <2>2
<1>9. answer' = "ok" /\ UNCHANGED <<waits, blocks, sure, maybe, promised, unit>>
  BY <1>6 DEF Lands
<1>10. Others(tx.rows)' = Others(tx.rows)
  <2>1. Others(tx.marks[i].rows) = Others(tx.rows)
    BY <1>5, <1>8 DEF IsOf
  <2> QED BY <1>7, <1>9, <2>1 DEF Others
<1>11. In' = Front(blocks)
  BY <1>9 DEF In, Got
<1>12. ASSUME NEW bs \in {In'} PROVE BlocksHaveMarks(bs)'
  <2>1. PICK n \in {i - 1, i} : tx'.marks = SubSeq(tx.marks, 1, n)
    BY <1>7
  <2> QED BY <1>1, <1>3, <1>5, <1>8, <1>9, <1>10, <1>11, <2>1, Facts, CutKeeps
<1>13. Sure' \subseteq Of(unit, tx.rows)' /\ Of(unit, tx.rows)' \subseteq Maybe'
  <2>1. CASE waits.call = "release"
    <3>1. Sure' = sure /\ Maybe' = maybe
      BY <1>9, <2>1 DEF Sure, Maybe, Got
    <3> QED BY <1>3, <1>7, <1>9, <2>1, <3>1 DEF Of
  <2>2. CASE waits.call = "rollback_to"
    <3>1. Sure' = Last(blocks).sure /\ Maybe' = Last(blocks).maybe
      BY <1>9, <2>2 DEF Sure, Maybe, Got
    <3> QED BY <1>5, <1>7, <1>8, <1>9, <2>2, <3>1 DEF Of, IsOf
  <2> QED BY <2>1, <2>2
<1>14. Belief'
  BY <1>12, <1>13 DEF Belief
<1> QED BY <1>6, <1>10, <1>14, SettledKeeps

(* The end of the unit: what a commit finds in the transaction is the unit's *)
(* own, and what ended units have left there.                              *)
LEMMA CommitMoves ==
  ASSUME Inv, ~Lost \/ OldCommit, ~Done => Of(unit, tx.rows) = {} \/ Left(unit), db' = db \cup tx.rows,
         UNCHANGED <<unit, promised>>, NEW u \in 1..unit, Of(u, db)' # {}
  PROVE  /\ promised'[u].sure \subseteq Of(u, db)' /\ Of(u, db)' \subseteq promised'[u].maybe
         /\ Ended(u) \/ Of(u, tx.rows) # {}
<1>1. Of(u, db)' = Of(u, db) \cup Of(u, tx.rows) /\ promised' = promised
  BY DEF Of
<1>2. CASE Of(u, tx.rows) = {}
  <2>1. Of(u, db) # {}
    BY <1>1, <1>2
  <2>2. Ended(u) /\ promised[u].sure \subseteq Of(u, db) /\ Of(u, db) \subseteq promised[u].maybe
    BY <2>1, Facts DEF Whole
  <2> QED BY <1>1, <1>2, <2>2
<1>3. CASE Of(u, tx.rows) # {}
  <2>1. Left(u)
    <3>1. CASE Ended(u)
      BY <1>3, <3>1, Facts DEF Leftovers
    <3>2. CASE ~Ended(u)
      BY <1>3, <3>2 DEF Ended
    <3> QED BY <3>1, <3>2
  <2> QED BY <1>1, <1>3, <2>1 DEF Left
<1> QED BY <1>2, <1>3

LEMMA EndLands ==
  ASSUME Allowed, Inv, NEW ok \in BOOLEAN, Lands(ok), Thread = waits, waits.call \in {"commit", "rollback"}
  PROVE  Inv'
<1>1. /\ ok /\ tx' = NoTransaction /\ tx'.rows = {} /\ answer' = "ok" /\ blocks = <<>> /\ at = "await" /\ ~Done
      /\ db' = IF waits.call = "commit" THEN db \cup tx.rows ELSE db
      /\ UNCHANGED <<queue, at, waits, raising, depth, blocks, sure, maybe, promised, unit, writes, cancels>>
  <2>1. ok /\ tx' = NoTransaction /\ db' = (IF waits.call = "commit" THEN db \cup tx.rows ELSE db)
    BY LandsFacts, Facts, EngineDoes DEF Lands
  <2>2. at = "await" /\ ~Done /\ blocks = <<>>
    BY LandsFacts, Facts DEF Placed
  <2> QED BY <2>1, <2>2, NothingFacts DEF Lands
<1>2. Placed' /\ RolledBack'
  BY <1>1, Facts DEF Placed, RolledBack
<1>3. Leftovers'
  BY <1>1 DEF Leftovers, Of
<1>4. CASE waits.call = "commit"
  <2>1. ~Lost /\ Live /\ Done' /\ \A u : Ended(u)'
    <3>1. raising = NoRaise
      BY <1>1, <1>4, Facts DEF Placed
    <3> QED BY <1>1, <1>4, <3>1 DEF Lost, Live, Done, Ended, NoRaise, Raised
  <2>2. /\ promised[unit].sure = sure /\ promised[unit].maybe = maybe
        /\ sure \subseteq Of(unit, tx.rows) /\ Of(unit, tx.rows) \subseteq maybe
    BY <1>1, <1>4, <2>1, LandsFacts, Facts DEF Placed, Belief
  <2>3. Left(unit)
    <3>1. ~Ended(unit) /\ unit \in 1..unit
      BY <1>1, Facts DEF Ended
    <3>2. Of(unit, db) = {}
      BY <3>1, Facts DEF Whole
    <3> QED BY <2>2, <3>2 DEF Left
  <2>4. Whole'
    <3>1. ASSUME NEW u \in 1..unit', Of(u, db)' # {}
          PROVE  Ended(u)' /\ promised'[u].sure \subseteq Of(u, db)' /\ Of(u, db)' \subseteq promised'[u].maybe
      BY <1>1, <1>4, <2>1, <2>3, <3>1, CommitMoves
    <3> QED BY <3>1, LandsFacts DEF Whole
  <2>5. Durable'
    <3>1. promised'[unit'].sure \subseteq db'
      BY <1>1, <1>4, <2>2 DEF Of
    <3>2. CommitIsDurable'
      BY <1>1, <1>4, Facts DEF CommitIsDurable
    <3> QED BY <3>1, <3>2 DEF Durable
  <2>6. Belief'
    BY <2>1 DEF Belief, Live
  <2> QED BY <1>2, <1>3, <2>4, <2>5, <2>6, LandsFacts DEF Inv
<1>5. CASE waits.call = "rollback"
  <2>1. Lost' /\ ~Done'
    BY <1>1, <1>5 DEF Lost, Done
  <2>2. \A u : (Ended(u)' <=> Ended(u)) /\ Of(u, db)' = Of(u, db)
    BY <1>1, <1>5, <2>1 DEF Ended, Of
  <2>3. Whole'
    BY <1>1, <1>5, <2>2, Facts, LandsFacts DEF Whole
  <2>4. Durable'
    BY <1>1, <1>5, Facts DEF Durable, CommitIsDurable, Got
  <2>5. Belief'
    BY <2>1 DEF Belief, Live
  <2> QED BY <1>2, <1>3, <2>3, <2>4, <2>5, LandsFacts DEF Inv
<1> QED BY <1>4, <1>5

(* A work lands that nobody waits for.                                     *)
LEMMA OutlivedLands ==
  ASSUME Allowed, Inv, NEW ok \in BOOLEAN, Lands(ok), Thread # waits
  PROVE  Inv'
<1>1. /\ Stale /\ ~Stale' /\ answer = "none" /\ answer' = "none" /\ (Done' <=> Done) /\ (Lost' <=> Lost) /\ (Live' <=> Live)
      /\ Sure' = sure /\ Maybe' = maybe /\ In' = blocks /\ Sure = sure /\ Maybe = maybe /\ In = blocks
      /\ WorkOK(Thread) /\ Thread.call \in Calls
      /\ UNCHANGED <<queue, at, waits, raising, depth, blocks, sure, maybe, promised, unit, writes, cancels>>
  BY LandsFacts, Unanswered DEF Lands, Live
<1>2. \A u : (Ended(u)' <=> Ended(u))
  BY <1>1 DEF Ended
<1>3. /\ Placed' /\ RolledBack' /\ ~Got({"commit"})' /\ ~OldCommit'
  BY <1>1, LandsFacts DEF RolledBack, Got, OldCommit
<1>4. CASE Thread.call # "commit"
  <2>1. db' = db
    BY <1>1, <1>4, LandsFacts, Facts, EngineDoes DEF Lands, Calls
  <2>2. Whole'
    BY <1>1, <1>2, <2>1, Facts, LandsFacts DEF Whole, Of
  <2>3. Durable'
    BY <1>1, <1>3, <2>1, Facts DEF Durable, CommitIsDurable
  <2>4. ASSUME Lost PROVE Belief' /\ Leftovers'
    BY <1>1, <1>3, <2>4 DEF Belief, Leftovers, Live
  <2>5. ASSUME ~Lost PROVE Belief' /\ Leftovers'
    <3> DEFINE e == Thread.arg[1]
    <3>1. Thread.call = "write" /\ e \in 1..unit
      BY <1>1, <1>4, <2>5, Facts DEF Outlived, WorkOK
    <3>2. tx'.marks = tx.marks /\ tx'.rows \in {tx.rows, tx.rows \cup {Thread.arg}}
      BY <1>1, <3>1, LandsFacts, Facts, EngineDoes DEF Lands
    <3>3. \A u : u # e => Of(u, tx.rows)' = Of(u, tx.rows)
      BY <1>1, <3>2 DEF Of
    <3>4. \A u : u = e => Of(u, tx.rows)' \subseteq Of(u, tx.rows) \cup {Thread.arg} /\ Of(u, tx.rows) \subseteq Of(u, tx.rows)'
      BY <1>1, <3>2 DEF Of
    <3>5. Leftovers'
      <4>1. SUFFICES ASSUME NEW u \in 1..unit, Ended(u), Of(u, tx.rows)' # {} PROVE Left(u)'
        BY <1>1, <1>2 DEF Leftovers
      <4>2. CASE u # e
        BY <1>1, <2>1, <2>5, <3>3, <4>1, <4>2, Facts DEF Leftovers, Left, Of
      <4>3. CASE u = e
        <5>1. Left(u) /\ Thread.arg \in promised[u].maybe
          BY <1>1, <2>5, <3>1, <4>1, <4>3, Facts DEF Outlived, OldWrite
        <5> QED BY <1>1, <2>1, <3>4, <4>3, <5>1 DEF Left, Of
      <4> QED BY <4>2, <4>3
    <3>6. ASSUME Live PROVE Belief'
      <4>1. /\ sure \subseteq Of(unit, tx.rows) /\ Of(unit, tx.rows) \subseteq maybe
            /\ \A bs \in {blocks} : BlocksHaveMarks(bs)
        BY <1>1, <3>6, Facts DEF Belief
      <4>2. Of(unit, tx.rows)' = Of(unit', tx'.rows)
        BY DEF Of
      <4>3. CASE e = unit
        <5>1. Thread.arg \in maybe
          BY <1>1, <3>1, <3>6, <4>3, Facts DEF Outlived, OwnWrite, Ended, Live
        <5>2. Others(tx.rows)' = Others(tx.rows)
          BY <1>1, <3>2, <4>3 DEF Others
        <5>3. \A bs \in {In'} : BlocksHaveMarks(bs)'
          BY <1>1, <3>2, <4>1, <5>2, MarksStay
        <5>4. Of(unit, tx.rows) \subseteq Of(unit, tx.rows)' /\ Of(unit, tx.rows)' \subseteq maybe
          BY <1>1, <3>2, <4>1, <5>1 DEF Of
        <5> QED BY <1>1, <4>1, <5>3, <5>4 DEF Belief
      <4>4. CASE e # unit
        <5>1. blocks = <<>>
          BY <1>1, <2>5, <3>1, <4>4, Facts DEF Outlived, OldWrite, Ended
        <5>2. ASSUME NEW bs \in {In'} PROVE BlocksHaveMarks(bs)'
          <6>1. 1..Len(bs) = {}
            BY <1>1, <5>1
          <6> QED BY <6>1 DEF BlocksHaveMarks
        <5>3. Of(unit, tx.rows)' = Of(unit, tx.rows)
          BY <1>1, <3>2, <4>4 DEF Of
        <5> QED BY <1>1, <4>1, <5>2, <5>3 DEF Belief
      <4> QED BY <4>3, <4>4
    <3> QED BY <1>1, <3>5, <3>6 DEF Belief
  <2> QED BY <1>3, <2>2, <2>3, <2>4, <2>5, LandsFacts DEF Inv
<1>5. CASE Thread.call = "commit"
  <2>1. tx'.rows = {} /\ db' = db \cup tx.rows
    BY <1>1, <1>5, LandsFacts, Facts, EngineDoes, NothingFacts DEF Lands
  <2>2. OldCommit /\ (~Done => Of(unit, tx.rows) = {}) /\ (~Lost => blocks = <<>>)
    BY <1>1, <1>5, Facts DEF Outlived, OldCommit
  <2>3. Leftovers'
    BY <2>1 DEF Leftovers, Of
  <2>4. Durable'
    BY <1>1, <1>3, <2>1, Facts DEF Durable, CommitIsDurable
  <2>5. Whole'
    <3>1. ASSUME NEW u \in 1..unit', Of(u, db)' # {}
          PROVE  Ended(u)' /\ promised'[u].sure \subseteq Of(u, db)' /\ Of(u, db)' \subseteq promised'[u].maybe
      <4>1. /\ promised'[u].sure \subseteq Of(u, db)' /\ Of(u, db)' \subseteq promised'[u].maybe
            /\ Ended(u) \/ Of(u, tx.rows) # {}
        BY <1>1, <2>1, <2>2, <3>1, CommitMoves
      <4>2. Ended(u)
        BY <2>2, <4>1 DEF Ended
      <4> QED BY <1>2, <4>1, <4>2
    <3> QED BY <3>1, LandsFacts DEF Whole
  <2>6. ASSUME Live PROVE Belief'
    <3>1. sure \subseteq {} /\ blocks = <<>>
      BY <1>1, <2>2, <2>6, Facts DEF Belief, Live
    <3>2. ASSUME NEW bs \in {In'} PROVE BlocksHaveMarks(bs)'
      <4>1. 1..Len(bs) = {}
        BY <1>1, <3>1
      <4> QED BY <4>1 DEF BlocksHaveMarks
    <3>3. Of(unit, tx.rows)' = {}
      BY <2>1 DEF Of
    <3> QED BY <1>1, <3>1, <3>2, <3>3 DEF Belief
  <2>7. Belief'
    BY <1>1, <2>6 DEF Belief
  <2> QED BY <1>3, <2>3, <2>4, <2>5, <2>7, LandsFacts DEF Inv
<1> QED BY <1>4, <1>5

LEMMA FinishStep == Allowed /\ Inv /\ Finish(1) => Inv'
<1> SUFFICES ASSUME Allowed, Inv, Finish(1) PROVE Inv'
  OBVIOUS
<1>1. PICK ok \in BOOLEAN : Lands(ok)
  BY DEF Finish, Lands, Thread, belief, counts
<1>2. CASE Thread = waits
  <2>1. waits.call \in Calls
    BY <1>1, <1>2, LandsFacts
  <2> QED BY <1>1, <1>2, <2>1, WriteLands, SavepointLands, LeavingLands, EndLands DEF Calls
<1> QED BY <1>1, <1>2, OutlivedLands

LEMMA NextInv == Allowed /\ Inv /\ [Next]_vars => Inv'
<1> SUFFICES ASSUME Allowed, Inv, [Next]_vars PROVE Inv'
  OBVIOUS
<1>1. CASE Task
  <2>1. Cancelled => waits.call \in Calls
    BY CancelledFacts
  <2>2. Cancelled => Inv'
    BY <2>1, CancelledWrite, CancelledBlock, CancelledCommit DEF Calls
  <2> QED BY <1>1, <2>2, EnterStep, WriteStep, SavepointStep, ReleaseStep, CommitStep, AnsweredStep, RefusedStep,
             UnwindStep, CatchStep DEF Task
<1>2. CASE \E t \in Workers : Take(t) \/ Finish(t)
  BY <1>2, OneThread, TakeStep, FinishStep
<1>3. CASE UNCHANGED vars
  <2>1. UNCHANGED <<queue, running, in_tx, tx, db, at, waits, answer, raising, depth, blocks, sure, maybe,
                    promised, unit, writes, cancels>>
    BY <1>3 DEF vars, thread, engine, belief, counts
  <2>2. Thread' = Thread
    BY <2>1 DEF Thread
  <2>3. (Stale' <=> Stale) /\ (Done' <=> Done) /\ (Lost' <=> Lost) /\ (Live' <=> Live)
        /\ (OldWrite' <=> OldWrite) /\ (OwnWrite' <=> OwnWrite) /\ (OldCommit' <=> OldCommit)
        /\ Sure' = Sure /\ Maybe' = Maybe /\ In' = In
        /\ \A u : (Ended(u)' <=> Ended(u)) /\ (Left(u)' <=> Left(u)) /\ Of(u, tx.rows)' = Of(u, tx.rows)
    BY <2>1, <2>2 DEF Stale, Done, Lost, Live, OldWrite, OwnWrite, OldCommit, Sure, Maybe, In, Got, Ended, Left, Of, Block
  <2>4. Typed' /\ InLine' /\ Placed' /\ NamesGrow' /\ EngineAgrees' /\ RolledBack'
    BY <2>1, <2>2, <2>3, Facts DEF Typed, InLine, WorkOK, Placed, NamesGrow, EngineAgrees, RolledBack
  <2>5. Belief'
    <3>1. ASSUME NEW bs \in {In'}, Live' PROVE BlocksHaveMarks(bs)'
      <4>1. BlocksHaveMarks(bs)
        BY <2>3, <3>1, Facts DEF Belief
      <4> QED BY <2>1, <4>1, MarksStay DEF Others
    <3> QED BY <2>1, <2>3, <3>1, Facts DEF Belief, Of
  <2>6. Outlived'
    BY <2>1, <2>2, <2>3, Facts DEF Outlived, Left, Of
  <2>7. Leftovers' /\ Whole' /\ Durable'
    BY <2>1, <2>2, <2>3, Facts DEF Leftovers, Whole, Known, Durable, CommitIsDurable, Got, Of
  <2> QED BY <2>4, <2>5, <2>6, <2>7 DEF Inv
<1> QED BY <1>1, <1>2, <1>3 DEF Next

LEMMA AlwaysInv == ASSUME Allowed PROVE Spec => []Inv
<1>1. Init => Inv
  BY InitInv
<1>2. Inv /\ [Next]_vars => Inv'
  BY NextInv
<1> QED BY <1>1, <1>2, PTL DEF Spec

(* No unit of work is in the database in part: what is there is what it        *)
(* asked to commit, with those of its cancelled writes that landed in time    *)
(* (asyncsession.py, __aexit__; threaded.py, where a call outlives its await). *)
THEOREM EveryUnitIsWhole == ASSUME Allowed PROVE Spec => []UnitsAreWhole
<1>1. Inv => UnitsAreWhole
  <2> SUFFICES ASSUME Inv, NEW u \in 1..MaxUnits, Of(u, db) # {}
               PROVE  promised[u].sure \subseteq Of(u, db) /\ Of(u, db) \subseteq promised[u].maybe
    BY DEF UnitsAreWhole, Of
  <2>1. u \in 1..unit
    BY Facts DEF Whole, Known, Of
  <2> QED BY <2>1, Facts DEF Whole
<1> QED BY <1>1, AlwaysInv, PTL

(* A commit that was answered is in the database for good (asyncsession.py,  *)
(* commit).                                                                *)
THEOREM ACommitStays == ASSUME Allowed PROVE Spec => []CommitIsDurable
<1>1. Inv => CommitIsDurable
  BY Facts DEF Durable
<1> QED BY <1>1, AlwaysInv, PTL

(* While nothing is on its way, the transaction has what the unit knows it    *)
(* has written, and nothing that a block which raised has undone              *)
(* (asyncsession.py, savepoint).                                           *)
THEOREM TheTaskKnowsItsTransaction == ASSUME Allowed PROVE Spec => []TransactionIsBelieved
<1>1. Inv => TransactionIsBelieved
  <2> SUFFICES ASSUME Inv, at = "in", Quiet
               PROVE  sure \subseteq tx.rows /\ Of(unit, tx.rows) \subseteq maybe
    BY DEF TransactionIsBelieved, Of
  <2>1. raising = NoRaise /\ waits = NoWork /\ answer = "none"
    BY Facts DEF Placed, InLine
  <2>2. Live
    BY <2>1, NoWorkFacts DEF Live, Lost, Done, NoRaise, Raised
  <2> QED BY <2>1, <2>2, Facts, Unanswered DEF Belief, Of
<1> QED BY <1>1, AlwaysInv, PTL
=============================================================================
