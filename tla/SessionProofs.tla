----------------------------- MODULE SessionProofs -----------------------------
(***************************************************************************)
(* The transaction of the engine is what the program believes it is, for    *)
(* any nesting of savepoint blocks, any number of writes and attempts, on    *)
(* all three engines and whatever they refuse.                             *)
(***************************************************************************)
EXTENDS Session, SequenceTheorems, TLAPS

(* The exceptions a savepoint block may end the way of: none, or one the      *)
(* program may catch. After any other the unit of work is rolled back.      *)
Calm == raising \in {"none", "snake"}

Marks == [name : Nat, rows : SUBSET Nat]
Transactions == [state : {"none", "open", "aborted"}, rows : SUBSET Nat, marks : Seq(Marks)]
Typed ==
  /\ engine \in {"postgres", "mysql", "sqlite"}
  /\ Calm => tx \in Transactions
  /\ in_tx \in BOOLEAN
  /\ blocks \in Seq(Marks) /\ depth \in Nat
  /\ believed \in SUBSET Nat /\ written \in Nat
  /\ raising \in Errors \cup {"none", "exit"} /\ scope \in {"out", "session", "work"}

(* A block is named deeper than the ones around it, and the next is named    *)
(* deeper than any: the depth never falls below the blocks that are open.   *)
NamesGrow ==
  /\ \A i \in 1..Len(blocks) : blocks[i].name <= depth /\ blocks[i].name > 0
  /\ \A i, j \in 1..Len(blocks) : i < j => blocks[i].name < blocks[j].name

NothingIsNothing == Calm /\ tx.state = "none" => tx.rows = {} /\ tx.marks = <<>>
Outside ==
  scope = "out" => blocks = <<>> /\ raising = "none" /\ tx = NoTransaction /\ ~in_tx /\ believed = {}
FlagIsSqlite == in_tx => engine = "sqlite"
FlagIsTrue == Calm /\ engine = "sqlite" => (in_tx <=> tx.state = "open")

(* Position p holds the engine's savepoint of block i, and no newer one      *)
(* has its name.                                                           *)
IsOf(p, i) ==
  /\ p \in 1..Len(tx.marks) /\ tx.marks[p] = blocks[i]
  /\ \A q \in 1..Len(tx.marks) : q > p => tx.marks[q].name # blocks[i].name
BlocksHaveMarks ==
  Calm => /\ \A i \in 1..Len(blocks) : \E p \in 1..Len(tx.marks) : IsOf(p, i)
          /\ \A i, j \in 1..Len(blocks) : i < j =>
               \A p, q \in 1..Len(tx.marks) : IsOf(p, i) /\ IsOf(q, j) => p < q
(* MySQL's savepoints have a name each.                                     *)
NamesOnce ==
  Calm /\ engine = "mysql" =>
    \A p, q \in 1..Len(tx.marks) : tx.marks[p].name = tx.marks[q].name => p = q
Believed == /\ Calm => tx.rows = believed
            /\ raising = "none" => tx.state # "aborted"

Inv == /\ Typed /\ NamesGrow /\ NothingIsNothing /\ Outside /\ FlagIsSqlite /\ FlagIsTrue
       /\ BlocksHaveMarks /\ NamesOnce /\ Believed

LEMMA InitInv == Init => Inv
<1> SUFFICES ASSUME Init PROVE Inv
  OBVIOUS
<1>1. /\ tx = [state |-> "none", rows |-> {}, marks |-> <<>>] /\ blocks = <<>> /\ depth = 0
      /\ in_tx = FALSE /\ believed = {} /\ raising = "none" /\ scope = "out" /\ written = 0
      /\ engine \in {"postgres", "mysql", "sqlite"} /\ <<>> \in Seq(Marks)
  BY EnginesAssumption DEF Init, NoTransaction, Transaction
<1>2. Typed
  BY <1>1 DEF Typed, Transactions, Errors
<1>3. NamesGrow /\ NothingIsNothing /\ Outside /\ FlagIsSqlite /\ FlagIsTrue /\ BlocksHaveMarks /\ NamesOnce
  BY <1>1 DEF Calm, NamesGrow, NothingIsNothing, Outside, FlagIsSqlite, FlagIsTrue, BlocksHaveMarks,
              NamesOnce, NoTransaction, Transaction
<1>4. Believed
  BY <1>1 DEF Believed
<1> QED BY <1>2, <1>3, <1>4 DEF Inv

-----------------------------------------------------------------------------
(* Sequences of savepoints.                                                *)
LEMMA BlockFacts ==
  ASSUME Typed, NEW i \in 1..Len(blocks)
  PROVE  blocks[i] \in Marks /\ blocks[i].name \in Nat /\ blocks[i].rows \in SUBSET Nat
<1>1. blocks[i] \in Marks
  BY DEF Typed
<1> QED BY <1>1 DEF Marks

LEMMA CutFacts ==
  ASSUME NEW S, NEW s \in Seq(S), NEW n \in 0..Len(s)
  PROVE  /\ SubSeq(s, 1, n) \in Seq(S) /\ Len(SubSeq(s, 1, n)) = n
         /\ \A i \in 1..n : SubSeq(s, 1, n)[i] = s[i]
<1>1. Len(s) \in Nat /\ n \in Int /\ 1 \in Int /\ n >= 0 /\ \A i \in 1..n : s[i] \in S
  OBVIOUS
<1>2. /\ SubSeq(s, 1, n) \in Seq(S)
      /\ Len(SubSeq(s, 1, n)) = IF 1 <= n THEN n - 1 + 1 ELSE 0
      /\ \A i \in 1..(n - 1 + 1) : SubSeq(s, 1, n)[i] = s[1 + i - 1]
  BY <1>1, SubSeqProperties
<1> QED BY <1>1, <1>2

LEMMA FrontFacts ==
  ASSUME NEW S, NEW s \in Seq(S), s # <<>>
  PROVE  /\ Front(s) \in Seq(S) /\ Len(s) \in Nat \ {0} /\ Len(Front(s)) = Len(s) - 1
         /\ \A i \in 1..(Len(s) - 1) : Front(s)[i] = s[i]
         /\ Last(s) = s[Len(s)] /\ Last(s) \in S
<1>1. Len(s) \in Nat \ {0}
  BY EmptySeq, LenProperties
<1>2. Last(s) = s[Len(s)] /\ Last(s) \in S
  BY <1>1 DEF Last
<1>3. Len(s) - 1 \in 0..Len(s)
  BY <1>1
<1> QED BY <1>1, <1>2, <1>3, CutFacts DEF Front

LEMMA RemoveFacts ==
  ASSUME NEW S, NEW s \in Seq(S), NEW r \in 1..Len(s)
  PROVE  /\ RemoveAt(s, r) \in Seq(S) /\ Len(RemoveAt(s, r)) = Len(s) - 1
         /\ \A i \in 1..(Len(s) - 1) : RemoveAt(s, r)[i] = IF i < r THEN s[i] ELSE s[i + 1]
<1>1. Len(s) \in Nat /\ r \in Nat /\ r - 1 \in 0..Len(s)
  OBVIOUS
<1> DEFINE a == SubSeq(s, 1, r - 1)
           b == SubSeq(s, r + 1, Len(s))
<1>2. a \in Seq(S) /\ Len(a) = r - 1 /\ \A i \in 1..(r - 1) : a[i] = s[i]
  BY <1>1, CutFacts
<1>3. /\ b \in Seq(S)
      /\ Len(b) = IF r + 1 <= Len(s) THEN Len(s) - (r + 1) + 1 ELSE 0
      /\ \A i \in 1..(Len(s) - (r + 1) + 1) : b[i] = s[r + 1 + i - 1]
  <2>1. r + 1 \in Int /\ Len(s) \in Int /\ \A i \in (r + 1)..Len(s) : s[i] \in S
    BY <1>1
  <2>2. r + 1 \in 1..(Len(s) + 1)
    BY <1>1
  <2> QED BY <1>1, <2>1, <2>2, SubSeqProperties
<1>4. Len(b) = Len(s) - r /\ \A i \in 1..(Len(s) - r) : b[i] = s[r + i]
  BY <1>1, <1>3
<1> HIDE DEF a, b
<1>5. /\ a \o b \in Seq(S) /\ Len(a \o b) = Len(a) + Len(b)
      /\ \A i \in 1..(Len(a) + Len(b)) : (a \o b)[i] = IF i <= Len(a) THEN a[i] ELSE b[i - Len(a)]
  BY <1>2, <1>3, ConcatProperties
<1>6. Len(a \o b) = Len(s) - 1
  BY <1>1, <1>2, <1>4, <1>5
<1>7. ASSUME NEW i \in 1..(Len(s) - 1) PROVE (a \o b)[i] = IF i < r THEN s[i] ELSE s[i + 1]
  <2>1. i \in Int /\ 1 <= i /\ i <= Len(s) - 1 /\ r \in Int /\ 1 <= r /\ r <= Len(s) /\ Len(s) \in Int
    BY <1>1
  <2>2. i \in 1..(Len(a) + Len(b))
    BY <1>2, <1>4, <2>1
  <2>3. CASE i < r
    <3>1. i <= Len(a) /\ i \in 1..(r - 1)
      BY <1>2, <2>1, <2>3
    <3> QED BY <1>2, <1>5, <2>2, <2>3, <3>1
  <2>4. CASE i >= r
    <3>1. ~(i <= Len(a)) /\ ~(i < r) /\ i - Len(a) \in 1..(Len(s) - r) /\ r + (i - Len(a)) = i + 1
      BY <1>2, <2>1, <2>4
    <3>2. (a \o b)[i] = b[i - Len(a)]
      BY <1>5, <2>2, <3>1
    <3>3. b[i - Len(a)] = s[r + (i - Len(a))]
      BY <1>4, <3>1
    <3>4. s[r + (i - Len(a))] = s[i + 1]
      BY <3>1, Zenon
    <3>5. (a \o b)[i] = s[i + 1]
      BY <3>2, <3>3, <3>4, Zenon
    <3>6. ~(i < r)
      BY <3>1
    <3> QED BY <3>5, <3>6, Zenon
  <2>5. i < r \/ i >= r
    BY <2>1
  <2> QED BY <2>3, <2>4, <2>5, Zenon
<1> QED BY <1>5, <1>6, <1>7 DEF a, b, RemoveAt

(* The mark a block looks for is the one that is its own.                    *)
LEMMA LastMarkIs ==
  ASSUME Typed, Calm, NEW i \in 1..Len(blocks), NEW p, IsOf(p, i)
  PROVE  MarksNamed(tx, blocks[i].name) # {} /\ LastMark(tx, blocks[i].name) = p
<1> DEFINE N == MarksNamed(tx, blocks[i].name)
<1>1. tx.marks \in Seq(Marks) /\ DOMAIN tx.marks = 1..Len(tx.marks) /\ Len(tx.marks) \in Nat
  BY DEF Typed, Transactions
<1>2. p \in N /\ N \subseteq Nat /\ \A q \in N : q <= p
  BY <1>1 DEF IsOf, MarksNamed
<1> HIDE DEF N
<1>3. \A q \in N : (\A j \in N : j <= q) => q = p
  BY <1>2
<1>4. (CHOOSE q \in N : \A j \in N : j <= q) = p
  BY <1>2, <1>3
<1> QED BY <1>2, <1>4 DEF LastMark, N

-----------------------------------------------------------------------------
(* Steps that leave the blocks and the marks alone, or end them.             *)
LEMMA MarksStay ==
  ASSUME BlocksHaveMarks, blocks' = blocks, tx'.marks = tx.marks, Calm' => Calm
  PROVE  BlocksHaveMarks'
  BY DEF BlocksHaveMarks, IsOf

LEMMA NoBlocks ==
  ASSUME blocks' = <<>>, depth' \in Nat
  PROVE  BlocksHaveMarks' /\ NamesGrow'
  BY DEF BlocksHaveMarks, NamesGrow

LEMMA NothingFacts ==
  /\ NoTransaction \in Transactions
  /\ NoTransaction.state = "none" /\ NoTransaction.rows = {} /\ NoTransaction.marks = <<>>
<1>1. <<>> \in Seq(Marks)
  OBVIOUS
<1>2. NoTransaction = [state |-> "none", rows |-> {}, marks |-> <<>>]
  BY DEF NoTransaction, Transaction
<1> QED BY <1>1, <1>2 DEF Transactions

(* commit, rollback, and whatever comes after an exception.                 *)
LEMMA EndedStep ==
  ASSUME Inv, Ended, blocks = <<>>, UNCHANGED <<engine, blocks, depth, written>>, believed' = {},
         raising' \in Errors \cup {"none", "exit"}, scope' \in {"out", "session", "work"},
         scope' = "out" => raising' = "none"
  PROVE  Inv'
<1>1. tx' = NoTransaction /\ in_tx' = FALSE /\ depth' \in Nat /\ blocks' = <<>>
  BY DEF Ended, Inv, Typed
<1>2. Typed'
  BY <1>1, NothingFacts DEF Inv, Typed
<1>3. NothingIsNothing' /\ Outside' /\ FlagIsSqlite' /\ FlagIsTrue' /\ NamesOnce' /\ Believed'
  BY <1>1, NothingFacts DEF NothingIsNothing, Outside, FlagIsSqlite, FlagIsTrue, NamesOnce, Believed
<1> QED BY <1>1, <1>2, <1>3, NoBlocks DEF Inv

LEMMA BegunFacts ==
  ASSUME Inv, Running
  PROVE  /\ Begun \in Transactions /\ Begun.state = "open"
         /\ Begun.rows = tx.rows /\ Begun.marks = tx.marks /\ tx.rows = believed
<1>1. /\ tx \in Transactions /\ tx.state # "aborted" /\ tx.rows = believed
      /\ engine = "sqlite" => (in_tx <=> tx.state = "open")
  BY DEF Inv, Typed, Running, FlagIsTrue, Calm, Believed
<1>2. CASE tx.state = "none"
  BY <1>1, <1>2 DEF Begun, Transactions
<1>3. CASE tx.state = "open"
  BY <1>1, <1>3 DEF Begun, Transactions
<1> QED BY <1>1, <1>2, <1>3 DEF Transactions

LEMMA LeftFacts ==
  ASSUME Inv, Running, NEW e, NEW t \in Left(Begun, e)
  PROVE  /\ t \in Transactions /\ (t.state = "none" => t.rows = {} /\ t.marks = <<>>)
         /\ e # "transient" => /\ t.rows = tx.rows /\ t.marks = tx.marks
                               /\ engine = "sqlite" => t.state = "open"
<1>1. CASE t = NoTransaction /\ engine = "mysql" /\ e = "transient"
  BY <1>1, NothingFacts
<1>2. CASE t = Begun
  BY <1>2, BegunFacts
<1>3. CASE t = [Begun EXCEPT !.state = "aborted"] /\ engine = "postgres"
  BY <1>3, BegunFacts DEF Transactions
<1> QED BY <1>1, <1>2, <1>3 DEF Left

(* A statement that leaves the unit of work with an exception nobody inside  *)
(* catches.                                                                *)
LEMMA WildStep ==
  ASSUME Inv, Running, UNCHANGED <<engine, blocks, scope>>,
         in_tx' \in BOOLEAN, in_tx' => engine = "sqlite",
         depth' \in {depth, depth + 1}, believed' = believed, written' \in Nat,
         raising' \in {"transient", "other", "exit"}
  PROVE  Inv'
<1>1. Typed'
  BY DEF Inv, Typed, Calm, Errors
<1>2. NamesGrow'
  <2>1. depth \in Nat /\ depth' \in Nat /\ depth' >= depth /\ blocks \in Seq(Marks)
    BY DEF Inv, Typed
  <2>2. \A i \in 1..Len(blocks) : blocks[i].name \in Nat
    BY BlockFacts DEF Inv
  <2> QED BY <2>1, <2>2 DEF Inv, NamesGrow
<1>3. NothingIsNothing' /\ Outside' /\ FlagIsSqlite' /\ FlagIsTrue' /\ BlocksHaveMarks' /\ NamesOnce' /\ Believed'
  BY DEF NothingIsNothing, Outside, Running, FlagIsSqlite, FlagIsTrue, BlocksHaveMarks, NamesOnce, Believed, Calm, Inv
<1> QED BY <1>1, <1>2, <1>3 DEF Inv

(* A statement that leaves it calm, in a transaction that is open, or that    *)
(* Postgres refuses from then on.                                          *)
LEMMA CalmStep ==
  ASSUME Inv, Running, UNCHANGED <<engine, blocks, scope, depth>>,
         tx' \in Transactions, tx'.marks = tx.marks, tx'.rows = believed', believed' \in SUBSET Nat,
         tx'.state # "none", engine = "sqlite" => tx'.state = "open",
         in_tx' = (engine = "sqlite"), written' \in Nat,
         raising' \in {"none", "snake"}, raising' = "none" => tx'.state = "open"
  PROVE  Inv'
<1>1. Typed'
  BY DEF Inv, Typed, Errors
<1>2. NamesGrow' /\ BlocksHaveMarks'
  BY MarksStay DEF Inv, NamesGrow, Running, Calm
<1>3. NothingIsNothing' /\ Outside' /\ FlagIsSqlite' /\ FlagIsTrue' /\ NamesOnce' /\ Believed'
  BY DEF NothingIsNothing, Outside, Running, FlagIsSqlite, FlagIsTrue, NamesOnce, Believed, Calm, Inv
<1> QED BY <1>1, <1>2, <1>3 DEF Inv

LEMMA WriteStep == Inv /\ (Write \/ WriteRefused) => Inv'
<1> SUFFICES ASSUME Inv, Write \/ WriteRefused PROVE Inv'
  OBVIOUS
<1>1. /\ Running /\ written' = written + 1 /\ written' \in Nat /\ in_tx' = (engine = "sqlite")
      /\ UNCHANGED <<engine, blocks, depth, scope>>
  BY DEF Write, WriteRefused, Statement, EnsureTx, blockVars, retryVars, Inv, Typed
<1>2. CASE Write
  <2>0. Begun.state = "open"
    BY <1>1, BegunFacts
  <2>1. /\ tx' = [Begun EXCEPT !.rows = @ \cup {written'}] /\ believed' = believed \cup {written'}
        /\ UNCHANGED raising
    BY <1>2, <2>0 DEF Write
  <2>2. /\ tx' \in Transactions /\ tx'.marks = tx.marks /\ tx'.rows = believed' /\ tx'.state = "open"
        /\ believed' \in SUBSET Nat
    BY <1>1, <2>1, BegunFacts DEF Transactions, Inv, Typed
  <2> QED BY <1>1, <2>1, <2>2, CalmStep DEF Running
<1>3. CASE WriteRefused
  <2>1. tx' \in Left(Begun, raising') /\ UNCHANGED believed /\ raising' \in {"snake", "transient"}
    BY <1>3 DEF WriteRefused
  <2>2. /\ tx' \in Transactions /\ (tx'.state = "none" => tx'.rows = {} /\ tx'.marks = <<>>)
        /\ raising' # "transient" => /\ tx'.rows = tx.rows /\ tx'.marks = tx.marks
                                     /\ engine = "sqlite" => tx'.state = "open"
    BY <1>1, <2>1, LeftFacts
  <2>3. CASE raising' = "transient"
    BY <1>1, <2>1, <2>2, <2>3, WildStep
  <2>4. CASE raising' = "snake"
    <3>1. tx'.state # "none"
      BY <1>1, <2>1, <2>4, BegunFacts DEF Left, Transactions
    <3> QED BY <1>1, <2>1, <2>2, <2>4, <3>1, BegunFacts, CalmStep DEF Inv, Typed
  <2> QED BY <2>1, <2>3, <2>4
<1> QED BY <1>2, <1>3

LEMMA OtherSteps ==
  Inv /\ (Open \/ StartRetry \/ Raise \/ SavepointRefused \/ CommitConflicts \/ RetryInterrupted)
    => Inv'
<1> SUFFICES ASSUME Inv, Open \/ StartRetry \/ Raise \/ SavepointRefused \/ CommitConflicts \/ RetryInterrupted
             PROVE  Inv'
  OBVIOUS
<1> USE DEF driverVars, blockVars, retryVars
<1>1. CASE StartRetry \/ RetryInterrupted \/ (Raise /\ raising' = "snake")
  <2>1. /\ UNCHANGED <<engine, tx, in_tx, depth, blocks, believed>>
        /\ scope' \in {scope, "session", "work"} /\ scope # "out" /\ scope' # "out"
        /\ raising' = raising \/ (Running /\ raising' = "snake")
        /\ written' \in Nat
    BY <1>1 DEF StartRetry, RetryInterrupted, Raise, Running, Inv, Typed
  <2>2. Typed'
    BY <2>1 DEF Inv, Typed, Running, Calm, Errors
  <2>3. NamesGrow' /\ BlocksHaveMarks'
    BY <2>1, MarksStay DEF Inv, NamesGrow, Running, Calm
  <2>4. NothingIsNothing' /\ Outside' /\ FlagIsSqlite' /\ FlagIsTrue' /\ NamesOnce' /\ Believed'
    BY <2>1 DEF NothingIsNothing, Outside, Running, FlagIsSqlite, FlagIsTrue, NamesOnce, Believed, Calm, Inv
  <2> QED BY <2>2, <2>3, <2>4 DEF Inv
<1>2. CASE Open
  <2>1. /\ UNCHANGED <<engine, tx, in_tx, blocks, raising, believed, written>>
        /\ scope' = "session" /\ depth' \in {0, depth} /\ blocks' = <<>>
    BY <1>2 DEF Open, Inv, Outside
  <2>2. Typed'
    BY <2>1 DEF Inv, Typed, Calm
  <2>3. NothingIsNothing' /\ Outside' /\ FlagIsSqlite' /\ FlagIsTrue' /\ NamesOnce' /\ Believed'
    BY <2>1 DEF NothingIsNothing, Outside, FlagIsSqlite, FlagIsTrue, NamesOnce, Believed, Calm, Inv
  <2> QED BY <2>1, <2>2, <2>3, NoBlocks DEF Inv, Typed
<1>3. CASE Raise /\ raising' # "snake"
  <2>1. /\ Running /\ UNCHANGED <<engine, tx, in_tx, depth, blocks, scope, believed>>
        /\ raising' = "exit" /\ written' \in Nat
    BY <1>3 DEF Raise, Inv, Typed
  <2> QED BY <2>1, WildStep DEF Inv, Typed, FlagIsSqlite
<1>4. CASE SavepointRefused
  <2>1. /\ Running /\ UNCHANGED <<engine, blocks, scope, believed>> /\ depth' = depth + 1
        /\ raising' = "other" /\ tx' \in Left(Begun, raising') /\ in_tx' = (engine = "sqlite")
        /\ written' \in Nat
    BY <1>4 DEF SavepointRefused, Statement, EnsureTx, Inv, Typed
  <2> QED BY <2>1, WildStep DEF Inv, Typed
<1>5. CASE CommitConflicts
  <2>1. /\ Running /\ UNCHANGED <<engine, in_tx, depth, blocks, scope, believed, written>>
        /\ raising' = "transient"
    BY <1>5 DEF CommitConflicts
  <2> QED BY <2>1, WildStep DEF Inv, Typed, FlagIsSqlite
<1> QED BY <1>1, <1>2, <1>3, <1>4, <1>5

-----------------------------------------------------------------------------
(* The blocks.                                                             *)
LEMMA LeaveFacts ==
  ASSUME Typed, NamesGrow, blocks # <<>>, Leave
  PROVE  /\ blocks' \in Seq(Marks) /\ depth' \in Nat /\ NamesGrow'
         /\ Len(blocks) \in Nat \ {0} /\ Len(blocks') = Len(blocks) - 1
         /\ \A i \in 1..(Len(blocks) - 1) : blocks'[i] = blocks[i]
         /\ Last(blocks) = blocks[Len(blocks)]
<1>1. blocks \in Seq(Marks) /\ depth \in Nat /\ blocks' = Front(blocks) /\ depth' = depth - 1
  BY DEF Typed, Leave
<1>2. /\ blocks' \in Seq(Marks) /\ Len(blocks) \in Nat \ {0} /\ Len(blocks') = Len(blocks) - 1
      /\ \A i \in 1..(Len(blocks) - 1) : blocks'[i] = blocks[i]
      /\ Last(blocks) = blocks[Len(blocks)]
  BY <1>1, FrontFacts
<1>3. \A i \in 1..Len(blocks) : blocks[i].name \in Nat
  BY BlockFacts
<1>4. Len(blocks) \in 1..Len(blocks) /\ blocks[Len(blocks)].name <= depth
      /\ blocks[Len(blocks)].name > 0 /\ depth' \in Nat
  BY <1>1, <1>2, <1>3 DEF NamesGrow
<1>5. ASSUME NEW i \in 1..Len(blocks')
      PROVE  blocks'[i].name <= depth' /\ blocks'[i].name > 0
  <2>1. i \in 1..Len(blocks) /\ i < Len(blocks) /\ blocks'[i] = blocks[i]
    BY <1>2
  <2>2. blocks[i].name < blocks[Len(blocks)].name /\ blocks[i].name > 0
    BY <1>4, <2>1 DEF NamesGrow
  <2> QED BY <1>1, <1>3, <1>4, <2>1, <2>2
<1>6. \A i, j \in 1..Len(blocks') : i < j => blocks'[i].name < blocks'[j].name
  BY <1>2 DEF NamesGrow
<1> QED BY <1>2, <1>4, <1>5, <1>6 DEF NamesGrow

(* A block ends, and with it the engine's newest savepoints, down to its     *)
(* own or below it.                                                        *)
LEMMA CutStep ==
  ASSUME Inv, Calm, blocks # <<>>, Leave, NEW p, IsOf(p, Len(blocks)),
         NEW n \in {p - 1, p}, tx'.marks = SubSeq(tx.marks, 1, n)
  PROVE  BlocksHaveMarks' /\ (engine' = engine => NamesOnce')
<1>1. /\ Typed /\ NamesGrow /\ tx.marks \in Seq(Marks) /\ Len(tx.marks) \in Nat
      /\ p \in 1..Len(tx.marks) /\ n \in 0..Len(tx.marks)
  BY DEF Inv, Typed, Transactions, IsOf
<1>2. Len(tx'.marks) = n /\ \A q \in 1..n : tx'.marks[q] = tx.marks[q]
  BY <1>1, CutFacts
<1>3. /\ Len(blocks) \in Nat \ {0} /\ Len(blocks') = Len(blocks) - 1
      /\ \A i \in 1..(Len(blocks) - 1) : blocks'[i] = blocks[i]
  BY <1>1, LeaveFacts
<1>4. ASSUME NEW i \in 1..Len(blocks')
      PROVE  \E q \in 1..n : IsOf(q, i) /\ IsOf(q, i)'
  <2>1. i \in 1..Len(blocks) /\ Len(blocks) \in 1..Len(blocks) /\ i < Len(blocks) /\ blocks'[i] = blocks[i]
    BY <1>3
  <2>2. PICK q \in 1..Len(tx.marks) : IsOf(q, i)
    BY <2>1 DEF Inv, BlocksHaveMarks
  <2>3. q < p
    BY <1>1, <2>1, <2>2 DEF Inv, BlocksHaveMarks
  <2>4. q \in 1..n
    BY <1>1, <2>2, <2>3
  <2>5. IsOf(q, i)'
    BY <1>1, <1>2, <2>1, <2>2, <2>4 DEF IsOf
  <2> QED BY <2>2, <2>4, <2>5
<1>5. ASSUME NEW i \in 1..Len(blocks'), NEW q, IsOf(q, i)'
      PROVE  IsOf(q, i)
  <2>1. PICK r \in 1..n : IsOf(r, i) /\ IsOf(r, i)'
    BY <1>4
  <2>2. q \in 1..n /\ tx'.marks[q] = blocks'[i] /\ tx'.marks[r] = blocks'[i]
    BY <1>2, <1>5, <2>1 DEF IsOf
  <2>3. ~(q < r) /\ ~(r < q)
    BY <1>2, <1>5, <2>1, <2>2 DEF IsOf
  <2>4. q = r
    BY <1>1, <2>1, <2>2, <2>3
  <2> QED BY <2>1, <2>4
<1>6. ASSUME NEW i \in 1..Len(blocks'), NEW j \in 1..Len(blocks'), i < j, NEW q, NEW r,
             IsOf(q, i)', IsOf(r, j)'
      PROVE  q < r
  <2>1. i \in 1..Len(blocks) /\ j \in 1..Len(blocks)
    BY <1>3
  <2>2. IsOf(q, i) /\ IsOf(r, j)
    BY <1>5, <1>6
  <2>3. q \in 1..Len(tx.marks) /\ r \in 1..Len(tx.marks)
    BY <2>2 DEF IsOf
  <2> QED BY <1>6, <2>1, <2>2, <2>3 DEF Inv, BlocksHaveMarks
<1>7. ASSUME engine' = engine, engine = "mysql", NEW q \in 1..n, NEW r \in 1..n,
             tx'.marks[q].name = tx'.marks[r].name
      PROVE  q = r
  <2>1. q \in 1..Len(tx.marks) /\ r \in 1..Len(tx.marks) /\ tx.marks[q].name = tx.marks[r].name
    BY <1>1, <1>2, <1>7
  <2> QED BY <1>7, <2>1 DEF Inv, NamesOnce
<1>8. BlocksHaveMarks'
  BY <1>2, <1>4, <1>6 DEF BlocksHaveMarks
<1>9. engine' = engine => NamesOnce'
  BY <1>2, <1>7 DEF NamesOnce
<1> QED BY <1>8, <1>9

(* A block that leaves with, or as, an exception nobody inside catches.       *)
LEMMA WildLeave ==
  ASSUME Inv, scope # "out", blocks # <<>>, Leave, UNCHANGED <<engine, scope, written>>,
         in_tx' \in BOOLEAN, in_tx' => engine = "sqlite", believed' \in SUBSET Nat,
         raising' \in {"transient", "other", "exit"}
  PROVE  Inv'
<1>1. blocks' \in Seq(Marks) /\ depth' \in Nat /\ NamesGrow'
  BY LeaveFacts DEF Inv
<1>2. Typed'
  BY <1>1 DEF Inv, Typed, Calm, Errors
<1>3. NothingIsNothing' /\ Outside' /\ FlagIsSqlite' /\ FlagIsTrue' /\ BlocksHaveMarks' /\ NamesOnce' /\ Believed'
  BY DEF NothingIsNothing, Outside, FlagIsSqlite, FlagIsTrue, BlocksHaveMarks, NamesOnce, Believed, Calm, Inv
<1> QED BY <1>1, <1>2, <1>3 DEF Inv

(* A block that leaves a transaction that is open.                           *)
LEMMA CalmLeave ==
  ASSUME Inv, scope # "out", Calm, blocks # <<>>, Leave, UNCHANGED <<engine, scope, written>>,
         tx' \in Transactions, tx'.state = "open", tx'.rows = believed', believed' \in SUBSET Nat,
         NEW p, IsOf(p, Len(blocks)), NEW n \in {p - 1, p}, tx'.marks = SubSeq(tx.marks, 1, n),
         in_tx' = (engine = "sqlite"), raising' \in {"none", "snake"}
  PROVE  Inv'
<1>1. blocks' \in Seq(Marks) /\ depth' \in Nat /\ NamesGrow'
  BY LeaveFacts DEF Inv
<1>2. BlocksHaveMarks' /\ NamesOnce'
  BY CutStep
<1>3. Typed'
  BY <1>1 DEF Inv, Typed, Errors
<1>4. NothingIsNothing' /\ Outside' /\ FlagIsSqlite' /\ FlagIsTrue' /\ Believed'
  BY DEF NothingIsNothing, Outside, FlagIsSqlite, FlagIsTrue, Believed, Calm, Inv
<1> QED BY <1>1, <1>2, <1>3, <1>4 DEF Inv

(* The engine still has the savepoint of the innermost block.                *)
LEMMA Innermost ==
  ASSUME Inv, Calm, blocks # <<>>
  PROVE  \E p \in 1..Len(tx.marks) :
           /\ IsOf(p, Len(blocks)) /\ tx.marks[p].rows = Last(blocks).rows
           /\ MarksNamed(tx, Last(blocks).name) # {} /\ LastMark(tx, Last(blocks).name) = p
           /\ tx.state # "none" /\ Last(blocks).rows \in SUBSET Nat
           /\ \A n \in {p - 1, p} : SubSeq(tx.marks, 1, n) \in Seq(Marks)
<1>1. /\ blocks \in Seq(Marks) /\ tx.marks \in Seq(Marks) /\ Len(tx.marks) \in Nat
  BY DEF Inv, Typed, Transactions
<1>2. Len(blocks) \in 1..Len(blocks) /\ Last(blocks) = blocks[Len(blocks)]
  <2>1. Len(blocks) \in Nat \ {0} /\ Last(blocks) = blocks[Len(blocks)]
    BY <1>1, FrontFacts
  <2> QED BY <2>1
<1>3. PICK p \in 1..Len(tx.marks) : IsOf(p, Len(blocks))
  BY <1>2 DEF Inv, BlocksHaveMarks
<1>4. MarksNamed(tx, Last(blocks).name) # {} /\ LastMark(tx, Last(blocks).name) = p
  BY <1>2, <1>3, LastMarkIs DEF Inv
<1>5. tx.marks[p].rows = Last(blocks).rows /\ Last(blocks).rows \in SUBSET Nat
  BY <1>2, <1>3, BlockFacts DEF IsOf, Inv
<1>6. tx.state # "none"
  BY <1>1, <1>3 DEF Inv, NothingIsNothing
<1>7. ASSUME NEW n \in {p - 1, p} PROVE SubSeq(tx.marks, 1, n) \in Seq(Marks)
  <2>1. n \in 0..Len(tx.marks)
    BY <1>1, <1>3
  <2> QED BY <1>1, <2>1, CutFacts
<1> QED BY <1>3, <1>4, <1>5, <1>6, <1>7

LEMMA ReleaseStep == Inv /\ Release => Inv'
<1> SUFFICES ASSUME Inv, Release PROVE Inv'
  OBVIOUS
<1>1. /\ Running /\ blocks # <<>> /\ Leave /\ UNCHANGED <<engine, scope, written, believed>>
      /\ in_tx' = (engine = "sqlite") /\ Calm
  BY DEF Release, EnsureTx, retryVars, Running, Calm
<1>2. PICK p \in 1..Len(tx.marks) :
        /\ IsOf(p, Len(blocks)) /\ tx.marks[p].rows = Last(blocks).rows
        /\ MarksNamed(tx, Last(blocks).name) # {} /\ LastMark(tx, Last(blocks).name) = p
        /\ tx.state # "none"
        /\ \A n \in {p - 1, p} : SubSeq(tx.marks, 1, n) \in Seq(Marks)
  BY <1>1, Innermost
<1>3. tx' = [tx EXCEPT !.marks = SubSeq(@, 1, p - 1)] /\ UNCHANGED raising
  BY <1>2 DEF Release
<1>4. tx.state = "open" /\ tx.rows = believed /\ tx \in Transactions /\ believed \in SUBSET Nat
  BY <1>1, <1>2 DEF Inv, Believed, Running, Typed, Transactions
<1>5. /\ tx' \in Transactions /\ tx'.state = "open" /\ tx'.rows = believed
      /\ tx'.marks = SubSeq(tx.marks, 1, p - 1)
  BY <1>2, <1>3, <1>4 DEF Transactions
<1> QED BY <1>1, <1>2, <1>3, <1>4, <1>5, CalmLeave DEF Running

LEMMA RollbackToStep == Inv /\ RollbackTo => Inv'
<1> SUFFICES ASSUME Inv, RollbackTo PROVE Inv'
  OBVIOUS
<1>1. /\ raising \in Errors /\ blocks # <<>> /\ Leave /\ UNCHANGED <<engine, scope, written>>
      /\ in_tx' = (engine = "sqlite") /\ believed' = Last(blocks).rows /\ scope # "out"
  BY DEF RollbackTo, EnsureTx, retryVars, Inv, Outside
<1>2. Last(blocks) = blocks[Len(blocks)] /\ Len(blocks) \in 1..Len(blocks)
  <2>1. Len(blocks) \in Nat \ {0} /\ Last(blocks) = blocks[Len(blocks)]
    BY <1>1, LeaveFacts DEF Inv
  <2> QED BY <2>1
<1>3. believed' \in SUBSET Nat
  BY <1>1, <1>2, BlockFacts DEF Inv
<1>4. CASE Calm
  <2>1. PICK p \in 1..Len(tx.marks) :
          /\ IsOf(p, Len(blocks)) /\ tx.marks[p].rows = Last(blocks).rows
          /\ MarksNamed(tx, Last(blocks).name) # {} /\ LastMark(tx, Last(blocks).name) = p
          /\ \A n \in {p - 1, p} : SubSeq(tx.marks, 1, n) \in Seq(Marks)
    BY <1>1, <1>4, Innermost
  <2>2. /\ tx' = Transaction("open", tx.marks[p].rows, SubSeq(tx.marks, 1, p))
        /\ raising' \in {"none", "snake"}
    BY <1>1, <1>4, <2>1 DEF RollbackTo, Calm, Errors
  <2>3. /\ tx' \in Transactions /\ tx'.state = "open" /\ tx'.rows = believed'
        /\ tx'.marks = SubSeq(tx.marks, 1, p)
    BY <1>1, <1>3, <2>1, <2>2 DEF Transaction, Transactions
  <2> QED BY <1>1, <1>3, <1>4, <2>1, <2>2, <2>3, CalmLeave
<1>5. CASE ~Calm
  <2>1. raising \in {"transient", "other"} /\ raising' \in {"transient", "other"}
    BY <1>1, <1>5 DEF RollbackTo, Refused, Calm, Errors
  <2> QED BY <1>1, <1>3, <2>1, WildLeave
<1> QED BY <1>4, <1>5

-----------------------------------------------------------------------------
(* A new savepoint: what the engine keeps of the others is in their order,    *)
(* and every one of another name.                                          *)
Stretches(f, K) ==
  /\ f \in [1..Len(K) -> 1..Len(tx.marks)]
  /\ \A k \in 1..Len(K) : K[k] = tx.marks[f[k]]
  /\ \A j, k \in 1..Len(K) : j < k => f[j] < f[k]
  /\ \A q \in 1..Len(tx.marks) : tx.marks[q].name # Name => \E k \in 1..Len(K) : f[k] = q
  /\ engine = "mysql" => \A k \in 1..Len(K) : f[k] \notin MarksNamed(tx, Name)

LEMMA KeptFacts ==
  ASSUME Inv, Running
  PROVE  Kept(Name) \in Seq(Marks) /\ \E f : Stretches(f, Kept(Name))
<1>1. tx.marks \in Seq(Marks) /\ Len(tx.marks) \in Nat
  BY DEF Inv, Typed, Transactions, Running, Calm
<1>2. CASE Kept(Name) = tx.marks /\ (engine = "mysql" => MarksNamed(tx, Name) = {})
  <2>1. Stretches([k \in 1..Len(tx.marks) |-> k], tx.marks)
    BY <1>1, <1>2 DEF Stretches
  <2> QED BY <1>1, <1>2, <2>1
<1>3. CASE engine = "mysql" /\ MarksNamed(tx, Name) # {}
  <2> DEFINE r == LastMark(tx, Name)
             K == RemoveAt(tx.marks, r)
             f == [k \in 1..Len(K) |-> IF k < r THEN k ELSE k + 1]
  <2>1. Kept(Name) = K
    BY <1>3 DEF Kept
  <2>2. r \in 1..Len(tx.marks) /\ tx.marks[r].name = Name /\ MarksNamed(tx, Name) = {r}
    <3>1. PICK p \in 1..Len(tx.marks) : tx.marks[p].name = Name
      BY <1>1, <1>3 DEF MarksNamed
    <3>2. MarksNamed(tx, Name) = {p}
      BY <1>1, <1>3, <3>1 DEF MarksNamed, Inv, NamesOnce, Running, Calm
    <3>3. r = p
      BY <1>1, <3>1, <3>2 DEF LastMark
    <3> QED BY <3>1, <3>2, <3>3
  <2> HIDE DEF r
  <2>3. /\ K \in Seq(Marks) /\ Len(K) = Len(tx.marks) - 1
        /\ \A k \in 1..(Len(tx.marks) - 1) : K[k] = IF k < r THEN tx.marks[k] ELSE tx.marks[k + 1]
    BY <1>1, <2>2, RemoveFacts
  <2> HIDE DEF K
  <2>4. f \in [1..Len(K) -> 1..Len(tx.marks)] /\ \A j, k \in 1..Len(K) : j < k => f[j] < f[k]
    BY <1>1, <2>2, <2>3
  <2>5. \A k \in 1..Len(K) : K[k] = tx.marks[f[k]]
    BY <2>3
  <2>6. ASSUME NEW q \in 1..Len(tx.marks), tx.marks[q].name # Name PROVE \E k \in 1..Len(K) : f[k] = q
    <3>1. CASE q < r
      <4>1. q \in 1..Len(K) /\ f[q] = q
        BY <1>1, <2>2, <2>3, <3>1
      <4> QED BY <4>1
    <3>2. CASE q > r
      <4>1. q - 1 \in 1..Len(K) /\ ~(q - 1 < r) /\ (q - 1) + 1 = q
        BY <1>1, <2>2, <2>3, <3>2
      <4>2. f[q - 1] = q
        BY <4>1
      <4> QED BY <4>1, <4>2
    <3> QED BY <1>1, <2>2, <2>6, <3>1, <3>2
  <2>7. \A k \in 1..Len(K) : f[k] \notin MarksNamed(tx, Name)
    BY <2>2, <2>4
  <2>8. Stretches(f, K)
    BY <2>4, <2>5, <2>6, <2>7 DEF Stretches
  <2> QED BY <2>1, <2>3, <2>8
<1> QED BY <1>2, <1>3 DEF Kept

LEMMA SavepointMarks ==
  ASSUME Inv, Running, engine' = engine, NEW K \in Seq(Marks), NEW f, Stretches(f, K),
         NEW M \in Marks, M.name = Name, blocks' = Append(blocks, M), tx'.marks = Append(K, M)
  PROVE  BlocksHaveMarks' /\ NamesOnce'
<1>0. PICK n \in Nat : n = Len(blocks)
  BY DEF Inv, Typed
<1> DEFINE m == Len(K)
<1>1. /\ blocks \in Seq(Marks) /\ n \in Nat /\ tx.marks \in Seq(Marks) /\ Len(tx.marks) \in Nat
      /\ m \in Nat /\ Typed
  BY <1>0 DEF Inv, Typed, Transactions, Running, Calm
<1>2. /\ Len(blocks') = n + 1 /\ \A i \in 1..n : blocks'[i] = blocks[i]
      /\ blocks'[n + 1] = M
      /\ Len(tx'.marks) = m + 1 /\ \A k \in 1..m : tx'.marks[k] = K[k]
      /\ tx'.marks[m + 1] = M
  BY <1>0, <1>1
<1>3. /\ f \in [1..m -> 1..Len(tx.marks)]
      /\ \A k \in 1..m : K[k] = tx.marks[f[k]]
      /\ \A j, k \in 1..m : j < k => f[j] < f[k]
      /\ \A q \in 1..Len(tx.marks) : tx.marks[q].name # Name => \E k \in 1..m : f[k] = q
  BY DEF Stretches
<1>4. \A i \in 1..n : blocks[i].name \in Nat /\ blocks[i].name # Name
  BY <1>0, <1>1, BlockFacts DEF Inv, NamesGrow, Typed, Name
<1> HIDE DEF m
<1>5. ASSUME NEW i \in 1..n, NEW p, IsOf(p, i)' PROVE p \in 1..m /\ IsOf(f[p], i)
  <2>1. p \in 1..(m + 1) /\ tx'.marks[p] = blocks[i]
    BY <1>2, <1>5 DEF IsOf
  <2>2. p # m + 1
    BY <1>2, <1>4, <2>1
  <2>3. p \in 1..m /\ f[p] \in 1..Len(tx.marks) /\ tx.marks[f[p]] = blocks[i]
    BY <1>1, <1>2, <1>3, <2>1, <2>2
  <2>4. ASSUME NEW q \in 1..Len(tx.marks), q > f[p] PROVE tx.marks[q].name # blocks[i].name
    <3> SUFFICES ASSUME tx.marks[q].name = blocks[i].name PROVE FALSE
      OBVIOUS
    <3>1. PICK k \in 1..m : f[k] = q
      BY <1>3, <1>4
    <3>2. k > p
      BY <1>1, <1>3, <2>3, <2>4, <3>1
    <3>3. k \in 1..Len(tx'.marks) /\ tx'.marks[k] = tx.marks[q] /\ blocks'[i] = blocks[i]
      BY <1>1, <1>2, <1>3, <3>1
    <3> QED BY <1>5, <3>2, <3>3 DEF IsOf
  <2> QED BY <2>3, <2>4 DEF IsOf
<1>6. ASSUME NEW i \in 1..n PROVE \E p \in 1..Len(tx'.marks) : IsOf(p, i)'
  <2>1. PICK q \in 1..Len(tx.marks) : IsOf(q, i)
    BY <1>0 DEF Inv, BlocksHaveMarks, Running, Calm
  <2>2. PICK k \in 1..m : f[k] = q
    BY <1>3, <1>4, <2>1 DEF IsOf
  <2>3. k \in 1..Len(tx'.marks) /\ tx'.marks[k] = blocks'[i]
    BY <1>1, <1>2, <1>3, <2>1, <2>2 DEF IsOf
  <2>4. ASSUME NEW j \in 1..Len(tx'.marks), j > k PROVE tx'.marks[j].name # blocks'[i].name
    <3>1. CASE j = m + 1
      BY <1>2, <1>4, <3>1
    <3>2. CASE j # m + 1
      <4>1. j \in 1..m /\ f[j] > q /\ f[j] \in 1..Len(tx.marks)
        BY <1>1, <1>2, <1>3, <2>2, <2>4, <3>2
      <4>2. tx'.marks[j] = tx.marks[f[j]]
        BY <1>2, <1>3, <4>1
      <4>3. tx.marks[f[j]].name # blocks[i].name
        BY <2>1, <4>1 DEF IsOf
      <4> QED BY <1>2, <4>2, <4>3
    <3> QED BY <3>1, <3>2
  <2> QED BY <2>3, <2>4 DEF IsOf
<1>7. m + 1 \in 1..Len(tx'.marks) /\ IsOf(m + 1, n + 1)'
  <2>1. m + 1 \in 1..Len(tx'.marks) /\ tx'.marks[m + 1] = blocks'[n + 1]
    BY <1>1, <1>2
  <2>2. \A q \in 1..Len(tx'.marks) : ~(q > m + 1)
    BY <1>1, <1>2
  <2> QED BY <2>1, <2>2 DEF IsOf
<1>8. ASSUME NEW q, IsOf(q, n + 1)' PROVE q = m + 1
  <2>1. q \in 1..(m + 1)
    BY <1>2, <1>8 DEF IsOf
  <2>2. ~(m + 1 > q)
    BY <1>1, <1>2, <1>7, <1>8 DEF IsOf
  <2> QED BY <1>1, <2>1, <2>2
<1>9. ASSUME NEW i \in 1..(n + 1), NEW j \in 1..(n + 1), i < j, NEW p, NEW q, IsOf(p, i)', IsOf(q, j)'
      PROVE  p < q
  <2>1. i \in 1..n /\ p \in 1..m /\ IsOf(f[p], i)
    BY <1>1, <1>5, <1>9
  <2>2. CASE j = n + 1
    <3>1. q = m + 1
      BY <1>8, <1>9, <2>2
    <3> QED BY <1>1, <2>1, <3>1
  <2>3. CASE j # n + 1
    <3>1. j \in 1..n /\ q \in 1..m /\ IsOf(f[q], j)
      BY <1>1, <1>5, <1>9, <2>3
    <3>2. f[p] \in 1..Len(tx.marks) /\ f[q] \in 1..Len(tx.marks)
      BY <1>3, <2>1, <3>1
    <3>3. f[p] < f[q]
      BY <1>0, <1>9, <2>1, <3>1, <3>2 DEF Inv, BlocksHaveMarks, Running, Calm
    <3>4. ~(q < p) /\ q # p
      BY <1>3, <2>1, <3>1, <3>2, <3>3
    <3> QED BY <2>1, <3>1, <3>4
  <2> QED BY <2>2, <2>3
<1>10. BlocksHaveMarks'
  <2>1. ASSUME NEW i \in 1..(n + 1) PROVE \E p \in 1..Len(tx'.marks) : IsOf(p, i)'
    <3>1. CASE i = n + 1
      BY <1>7, <3>1
    <3>2. CASE i # n + 1
      <4>1. i \in 1..n
        BY <1>1, <3>2
      <4> QED BY <1>6, <4>1
    <3> QED BY <3>1, <3>2
  <2> QED BY <1>2, <1>9, <2>1 DEF BlocksHaveMarks
<1>11. ASSUME engine = "mysql", NEW p \in 1..(m + 1), NEW q \in 1..(m + 1),
              tx'.marks[p].name = tx'.marks[q].name, p < q
       PROVE  FALSE
  <2>1. p \in 1..m /\ tx'.marks[p].name = tx.marks[f[p]].name /\ f[p] \in 1..Len(tx.marks)
    <3>1. p \in 1..m
      BY <1>1, <1>11
    <3> QED BY <1>2, <1>3, <3>1
  <2>2. CASE q = m + 1
    <3>1. tx.marks[f[p]].name = Name /\ f[p] \notin MarksNamed(tx, Name)
      BY <1>2, <1>11, <2>1, <2>2 DEF Stretches, m
    <3> QED BY <1>1, <2>1, <3>1 DEF MarksNamed
  <2>3. CASE q # m + 1
    <3>1. q \in 1..m
      BY <1>1, <2>3
    <3>2. f[q] \in 1..Len(tx.marks) /\ tx'.marks[q].name = tx.marks[f[q]].name
      BY <1>2, <1>3, <3>1
    <3>3. f[p] < f[q]
      BY <1>3, <1>11, <2>1, <3>1
    <3>4. f[p] = f[q]
      BY <1>11, <2>1, <3>2 DEF Inv, NamesOnce, Running, Calm
    <3> QED BY <2>1, <3>2, <3>3, <3>4
  <2> QED BY <2>2, <2>3
<1>12. NamesOnce'
  <2> SUFFICES ASSUME engine = "mysql", NEW p \in 1..(m + 1), NEW q \in 1..(m + 1),
                      tx'.marks[p].name = tx'.marks[q].name
               PROVE  p = q
    BY <1>2 DEF NamesOnce
  <2>1. ~(p < q) /\ ~(q < p)
    BY <1>11
  <2> QED BY <1>1, <2>1
<1> QED BY <1>10, <1>12

LEMMA SavepointStep == Inv /\ Savepoint => Inv'
<1> SUFFICES ASSUME Inv, Savepoint PROVE Inv'
  OBVIOUS
<1> DEFINE K == Kept(Name)
           M == Mark(Name, tx.rows)
<1>1. /\ Running /\ in_tx' = (engine = "sqlite") /\ depth' = depth + 1
      /\ UNCHANGED <<engine, raising, scope, believed, written>>
      /\ tx' = Transaction("open", tx.rows, Append(K, M))
      /\ blocks' = Append(blocks, Mark(Name, believed))
  BY DEF Savepoint, EnsureTx, retryVars
<1>2. /\ Typed /\ Calm /\ tx \in Transactions /\ tx.rows = believed /\ tx.rows \in SUBSET Nat
      /\ raising = "none" /\ scope # "out" /\ depth \in Nat /\ blocks \in Seq(Marks)
  BY <1>1 DEF Inv, Typed, Transactions, Believed, Running, Calm
<1>3. M \in Marks /\ M.name = Name /\ Name = depth + 1 /\ blocks' = Append(blocks, M)
  BY <1>1, <1>2 DEF Mark, Marks, Name
<1>4. K \in Seq(Marks)
  BY <1>1, KeptFacts
<1>5. PICK f : Stretches(f, K)
  BY <1>1, KeptFacts
<1> HIDE DEF K, M
<1>6. /\ tx' \in Transactions /\ tx'.state = "open" /\ tx'.rows = believed'
      /\ tx'.marks = Append(K, M)
  BY <1>1, <1>2, <1>3, <1>4 DEF Transaction, Transactions
<1>7. BlocksHaveMarks' /\ NamesOnce'
  BY <1>1, <1>3, <1>4, <1>5, <1>6, SavepointMarks
<1>8. Typed'
  BY <1>1, <1>2, <1>3, <1>6 DEF Typed
<1>9. NamesGrow'
  <2>1. PICK n \in Nat : n = Len(blocks)
    BY <1>2
  <2>2. /\ Len(blocks') = n + 1 /\ blocks'[n + 1] = M /\ \A i \in 1..n : blocks'[i] = blocks[i]
    BY <1>2, <1>3, <2>1
  <2>3. \A i \in 1..n : blocks[i].name \in Nat
    BY <1>2, <2>1, BlockFacts
  <2>4. ASSUME NEW i \in 1..(n + 1) PROVE blocks'[i].name <= depth' /\ blocks'[i].name > 0
    <3>1. CASE i = n + 1
      BY <1>1, <1>2, <1>3, <2>2, <3>1
    <3>2. CASE i # n + 1
      <4>1. i \in 1..n
        BY <3>2
      <4>2. blocks[i].name <= depth /\ blocks[i].name > 0
        BY <2>1, <4>1 DEF Inv, NamesGrow
      <4> QED BY <1>1, <1>2, <2>2, <2>3, <4>1, <4>2
    <3> QED BY <3>1, <3>2
  <2>5. ASSUME NEW i \in 1..(n + 1), NEW j \in 1..(n + 1), i < j
        PROVE  blocks'[i].name < blocks'[j].name
    <3>1. i \in 1..n
      BY <2>5
    <3>2. CASE j = n + 1
      <4>1. blocks[i].name <= depth
        BY <2>1, <3>1 DEF Inv, NamesGrow
      <4> QED BY <1>2, <1>3, <2>2, <2>3, <3>1, <3>2, <4>1
    <3>3. CASE j # n + 1
      <4>1. j \in 1..n
        BY <3>3
      <4> QED BY <2>1, <2>2, <2>5, <3>1, <4>1 DEF Inv, NamesGrow
    <3> QED BY <3>2, <3>3
  <2> QED BY <2>2, <2>4, <2>5 DEF NamesGrow
<1>10. NothingIsNothing' /\ Outside' /\ FlagIsSqlite' /\ FlagIsTrue' /\ Believed'
  BY <1>1, <1>2, <1>6 DEF NothingIsNothing, Outside, FlagIsSqlite, FlagIsTrue, Believed
<1> QED BY <1>7, <1>8, <1>9, <1>10 DEF Inv

LEMMA UnwindStep == Inv /\ Unwind => Inv'
<1> SUFFICES ASSUME Inv, Unwind PROVE Inv'
  OBVIOUS
<1>1. /\ raising = "exit" /\ raising' = "exit" /\ blocks # <<>> /\ Leave
      /\ UNCHANGED <<engine, scope, written, in_tx, believed>> /\ scope # "out"
  BY DEF Unwind, driverVars, retryVars, Inv, Outside
<1> QED BY <1>1, WildLeave DEF Inv, Typed, FlagIsSqlite

-----------------------------------------------------------------------------
(* The ends of a unit of work.                                              *)
LEMMA EndSteps ==
  ASSUME "sqlite" \notin Late
  PROVE  Inv /\ (Commit \/ ExitConflicts \/ Rollback \/ Retry \/ RetryRaises \/ Exit) => Inv'
<1> SUFFICES ASSUME Inv, Commit \/ ExitConflicts \/ Rollback \/ Retry \/ RetryRaises \/ Exit
             PROVE  Inv'
  OBVIOUS
<1> USE DEF blockVars, retryVars
<1>1. CASE Commit
  <2>1. /\ Ended /\ blocks = <<>> /\ UNCHANGED <<engine, blocks, depth, written, raising>>
        /\ believed' = {} /\ scope' \in {"out", "session"} /\ raising' = "none"
    BY <1>1 DEF Commit, Running
  <2> QED BY <2>1, EndedStep
<1>2. CASE ExitConflicts
  <2>1. /\ engine = "postgres" /\ tx' = NoTransaction /\ UNCHANGED in_tx /\ in_tx' = FALSE
    BY <1>2, "sqlite" \notin Late, LateAssumption
       DEF ExitConflicts, Unsettled, Inv, Typed, FlagIsSqlite
  <2>2. /\ Ended /\ blocks = <<>> /\ UNCHANGED <<engine, blocks, depth, written, raising>>
        /\ believed' = {} /\ scope' = "out" /\ raising' = "none"
    BY <1>2, <2>1 DEF ExitConflicts, Ended, Running
  <2> QED BY <2>2, EndedStep
<1>3. CASE Rollback \/ Retry \/ RetryRaises \/ Exit
  <2>1. /\ Ended /\ blocks = <<>> /\ UNCHANGED <<engine, blocks, depth, written>> /\ believed' = {}
        /\ raising' \in {"none", raising} /\ scope' \in {scope, "session", "out"}
        /\ scope' = "out" => raising' = "none"
    BY <1>3 DEF Rollback, Retry, RetryRaises, Exit, Excepted, Running
  <2> QED BY <2>1, EndedStep DEF Inv, Typed
<1> QED BY <1>1, <1>2, <1>3

LEMMA NextInv ==
  ASSUME "sqlite" \notin Late
  PROVE  Inv /\ [Next]_vars => Inv'
<1> SUFFICES ASSUME Inv, [Next]_vars PROVE Inv'
  OBVIOUS
<1>1. CASE UNCHANGED vars
  <2>1. UNCHANGED <<engine, tx, in_tx, depth, blocks, raising, scope, believed, written>>
    BY <1>1 DEF vars, driverVars, blockVars, retryVars
  <2>2. Typed' /\ NamesGrow' /\ NothingIsNothing' /\ Outside' /\ FlagIsSqlite' /\ FlagIsTrue'
    BY <2>1 DEF Inv, Typed, Calm, NamesGrow, NothingIsNothing, Outside, FlagIsSqlite, FlagIsTrue
  <2>3. BlocksHaveMarks' /\ NamesOnce' /\ Believed'
    BY <2>1, MarksStay DEF Inv, NamesOnce, Believed, Calm
  <2> QED BY <2>2, <2>3 DEF Inv
<1> QED
  BY <1>1, WriteStep, OtherSteps, SavepointStep, ReleaseStep, RollbackToStep, UnwindStep, EndSteps
     DEF Next

(* "It discards ONLY what is inside, the transaction stays alive": however    *)
(* blocks are entered, nested, left and rolled back, the transaction holds    *)
(* the writes the program has not undone, unless SQLite refuses the COMMIT   *)
(* of __exit__ and the connection is used again.                           *)
THEOREM TheTransactionIsBelieved ==
  ASSUME "sqlite" \notin Late
  PROVE  Spec => []TransactionIsBelieved
<1>1. Inv => TransactionIsBelieved
  BY DEF Inv, TransactionIsBelieved, Believed, Running, Calm
<1>2. Inv /\ [Next]_vars => Inv'
  BY NextInv
<1> QED BY <1>1, <1>2, InitInv, PTL DEF Spec

(* "The entire unit of work has to be redone along with its rollback": when   *)
(* with_retry returns, the database has gained what its last attempt wrote   *)
(* and nothing of an earlier one.                                          *)
THEOREM AReturnIsWhole ==
  ASSUME "sqlite" \notin Late
  PROVE  Spec => ReturnIsWhole
<1>1. Inv /\ [Next]_vars =>
        (scope = "work" /\ scope' = "session" /\ raising' = "none" => db' = db \cup believed)
  <2> SUFFICES ASSUME Inv, [Next]_vars, scope = "work", scope' = "session", raising' = "none"
               PROVE  db' = db \cup believed
    OBVIOUS
  <2>1. Commit
    BY DEF Next, vars, retryVars, Open, StartRetry, Write, WriteRefused, Raise, Savepoint,
           SavepointRefused, Release, RollbackTo, Unwind, CommitConflicts, ExitConflicts, Rollback,
           Retry, RetryRaises, Excepted, RetryInterrupted, Exit, Errors
  <2>2. tx \in Transactions /\ tx.rows = believed /\ tx.state # "aborted"
    BY <2>1 DEF Commit, Running, Inv, Typed, Believed, Calm
  <2>3. CASE tx.state = "open"
    BY <2>1, <2>2, <2>3 DEF Commit
  <2>4. CASE tx.state = "none"
    BY <2>1, <2>2, <2>4 DEF Commit, Running, Calm, Inv, NothingIsNothing
  <2> QED BY <2>2, <2>3, <2>4 DEF Transactions
<1>2. Inv /\ [Next]_vars => Inv'
  BY NextInv
<1> QED BY <1>1, <1>2, InitInv, PTL DEF Spec, ReturnIsWhole
=============================================================================
