------------------------ MODULE MigrationRunnerProofs ------------------------
(***************************************************************************)
(* The committed database moves by whole migrations, each recorded with    *)
(* its operations or not at all, whatever crashes, fails or overlaps: for  *)
(* any files, any squashes added while deploys run and any number of       *)
(* processes, on an engine with transactional DDL, while nobody rolls back *)
(* or only one process runs. (Two rollbacks at once undo more than that.)  *)
(* And the schema is what the recorded files make: while nobody rolls back, *)
(* without a squash for any files, with squashes where each replaces every *)
(* file there was and the first table created stays; and with rollbacks,   *)
(* where one process runs and drops name the columns they take away.       *)
(***************************************************************************)
EXTENDS MigrationRunner, FiniteSetTheorems, SequenceTheorems, WellFoundedInduction, TLAPS

-----------------------------------------------------------------------------
(* Counting up: a set of numbers that has 0 and the next of each it has.   *)
LEMMA LeastOf ==
  ASSUME NEW T \in SUBSET Nat, T # {}
  PROVE  \E n \in T : \A m \in T : n <= m
<1> DEFINE R == StrictSubsetOrdering(Nat)
           C == {0..n : n \in T}
<1>1. ASSUME NEW n \in Nat PROVE 0..n \in FiniteSubsetsOf(Nat)
  BY FS_Interval DEF FiniteSubsetsOf
<1>2. C \subseteq FiniteSubsetsOf(Nat) /\ C # {}
  BY <1>1
<1>3. IsWellFoundedOn(R, FiniteSubsetsOf(Nat))
  BY FS_StrictSubsetOrderingWellFounded
<1> HIDE DEF R
<1>4. \E x \in C : \A y \in C : ~(<<y, x>> \in R)
  BY <1>2, <1>3, WFMin
<1>5. PICK n \in T : \A y \in C : ~(<<y, 0..n>> \in R)
  BY <1>4
<1>6. ASSUME NEW m \in T, m < n PROVE FALSE
  <2>1. 0..m \in C /\ 0..m \subseteq 0..n /\ n \in 0..n /\ n \notin 0..m
    BY <1>6
  <2>2. <<0..m, 0..n>> \in R
    BY <2>1 DEF StrictSubsetOrdering, R
  <2> QED BY <1>5, <2>1, <2>2
<1> QED BY <1>6

LEMMA Climb ==
  ASSUME NEW n \in Nat, NEW B, 0 \in B, \A j \in 1..n : j - 1 \in B => j \in B
  PROVE  \A j \in 0..n : j \in B
<1> DEFINE T == {j \in 0..n : j \notin B}
<1>1. T \in SUBSET Nat
  OBVIOUS
<1>2. ASSUME T # {} PROVE FALSE
  <2>1. PICK j \in T : \A i \in T : j <= i
    <3> HIDE DEF T
    <3> QED BY <1>1, <1>2, LeastOf
  <2>2. j \in 1..n /\ j - 1 \in 0..n /\ ~(j <= j - 1)
    BY <2>1
  <2>3. j - 1 \in B
    BY <2>1, <2>2
  <2> QED BY <2>1, <2>2, <2>3
<1> QED BY <1>2

LEMMA Greatest ==
  ASSUME NEW n \in Nat, NEW t \in SUBSET (1..n), t # {}
  PROVE  Max(t) \in t /\ \A x \in t : x <= Max(t)
<1> DEFINE T == {n - x : x \in t}
<1>0. \A x \in t : x \in 1..n /\ n - x \in Nat
  OBVIOUS
<1>1. T \in SUBSET Nat /\ T # {}
  BY <1>0
<1>2. PICK m \in T : \A i \in T : m <= i
  <2> HIDE DEF T
  <2> QED BY <1>1, LeastOf
<1>3. PICK y \in t : m = n - y
  BY <1>2
<1>4. \A x \in t : y >= x
  <2> TAKE x \in t
  <2>1. n - y <= n - x
    BY <1>2, <1>3
  <2> QED BY <2>1
<1>5. Max(t) \in t /\ \A x \in t : Max(t) >= x
  BY <1>4 DEF Max
<1>6. t \subseteq Int
  OBVIOUS
<1> QED BY <1>5, <1>6

LEMMA GreatestIs ==
  ASSUME NEW n \in Nat, NEW t \in SUBSET (1..n), NEW j \in t, \A x \in t : x <= j
  PROVE  Max(t) = j
<1>1. Max(t) \in t /\ j <= Max(t) /\ Max(t) <= j
  BY Greatest
<1>2. \A x \in t : x \in Nat
  OBVIOUS
<1>3. Max(t) \in Nat /\ j \in Nat
  BY <1>1, <1>2
<1> QED BY <1>1, <1>3

(* A fold over the numbers to n, the greatest of a set last.               *)
Folds(F, S, base, n, g) ==
  /\ F \in [SUBSET (1..n) -> S]
  /\ \A t \in SUBSET (1..n) : F[t] = IF t = {} THEN base ELSE g[<<F[t \ {Max(t)}], Max(t)>>]

LEMMA FoldThere ==
  ASSUME NEW S, NEW base \in S, NEW n \in Nat, NEW g \in [S \X (1..n) -> S]
  PROVE  \E F : Folds(F, S, base, n, g)
<1> DEFINE Step(F, t) == F[t] = IF t = {} THEN base ELSE g[<<F[t \ {Max(t)}], Max(t)>>]
           Has(m) == \E F \in [SUBSET (1..m) -> S] : \A t \in SUBSET (1..m) : Step(F, t)
           B == {m \in 0..n : Has(m)}
<1>1. 0 \in B
  <2> DEFINE F == [t \in SUBSET (1..0) |-> base]
  <2>1. \A t \in SUBSET (1..0) : t = {}
    OBVIOUS
  <2>2. F \in [SUBSET (1..0) -> S] /\ \A t \in SUBSET (1..0) : Step(F, t)
    BY <2>1
  <2> HIDE DEF F, Step
  <2>3. Has(0)
    BY <2>2
  <2> HIDE DEF Has
  <2> QED BY <2>3
<1>2. ASSUME NEW j \in 1..n, j - 1 \in B PROVE j \in B
  <2>1. PICK F \in [SUBSET (1..(j - 1)) -> S] : \A t \in SUBSET (1..(j - 1)) : Step(F, t)
    BY <1>2
  <2> DEFINE H == [t \in SUBSET (1..j) |-> IF j \in t THEN g[<<F[t \ {j}], j>>] ELSE F[t]]
  <2>2. \A t \in SUBSET (1..j) : t \ {j} \in SUBSET (1..(j - 1))
    OBVIOUS
  <2>3. H \in [SUBSET (1..j) -> S]
    <3> SUFFICES ASSUME NEW t \in SUBSET (1..j) PROVE H[t] \in S
      OBVIOUS
    <3>1. CASE j \in t
      <4>1. F[t \ {j}] \in S
        BY <2>2
      <4>2. <<F[t \ {j}], j>> \in S \X (1..n)
        BY <4>1
      <4> QED BY <3>1, <4>2
    <3>2. CASE j \notin t
      <4>1. t \in SUBSET (1..(j - 1))
        BY <2>2, <3>2
      <4> QED BY <3>2, <4>1
    <3> QED BY <3>1, <3>2
  <2>4. \A t \in SUBSET (1..(j - 1)) : H[t] = F[t]
    OBVIOUS
  <2>5. ASSUME NEW t \in SUBSET (1..j) PROVE Step(H, t)
    <3>1. CASE j \in t
      <4>0. j \in Nat /\ \A x \in t : x <= j
        OBVIOUS
      <4>1. Max(t) = j
        BY <3>1, <4>0, GreatestIs
      <4>2. H[t \ {j}] = F[t \ {j}]
        BY <2>2, <2>4
      <4>3. H[t] = g[<<F[t \ {j}], j>>]
        BY <3>1
      <4> HIDE DEF H
      <4> QED BY <3>1, <4>1, <4>2, <4>3
    <3>2. CASE j \notin t
      <4>1. t \in SUBSET (1..(j - 1)) /\ t \ {Max(t)} \in SUBSET (1..(j - 1))
        BY <2>2, <3>2
      <4>2. H[t] = F[t] /\ H[t \ {Max(t)}] = F[t \ {Max(t)}]
        BY <2>4, <4>1
      <4>3. Step(F, t)
        BY <2>1, <4>1
      <4> HIDE DEF H
      <4> QED BY <4>2, <4>3
    <3> QED BY <3>1, <3>2
  <2> HIDE DEF H, Step
  <2>6. Has(j)
    BY <2>3, <2>5
  <2> HIDE DEF Has
  <2> QED BY <2>6
<1> HIDE DEF B
<1>3. n \in B
  BY <1>1, <1>2, Climb
<1> QED BY <1>3 DEF B, Folds

LEMMA FirstNumbers ==
  ASSUME NEW n \in Nat, NEW j \in 1..n
  PROVE  1..j \in SUBSET (1..n) /\ 1..j # {} /\ (1..j) \ {j} = 1..(j - 1) /\ Max(1..j) = j
<1>1. /\ 1..j \in SUBSET (1..n) /\ 1..j # {} /\ (1..j) \ {j} = 1..(j - 1)
      /\ j \in 1..j /\ \A x \in 1..j : x <= j
  OBVIOUS
<1> QED BY <1>1, GreatestIs

(* Such a fold is a chain, one element after another.                      *)
Unfolds(K, S, base, n, g) ==
  /\ K[{}] = base
  /\ \A t \in SUBSET (1..n) : t # {} /\ K[t \ {Max(t)}] \in S
       => K[t] = g[<<K[t \ {Max(t)}], Max(t)>>]

Chained(a, S, base, n, g, end) ==
  /\ a \in [0..n -> S] /\ a[0] = base /\ a[n] = end
  /\ \A j \in 1..n : a[j] = g[<<a[j - 1], j>>]

LEMMA FoldChain ==
  ASSUME NEW S, NEW base \in S, NEW n \in Nat, NEW g \in [S \X (1..n) -> S], NEW K,
         Unfolds(K, S, base, n, g)
  PROVE  \E a : Chained(a, S, base, n, g, K[1..n])
<1> DEFINE a == [j \in 0..n |-> K[1..j]]
           B == {j \in 0..n : a[j] \in S}
<1>1. a[0] = base
  <2>1. 1..0 = {}
    OBVIOUS
  <2> QED BY <2>1 DEF Unfolds
<1>2. ASSUME NEW j \in 1..n, a[j - 1] \in S PROVE a[j] = g[<<a[j - 1], j>>]
  <2>1. 1..j \in SUBSET (1..n) /\ 1..j # {} /\ (1..j) \ {j} = 1..(j - 1) /\ Max(1..j) = j
    BY FirstNumbers
  <2>3. j \in 0..n /\ j - 1 \in 0..n
    OBVIOUS
  <2>4. a[j] = K[1..j] /\ a[j - 1] = K[1..(j - 1)]
    BY <2>3
  <2> HIDE DEF a
  <2> QED BY <1>2, <2>1, <2>4 DEF Unfolds
<1>3. \A j \in 0..n : a[j] \in S
  <2>1. 0 \in B
    BY <1>1
  <2>2. ASSUME NEW j \in 1..n, j - 1 \in B PROVE j \in B
    <3>1. a[j - 1] \in S /\ j \in 0..n /\ j - 1 \in 0..n
      BY <2>2
    <3>2. <<a[j - 1], j>> \in S \X (1..n)
      BY <3>1
    <3> HIDE DEF a
    <3>3. a[j] \in S
      BY <1>2, <3>1, <3>2
    <3> QED BY <3>1, <3>3
  <2> HIDE DEF B
  <2>3. \A j \in 0..n : j \in B
    BY <2>1, <2>2, Climb
  <2> QED BY <2>3 DEF B
<1>4. a \in [0..n -> S] /\ a[n] = K[1..n]
  BY <1>3
<1>5. \A j \in 1..n : a[j] = g[<<a[j - 1], j>>]
  <2>1. \A j \in 1..n : j - 1 \in 0..n
    OBVIOUS
  <2> HIDE DEF a
  <2> QED BY <1>2, <1>3, <2>1
<1> HIDE DEF a
<1> QED BY <1>1, <1>4, <1>5 DEF Chained


-----------------------------------------------------------------------------
(* Files, operations and what they make of a schema.                       *)
Migrations == [version : Nat, operations : Seq(Operations), replaces : SUBSET Nat]
Ran(s, ops) == FoldLeft(Executed, s, ops)

LEMMA OperationTypes ==
  ASSUME NEW s \in Schemas, NEW op \in Operations
  PROVE  /\ Executed(s, op) \in Schemas /\ ApplyToState(s, op) \in Schemas
         /\ Accepts(s, op) => ApplyToState(s, op) = Executed(s, op)
         /\ Undone(op) \in Operations
<1>1. op = [kind |-> op.kind, table |-> op.table, columns |-> op.columns]
      /\ op.kind \in {"create", "drop", "add", "remove", "data"} /\ op.table \in Tables
      /\ op.columns \in SUBSET Columns
  BY DEF Operations
<1>2. Executed(s, op) \in Schemas
  BY <1>1 DEF Schemas, Executed
<1>3. ApplyToState(s, op) \in Schemas
  BY <1>2 DEF ApplyToState
<1>4. Accepts(s, op) => ApplyToState(s, op) = Executed(s, op)
  BY DEF Accepts, ApplyToState
<1>5. Opposite[op.kind] \in {"create", "drop", "add", "remove", "data"}
  BY <1>1 DEF Opposite
<1>6. Undone(op) = [kind |-> Opposite[op.kind], table |-> op.table, columns |-> op.columns]
  BY <1>1 DEF Undone
<1>7. Undone(op) \in Operations
  BY <1>1, <1>5, <1>6 DEF Operations
<1> QED BY <1>2, <1>3, <1>4, <1>7

(* A fold of the community modules is a chain, one element after another.  *)
LEMMA RanChain ==
  ASSUME NEW s \in Schemas, NEW n \in Nat, NEW ops \in [1..n -> Operations]
  PROVE  \E a \in [0..n -> Schemas] :
           /\ a[0] = s /\ FoldLeft(Executed, s, ops) = a[n]
           /\ \A j \in 1..n : a[j] = Executed(a[j - 1], ops[j])
<1> DEFINE g == [p \in Schemas \X (1..n) |-> Executed(p[1], ops[p[2]])]
           P(F) == F = [t \in SUBSET (1..n) |-> IF t = {} THEN s ELSE Executed(F[t \ {Max(t)}], ops[Max(t)])]
           K == CHOOSE F : P(F)
<1>1. g \in [Schemas \X (1..n) -> Schemas]
  BY OperationTypes
<1>2. \E F : P(F)
  <2>0. PICK G : Folds(G, Schemas, s, n, g)
    <3> HIDE DEF g
    <3> QED BY <1>1, FoldThere
  <2>1. /\ G \in [SUBSET (1..n) -> Schemas]
        /\ \A t \in SUBSET (1..n) : G[t] = IF t = {} THEN s ELSE g[<<G[t \ {Max(t)}], Max(t)>>]
    BY <2>0 DEF Folds
  <2>2. ASSUME NEW t \in SUBSET (1..n), t # {}
        PROVE  G[t] = Executed(G[t \ {Max(t)}], ops[Max(t)])
    <3>1. Max(t) \in 1..n
      BY <2>2, Greatest
    <3>2. G[t \ {Max(t)}] \in Schemas
      BY <2>1
    <3>3. G[t] = g[<<G[t \ {Max(t)}], Max(t)>>]
      BY <2>1, <2>2
    <3> QED BY <3>1, <3>2, <3>3
  <2>3. \A t \in SUBSET (1..n) : G[t] = IF t = {} THEN s ELSE Executed(G[t \ {Max(t)}], ops[Max(t)])
    BY <2>1, <2>2
  <2>4. P(G)
    BY <2>1, <2>3
  <2> HIDE DEF P
  <2> QED BY <2>4
<1>3. P(K)
  <2> HIDE DEF P
  <2> QED BY <1>2
<1>4. FoldLeft(Executed, s, ops) = K[1..n]
  <2>1. DOMAIN ops = 1..n
    OBVIOUS
  <2>2. FoldLeft(Executed, s, ops) =
          (CHOOSE F : F = [t \in SUBSET (DOMAIN ops) |->
             IF t = {} THEN s ELSE Executed(F[t \ {Max(t)}], ops[Max(t)])])[DOMAIN ops]
    BY DEF FoldLeft, MapThenFoldSet
  <2> QED BY Zenon, <2>1, <2>2
<1>5. ASSUME NEW t \in SUBSET (1..n), t # {}, K[t \ {Max(t)}] \in Schemas
      PROVE  K[t] = g[<<K[t \ {Max(t)}], Max(t)>>]
  <2> HIDE DEF K
  <2>1. Max(t) \in 1..n
    BY <1>5, Greatest
  <2>2. K[t] = Executed(K[t \ {Max(t)}], ops[Max(t)])
    BY <1>3, <1>5
  <2> QED BY <1>5, <2>1, <2>2
<1>6. K[{}] = s
  <2> HIDE DEF K
  <2> QED BY <1>3
<1>7. PICK a : Chained(a, Schemas, s, n, g, K[1..n])
  <2> HIDE DEF K, P, g
  <2>1. Unfolds(K, Schemas, s, n, g)
    BY <1>5, <1>6 DEF Unfolds
  <2> QED BY <1>1, <2>1, FoldChain
<1>8. \A j \in 1..n : a[j] = Executed(a[j - 1], ops[j])
  <2>1. \A j \in 1..n : a[j - 1] \in Schemas
    BY <1>7 DEF Chained
  <2> QED BY <1>7, <2>1 DEF Chained
<1> QED BY <1>4, <1>7, <1>8 DEF Chained

LEMMA AppliedChain ==
  ASSUME NEW s \in Schemas, NEW n \in Nat, NEW ops \in [1..n -> Operations]
  PROVE  \E a \in [0..n -> Schemas] :
           /\ a[0] = s /\ FoldLeft(ApplyToState, s, ops) = a[n]
           /\ \A j \in 1..n : a[j] = ApplyToState(a[j - 1], ops[j])
<1> DEFINE g == [p \in Schemas \X (1..n) |-> ApplyToState(p[1], ops[p[2]])]
           P(F) == F = [t \in SUBSET (1..n) |-> IF t = {} THEN s ELSE ApplyToState(F[t \ {Max(t)}], ops[Max(t)])]
           K == CHOOSE F : P(F)
<1>1. g \in [Schemas \X (1..n) -> Schemas]
  BY OperationTypes
<1>2. \E F : P(F)
  <2>0. PICK G : Folds(G, Schemas, s, n, g)
    <3> HIDE DEF g
    <3> QED BY <1>1, FoldThere
  <2>1. /\ G \in [SUBSET (1..n) -> Schemas]
        /\ \A t \in SUBSET (1..n) : G[t] = IF t = {} THEN s ELSE g[<<G[t \ {Max(t)}], Max(t)>>]
    BY <2>0 DEF Folds
  <2>2. ASSUME NEW t \in SUBSET (1..n), t # {}
        PROVE  G[t] = ApplyToState(G[t \ {Max(t)}], ops[Max(t)])
    <3>1. Max(t) \in 1..n
      BY <2>2, Greatest
    <3>2. G[t \ {Max(t)}] \in Schemas
      BY <2>1
    <3>3. G[t] = g[<<G[t \ {Max(t)}], Max(t)>>]
      BY <2>1, <2>2
    <3> QED BY <3>1, <3>2, <3>3
  <2>3. \A t \in SUBSET (1..n) : G[t] = IF t = {} THEN s ELSE ApplyToState(G[t \ {Max(t)}], ops[Max(t)])
    BY <2>1, <2>2
  <2>4. P(G)
    BY <2>1, <2>3
  <2> HIDE DEF P
  <2> QED BY <2>4
<1>3. P(K)
  <2> HIDE DEF P
  <2> QED BY <1>2
<1>4. FoldLeft(ApplyToState, s, ops) = K[1..n]
  <2>1. DOMAIN ops = 1..n
    OBVIOUS
  <2>2. FoldLeft(ApplyToState, s, ops) =
          (CHOOSE F : F = [t \in SUBSET (DOMAIN ops) |->
             IF t = {} THEN s ELSE ApplyToState(F[t \ {Max(t)}], ops[Max(t)])])[DOMAIN ops]
    BY DEF FoldLeft, MapThenFoldSet
  <2> QED BY Zenon, <2>1, <2>2
<1>5. ASSUME NEW t \in SUBSET (1..n), t # {}, K[t \ {Max(t)}] \in Schemas
      PROVE  K[t] = g[<<K[t \ {Max(t)}], Max(t)>>]
  <2> HIDE DEF K
  <2>1. Max(t) \in 1..n
    BY <1>5, Greatest
  <2>2. K[t] = ApplyToState(K[t \ {Max(t)}], ops[Max(t)])
    BY <1>3, <1>5
  <2> QED BY <1>5, <2>1, <2>2
<1>6. K[{}] = s
  <2> HIDE DEF K
  <2> QED BY <1>3
<1>7. PICK a : Chained(a, Schemas, s, n, g, K[1..n])
  <2> HIDE DEF K, P, g
  <2>1. Unfolds(K, Schemas, s, n, g)
    BY <1>5, <1>6 DEF Unfolds
  <2> QED BY <1>1, <2>1, FoldChain
<1>8. \A j \in 1..n : a[j] = ApplyToState(a[j - 1], ops[j])
  <2>1. \A j \in 1..n : a[j - 1] \in Schemas
    BY <1>7 DEF Chained
  <2> QED BY <1>7, <2>1 DEF Chained
<1> QED BY <1>4, <1>7, <1>8 DEF Chained

LEMMA ReplayOneType ==
  ASSUME NEW s \in Schemas, NEW m \in Migrations
  PROVE  ReplayOne(s, m) \in Schemas
<1>1. PICK ops \in Seq(Operations) : ops = m.operations
  BY DEF Migrations
<1>2. PICK n \in Nat : n = Len(ops)
  OBVIOUS
<1>3. ops \in [1..n -> Operations]
  BY <1>2
<1>4. PICK a \in [0..n -> Schemas] : FoldLeft(ApplyToState, s, ops) = a[n]
  BY ZenonT(60), <1>3, AppliedChain
<1> QED BY <1>1, <1>4 DEF ReplayOne

LEMMA ReplayChain ==
  ASSUME NEW s \in Schemas, NEW n \in Nat, NEW ops \in [1..n -> Migrations]
  PROVE  \E a \in [0..n -> Schemas] :
           /\ a[0] = s /\ FoldLeft(ReplayOne, s, ops) = a[n]
           /\ \A j \in 1..n : a[j] = ReplayOne(a[j - 1], ops[j])
<1> DEFINE g == [p \in Schemas \X (1..n) |-> ReplayOne(p[1], ops[p[2]])]
           P(F) == F = [t \in SUBSET (1..n) |-> IF t = {} THEN s ELSE ReplayOne(F[t \ {Max(t)}], ops[Max(t)])]
           K == CHOOSE F : P(F)
<1>1. g \in [Schemas \X (1..n) -> Schemas]
  BY ReplayOneType
<1>2. \E F : P(F)
  <2>0. PICK G : Folds(G, Schemas, s, n, g)
    <3> HIDE DEF g
    <3> QED BY <1>1, FoldThere
  <2>1. /\ G \in [SUBSET (1..n) -> Schemas]
        /\ \A t \in SUBSET (1..n) : G[t] = IF t = {} THEN s ELSE g[<<G[t \ {Max(t)}], Max(t)>>]
    BY <2>0 DEF Folds
  <2>2. ASSUME NEW t \in SUBSET (1..n), t # {}
        PROVE  G[t] = ReplayOne(G[t \ {Max(t)}], ops[Max(t)])
    <3>1. Max(t) \in 1..n
      BY <2>2, Greatest
    <3>2. G[t \ {Max(t)}] \in Schemas
      BY <2>1
    <3>3. G[t] = g[<<G[t \ {Max(t)}], Max(t)>>]
      BY <2>1, <2>2
    <3> QED BY <3>1, <3>2, <3>3
  <2>3. \A t \in SUBSET (1..n) : G[t] = IF t = {} THEN s ELSE ReplayOne(G[t \ {Max(t)}], ops[Max(t)])
    BY <2>1, <2>2
  <2>4. P(G)
    BY <2>1, <2>3
  <2> HIDE DEF P
  <2> QED BY <2>4
<1>3. P(K)
  <2> HIDE DEF P
  <2> QED BY <1>2
<1>4. FoldLeft(ReplayOne, s, ops) = K[1..n]
  <2>1. DOMAIN ops = 1..n
    OBVIOUS
  <2>2. FoldLeft(ReplayOne, s, ops) =
          (CHOOSE F : F = [t \in SUBSET (DOMAIN ops) |->
             IF t = {} THEN s ELSE ReplayOne(F[t \ {Max(t)}], ops[Max(t)])])[DOMAIN ops]
    BY DEF FoldLeft, MapThenFoldSet
  <2> QED BY Zenon, <2>1, <2>2
<1>5. ASSUME NEW t \in SUBSET (1..n), t # {}, K[t \ {Max(t)}] \in Schemas
      PROVE  K[t] = g[<<K[t \ {Max(t)}], Max(t)>>]
  <2> HIDE DEF K
  <2>1. Max(t) \in 1..n
    BY <1>5, Greatest
  <2>2. K[t] = ReplayOne(K[t \ {Max(t)}], ops[Max(t)])
    BY <1>3, <1>5
  <2> QED BY <1>5, <2>1, <2>2
<1>6. K[{}] = s
  <2> HIDE DEF K
  <2> QED BY <1>3
<1>7. PICK a : Chained(a, Schemas, s, n, g, K[1..n])
  <2> HIDE DEF K, P, g
  <2>1. Unfolds(K, Schemas, s, n, g)
    BY <1>5, <1>6 DEF Unfolds
  <2> QED BY <1>1, <2>1, FoldChain
<1>8. \A j \in 1..n : a[j] = ReplayOne(a[j - 1], ops[j])
  <2>1. \A j \in 1..n : a[j - 1] \in Schemas
    BY <1>7 DEF Chained
  <2> QED BY <1>7, <2>1 DEF Chained
<1> QED BY <1>4, <1>7, <1>8 DEF Chained

(* A chain depends on nothing but what it has run.                         *)
InStep(a, b, n) == a[0] = b[0] /\ \A j \in 1..n : a[j - 1] = b[j - 1] => a[j] = b[j]

LEMMA ChainsAgree ==
  ASSUME NEW n \in Nat, NEW a, NEW b, InStep(a, b, n)
  PROVE  \A j \in 0..n : a[j] = b[j]
<1> DEFINE B == {j \in 0..n : a[j] = b[j]}
<1>1. 0 \in B /\ \A j \in 1..n : j - 1 \in B => j \in B
  BY DEF InStep
<1> HIDE DEF B
<1>2. \A j \in 0..n : j \in B
  BY <1>1, Climb
<1> QED BY <1>2 DEF B

LEMMA PrefixFacts ==
  ASSUME NEW S, NEW q \in Seq(S), NEW j \in 0..Len(q)
  PROVE  /\ SubSeq(q, 1, j) \in Seq(S) /\ SubSeq(q, 1, j) \in [1..j -> S] /\ Len(SubSeq(q, 1, j)) = j
         /\ \A i \in 1..j : SubSeq(q, 1, j)[i] = q[i]
<1>1. j \in Int /\ \A i \in 1..j : q[i] \in S
  OBVIOUS
<1>2. /\ SubSeq(q, 1, j) \in Seq(S) /\ Len(SubSeq(q, 1, j)) = (IF 1 <= j THEN j - 1 + 1 ELSE 0)
      /\ \A i \in 1..(j - 1 + 1) : SubSeq(q, 1, j)[i] = q[1 + i - 1]
  BY <1>1, SubSeqProperties
<1>3. Len(SubSeq(q, 1, j)) = j /\ j - 1 + 1 = j /\ \A i \in 1..j : 1 + i - 1 = i
  BY <1>1, <1>2
<1>4. PICK x : x = SubSeq(q, 1, j)
  OBVIOUS
<1>5. x \in Seq(S) /\ Len(x) = j /\ \A i \in 1..j : x[i] = q[i]
  BY <1>2, <1>3, <1>4
<1>6. x \in [1..j -> S]
  BY <1>5
<1> QED BY <1>4, <1>5, <1>6

(* Operations one at a time.                                               *)
LEMMA RanFacts ==
  ASSUME NEW s \in Schemas, NEW ops \in Seq(Operations)
  PROVE  /\ Ran(s, SubSeq(ops, 1, 0)) = s /\ SubSeq(ops, 1, Len(ops)) = ops /\ Len(ops) \in Nat
         /\ \A j \in 0..Len(ops) : Ran(s, SubSeq(ops, 1, j)) \in Schemas
         /\ \A j \in 1..Len(ops) :
              Ran(s, SubSeq(ops, 1, j)) = Executed(Ran(s, SubSeq(ops, 1, j - 1)), ops[j])
<1> DEFINE n == Len(ops)
<1>1. n \in Nat /\ ops \in [1..n -> Operations]
  OBVIOUS
<1>2. PICK a \in [0..n -> Schemas] :
        /\ a[0] = s /\ FoldLeft(Executed, s, ops) = a[n]
        /\ \A j \in 1..n : a[j] = Executed(a[j - 1], ops[j])
  <2> HIDE DEF n
  <2> QED BY <1>1, RanChain
<1>3. ASSUME NEW j \in 0..n PROVE Ran(s, SubSeq(ops, 1, j)) = a[j]
  <2>1. j \in Nat /\ SubSeq(ops, 1, j) \in [1..j -> Operations] /\ \A i \in 1..j : SubSeq(ops, 1, j)[i] = ops[i]
    BY PrefixFacts
  <2>2. PICK b \in [0..j -> Schemas] :
          /\ b[0] = s /\ FoldLeft(Executed, s, SubSeq(ops, 1, j)) = b[j]
          /\ \A i \in 1..j : b[i] = Executed(b[i - 1], SubSeq(ops, 1, j)[i])
    BY <2>1, RanChain
  <2>3. \A i \in 1..j : i \in 1..n
    BY <1>1
  <2>4. \A i \in 1..j : b[i - 1] = a[i - 1] => b[i] = a[i]
    BY <1>2, <2>1, <2>2, <2>3
  <2>5. \A i \in 0..j : b[i] = a[i]
    <3>1. InStep(b, a, j)
      BY <1>2, <2>2, <2>4 DEF InStep
    <3> QED BY <2>1, <3>1, ChainsAgree
  <2>6. b[j] = a[j]
    BY <2>1, <2>5
  <2> QED BY <2>2, <2>6 DEF Ran
<1>4. SubSeq(ops, 1, n) = ops
  BY SubSeqFull
<1>5. \A j \in 1..n : j \in 0..n /\ j - 1 \in 0..n
  BY <1>1
<1>6. 0 \in 0..n
  BY <1>1
<1> QED BY <1>1, <1>2, <1>3, <1>4, <1>5, <1>6

(* The same of what the log says of a file.                                *)
LEMMA LogNames ==
  ASSUME NEW s, NEW ops
  PROVE  Log!Runs(s, ops) = Ran(s, ops)
  BY DEF Log!Runs, Log!FoldLeft, FoldLeft, Log!Executed, Executed, MapThenFoldSet,
         Log!MapThenFoldSet, Max, Log!Max, Ran

(* The operations of a file undone, the last one first.                    *)
Backwards(ops) == [i \in DOMAIN ops |-> Undone(ops[Len(ops) + 1 - i])]

LEMMA BackwardsFacts ==
  ASSUME NEW ops \in Seq(Operations)
  PROVE  /\ Log!Undoing(ops) = Backwards(ops)
         /\ Backwards(ops) \in Seq(Operations) /\ Len(Backwards(ops)) = Len(ops)
         /\ \A j \in 1..Len(ops) : Backwards(ops)[j] = Undone(ops[Len(ops) + 1 - j])
<1> DEFINE n == Len(ops)
           U == [i \in 1..n |-> Undone(ops[n + 1 - i])]
<1>1. n \in Nat /\ DOMAIN ops = 1..n /\ \A i \in 1..n : n + 1 - i \in 1..n
  OBVIOUS
<1>2. \A i \in 1..n : ops[i] \in Operations /\ ops[n + 1 - i] \in Operations
  BY <1>1
<1>3. Log!Undoing(ops) = U /\ Backwards(ops) = U
  BY <1>1 DEF Log!Undoing, Log!Undone, Undone, Log!Opposite, Opposite, Backwards
<1>4. NoSchema \in Schemas
  BY DEF NoSchema, Schemas
<1>5. U \in [1..n -> Operations]
  BY <1>2, <1>4, OperationTypes
<1>6. \A j \in 1..n : U[j] = Undone(ops[n + 1 - j])
  OBVIOUS
<1> HIDE DEF U
<1>7. U \in Seq(Operations) /\ Len(U) = n
  BY <1>1, <1>5
<1> QED BY <1>3, <1>6, <1>7

LEMMA ReplayType ==
  ASSUME NEW q \in Seq(Migrations) PROVE Replay(q) \in Schemas
<1>1. PICK n \in Nat : n = Len(q)
  OBVIOUS
<1>2. q \in [1..n -> Migrations] /\ NoSchema \in Schemas
  BY <1>1 DEF NoSchema, Schemas
<1>3. PICK a \in [0..n -> Schemas] :
        /\ a[0] = NoSchema /\ FoldLeft(ReplayOne, NoSchema, q) = a[n]
        /\ \A j \in 1..n : a[j] = ReplayOne(a[j - 1], q[j])
  <2> HIDE DEF Migrations
  <2> QED BY <1>2, ReplayChain
<1> QED BY <1>3 DEF Replay

LEMMA SequencesOfSets ==
  ASSUME NEW S, IsFiniteSet(S)
  PROVE  SetToSeq(S) \in Seq(S)
<1>1. Cardinality(S) \in Nat /\ \E f \in [1..Cardinality(S) -> S] : IsInjective(f)
  BY FS_CardinalityType DEF ExistsBijection, Bijection, Injection, IsInjective
<1>2. SetToSeq(S) \in [1..Cardinality(S) -> S]
  BY <1>1 DEF SetToSeq
<1> QED BY <1>1, <1>2

LEMMA SquashType ==
  ASSUME NEW q \in Seq(Migrations), NEW v \in Nat
  PROVE  /\ Squash(q, v) \in Migrations /\ Squash(q, v).version = v
         /\ q # <<>> => Squash(q, v).replaces # {}
<1> DEFINE s == Replay(q)
           present == {t \in Tables : s[t] # {}}
           create == [t \in Tables |-> CreateTable(t, s[t])]
           all == {create[t] : t \in present}
<1>1. s \in Schemas
  BY ReplayType
<1>2. all \subseteq Operations
  BY <1>1 DEF Schemas, CreateTable, Operations
<1>3. IsFiniteSet(all)
  <2>1. IsFiniteSet(present)
    BY TablesAssumption, FS_Subset
  <2>2. [t \in present |-> create[t]] \in Surjection(present, all)
    BY DEF Surjection
  <2> HIDE DEF present, all, create
  <2> QED BY <2>1, <2>2, FS_Surjection
<1>4. CreateAll(q) = SetToSeq(all)
  BY DEF CreateAll
<1>5. CreateAll(q) \in Seq(Operations)
  <2> HIDE DEF all
  <2>1. SetToSeq(all) \in Seq(all)
    BY <1>3, SequencesOfSets
  <2>2. SetToSeq(all) \in Seq(Operations)
    BY <1>2, <2>1
  <2> QED BY <1>4, <2>2
<1>6. VersionsOf(q) \in SUBSET Nat /\ (q # <<>> => VersionsOf(q) # {})
  <2> DEFINE D == Migrations
  <2>1. \A m \in D : m.version \in Nat
    BY DEF Migrations
  <2>2. DOMAIN q = 1..Len(q) /\ (q # <<>> => 1 \in 1..Len(q)) /\ \A i \in 1..Len(q) : q[i] \in D
    <3> HIDE DEF D
    <3>1. q \in Seq(D)
      BY DEF D
    <3> QED BY <3>1
  <2> HIDE DEF D
  <2> QED BY <2>1, <2>2 DEF VersionsOf, Range
<1> QED BY <1>5, <1>6 DEF Squash, Migration, Migrations

-----------------------------------------------------------------------------
(* The directory grows at its end, and what a deploy loaded is its start.  *)
FilesInv ==
  /\ files \in Seq(Migrations) /\ Len(files) <= MaxFiles
  /\ \A i \in 1..Len(files) : files[i].version = i
Starts(b, f) == Len(b) <= Len(f) /\ \A i \in 1..Len(b) : b[i] = f[i]
LoadInv ==
  /\ FilesInv
  /\ batch \in [Runners -> Seq(Migrations)]
  /\ \A r \in Runners : Starts(batch[r], files)

LEMMA InHand ==
  ASSUME LoadInv, NEW r \in Runners, NEW i \in 1..Len(batch[r])
  PROVE  /\ batch[r][i] = files[i] /\ i \in 1..Len(files) /\ i \in Versions
         /\ batch[r][i].version = i /\ batch[r][i] \in Migrations
         /\ batch[r][i].operations \in Seq(Operations) /\ Len(batch[r][i].operations) \in Nat
<1>1. PICK b : b = batch[r]
  OBVIOUS
<1>2. b \in Seq(Migrations) /\ Starts(b, files)
  BY <1>1 DEF LoadInv
<1>3. b[i] \in Migrations /\ Len(b) \in Nat /\ Len(files) \in Nat /\ i \in 1..Len(b)
  <2> HIDE DEF Migrations
  <2> QED BY <1>1, <1>2 DEF LoadInv, FilesInv
<1>4. b[i] = files[i] /\ i \in 1..Len(files)
  BY <1>2, <1>3 DEF Starts
<1>5. i \in Versions /\ files[i].version = i
  BY <1>4, FilesAssumption DEF LoadInv, FilesInv, Versions
<1>6. b[i].operations \in Seq(Operations)
  BY <1>3 DEF Migrations
<1>7. Len(b[i].operations) \in Nat
  BY <1>6
<1> QED BY <1>1, <1>3, <1>4, <1>5, <1>6, <1>7

LEMMA LoadInit == Init => LoadInv
<1> SUFFICES ASSUME Init PROVE LoadInv
  OBVIOUS
<1>1. Files \in Seq(Migrations) /\ DOMAIN Files = 1..Len(Files)
  BY FilesAssumption DEF Migrations
<1>2. FilesInv
  BY <1>1, FilesAssumption DEF Init, FilesInv
<1>3. <<>> \in Seq(Migrations) /\ Starts(<<>>, files)
  <2> HIDE DEF Migrations
  <2> QED BY <1>2 DEF Starts, FilesInv
<1> QED BY <1>2, <1>3 DEF Init, LoadInv

LEMMA LoadStep ==
  ASSUME LoadInv, [Next]_vars
  PROVE  LoadInv'
<1> USE DEF LoadInv
<1>1. ASSUME NEW r \in Runners, Load(r) PROVE LoadInv'
  <2>1. files' = files /\ batch' = [batch EXCEPT ![r] = files]
    BY <1>1 DEF Load
  <2>2. files \in Seq(Migrations) /\ Starts(files, files) /\ FilesInv'
    <3>1. Len(files) \in Nat
      <4> HIDE DEF Migrations
      <4> QED BY DEF FilesInv
    <3> QED BY <2>1, <3>1 DEF FilesInv, Starts
  <2> QED BY <2>1, <2>2
<1>2. ASSUME NEW r \in Runners, Migrate(r) \/ Rollback(r) \/ EngineFails(r) \/ Crash(r) PROVE LoadInv'
  <2>1. UNCHANGED <<files, batch>>
    BY <1>2 DEF Migrate, Rollback, EngineFails, Crash, EnsureTracking, ReadApplied, Skip,
       StartMarking, RaiseHalfWay, StartRunning, Finish, Forward, Record, CommitMigration, Raise,
       ReadLast, Backward, Unrecord, CommitRollback
  <2> QED BY <2>1 DEF FilesInv
<1>3. ASSUME NEW u \in SquashPoints, SquashUntil(u) PROVE LoadInv'
  <2> DEFINE q == SubSeq(files, 1, u)
  <2>1. PICK n \in Nat : n = Len(files) /\ n < MaxFiles /\ n + 1 \in Nat /\ u \in 0..n
    <3> HIDE DEF Migrations
    <3> QED BY <1>3, FilesAssumption DEF FilesInv, SquashUntil
  <2>2. q \in Seq(Migrations)
    BY <2>1, PrefixFacts DEF FilesInv
  <2>3. PICK m : m = Squash(q, n + 1)
    OBVIOUS
  <2>4. m \in Migrations /\ m.version = n + 1
    <3> HIDE DEF q
    <3> QED BY <2>1, <2>2, <2>3, SquashType
  <2>5. files' = Append(files, m) /\ batch' = batch
    BY <1>3, <2>1, <2>3 DEF SquashUntil, runnerVars
  <2> HIDE DEF q, Migrations
  <2>6. files' \in Seq(Migrations) /\ Len(files') = n + 1 /\ files'[n + 1] = m
        /\ \A i \in 1..n : files'[i] = files[i]
    BY <2>1, <2>4, <2>5 DEF FilesInv
  <2>7. FilesInv'
    <3> SUFFICES ASSUME NEW i \in 1..(n + 1) PROVE files'[i].version = i
      BY <2>1, <2>6, FilesAssumption DEF FilesInv
    <3>1. i \in 1..n \/ i = n + 1
      OBVIOUS
    <3> QED BY <2>1, <2>4, <2>6, <3>1 DEF FilesInv
  <2>8. ASSUME NEW r \in Runners PROVE Starts(batch'[r], files')
    <3>1. PICK b : b = batch[r]
      OBVIOUS
    <3>2. b \in Seq(Migrations) /\ Starts(b, files) /\ Len(b) \in Nat
      BY <3>1
    <3>3. \A i \in 1..Len(b) : i \in 1..n
      BY <2>1, <3>2 DEF Starts
    <3> QED BY <2>1, <2>5, <2>6, <3>1, <3>2, <3>3 DEF Starts
  <2> QED BY <2>5, <2>7, <2>8
<1>4. CASE UNCHANGED vars
  BY <1>4 DEF vars, runnerVars, FilesInv
<1> QED BY <1>1, <1>2, <1>3, <1>4 DEF Next

-----------------------------------------------------------------------------
(* Who stands where. Only a command between its first write and the end of *)
(* its transaction has one open, and only one at a time.                   *)
Undos == {"undo opening", "undo reading", "undoing", "undo committing"}
OnFile == {"running", "marking", "committing", "undoing", "undo committing"}
Open == {"running", "committing", "undoing", "undo committing", "failing"}

OneWriter == \A r, q \in Runners : tx[r] # NoTx /\ tx[q] # NoTx => r = q
PlaceOf(r) ==
  /\ step[r] \in OnFile => at[r] \in 1..Len(batch[r])
  /\ step[r] \in {"running", "undoing"} => k[r] <= Len(Current(r).operations)
  /\ tx[r] # NoTx => step[r] \in Open
  /\ step[r] \in {"committing", "undo committing"} => tx[r] # NoTx
  /\ step[r] \in Undos => "rollback" \in Allowed
PlaceInv ==
  /\ LoadInv
  /\ step \in [Runners -> Steps] /\ at \in [Runners -> Nat \ {0}] /\ k \in [Runners -> Nat]
  /\ already \in [Runners -> SUBSET Versions]
  /\ db \in Databases /\ tx \in [Runners -> Databases \cup {NoTx}]
  /\ OneWriter
  /\ \A r \in Runners : PlaceOf(r)

LEMMA SeenType ==
  ASSUME PlaceInv, NEW r \in Runners
  PROVE  Seen(r) \in Databases /\ Seen(r).tracked \in SUBSET Versions /\ Seen(r).schema \in Schemas
<1>1. Seen(r) \in Databases
  BY DEF PlaceInv, Seen
<1> QED BY <1>1 DEF Databases

LEMMA OnFileFacts ==
  ASSUME PlaceInv, NEW r \in Runners, step[r] \in OnFile
  PROVE  /\ at[r] \in 1..Len(files) /\ Current(r) = files[at[r]] /\ Current(r) \in Migrations
         /\ Current(r).version = at[r] /\ at[r] \in Versions
         /\ Current(r).operations \in Seq(Operations) /\ Len(Current(r).operations) \in Nat
<1>1. at[r] \in 1..Len(batch[r]) /\ LoadInv
  BY DEF PlaceInv, PlaceOf
<1> QED BY <1>1, InHand DEF Current

(* A step of one runner leaves the others where they stand.                *)
Apart(r) ==
  \A q \in Runners \ {r} :
    /\ step'[q] = step[q] /\ batch'[q] = batch[q] /\ already'[q] = already[q]
    /\ at'[q] = at[q] /\ k'[q] = k[q] /\ tx'[q] = tx[q]

LEMMA OthersStand ==
  ASSUME PlaceInv, NEW r \in Runners,
         Load(r) \/ Migrate(r) \/ Rollback(r) \/ EngineFails(r) \/ Crash(r)
  PROVE  Apart(r)
<1> USE DEF PlaceInv, LoadInv, GoTo, Apart
<1>1. CASE Load(r) \/ EngineFails(r) \/ Crash(r)
  BY <1>1 DEF Load, EngineFails, Crash, Discard
<1>2. CASE Migrate(r)
  <2>1. CASE \/ ReadApplied(r) \/ Skip(r) \/ StartMarking(r) \/ RaiseHalfWay(r) \/ StartRunning(r)
             \/ Finish(r) \/ Raise(r)
    BY <2>1 DEF ReadApplied, Skip, StartMarking, RaiseHalfWay, StartRunning, Finish, Raise, Discard
  <2>2. CASE EnsureTracking(r) \/ CommitMigration(r)
    BY <2>2 DEF EnsureTracking, CommitMigration, Commit, CommitNow
  <2>3. CASE Record(r)
    BY <2>3 DEF Record, Write
  <2>4. CASE Forward(r)
    <3>1. \/ \E n : Write(r, n) /\ k' = [k EXCEPT ![r] = @ + 1] /\ UNCHANGED step
          \/ \E n : CommitNow(r, n) /\ k' = [k EXCEPT ![r] = @ + 1] /\ UNCHANGED step
          \/ GoTo(r, "failing") /\ UNCHANGED <<db, tx, k>>
      BY <2>4 DEF Forward, Statement
    <3>2. UNCHANGED <<files, batch, already, at>>
      BY <2>4 DEF Forward
    <3> QED BY <3>1, <3>2 DEF Write, CommitNow
  <2> QED BY <1>2, <2>1, <2>2, <2>3, <2>4 DEF Migrate
<1>3. CASE Rollback(r)
  <2>1. CASE ReadLast(r) \/ Unrecord(r) \/ CommitRollback(r)
    BY <2>1 DEF ReadLast, Unrecord, CommitRollback, Write, Commit, CommitNow
  <2>2. CASE Backward(r)
    <3>1. \/ \E n : Write(r, n) /\ k' = [k EXCEPT ![r] = @ - 1] /\ UNCHANGED step
          \/ \E n : CommitNow(r, n) /\ k' = [k EXCEPT ![r] = @ - 1] /\ UNCHANGED step
          \/ GoTo(r, "failing") /\ UNCHANGED <<db, tx, k>>
      BY <2>2 DEF Backward, Statement
    <3>2. UNCHANGED <<files, batch, already, at>>
      BY <2>2 DEF Backward
    <3> QED BY <3>1, <3>2 DEF Write, CommitNow
  <2> QED BY <1>3, <2>1, <2>2 DEF Rollback
<1> QED BY <1>1, <1>2, <1>3

LEMMA PlaceInit == Init => PlaceInv
<1> SUFFICES ASSUME Init PROVE PlaceInv
  OBVIOUS
<1>1. NoSchema \in Schemas /\ [v \in Versions |-> 0] \in [Versions -> Int]
  BY DEF NoSchema, Schemas
<1>2. EmptyDatabase \in Databases
  BY <1>1 DEF EmptyDatabase, Databases
<1>3. db \in Databases /\ tx \in [Runners -> Databases \cup {NoTx}]
  BY <1>2 DEF Init
<1>4. /\ step \in [Runners -> Steps] /\ at \in [Runners -> Nat \ {0}] /\ k \in [Runners -> Nat]
      /\ already \in [Runners -> SUBSET Versions]
  BY DEF Init, Steps
<1>5. OneWriter /\ \A r \in Runners : PlaceOf(r)
  BY DEF Init, OneWriter, PlaceOf, OnFile, Undos
<1> QED BY <1>3, <1>4, <1>5, LoadInit DEF PlaceInv

(* What a statement and the record leave in a database.                    *)
After(d, s, v, x) == [d EXCEPT !.schema = s, !.done[v] = x]

LEMMA AfterType ==
  ASSUME NEW d \in Databases, NEW s \in Schemas, NEW v \in Versions, NEW x \in Int
  PROVE  /\ After(d, s, v, x) \in Databases /\ After(d, s, v, x).schema = s
         /\ After(d, s, v, x).tracked = d.tracked /\ After(d, s, v, x).done[v] = x
         /\ \A w \in Versions \ {v} : After(d, s, v, x).done[w] = d.done[w]
<1>0. PICK n : n = After(d, s, v, x)
  OBVIOUS
<1>1. /\ d.done \in [Versions -> Int] /\ d.tracked \in SUBSET Versions
      /\ d = [schema |-> d.schema, tracked |-> d.tracked, done |-> d.done]
  BY DEF Databases
<1>2. n = [schema |-> s, tracked |-> d.tracked, done |-> [d.done EXCEPT ![v] = x]]
  BY <1>0, <1>1 DEF After
<1>3. [d.done EXCEPT ![v] = x] \in [Versions -> Int]
  BY <1>1
<1>4. n \in Databases
  BY <1>1, <1>2, <1>3 DEF Databases
<1> QED BY <1>0, <1>1, <1>2, <1>4

Tracking(d, t) == [d EXCEPT !.tracked = t]

LEMMA TrackingType ==
  ASSUME NEW d \in Databases, NEW t \in SUBSET Versions
  PROVE  /\ Tracking(d, t) \in Databases /\ Tracking(d, t).tracked = t
         /\ Tracking(d, t).done = d.done /\ Tracking(d, t).schema = d.schema
<1>0. PICK n : n = Tracking(d, t)
  OBVIOUS
<1>1. /\ d.done \in [Versions -> Int] /\ d.schema \in Schemas
      /\ d = [schema |-> d.schema, tracked |-> d.tracked, done |-> d.done]
  BY DEF Databases
<1>2. n = [schema |-> d.schema, tracked |-> t, done |-> d.done]
  BY <1>0, <1>1 DEF Tracking
<1> QED BY <1>0, <1>1, <1>2 DEF Databases

(* Of a step of one runner there is only that runner to look at.           *)
LEMMA PlaceFrom ==
  ASSUME PlaceInv, LoadInv', NEW r \in Runners, Apart(r),
         step' \in [Runners -> Steps], at' \in [Runners -> Nat \ {0}], k' \in [Runners -> Nat],
         already' \in [Runners -> SUBSET Versions],
         db' \in Databases, tx' \in [Runners -> Databases \cup {NoTx}],
         tx'[r] \in {tx[r], NoTx} \/ MayWrite(r),
         PlaceOf(r)'
  PROVE  PlaceInv'
<1>1. OneWriter'
  BY DEF PlaceInv, OneWriter, MayWrite, Apart
<1>2. ASSUME NEW q \in Runners PROVE PlaceOf(q)'
  <2>1. CASE q = r
    BY <2>1
  <2>2. CASE q # r
    <3>1. PlaceOf(q)
      BY DEF PlaceInv
    <3> QED BY <2>2, <3>1 DEF PlaceOf, Apart, Current
  <2> QED BY <2>1, <2>2
<1> QED BY <1>1, <1>2 DEF PlaceInv

(* The database a statement leaves, forwards or backwards.                 *)
LEMMA StatementType ==
  ASSUME PlaceInv, NEW r \in Runners, step[r] \in OnFile, NEW op \in Operations,
         NEW x \in Int, NEW n,
         n = [Seen(r) EXCEPT !.schema = Executed(@, op), !.done[Current(r).version] = x]
  PROVE  n \in Databases
<1>1. PICK d : d = Seen(r)
  OBVIOUS
<1>2. PICK v : v = Current(r).version
  OBVIOUS
<1>3. d \in Databases /\ v \in Versions /\ Executed(d.schema, op) \in Schemas
  BY <1>1, <1>2, SeenType, OnFileFacts, OperationTypes
<1>4. PICK e : e = Executed(d.schema, op)
  OBVIOUS
<1>5. n = After(d, e, v, x)
  BY <1>1, <1>2, <1>4 DEF After
<1>6. e \in Schemas
  BY <1>3, <1>4
<1> QED BY <1>3, <1>5, <1>6, AfterType

LEMMA PlaceStep ==
  ASSUME Transactional, PlaceInv, [Next]_vars
  PROVE  PlaceInv'
<1> USE NoTxAssumption DEF GoTo
<1>0. LoadInv' /\ LoadInv
  BY LoadStep DEF PlaceInv
<1>1. ASSUME NEW r \in Runners, Load(r) PROVE PlaceInv'
  <2>1. PlaceOf(r)
    BY DEF PlaceInv
  <2>2. PlaceOf(r)'
    BY <1>1, <2>1 DEF Load, PlaceInv, PlaceOf, OnFile, Undos, Open
  <2>3. Apart(r)
    BY <1>1, OthersStand
  <2> QED BY <1>0, <1>1, <2>2, <2>3, PlaceFrom DEF Load, PlaceInv, Steps
<1>2. ASSUME NEW r \in Runners, EnsureTracking(r) PROVE PlaceInv'
  <2>1. PlaceOf(r) /\ tx[r] = NoTx /\ db' = db /\ tx' = tx
    BY <1>2 DEF PlaceInv, PlaceOf, Open, EnsureTracking, Commit, CommitNow, Seen
  <2>2. PlaceOf(r)'
    BY <1>2, <2>1 DEF EnsureTracking, PlaceInv, PlaceOf, OnFile, Undos, Open
  <2>3. Apart(r)
    BY <1>2, OthersStand DEF Migrate
  <2> QED BY <1>0, <1>2, <2>1, <2>2, <2>3, PlaceFrom DEF EnsureTracking, PlaceInv, Steps
<1>3. ASSUME NEW r \in Runners,
             \/ ReadApplied(r) \/ Skip(r) \/ StartMarking(r) \/ RaiseHalfWay(r) \/ StartRunning(r)
             \/ Finish(r)
      PROVE  PlaceInv'
  <2>1. PlaceOf(r) /\ tx[r] = NoTx /\ db' = db /\ tx' = tx /\ UNCHANGED <<files, batch>>
    BY <1>3 DEF PlaceInv, PlaceOf, Open, ReadApplied, Skip, StartMarking, RaiseHalfWay,
       StartRunning, Finish, Pending, Choosing
  <2>2. Apart(r)
    BY <1>3, OthersStand DEF Migrate
  <2>3. already' \in [Runners -> SUBSET Versions]
    BY <1>3, SeenType DEF PlaceInv, ReadApplied, Skip, StartMarking, RaiseHalfWay,
       StartRunning, Finish
  <2>4. /\ step' \in [Runners -> Steps] /\ at' \in [Runners -> Nat \ {0}] /\ k' \in [Runners -> Nat]
    <3>1. CASE ReadApplied(r) \/ StartMarking(r) \/ RaiseHalfWay(r) \/ Finish(r)
      <4>1. /\ \E s \in {"choosing", "marking", "idle"} : step' = [step EXCEPT ![r] = s]
            /\ (at' = [at EXCEPT ![r] = 1] \/ at' = at)
            /\ k' = k
        BY <3>1 DEF ReadApplied, StartMarking, RaiseHalfWay, Finish
      <4>2. step' \in [Runners -> Steps]
        BY <4>1 DEF PlaceInv, Steps
      <4>3. at' \in [Runners -> Nat \ {0}]
        BY <4>1 DEF PlaceInv
      <4> QED BY <4>1, <4>2, <4>3 DEF PlaceInv
    <3>2. CASE Skip(r)
      <4>1. at[r] + 1 \in Nat \ {0}
        <5>1. at[r] \in Nat \ {0}
          BY DEF PlaceInv
        <5> QED BY <5>1
      <4>2. at' = [at EXCEPT ![r] = @ + 1] /\ UNCHANGED <<step, k>>
        BY <3>2 DEF Skip
      <4> QED BY <4>1, <4>2 DEF PlaceInv
    <3>3. CASE StartRunning(r)
      BY <3>3 DEF PlaceInv, StartRunning, Steps
    <3> QED BY <1>3, <3>1, <3>2, <3>3
  <2>5. PlaceOf(r)'
    <3>1. CASE ReadApplied(r) \/ RaiseHalfWay(r) \/ Finish(r)
      BY <2>1, <3>1 DEF ReadApplied, RaiseHalfWay, Finish, PlaceInv, PlaceOf, OnFile, Undos, Open
    <3>2. CASE Skip(r)
      BY <2>1, <3>2 DEF Skip, Choosing, PlaceInv, PlaceOf, OnFile, Undos, Open
    <3>3. CASE StartMarking(r) \/ StartRunning(r)
      <4>1. at[r] \in 1..Len(batch[r]) /\ at'[r] = at[r] /\ batch'[r] = batch[r]
        <5>1. Len(batch[r]) \in Nat /\ at[r] <= Len(batch[r]) /\ at[r] \in Nat \ {0}
          <6> DEFINE M == Migrations
          <6>1. batch[r] \in Seq(M)
            BY <1>0 DEF LoadInv
          <6> HIDE DEF M
          <6> QED BY <3>3, <6>1 DEF StartMarking, StartRunning, Pending, Choosing, PlaceInv
        <5> QED BY <3>3, <5>1 DEF StartMarking, StartRunning
      <4>2. Len(batch[r][at[r]].operations) \in Nat
        BY <1>0, <4>1, InHand
      <4>3. step'[r] \in {"marking", "running"} /\ (step'[r] = "running" => k'[r] = 0)
        BY <3>3 DEF StartMarking, StartRunning, PlaceInv
      <4>4. step'[r] = "running" => k'[r] <= Len(Current(r)'.operations)
        <5>1. Current(r)' = batch[r][at[r]]
          BY <4>1 DEF Current
        <5> QED BY <4>2, <4>3, <5>1
      <4>5. step'[r] \notin {"undoing", "committing", "undo committing"} \cup Undos
        BY <4>3 DEF Undos
      <4> QED BY <2>1, <4>1, <4>4, <4>5 DEF PlaceOf
    <3> QED BY <1>3, <3>1, <3>2, <3>3
  <2> QED BY <1>0, <2>1, <2>2, <2>3, <2>4, <2>5, PlaceFrom DEF PlaceInv
<1>4. ASSUME NEW r \in Runners, Raise(r) \/ EngineFails(r) \/ Crash(r) PROVE PlaceInv'
  <2>1. PlaceOf(r)
    BY DEF PlaceInv
  <2>2. PlaceOf(r)'
    BY <1>4, <2>1 DEF Raise, EngineFails, Crash, Discard, PlaceInv, PlaceOf, OnFile, Undos, Open
  <2>3. Apart(r)
    BY <1>4, OthersStand DEF Migrate
  <2> QED BY <1>0, <1>4, <2>2, <2>3, PlaceFrom DEF Raise, EngineFails, Crash, Discard, PlaceInv, Steps
<1>5. ASSUME NEW r \in Runners, Forward(r) \/ Backward(r) PROVE PlaceInv'
  <2>1. /\ step[r] \in {"running", "undoing"} /\ PlaceOf(r) /\ UNCHANGED <<files, batch, already, at>>
        /\ k[r] \in Nat
    BY <1>5 DEF Forward, Backward, PlaceInv
  <2>2. Apart(r)
    BY <1>5, OthersStand DEF Migrate, Rollback
  <2>3. /\ Current(r).version \in Versions /\ Current(r).operations \in Seq(Operations)
        /\ Len(Current(r).operations) \in Nat
    BY <2>1, OnFileFacts DEF OnFile
  <2>4. \/ \E n \in Databases :
             /\ Write(r, n) /\ UNCHANGED step
             /\ k' \in [Runners -> Nat] /\ k'[r] <= Len(Current(r).operations)
        \/ GoTo(r, "failing") /\ UNCHANGED <<db, tx, k>>
    <3>1. CASE Forward(r)
      <4>1. CASE Accepts(Seen(r).schema, ForwardOp(r))
        <5> DEFINE n == [Seen(r) EXCEPT !.schema = Executed(@, ForwardOp(r)),
                                        !.done[Current(r).version] = @ + 1]
                   x == Seen(r).done[Current(r).version] + 1
        <5>1. Write(r, n) /\ UNCHANGED step /\ k' = [k EXCEPT ![r] = @ + 1] /\ k[r] < Len(Current(r).operations)
              /\ step[r] = "running"
          BY <3>1, <4>1 DEF Forward, Statement, Autocommits
        <5>2. ForwardOp(r) \in Operations /\ k' \in [Runners -> Nat] /\ k'[r] <= Len(Current(r).operations)
          BY <2>1, <2>3, <5>1 DEF ForwardOp, PlaceInv
        <5>3. x \in Int
          <6>1. Seen(r).done[Current(r).version] \in Int
            BY <2>3, SeenType DEF Databases
          <6> QED BY <6>1
        <5>4. n = [Seen(r) EXCEPT !.schema = Executed(@, ForwardOp(r)), !.done[Current(r).version] = x]
          OBVIOUS
        <5> HIDE DEF n, x
        <5>5. n \in Databases
          BY <2>1, <5>2, <5>3, <5>4, StatementType DEF OnFile
        <5> QED BY <5>1, <5>2, <5>5
      <4> QED BY <3>1, <4>1 DEF Forward
    <3>2. CASE Backward(r)
      <4> DEFINE op == Undone(Current(r).operations[k[r]])
      <4>1. CASE Accepts(Seen(r).schema, op)
        <5> DEFINE n == [Seen(r) EXCEPT !.schema = Executed(@, op),
                                        !.done[Current(r).version] = @ - 1]
                   x == Seen(r).done[Current(r).version] - 1
        <5>1. Write(r, n) /\ UNCHANGED step /\ k' = [k EXCEPT ![r] = @ - 1] /\ k[r] > 0
              /\ k[r] <= Len(Current(r).operations)
          BY <2>1, <3>2, <4>1 DEF Backward, Statement, Autocommits, PlaceOf
        <5>2. k' \in [Runners -> Nat] /\ k'[r] <= Len(Current(r).operations)
          BY <2>1, <2>3, <5>1 DEF PlaceInv
        <5>3. op \in Operations
          <6>1. Current(r).operations[k[r]] \in Operations
            BY <2>1, <2>3, <5>1
          <6> QED BY <6>1, SeenType, OperationTypes
        <5>4. x \in Int
          <6>1. Seen(r).done[Current(r).version] \in Int
            BY <2>3, SeenType DEF Databases
          <6> QED BY <6>1
        <5>5. n = [Seen(r) EXCEPT !.schema = Executed(@, op), !.done[Current(r).version] = x]
          OBVIOUS
        <5> HIDE DEF n, x, op
        <5>6. n \in Databases
          BY <2>1, <5>3, <5>4, <5>5, StatementType DEF OnFile
        <5> QED BY <5>1, <5>2, <5>6
      <4> QED BY <3>2, <4>1 DEF Backward
    <3> QED BY <1>5, <3>1, <3>2
  <2>5. CASE GoTo(r, "failing") /\ UNCHANGED <<db, tx, k>>
    <3>1. PlaceOf(r)'
      BY <2>1, <2>5 DEF PlaceOf, PlaceInv, OnFile, Undos, Open
    <3> QED BY <1>0, <2>1, <2>2, <2>5, <3>1, PlaceFrom DEF PlaceInv, Steps
  <2>6. ASSUME NEW n \in Databases, Write(r, n), UNCHANGED step,
               k' \in [Runners -> Nat], k'[r] <= Len(Current(r).operations)
        PROVE  PlaceInv'
    <3>1. tx' \in [Runners -> Databases \cup {NoTx}] /\ tx'[r] # NoTx /\ db' = db /\ MayWrite(r)
      BY <2>6 DEF Write, PlaceInv
    <3>2. PlaceOf(r)'
      BY <2>1, <2>6, <3>1 DEF PlaceOf, Current, OnFile, Undos, Open
    <3> QED BY <1>0, <2>1, <2>2, <2>6, <3>1, <3>2, PlaceFrom DEF PlaceInv
  <2> QED BY <2>4, <2>5, <2>6
<1>6. ASSUME NEW r \in Runners, Record(r) \/ Unrecord(r) PROVE PlaceInv'
  <2>1. /\ step[r] \in OnFile /\ PlaceOf(r) /\ UNCHANGED <<files, batch, already, at, k>>
        /\ step[r] \in {"running", "marking", "undoing"}
    BY <1>6 DEF Record, Unrecord, OnFile, PlaceInv
  <2>2. Apart(r)
    BY <1>6, OthersStand DEF Migrate, Rollback
  <2>3. PICK d : d = Seen(r)
    OBVIOUS
  <2>4. PICK v : v = Current(r).version
    OBVIOUS
  <2>5. d \in Databases /\ d.tracked \in SUBSET Versions /\ v \in Versions
    BY <2>1, <2>3, <2>4, SeenType, OnFileFacts
  <2>6. \/ \E n \in Databases :
             /\ Write(r, n)
             /\ \/ Record(r) /\ GoTo(r, "committing")
                \/ Unrecord(r) /\ GoTo(r, "undo committing")
        \/ GoTo(r, "failing") /\ UNCHANGED <<db, tx>>
    <3>1. [d EXCEPT !.tracked = @ \cup {v}] \in Databases
      <4>1. PICK t : t = d.tracked \cup {v}
        OBVIOUS
      <4>2. t \in SUBSET Versions
        BY <2>5, <4>1
      <4> QED BY <2>5, <4>1, <4>2, TrackingType DEF Tracking
    <3>2. [d EXCEPT !.tracked = @ \ {v}] \in Databases
      <4>1. PICK t : t = d.tracked \ {v}
        OBVIOUS
      <4>2. t \in SUBSET Versions
        BY <2>5, <4>1
      <4> QED BY <2>5, <4>1, <4>2, TrackingType DEF Tracking
    <3> QED BY <1>6, <2>3, <2>4, <3>1, <3>2 DEF Record, Unrecord, Recorded
  <2>7. CASE GoTo(r, "failing") /\ UNCHANGED <<db, tx>>
    <3>1. PlaceOf(r)'
      BY <2>1, <2>7 DEF PlaceOf, PlaceInv, OnFile, Undos, Open
    <3> QED BY <1>0, <2>1, <2>2, <2>7, <3>1, PlaceFrom DEF PlaceInv, Steps
  <2>8. ASSUME NEW n \in Databases, Write(r, n),
               \/ Record(r) /\ GoTo(r, "committing")
               \/ Unrecord(r) /\ GoTo(r, "undo committing")
        PROVE  PlaceInv'
    <3>1. tx' \in [Runners -> Databases \cup {NoTx}] /\ tx'[r] # NoTx /\ db' = db /\ MayWrite(r)
      BY <2>8 DEF Write, PlaceInv
    <3>2. /\ step' \in [Runners -> Steps] /\ step'[r] \in {"committing", "undo committing"}
          /\ step'[r] = "undo committing" => step[r] = "undoing"
      BY <2>8 DEF PlaceInv, Steps, Record, Unrecord
    <3>3. PlaceOf(r)'
      BY <2>1, <3>1, <3>2 DEF PlaceOf, Current, OnFile, Undos, Open
    <3> QED BY <1>0, <2>1, <2>2, <3>1, <3>2, <3>3, PlaceFrom DEF PlaceInv
  <2> QED BY <2>6, <2>7, <2>8
<1>7. ASSUME NEW r \in Runners, CommitMigration(r) \/ CommitRollback(r) PROVE PlaceInv'
  <2>1. PlaceOf(r) /\ Seen(r) \in Databases
    BY SeenType DEF PlaceInv
  <2>2. Apart(r)
    BY <1>7, OthersStand DEF Migrate, Rollback
  <2>3. /\ db' \in Databases /\ tx' \in [Runners -> Databases \cup {NoTx}] /\ tx'[r] = NoTx
        /\ step' \in [Runners -> Steps] /\ step'[r] \in {"choosing", "idle"}
        /\ at' \in [Runners -> Nat \ {0}] /\ UNCHANGED <<already, k>>
    <3>1. /\ db' = Seen(r) /\ tx' = [tx EXCEPT ![r] = NoTx] /\ UNCHANGED <<already, k>>
          /\ \/ step' = [step EXCEPT ![r] = "choosing"]
             \/ step' = [step EXCEPT ![r] = "idle"]
      BY <1>7 DEF CommitMigration, CommitRollback, Commit, CommitNow
    <3>2. at' \in [Runners -> Nat \ {0}]
      <4>1. at[r] + 1 \in Nat \ {0}
        <5>1. at[r] \in Nat \ {0}
          BY DEF PlaceInv
        <5> QED BY <5>1
      <4>2. at' = [at EXCEPT ![r] = @ + 1] \/ at' = at
        BY <1>7 DEF CommitMigration, CommitRollback
      <4> QED BY <4>1, <4>2 DEF PlaceInv
    <3> QED BY <2>1, <3>1, <3>2 DEF PlaceInv, Steps
  <2>4. PlaceOf(r)'
    BY <2>3 DEF PlaceOf, OnFile, Undos, Open
  <2> QED BY <1>0, <2>2, <2>3, <2>4, PlaceFrom DEF PlaceInv
<1>8. ASSUME NEW r \in Runners, ReadLast(r) PROVE PlaceInv'
  <2>1. PlaceOf(r) /\ step[r] = "undo reading" /\ tx[r] = NoTx /\ UNCHANGED <<files, db, tx, batch, already>>
    BY <1>8 DEF PlaceInv, PlaceOf, ReadLast, Open
  <2>2. Apart(r)
    BY <1>8, OthersStand DEF Rollback
  <2>3. CASE LastRegistered(r) = {}
    <3>1. GoTo(r, "idle") /\ UNCHANGED <<at, k>>
      BY <1>8, <2>3 DEF ReadLast
    <3>2. PlaceOf(r)'
      BY <2>1, <3>1 DEF PlaceOf, PlaceInv, OnFile, Undos, Open
    <3> QED BY <1>0, <2>1, <2>2, <3>1, <3>2, PlaceFrom DEF PlaceInv, Steps
  <2>4. CASE LastRegistered(r) # {}
    <3>1. PICK i \in LastRegistered(r) :
            /\ at' = [at EXCEPT ![r] = i]
            /\ k' = [k EXCEPT ![r] = Len(batch[r][i].operations)]
            /\ GoTo(r, "undoing")
      BY <1>8, <2>4 DEF ReadLast
    <3>2. i \in 1..Len(batch[r]) /\ i \in Nat \ {0}
      <4> DEFINE M == Migrations
      <4>1. batch[r] \in Seq(M)
        BY <1>0 DEF LoadInv
      <4> HIDE DEF M
      <4> QED BY <4>1 DEF LastRegistered
    <3>3. Len(batch[r][i].operations) \in Nat
      BY <1>0, <3>2, InHand
    <3>4. /\ at' \in [Runners -> Nat \ {0}] /\ k' \in [Runners -> Nat] /\ step' \in [Runners -> Steps]
          /\ at'[r] = i /\ k'[r] = Len(batch[r][i].operations) /\ step'[r] = "undoing"
      BY <3>1, <3>2, <3>3 DEF PlaceInv, Steps
    <3>5. PlaceOf(r)'
      <4>1. Current(r)' = batch[r][i] /\ batch' = batch
        BY <2>1, <3>4 DEF Current
      <4>2. k'[r] <= Len(Current(r)'.operations)
        BY <3>3, <3>4, <4>1
      <4>3. tx'[r] = NoTx /\ "rollback" \in Allowed
        BY <2>1 DEF PlaceOf, Undos
      <4> QED BY <3>2, <3>4, <4>1, <4>2, <4>3 DEF PlaceOf
    <3> QED BY <1>0, <2>1, <2>2, <3>4, <3>5, PlaceFrom DEF PlaceInv
  <2> QED BY <2>3, <2>4
<1>9. CASE \/ UNCHANGED vars \/ \E u \in SquashPoints : SquashUntil(u)
  <2>1. UNCHANGED <<db, tx, step, batch, already, at, k>>
    BY <1>9 DEF vars, runnerVars, SquashUntil
  <2>2. OneWriter' /\ \A r \in Runners : PlaceOf(r)'
    BY <2>1 DEF PlaceInv, OneWriter, PlaceOf, Current
  <2> QED BY <1>0, <2>1, <2>2 DEF PlaceInv
<1> QED
  BY <1>1, <1>2, <1>3, <1>4, <1>5, <1>6, <1>7, <1>8, <1>9 DEF Next, Migrate, Rollback

-----------------------------------------------------------------------------
(* What an open transaction holds that the committed database does not: the*)
(* first j operations of the migration in hand, every one accepted where it*)
(* ran, and c more of them counted; at the end the record as well.         *)
Did(n, d, v, ops, j, c) ==
  /\ n.schema = Ran(d.schema, SubSeq(ops, 1, j))
  /\ \A i \in 1..j : Accepts(Ran(d.schema, SubSeq(ops, 1, i - 1)), ops[i])
  /\ n.done[v] = d.done[v] + c
  /\ \A w \in Versions \ {v} : n.done[w] = d.done[w]
HandOf(t, d, v, ops, j, c) ==
  IF t = NoTx THEN j = 0 /\ c = 0 ELSE t.tracked = d.tracked /\ Did(t, d, v, ops, j, c)
Applied(t, d, m) ==
  /\ m.version \notin d.tracked /\ t.tracked = d.tracked \cup {m.version}
  /\ Did(t, d, m.version, m.operations, Len(m.operations), Len(m.operations))
Marked(t, d, m) ==
  /\ m.version \notin d.tracked /\ t.tracked = d.tracked \cup {m.version}
  /\ m.replaces # {} /\ m.replaces \subseteq d.tracked
  /\ t.schema = d.schema /\ t.done = d.done
Reverted(t, d, m) ==
  /\ m.version \in d.tracked /\ t.tracked = d.tracked \ {m.version}
  /\ Did(t, d, m.version, Backwards(m.operations), Len(m.operations), 0 - Len(m.operations))

WorkIn(s, m, j, applied, t, d) ==
  /\ s \in {"choosing", "running", "marking", "committing"} => applied \subseteq d.tracked
  /\ s = "running" => HandOf(t, d, m.version, m.operations, j, j)
  /\ s = "marking" => SquashDone(m, applied)
  /\ s = "committing" => Applied(t, d, m) \/ Marked(t, d, m)
  /\ s = "undoing" =>
       /\ m.version \in d.tracked
       /\ HandOf(t, d, m.version, Backwards(m.operations), Len(m.operations) - j,
                 j - Len(m.operations))
  /\ s = "undo committing" => Reverted(t, d, m)
WorkOf(r) == WorkIn(step[r], Current(r), k[r], already[r], tx[r], db)
WorkInv == \A r \in Runners : WorkOf(r)

(* A rollback reads the last migration before it writes, so two processes  *)
(* are safe from each other only while none of them rolls back.            *)
Alone == "rollback" \notin Allowed \/ \E r : Runners = {r}

LEMMA DidNothing ==
  ASSUME NEW d \in Databases, NEW v \in Versions, NEW ops \in Seq(Operations)
  PROVE  Did(d, d, v, ops, 0, 0)
<1>1. d.schema \in Schemas /\ d.done[v] \in Int
  BY DEF Databases
<1>2. Ran(d.schema, SubSeq(ops, 1, 0)) = d.schema
  BY <1>1, RanFacts
<1> QED BY <1>1, <1>2 DEF Did

OneMore(n, v, ops, j, e) == After(n, Executed(n.schema, ops[j + 1]), v, n.done[v] + e)

LEMMA DidOneMore ==
  ASSUME NEW d \in Databases, NEW n \in Databases, NEW v \in Versions, NEW ops \in Seq(Operations),
         NEW j \in Nat, NEW c \in Int, NEW e \in Int, Did(n, d, v, ops, j, c), j < Len(ops),
         Accepts(n.schema, ops[j + 1])
  PROVE  /\ Did(OneMore(n, v, ops, j, e), d, v, ops, j + 1, c + e)
         /\ OneMore(n, v, ops, j, e).tracked = n.tracked
         /\ OneMore(n, v, ops, j, e) \in Databases
<1>0. PICK a : a = OneMore(n, v, ops, j, e)
  OBVIOUS
<1>1. /\ d.schema \in Schemas /\ n.schema \in Schemas /\ d.done[v] \in Int /\ n.done[v] \in Int
      /\ ops[j + 1] \in Operations /\ Len(ops) \in Nat
  BY DEF Databases
<1>2. PICK op : op = ops[j + 1]
  OBVIOUS
<1>3. PICK s : s = Executed(n.schema, op)
  OBVIOUS
<1>4. PICK x : x = n.done[v] + e
  OBVIOUS
<1>5. s \in Schemas /\ x \in Int
  BY <1>1, <1>2, <1>3, <1>4, OperationTypes
<1>6. a = After(n, s, v, x)
  BY <1>0, <1>2, <1>3, <1>4 DEF OneMore
<1>7. /\ a \in Databases /\ a.schema = s /\ a.tracked = n.tracked /\ a.done[v] = x
      /\ \A w \in Versions \ {v} : a.done[w] = n.done[w]
  <2>1. /\ After(n, s, v, x) \in Databases /\ After(n, s, v, x).schema = s
        /\ After(n, s, v, x).tracked = n.tracked /\ After(n, s, v, x).done[v] = x
        /\ \A w \in Versions \ {v} : After(n, s, v, x).done[w] = n.done[w]
    BY <1>5, AfterType
  <2> QED BY <1>6, <2>1
<1>8. s = Ran(d.schema, SubSeq(ops, 1, j + 1))
  <2>1. j + 1 \in 1..Len(ops) /\ (j + 1) - 1 = j
    BY <1>1
  <2>2. Ran(d.schema, SubSeq(ops, 1, j + 1)) = Executed(Ran(d.schema, SubSeq(ops, 1, (j + 1) - 1)), ops[j + 1])
    BY <1>1, <2>1, RanFacts
  <2> QED BY <1>2, <1>3, <2>1, <2>2 DEF Did
<1>9. \A i \in 1..(j + 1) : Accepts(Ran(d.schema, SubSeq(ops, 1, i - 1)), ops[i])
  <2> TAKE i \in 1..(j + 1)
  <2>1. CASE i \in 1..j
    BY <2>1 DEF Did
  <2>2. CASE i = j + 1
    <3>1. i - 1 = j
      BY <2>2
    <3> QED BY <2>2, <3>1 DEF Did
  <2> QED BY <2>1, <2>2
<1>10. a.done[v] = d.done[v] + (c + e)
  BY <1>1, <1>4, <1>7 DEF Did
<1>11. \A w \in Versions \ {v} : a.done[w] = d.done[w]
  BY <1>7 DEF Did
<1>12. Did(a, d, v, ops, j + 1, c + e)
  BY <1>7, <1>8, <1>9, <1>10, <1>11 DEF Did
<1> QED BY <1>0, <1>7, <1>12

LEMMA HandInSight ==
  ASSUME PlaceInv, NEW r \in Runners, NEW v \in Versions, NEW ops \in Seq(Operations), NEW j, NEW c,
         HandOf(tx[r], db, v, ops, j, c)
  PROVE  Seen(r).tracked = db.tracked /\ Did(Seen(r), db, v, ops, j, c)
<1>1. CASE tx[r] = NoTx
  <2>1. Seen(r) = db /\ j = 0 /\ c = 0 /\ db \in Databases
    BY <1>1 DEF Seen, HandOf, PlaceInv
  <2> QED BY <2>1, DidNothing
<1>2. CASE tx[r] # NoTx
  BY <1>2 DEF Seen, HandOf
<1> QED BY <1>1, <1>2

LEMMA WorkInit == Init => WorkInv
  BY DEF Init, WorkInv, WorkOf, WorkIn

(* The others, while the committed database stays or gains a record.       *)
LEMMA WorkElsewhere ==
  ASSUME NEW r \in Runners, Apart(r), WorkInv, db' = db, NEW q \in Runners, q # r
  PROVE  WorkOf(q)'
<1>1. WorkOf(q)
  BY DEF WorkInv
<1> QED BY <1>1 DEF WorkOf, Apart, Current

LEMMA WorkBesideACommit ==
  ASSUME Alone, PlaceInv, WorkInv, NEW r \in Runners, Apart(r), MayWrite(r),
         db.tracked \subseteq db'.tracked, NEW q \in Runners, q # r
  PROVE  WorkOf(q)'
<1>1. WorkOf(q) /\ PlaceOf(q) /\ tx[q] = NoTx
  BY DEF WorkInv, PlaceInv, MayWrite
<1>2. step[q] \notin {"committing", "undo committing", "undoing"}
  <2>1. "rollback" \notin Allowed
    BY DEF Alone
  <2> QED BY <1>1, <2>1 DEF PlaceOf, Undos
<1>3. ASSUME NEW s, NEW m, NEW j, NEW a, NEW d, NEW e, WorkIn(s, m, j, a, NoTx, d),
             s \notin {"committing", "undo committing", "undoing"}, d.tracked \subseteq e.tracked
      PROVE  WorkIn(s, m, j, a, NoTx, e)
  BY <1>3 DEF WorkIn, HandOf
<1>4. WorkIn(step[q], Current(q), k[q], already[q], NoTx, db')
  BY <1>1, <1>2, <1>3 DEF WorkOf
<1> QED BY <1>1, <1>4 DEF WorkOf, Apart, Current

(* A runner that has nothing in hand.                                      *)
LEMMA WorkAway ==
  ASSUME NEW r \in Runners,
         step'[r] \in {"idle", "opening", "reading", "failing", "undo opening", "undo reading"}
  PROVE  WorkOf(r)'
  BY DEF WorkOf, WorkIn

LEMMA WorkForward ==
  ASSUME Transactional, PlaceInv, WorkInv, NEW r \in Runners, Forward(r)
  PROVE  WorkOf(r)' /\ db' = db
<1>1. /\ step[r] = "running" /\ k[r] < Len(Current(r).operations) /\ k[r] \in Nat /\ WorkOf(r)
      /\ UNCHANGED <<files, batch, already, at>>
  BY DEF Forward, PlaceInv, WorkInv
<1>2. PICK m : m = Current(r)
  OBVIOUS
<1>3. PICK n : n = Seen(r)
  OBVIOUS
<1>4. /\ m.version \in Versions /\ m.operations \in Seq(Operations) /\ db \in Databases
      /\ n \in Databases
  BY <1>1, <1>2, <1>3, OnFileFacts, SeenType DEF OnFile, PlaceInv
<1>5. already[r] \subseteq db.tracked /\ HandOf(tx[r], db, m.version, m.operations, k[r], k[r])
  BY <1>1, <1>2 DEF WorkOf, WorkIn
<1>6. n.tracked = db.tracked /\ Did(n, db, m.version, m.operations, k[r], k[r])
  BY <1>3, <1>4, <1>5, HandInSight
<1>7. CASE Accepts(n.schema, ForwardOp(r))
  <2>1. PICK a : a = [n EXCEPT !.schema = Executed(@, ForwardOp(r)), !.done[m.version] = @ + 1]
    OBVIOUS
  <2>2. Write(r, a) /\ k' = [k EXCEPT ![r] = @ + 1] /\ UNCHANGED step
    BY <1>2, <1>3, <1>7, <2>1 DEF Forward, Statement, Autocommits
  <2>3. ForwardOp(r) = m.operations[k[r] + 1]
    BY <1>2 DEF ForwardOp
  <2>4. a = After(n, Executed(n.schema, m.operations[k[r] + 1]), m.version, n.done[m.version] + 1)
    BY <2>1, <2>3 DEF After
  <2>5. /\ Did(a, db, m.version, m.operations, k[r] + 1, k[r] + 1) /\ a.tracked = n.tracked
        /\ a \in Databases
    <3>1. Accepts(n.schema, m.operations[k[r] + 1]) /\ k[r] < Len(m.operations)
      BY <1>1, <1>2, <1>7, <2>3
    <3>2. k[r] \in Nat /\ k[r] \in Int /\ 1 \in Int
      BY <1>1
    <3>3. a = OneMore(n, m.version, m.operations, k[r], 1)
      BY <2>4 DEF OneMore
    <3>4. /\ Did(OneMore(n, m.version, m.operations, k[r], 1), db, m.version, m.operations, k[r] + 1, k[r] + 1)
          /\ OneMore(n, m.version, m.operations, k[r], 1).tracked = n.tracked
          /\ OneMore(n, m.version, m.operations, k[r], 1) \in Databases
      BY Zenon, <1>4, <1>6, <3>1, <3>2, DidOneMore
    <3> QED BY <3>3, <3>4
  <2>6. a # NoTx
    BY <2>5, NoTxAssumption
  <2>7. /\ tx'[r] = a /\ db' = db /\ k'[r] = k[r] + 1 /\ step'[r] = "running" /\ Current(r)' = m
        /\ already' = already
    BY <1>1, <1>2, <2>2 DEF Write, PlaceInv, Current
  <2>8. HandOf(tx'[r], db', m.version, m.operations, k'[r], k'[r])
    BY <1>6, <2>5, <2>6, <2>7 DEF HandOf
  <2> QED BY <1>5, <2>7, <2>8 DEF WorkOf, WorkIn
<1>8. CASE ~Accepts(n.schema, ForwardOp(r))
  <2>1. GoTo(r, "failing") /\ UNCHANGED <<db, tx, k>>
    BY <1>3, <1>8 DEF Forward
  <2> QED BY <2>1, WorkAway DEF GoTo, PlaceInv
<1> QED BY <1>7, <1>8

LEMMA WorkBackward ==
  ASSUME Transactional, PlaceInv, WorkInv, NEW r \in Runners, Backward(r)
  PROVE  WorkOf(r)' /\ db' = db
<1>1. /\ step[r] = "undoing" /\ k[r] > 0 /\ k[r] \in Nat /\ WorkOf(r)
      /\ k[r] <= Len(Current(r).operations) /\ UNCHANGED <<files, batch, already, at>>
  BY DEF Backward, PlaceInv, PlaceOf, WorkInv
<1>2. PICK m : m = Current(r)
  OBVIOUS
<1>3. PICK n : n = Seen(r)
  OBVIOUS
<1>4. /\ m.version \in Versions /\ m.operations \in Seq(Operations) /\ db \in Databases
      /\ n \in Databases /\ Len(m.operations) \in Nat
  BY <1>1, <1>2, <1>3, OnFileFacts, SeenType DEF OnFile, PlaceInv
<1>5. PICK b : b = Backwards(m.operations)
  OBVIOUS
<1>6. PICK j : j = Len(m.operations) - k[r]
  OBVIOUS
<1>7. PICK c : c = k[r] - Len(m.operations)
  OBVIOUS
<1>8. /\ b \in Seq(Operations) /\ j \in Nat /\ c \in Int /\ j + 1 \in 1..Len(m.operations) /\ j < Len(b)
      /\ b[j + 1] = Undone(m.operations[k[r]])
  <2>1. /\ b \in Seq(Operations) /\ Len(b) = Len(m.operations)
        /\ \A i \in 1..Len(m.operations) : b[i] = Undone(m.operations[Len(m.operations) + 1 - i])
    BY <1>4, <1>5, BackwardsFacts
  <2>2. /\ j \in Nat /\ c \in Int /\ j + 1 \in 1..Len(m.operations)
        /\ Len(m.operations) + 1 - (j + 1) = k[r] /\ j < Len(m.operations)
    BY <1>1, <1>2, <1>4, <1>6, <1>7
  <2> QED BY <2>1, <2>2
<1>9. m.version \in db.tracked /\ HandOf(tx[r], db, m.version, b, j, c)
  BY <1>1, <1>2, <1>5, <1>6, <1>7 DEF WorkOf, WorkIn
<1>10. n.tracked = db.tracked /\ Did(n, db, m.version, b, j, c)
  BY <1>3, <1>4, <1>8, <1>9, HandInSight
<1>11. CASE Accepts(n.schema, Undone(m.operations[k[r]]))
  <2>1. PICK a : a = [n EXCEPT !.schema = Executed(@, Undone(m.operations[k[r]])),
                               !.done[m.version] = @ - 1]
    OBVIOUS
  <2>2. Write(r, a) /\ k' = [k EXCEPT ![r] = @ - 1] /\ UNCHANGED step
    BY <1>2, <1>3, <1>11, <2>1 DEF Backward, Statement, Autocommits
  <2>3. n.done[m.version] \in Int
    BY <1>4 DEF Databases
  <2>4. n.done[m.version] - 1 = n.done[m.version] + (0 - 1)
    BY <2>3
  <2>5. a = After(n, Executed(n.schema, b[j + 1]), m.version, n.done[m.version] + (0 - 1))
    <3>1. a = [n EXCEPT !.schema = Executed(@, b[j + 1]), !.done[m.version] = @ - 1]
      BY <1>8, <2>1
    <3> QED BY <2>4, <3>1 DEF After
  <2>6. /\ Did(a, db, m.version, b, j + 1, c + (0 - 1)) /\ a.tracked = n.tracked
        /\ a \in Databases
    <3>1. Accepts(n.schema, b[j + 1])
      BY <1>8, <1>11
    <3>2. PICK e : e = 0 - 1
      OBVIOUS
    <3>3. e \in Int
      BY <3>2
    <3>4. a = OneMore(n, m.version, b, j, e)
      BY <2>5, <3>2 DEF OneMore
    <3>5. /\ Did(OneMore(n, m.version, b, j, e), db, m.version, b, j + 1, c + e)
          /\ OneMore(n, m.version, b, j, e).tracked = n.tracked
          /\ OneMore(n, m.version, b, j, e) \in Databases
      BY Zenon, <1>4, <1>8, <1>10, <3>1, <3>3, DidOneMore
    <3> QED BY <3>2, <3>4, <3>5
  <2>7. a # NoTx
    BY <2>6, NoTxAssumption
  <2>8. /\ tx'[r] = a /\ db' = db /\ k'[r] = k[r] - 1 /\ step'[r] = "undoing" /\ Current(r)' = m
        /\ already' = already
    BY <1>1, <1>2, <2>2 DEF Write, PlaceInv, Current
  <2>9. j + 1 = Len(m.operations) - k'[r] /\ c + (0 - 1) = k'[r] - Len(m.operations)
    BY <1>1, <1>4, <1>6, <1>7, <2>8
  <2>10. HandOf(tx'[r], db', m.version, b, Len(m.operations) - k'[r], k'[r] - Len(m.operations))
    BY <1>10, <2>6, <2>7, <2>8, <2>9 DEF HandOf
  <2> QED BY <1>5, <1>9, <2>8, <2>10 DEF WorkOf, WorkIn
<1>12. CASE ~Accepts(n.schema, Undone(m.operations[k[r]]))
  <2>1. GoTo(r, "failing") /\ UNCHANGED <<db, tx, k>>
    BY <1>2, <1>3, <1>12 DEF Backward
  <2> QED BY <2>1, WorkAway DEF GoTo, PlaceInv
<1> QED BY <1>11, <1>12

LEMMA WorkRecord ==
  ASSUME PlaceInv, WorkInv, NEW r \in Runners, Record(r)
  PROVE  WorkOf(r)' /\ db' = db
<1>1. /\ step[r] \in {"running", "marking"} /\ k[r] \in Nat /\ WorkOf(r) /\ PlaceOf(r)
      /\ UNCHANGED <<files, batch, already, at, k>>
  BY DEF Record, PlaceInv, WorkInv
<1>2. PICK m : m = Current(r)
  OBVIOUS
<1>3. PICK n : n = Seen(r)
  OBVIOUS
<1>4. /\ m.version \in Versions /\ m.operations \in Seq(Operations) /\ db \in Databases
      /\ n \in Databases
  BY <1>1, <1>2, <1>3, OnFileFacts, SeenType DEF OnFile, PlaceInv
<1>5. CASE m.version \notin n.tracked
  <2>1. PICK a : a = [n EXCEPT !.tracked = @ \cup {m.version}]
    OBVIOUS
  <2>2. Write(r, a) /\ GoTo(r, "committing")
    BY <1>2, <1>3, <1>5, <2>1 DEF Record, Recorded
  <2>3. a \in Databases /\ a.tracked = n.tracked \cup {m.version} /\ a.done = n.done /\ a.schema = n.schema
    <3>1. PICK t : t = n.tracked \cup {m.version}
      OBVIOUS
    <3>2. t \in SUBSET Versions
      BY <1>3, <1>4, <3>1, SeenType
    <3>3. a = Tracking(n, t)
      BY <2>1, <3>1 DEF Tracking
    <3> QED BY <1>4, <3>1, <3>2, <3>3, TrackingType
  <2>4. /\ tx'[r] = a /\ db' = db /\ step'[r] = "committing" /\ Current(r)' = m /\ already' = already
    BY <1>1, <1>2, <2>2 DEF Write, GoTo, PlaceInv, Current
  <2>5. already[r] \subseteq db.tracked
    BY <1>1 DEF WorkOf, WorkIn
  <2>6. Applied(a, db, m) \/ Marked(a, db, m)
    <3>1. CASE step[r] = "running"
      <4>1. k[r] = Len(m.operations) /\ HandOf(tx[r], db, m.version, m.operations, k[r], k[r])
        BY <1>1, <1>2, <3>1 DEF WorkOf, WorkIn, Record, AllRan
      <4>2. n.tracked = db.tracked /\ Did(n, db, m.version, m.operations, k[r], k[r])
        BY <1>3, <1>4, <4>1, HandInSight
      <4>3. Did(a, db, m.version, m.operations, k[r], k[r])
        BY <2>3, <4>2 DEF Did
      <4> QED BY <1>5, <2>3, <4>1, <4>2, <4>3 DEF Applied
    <3>2. CASE step[r] = "marking"
      <4>1. n = db /\ SquashDone(m, already[r])
        BY <1>1, <1>2, <1>3, <3>2 DEF WorkOf, WorkIn, PlaceOf, Open, Seen
      <4> QED BY <1>5, <2>3, <2>5, <4>1 DEF Marked, SquashDone
    <3> QED BY <1>1, <3>1, <3>2
  <2> QED BY <2>4, <2>5, <2>6 DEF WorkOf, WorkIn
<1>6. CASE m.version \in n.tracked
  <2>1. GoTo(r, "failing") /\ UNCHANGED <<db, tx>>
    BY <1>2, <1>3, <1>6 DEF Record
  <2> QED BY <2>1, WorkAway DEF GoTo, PlaceInv
<1> QED BY <1>5, <1>6

LEMMA WorkUnrecord ==
  ASSUME PlaceInv, WorkInv, NEW r \in Runners, Unrecord(r)
  PROVE  WorkOf(r)' /\ db' = db
<1>1. /\ step[r] = "undoing" /\ k[r] = 0 /\ WorkOf(r) /\ UNCHANGED <<files, batch, already, at, k>>
  BY DEF Unrecord, WorkInv
<1>2. PICK m : m = Current(r)
  OBVIOUS
<1>3. PICK n : n = Seen(r)
  OBVIOUS
<1>4. /\ m.version \in Versions /\ m.operations \in Seq(Operations) /\ db \in Databases
      /\ n \in Databases /\ Len(m.operations) \in Nat
  BY <1>1, <1>2, <1>3, OnFileFacts, SeenType DEF OnFile, PlaceInv
<1>5. PICK a : a = [n EXCEPT !.tracked = @ \ {m.version}]
  OBVIOUS
<1>6. Write(r, a) /\ GoTo(r, "undo committing")
  BY <1>2, <1>3, <1>5 DEF Unrecord
<1>7. a \in Databases /\ a.tracked = n.tracked \ {m.version} /\ a.done = n.done /\ a.schema = n.schema
  <2>1. PICK t : t = n.tracked \ {m.version}
    OBVIOUS
  <2>2. t \in SUBSET Versions
    BY <1>3, <2>1, SeenType
  <2>3. a = Tracking(n, t)
    BY <1>5, <2>1 DEF Tracking
  <2> QED BY <1>4, <2>1, <2>2, <2>3, TrackingType
<1>8. tx'[r] = a /\ db' = db /\ step'[r] = "undo committing" /\ Current(r)' = m
  BY <1>1, <1>2, <1>6 DEF Write, GoTo, PlaceInv, Current
<1>9. /\ m.version \in db.tracked
      /\ HandOf(tx[r], db, m.version, Backwards(m.operations), Len(m.operations),
                0 - Len(m.operations))
  <2>1. Len(m.operations) - 0 = Len(m.operations)
    BY <1>4
  <2> QED BY <1>1, <1>2, <2>1 DEF WorkOf, WorkIn
<1>10. /\ n.tracked = db.tracked
       /\ Did(n, db, m.version, Backwards(m.operations), Len(m.operations), 0 - Len(m.operations))
  <2>1. Backwards(m.operations) \in Seq(Operations)
    BY <1>4, BackwardsFacts
  <2> QED BY <1>3, <1>4, <1>9, <2>1, HandInSight
<1>11. Reverted(a, db, m)
  BY <1>7, <1>9, <1>10 DEF Reverted, Did
<1> QED BY <1>8, <1>11 DEF WorkOf, WorkIn

LEMMA WorkChoosing ==
  ASSUME PlaceInv, WorkInv, NEW r \in Runners,
         ReadApplied(r) \/ Skip(r) \/ StartMarking(r) \/ StartRunning(r)
  PROVE  WorkOf(r)'
<1>1. WorkOf(r) /\ PlaceOf(r) /\ tx[r] = NoTx /\ UNCHANGED <<db, tx, batch>>
  BY DEF WorkInv, PlaceInv, PlaceOf, Open, ReadApplied, Skip, StartMarking, StartRunning, Pending,
         Choosing
<1>2. CASE ReadApplied(r)
  <2>1. step'[r] = "choosing" /\ already'[r] = db.tracked
    BY <1>1, <1>2 DEF ReadApplied, Seen, GoTo, PlaceInv
  <2> QED BY <1>1, <2>1 DEF WorkOf, WorkIn
<1>3. CASE Skip(r)
  <2>1. step'[r] = "choosing" /\ step[r] = "choosing" /\ already' = already
    BY <1>3 DEF Skip, Choosing
  <2> QED BY <1>1, <2>1 DEF WorkOf, WorkIn
<1>4. CASE StartMarking(r)
  <2>1. /\ step'[r] = "marking" /\ step[r] = "choosing" /\ already' = already /\ at' = at
        /\ SquashDone(Current(r), already[r])
    BY <1>4 DEF StartMarking, Pending, Choosing, GoTo, PlaceInv
  <2> QED BY <1>1, <2>1 DEF WorkOf, WorkIn, Current
<1>5. CASE StartRunning(r)
  <2>1. step'[r] = "running" /\ step[r] = "choosing" /\ already' = already /\ at' = at /\ k'[r] = 0
    BY <1>5 DEF StartRunning, Pending, Choosing, GoTo, PlaceInv
  <2> QED BY <1>1, <2>1 DEF WorkOf, WorkIn, Current, HandOf
<1> QED BY <1>2, <1>3, <1>4, <1>5

LEMMA WorkReadLast ==
  ASSUME PlaceInv, WorkInv, NEW r \in Runners, ReadLast(r)
  PROVE  WorkOf(r)' /\ db' = db
<1>1. PlaceOf(r) /\ step[r] = "undo reading" /\ tx[r] = NoTx /\ UNCHANGED <<db, tx, batch>>
  BY DEF PlaceInv, PlaceOf, Open, ReadLast
<1>2. CASE LastRegistered(r) = {}
  BY <1>1, <1>2, WorkAway DEF ReadLast, GoTo, PlaceInv
<1>3. CASE LastRegistered(r) # {}
  <2>1. PICK i \in LastRegistered(r) :
          /\ at' = [at EXCEPT ![r] = i]
          /\ k' = [k EXCEPT ![r] = Len(batch[r][i].operations)]
          /\ GoTo(r, "undoing")
    BY <1>3 DEF ReadLast
  <2>2. PICK m : m = batch[r][i]
    OBVIOUS
  <2>3. m.version \in db.tracked /\ i \in 1..Len(batch[r])
    <3> DEFINE M == Migrations
    <3>1. batch[r] \in Seq(M)
      BY DEF PlaceInv, LoadInv
    <3> HIDE DEF M
    <3>2. i \in DOMAIN batch[r] /\ batch[r][i].version \in Seen(r).tracked
      BY <2>1 DEF LastRegistered
    <3>3. DOMAIN batch[r] = 1..Len(batch[r])
      BY <3>1
    <3> QED BY <1>1, <2>2, <3>2, <3>3 DEF Seen
  <2>4. step'[r] = "undoing" /\ Current(r)' = m /\ k'[r] = Len(m.operations)
    BY <1>1, <2>1, <2>2 DEF GoTo, PlaceInv, Current
  <2>5. Len(m.operations) \in Nat
    BY <2>2, <2>3, InHand DEF PlaceInv
  <2>6. Len(m.operations) - k'[r] = 0 /\ k'[r] - Len(m.operations) = 0
    BY <2>4, <2>5
  <2> QED BY <1>1, <2>3, <2>4, <2>6 DEF WorkOf, WorkIn, HandOf
<1> QED BY <1>1, <1>2, <1>3

LEMMA CommitFacts ==
  ASSUME PlaceInv, WorkInv, NEW r \in Runners, CommitMigration(r) \/ CommitRollback(r)
  PROVE  /\ db' = tx[r] /\ tx[r] \in Databases /\ MayWrite(r) /\ WorkOf(r) /\ step[r] \in OnFile
         /\ CommitMigration(r) => /\ Applied(tx[r], db, Current(r)) \/ Marked(tx[r], db, Current(r))
                                  /\ already[r] \subseteq db.tracked
         /\ CommitRollback(r) => Reverted(tx[r], db, Current(r))
<1>1. PlaceOf(r) /\ WorkOf(r) /\ step[r] \in {"committing", "undo committing"}
  BY DEF PlaceInv, WorkInv, CommitMigration, CommitRollback
<1>2. tx[r] # NoTx /\ tx[r] \in Databases
  BY <1>1 DEF PlaceOf, PlaceInv
<1> QED BY <1>1, <1>2 DEF CommitMigration, CommitRollback, Commit, CommitNow, Seen, OnFile, WorkOf, WorkIn

LEMMA WorkStep ==
  ASSUME Transactional, Alone, PlaceInv, WorkInv, [Next]_vars
  PROVE  WorkInv'
<1> USE DEF GoTo
<1>1. ASSUME NEW r \in Runners, Load(r) \/ Migrate(r) \/ Rollback(r) \/ EngineFails(r) \/ Crash(r)
      PROVE  WorkInv'
  <2>0. Apart(r)
    BY <1>1, OthersStand
  <2>1. ASSUME db' = db, WorkOf(r)' PROVE WorkInv'
    BY <2>0, <2>1, WorkElsewhere DEF WorkInv
  <2>2. CASE Load(r) \/ RaiseHalfWay(r) \/ Finish(r) \/ Raise(r) \/ EngineFails(r) \/ Crash(r)
    <3>1. /\ db' = db
          /\ step'[r] \in {"idle", "opening", "reading", "failing", "undo opening", "undo reading"}
      BY <2>2 DEF Load, RaiseHalfWay, Finish, Raise, EngineFails, Crash, Discard, PlaceInv
    <3> QED BY <2>1, <3>1, WorkAway
  <2>3. CASE EnsureTracking(r)
    <3>1. tx[r] = NoTx
      BY <2>3 DEF EnsureTracking, PlaceInv, PlaceOf, Open
    <3>2. db' = db /\ step'[r] \in {"reading", "undo reading"}
      BY <2>3, <3>1 DEF EnsureTracking, Commit, CommitNow, Seen, PlaceInv
    <3> QED BY <2>1, <3>2, WorkAway
  <2>4. CASE ReadApplied(r) \/ Skip(r) \/ StartMarking(r) \/ StartRunning(r)
    <3>1. db' = db
      BY <2>4 DEF ReadApplied, Skip, StartMarking, StartRunning
    <3> QED BY <2>1, <2>4, <3>1, WorkChoosing
  <2>5. CASE Forward(r) \/ Backward(r) \/ Record(r) \/ Unrecord(r) \/ ReadLast(r)
    BY <2>1, <2>5, WorkForward, WorkBackward, WorkRecord, WorkUnrecord, WorkReadLast
  <2>6. CASE CommitMigration(r)
    <3>1. /\ db' = tx[r] /\ MayWrite(r) /\ already[r] \subseteq db.tracked
          /\ Applied(tx[r], db, Current(r)) \/ Marked(tx[r], db, Current(r))
      BY <2>6, CommitFacts
    <3>2. db.tracked \subseteq db'.tracked
      BY <3>1 DEF Applied, Marked
    <3>3. step'[r] = "choosing" /\ already' = already
      BY <2>6 DEF CommitMigration, PlaceInv
    <3>4. WorkOf(r)'
      BY <3>1, <3>2, <3>3 DEF WorkOf, WorkIn
    <3> QED BY <2>0, <3>1, <3>2, <3>4, WorkBesideACommit DEF WorkInv
  <2>7. CASE CommitRollback(r)
    <3>1. \A q \in Runners : q = r
      <4>1. PlaceOf(r)
        BY DEF PlaceInv
      <4>2. "rollback" \in Allowed
        BY <2>7, <4>1 DEF CommitRollback, PlaceOf, Undos
      <4>3. PICK x : Runners = {x}
        BY <4>2 DEF Alone
      <4> QED BY <4>3
    <3>2. step'[r] = "idle"
      BY <2>7 DEF CommitRollback, PlaceInv
    <3> QED BY <3>1, <3>2, WorkAway DEF WorkInv
  <2> QED BY <1>1, <2>2, <2>3, <2>4, <2>5, <2>6, <2>7 DEF Migrate, Rollback
<1>2. CASE UNCHANGED vars \/ \E u \in SquashPoints : SquashUntil(u)
  <2>1. UNCHANGED <<db, tx, step, batch, already, at, k>>
    BY <1>2 DEF vars, runnerVars, SquashUntil
  <2> QED BY <2>1 DEF WorkInv, WorkOf, Current
<1> QED BY <1>1, <1>2 DEF Next

-----------------------------------------------------------------------------
(* The committed database changes with a commit of a migration and with     *)
(* nothing else.                                                           *)
LEMMA OnlyCommits ==
  ASSUME Transactional, PlaceInv, WorkInv, [Next]_vars
  PROVE  db' = db \/ \E r \in Runners : CommitMigration(r) \/ CommitRollback(r)
<1>1. ASSUME NEW r \in Runners, Load(r) \/ Migrate(r) \/ Rollback(r) \/ EngineFails(r) \/ Crash(r),
             ~CommitMigration(r), ~CommitRollback(r)
      PROVE  db' = db
  <2>1. CASE \/ Load(r) \/ ReadApplied(r) \/ Skip(r) \/ StartMarking(r) \/ RaiseHalfWay(r)
             \/ StartRunning(r) \/ Finish(r) \/ Raise(r) \/ EngineFails(r) \/ Crash(r)
    BY <2>1 DEF Load, ReadApplied, Skip, StartMarking, RaiseHalfWay, StartRunning, Finish, Raise,
                EngineFails, Crash, Discard
  <2>2. CASE EnsureTracking(r)
    <3>1. tx[r] = NoTx
      BY <2>2 DEF EnsureTracking, PlaceInv, PlaceOf, Open
    <3> QED BY <2>2, <3>1 DEF EnsureTracking, Commit, CommitNow, Seen
  <2>3. CASE Forward(r) \/ Backward(r) \/ Record(r) \/ Unrecord(r) \/ ReadLast(r)
    BY <2>3, WorkForward, WorkBackward, WorkRecord, WorkUnrecord, WorkReadLast
  <2> QED BY <1>1, <2>1, <2>2, <2>3 DEF Migrate, Rollback
<1>2. CASE UNCHANGED vars \/ \E u \in SquashPoints : SquashUntil(u)
  BY <1>2 DEF vars, SquashUntil
<1> QED BY <1>1, <1>2 DEF Next

(* A migration that replaces nothing is in effect whole and recorded, or    *)
(* neither; a squash is recorded without being run.                        *)
Exact(i) == files[i].replaces = {} =>
              db.done[i] = IF i \in db.tracked THEN Len(files[i].operations) ELSE 0
ExactInv == \A i \in 1..Len(files) : Exact(i)

LEMMA ExactInit == Init => ExactInv
<1> SUFFICES ASSUME Init, NEW i \in 1..Len(files) PROVE Exact(i)
  BY DEF ExactInv
<1>1. FilesInv
  BY LoadInit DEF LoadInv
<1>2. i \in Versions
  <2>1. Len(files) \in Nat
    <3> DEFINE M == Migrations
    <3>1. files \in Seq(M)
      BY <1>1 DEF FilesInv
    <3> HIDE DEF M
    <3> QED BY <3>1
  <2> QED BY <1>1, <2>1, FilesAssumption DEF FilesInv, Versions
<1> QED BY <1>2 DEF Init, EmptyDatabase, Exact

LEMMA ExactStep ==
  ASSUME Transactional, PlaceInv, WorkInv, ExactInv, [Next]_vars
  PROVE  ExactInv'
<1>0. LoadInv /\ Len(files) \in Nat
  <2> DEFINE M == Migrations
  <2>1. LoadInv /\ files \in Seq(M)
    BY DEF PlaceInv, LoadInv, FilesInv
  <2> HIDE DEF M
  <2> QED BY <2>1
<1>1. ASSUME NEW r \in Runners, CommitMigration(r) \/ CommitRollback(r) PROVE ExactInv'
  <2>1. /\ db' = tx[r] /\ step[r] \in OnFile
        /\ \/ Applied(tx[r], db, Current(r)) \/ Marked(tx[r], db, Current(r))
           \/ Reverted(tx[r], db, Current(r))
    BY <1>1, CommitFacts
  <2>2. files' = files
    BY <1>1 DEF CommitMigration, CommitRollback
  <2>3. PICK m : m = Current(r)
    OBVIOUS
  <2>4. PICK t : t = tx[r]
    OBVIOUS
  <2>5. PICK v : v = at[r]
    OBVIOUS
  <2>6. m = files[v] /\ m.version = v /\ v \in Versions /\ Len(m.operations) \in Nat
    BY <2>1, <2>3, <2>5, OnFileFacts
  <2>7. ASSUME NEW i \in 1..Len(files) PROVE Exact(i)'
    <3>0. i \in Versions /\ Exact(i)
      <4>1. i \in 1..MaxFiles
        BY <1>0, FilesAssumption DEF LoadInv, FilesInv
      <4> QED BY <4>1 DEF Versions, ExactInv
    <3>1. CASE i # v
      <4>1. t.done[i] = db.done[i] /\ (i \in t.tracked <=> i \in db.tracked)
        BY <2>1, <2>3, <2>4, <2>6, <3>0, <3>1 DEF Applied, Marked, Reverted, Did
      <4> QED BY <2>1, <2>2, <2>4, <3>0, <4>1 DEF Exact
    <3>2. CASE i = v /\ m.replaces = {} /\ Applied(t, db, m)
      <4>1. v \notin db.tracked /\ v \in t.tracked /\ t.done[v] = db.done[v] + Len(m.operations)
        BY <2>6, <3>2 DEF Applied, Did
      <4>2. db.done[v] = 0
        BY <2>6, <3>0, <3>2, <4>1 DEF Exact
      <4> QED BY <2>1, <2>2, <2>4, <2>6, <3>2, <4>1, <4>2 DEF Exact
    <3>3. CASE i = v /\ m.replaces = {} /\ Reverted(t, db, m)
      <4>1. v \in db.tracked /\ v \notin t.tracked /\ t.done[v] = db.done[v] + (0 - Len(m.operations))
        BY <2>6, <3>3 DEF Reverted, Did
      <4>2. db.done[v] = Len(m.operations)
        BY <2>6, <3>0, <3>3, <4>1 DEF Exact
      <4>3. t.done[v] = 0
        BY <2>6, <4>1, <4>2
      <4> QED BY <2>1, <2>2, <2>4, <3>3, <4>1, <4>3 DEF Exact
    <3>4. CASE i = v /\ m.replaces # {}
      BY <2>2, <2>6, <3>4 DEF Exact
    <3> QED BY <2>1, <2>3, <2>4, <3>1, <3>2, <3>3, <3>4 DEF Marked
  <2> QED BY <2>2, <2>7 DEF ExactInv
<1>2. CASE db' = db
  <2>1. CASE files' = files
    BY <1>2, <2>1 DEF ExactInv, Exact
  <2>2. CASE \E u \in SquashPoints : SquashUntil(u)
    <3>1. PICK u \in SquashPoints : SquashUntil(u)
      BY <2>2
    <3> DEFINE q == SubSeq(files, 1, u)
    <3>2. PICK n : n = Len(files)
      OBVIOUS
    <3>3. n \in Nat /\ n + 1 \in Nat /\ u \in 0..n /\ u # 0 /\ FilesInv
      BY <1>0, <3>1, <3>2, FilesAssumption DEF LoadInv, SquashUntil
    <3>4. q \in Seq(Migrations) /\ q # <<>>
      <4>1. q \in Seq(Migrations) /\ Len(q) = u
        BY <3>2, <3>3, PrefixFacts DEF FilesInv
      <4>2. Len(<<>>) = 0
        OBVIOUS
      <4> QED BY <3>3, <4>1, <4>2
    <3>5. PICK m : m = Squash(q, n + 1)
      OBVIOUS
    <3>6. m \in Migrations /\ m.replaces # {}
      <4> HIDE DEF q
      <4> QED BY <3>3, <3>4, <3>5, SquashType
    <3>7. files' = Append(files, m)
      BY <3>1, <3>2, <3>5 DEF SquashUntil
    <3> HIDE DEF q
    <3>8. Len(files') = n + 1 /\ files'[n + 1] = m /\ \A i \in 1..n : files'[i] = files[i]
      <4> HIDE DEF Migrations
      <4> QED BY <3>2, <3>3, <3>6, <3>7 DEF FilesInv
    <3>9. ASSUME NEW i \in 1..(n + 1) PROVE Exact(i)'
      <4>1. CASE i \in 1..n
        BY <1>2, <3>2, <3>8, <4>1 DEF ExactInv, Exact
      <4>2. CASE i = n + 1
        BY <3>6, <3>8, <4>2 DEF Exact
      <4> QED BY <3>3, <4>1, <4>2
    <3> QED BY <3>8, <3>9 DEF ExactInv
  <2>3. files' = files \/ \E u \in SquashPoints : SquashUntil(u)
    <3>1. ASSUME NEW r \in Runners, Load(r) \/ Migrate(r) \/ Rollback(r) \/ EngineFails(r) \/ Crash(r)
          PROVE  files' = files
      BY <3>1 DEF Load, Migrate, Rollback, EngineFails, Crash, EnsureTracking, ReadApplied, Skip,
         StartMarking, RaiseHalfWay, StartRunning, Finish, Forward, Record, CommitMigration, Raise,
         ReadLast, Backward, Unrecord, CommitRollback
    <3> QED BY <3>1 DEF Next, vars
  <2> QED BY <2>1, <2>2, <2>3
<1> QED BY <1>1, <1>2, OnlyCommits

LEMMA ExactMeansAllOrNothing == LoadInv /\ ExactInv => AllOrNothing
<1> SUFFICES ASSUME LoadInv, ExactInv, NEW v \in Versions, Plain(v), NEW n \in OperationsOf(v)
             PROVE  db.done[v] = IF v \in db.tracked THEN n ELSE 0
  BY DEF AllOrNothing
<1>1. PICK m \in Range(files) : m.version = v /\ n = Len(m.operations)
  BY DEF OperationsOf
<1>2. PICK i \in DOMAIN files : m = files[i]
  BY <1>1 DEF Range
<1>3. i \in 1..Len(files) /\ i = v
  <2> DEFINE M == Migrations
  <2>1. files \in Seq(M)
    BY DEF LoadInv, FilesInv
  <2> HIDE DEF M
  <2>2. i \in 1..Len(files)
    BY <1>2, <2>1
  <2> QED BY <1>1, <1>2, <2>2 DEF LoadInv, FilesInv
<1>4. files[i].replaces = {}
  BY <1>1, <1>2 DEF Plain
<1> QED BY <1>1, <1>2, <1>3, <1>4 DEF ExactInv, Exact

-----------------------------------------------------------------------------
(* What a commit is to the log.                                            *)
LEMMA LogAccepts ==
  ASSUME NEW s, NEW op
  PROVE  Log!Accepts(s, op) <=> Accepts(s, op)
  BY DEF Log!Accepts, Accepts

LEMMA LogStep ==
  ASSUME Transactional, PlaceInv, WorkInv, [Next]_vars
  PROVE  [Log!Next]_<<db.schema, db.tracked>>
<1>1. ASSUME NEW r \in Runners, CommitMigration(r) \/ CommitRollback(r) PROVE Log!Next
  <2>1. /\ db' = tx[r] /\ step[r] \in OnFile
        /\ \/ Applied(tx[r], db, Current(r)) \/ Marked(tx[r], db, Current(r))
           \/ Reverted(tx[r], db, Current(r))
    BY <1>1, CommitFacts
  <2>2. PICK m : m = Current(r)
    OBVIOUS
  <2>3. PICK ops : ops = m.operations
    OBVIOUS
  <2>4. /\ at[r] \in 1..Len(files) /\ m = files[at[r]] /\ ops \in Seq(Operations)
        /\ Len(ops) \in Nat /\ db \in Databases
    BY <2>1, <2>2, <2>3, OnFileFacts DEF PlaceInv
  <2>5. m \in Log!Range(files)
    <3> DEFINE M == Migrations
    <3>1. files \in Seq(M)
      BY DEF PlaceInv, LoadInv, FilesInv
    <3> HIDE DEF M
    <3> QED BY <2>4, <3>1 DEF Log!Range
  <2>6. DOMAIN ops = 1..Len(ops) /\ SubSeq(ops, 1, Len(ops)) = ops
    <3>1. db.schema \in Schemas
      BY <2>4 DEF Databases
    <3> QED BY <2>4, <3>1, RanFacts
  <2>7. CASE Applied(tx[r], db, m)
    <3>1. /\ m.version \notin db.tracked /\ db'.tracked = db.tracked \cup {m.version}
          /\ db'.schema = Ran(db.schema, ops)
          /\ \A i \in 1..Len(ops) : Accepts(Ran(db.schema, SubSeq(ops, 1, i - 1)), ops[i])
      BY <2>1, <2>3, <2>6, <2>7 DEF Applied, Did
    <3>2. Log!Accepted(db.schema, ops)
      BY <2>6, <3>1, LogNames, LogAccepts DEF Log!Accepted
    <3>3. db'.schema = Log!Runs(db.schema, ops)
      BY <3>1, LogNames
    <3>4. Log!Apply(m)
      BY <2>3, <3>1, <3>2, <3>3 DEF Log!Apply
    <3> QED BY <2>5, <3>4 DEF Log!Next
  <2>8. CASE Marked(tx[r], db, m)
    <3>1. Log!Mark(m)
      BY <2>1, <2>8 DEF Marked, Log!Mark
    <3> QED BY <2>5, <3>1 DEF Log!Next
  <2>9. CASE Reverted(tx[r], db, m)
    <3>1. PICK b : b = Backwards(ops)
      OBVIOUS
    <3>2. b \in Seq(Operations) /\ Len(b) = Len(ops) /\ Log!Undoing(ops) = b
      BY <2>4, <3>1, BackwardsFacts
    <3>3. DOMAIN b = 1..Len(b) /\ SubSeq(b, 1, Len(b)) = b
      <4>1. db.schema \in Schemas
        BY <2>4 DEF Databases
      <4> QED BY <3>2, <4>1, RanFacts
    <3>4. /\ m.version \in db.tracked /\ db'.tracked = db.tracked \ {m.version}
          /\ db'.schema = Ran(db.schema, b)
          /\ \A i \in 1..Len(b) : Accepts(Ran(db.schema, SubSeq(b, 1, i - 1)), b[i])
      BY <2>1, <2>3, <2>9, <3>1, <3>2, <3>3 DEF Reverted, Did
    <3>5. Log!Accepted(db.schema, b)
      BY <3>3, <3>4, LogNames, LogAccepts DEF Log!Accepted
    <3>6. db'.schema = Log!Runs(db.schema, b)
      BY <3>4, LogNames
    <3>7. Log!Revert(m)
      BY <2>3, <3>2, <3>4, <3>5, <3>6 DEF Log!Revert
    <3> QED BY <2>5, <3>7 DEF Log!Next
  <2> QED BY <2>1, <2>2, <2>7, <2>8, <2>9
<1>2. CASE db' = db
  BY <1>2
<1> QED BY <1>1, <1>2, OnlyCommits

-----------------------------------------------------------------------------
(* Every migration is atomic, whatever the number of deploys, whatever      *)
(* crashes and fails, whatever the files hold and whoever squashes them     *)
(* meanwhile; with a rollback, of one process.                             *)
THEOREM MigrationsAreAtomic ==
  ASSUME Transactional, Alone
  PROVE  Spec => []AllOrNothing
<1>1. Init => PlaceInv /\ WorkInv /\ ExactInv
  BY PlaceInit, WorkInit, ExactInit
<1>2. PlaceInv /\ WorkInv /\ ExactInv /\ [Next]_vars => PlaceInv' /\ WorkInv' /\ ExactInv'
  BY PlaceStep, WorkStep, ExactStep
<1>3. PlaceInv /\ ExactInv => AllOrNothing
  BY ExactMeansAllOrNothing DEF PlaceInv
<1> QED BY <1>1, <1>2, <1>3, PTL DEF Spec

(* The runner implements the log: every step of a deploy leaves the         *)
(* committed schema and records as they are, or applies one whole file,     *)
(* marks one squash whose originals are recorded, or reverts one file.     *)
THEOREM MigrationsMoveWhole ==
  ASSUME Transactional, Alone
  PROVE  Spec => MovesByWholeMigrations
<1>1. Init => PlaceInv /\ WorkInv
  BY PlaceInit, WorkInit
<1>2. PlaceInv /\ WorkInv /\ [Next]_vars => PlaceInv' /\ WorkInv'
  BY PlaceStep, WorkStep
<1>3. Init => Log!Init
  BY DEF Init, EmptyDatabase, Log!Init, Log!NoSchema, NoSchema
<1>4. PlaceInv /\ WorkInv /\ [Next]_vars => [Log!Next]_<<db.schema, db.tracked>>
  BY LogStep
<1> QED BY <1>1, <1>2, <1>3, <1>4, PTL DEF Spec, MovesByWholeMigrations, Log!Spec

-----------------------------------------------------------------------------
(* The reference definition as a chain: a file whose own migration is in    *)
(* effect is replayed, any other is passed over.                           *)
Kept(ops, tr, s, m) ==
  IF m.replaces = {} /\ Covered(ops, m.version, tr) THEN ReplayOne(s, m) ELSE s

ExpectedAlong(a, ops, tr, n) ==
  /\ a[0] = NoSchema /\ Expected(ops, tr) = a[n]
  /\ \A j \in 1..n : a[j] = Kept(ops, tr, a[j - 1], ops[j])

LEMMA ExpectedChain ==
  ASSUME NEW tr, NEW n \in Nat, NEW ops \in [1..n -> Migrations]
  PROVE  \E a : ExpectedAlong(a, ops, tr, n)
<1> DEFINE g == [p \in Schemas \X (1..n) |-> Kept(ops, tr, p[1], ops[p[2]])]
           P(F) == F = [t \in SUBSET (1..n) |-> IF t = {} THEN NoSchema ELSE Kept(ops, tr, F[t \ {Max(t)}], ops[Max(t)])]
           K == CHOOSE F : P(F)
<1>0. NoSchema \in Schemas
  BY DEF NoSchema, Schemas
<1>1. g \in [Schemas \X (1..n) -> Schemas]
  BY ReplayOneType DEF Kept
<1>2. \E F : P(F)
  <2>0. PICK G : Folds(G, Schemas, NoSchema, n, g)
    <3> HIDE DEF g
    <3> QED BY <1>0, <1>1, FoldThere
  <2>1. /\ G \in [SUBSET (1..n) -> Schemas]
        /\ \A t \in SUBSET (1..n) : G[t] = IF t = {} THEN NoSchema ELSE g[<<G[t \ {Max(t)}], Max(t)>>]
    BY <2>0 DEF Folds
  <2>2. ASSUME NEW t \in SUBSET (1..n), t # {}
        PROVE  G[t] = Kept(ops, tr, G[t \ {Max(t)}], ops[Max(t)])
    <3>1. Max(t) \in 1..n
      BY <2>2, Greatest
    <3>2. G[t \ {Max(t)}] \in Schemas
      BY <2>1
    <3>3. G[t] = g[<<G[t \ {Max(t)}], Max(t)>>]
      BY <2>1, <2>2
    <3> QED BY <3>1, <3>2, <3>3
  <2>3. \A t \in SUBSET (1..n) : G[t] = IF t = {} THEN NoSchema ELSE Kept(ops, tr, G[t \ {Max(t)}], ops[Max(t)])
    BY <2>1, <2>2
  <2>4. P(G)
    BY <2>1, <2>3
  <2> HIDE DEF P
  <2> QED BY <2>4
<1>3. P(K)
  <2> HIDE DEF P
  <2> QED BY <1>2
<1>4. Expected(ops, tr) = K[1..n]
  <2>1. DOMAIN ops = 1..n
    OBVIOUS
  <2>2. Expected(ops, tr) =
          (CHOOSE F : F = [t \in SUBSET (DOMAIN ops) |->
             IF t = {} THEN NoSchema ELSE Kept(ops, tr, F[t \ {Max(t)}], ops[Max(t)])])[DOMAIN ops]
    BY DEF Expected, FoldLeft, MapThenFoldSet, Kept
  <2> QED BY Zenon, <2>1, <2>2
<1>5. ASSUME NEW t \in SUBSET (1..n), t # {}, K[t \ {Max(t)}] \in Schemas
      PROVE  K[t] = g[<<K[t \ {Max(t)}], Max(t)>>]
  <2> HIDE DEF K
  <2>1. Max(t) \in 1..n
    BY <1>5, Greatest
  <2>2. K[t] = Kept(ops, tr, K[t \ {Max(t)}], ops[Max(t)])
    BY <1>3, <1>5
  <2> QED BY <1>5, <2>1, <2>2
<1>6. K[{}] = NoSchema
  <2> HIDE DEF K
  <2> QED BY <1>3
<1>7. PICK a : Chained(a, Schemas, NoSchema, n, g, K[1..n])
  <2> HIDE DEF K, P, g
  <2>1. Unfolds(K, Schemas, NoSchema, n, g)
    BY <1>5, <1>6 DEF Unfolds
  <2> QED BY <1>0, <1>1, <2>1, FoldChain
<1>8. \A j \in 1..n : a[j] = Kept(ops, tr, a[j - 1], ops[j])
  <2>1. \A j \in 1..n : a[j - 1] \in Schemas
    BY <1>7 DEF Chained
  <2> QED BY <1>7, <2>1 DEF Chained
<1> HIDE DEF K, P, g
<1>9. a[0] = NoSchema /\ Expected(ops, tr) = a[n]
  BY <1>4, <1>7 DEF Chained
<1> QED BY <1>8, <1>9 DEF ExpectedAlong

LEMMA ReplayPrefix ==
  ASSUME NEW q \in Seq(Migrations)
  PROVE  /\ Replay(SubSeq(q, 1, 0)) = NoSchema /\ SubSeq(q, 1, Len(q)) = q /\ Len(q) \in Nat
         /\ \A j \in 0..Len(q) : Replay(SubSeq(q, 1, j)) \in Schemas
         /\ \A j \in 1..Len(q) :
              Replay(SubSeq(q, 1, j)) = ReplayOne(Replay(SubSeq(q, 1, j - 1)), q[j])
<1> DEFINE n == Len(q)
<1>0. NoSchema \in Schemas
  BY DEF NoSchema, Schemas
<1>1. n \in Nat /\ q \in [1..n -> Migrations]
  <2> HIDE DEF Migrations
  <2> QED OBVIOUS
<1>2. PICK a \in [0..n -> Schemas] :
        /\ a[0] = NoSchema /\ FoldLeft(ReplayOne, NoSchema, q) = a[n]
        /\ \A j \in 1..n : a[j] = ReplayOne(a[j - 1], q[j])
  <2> HIDE DEF n, Migrations
  <2> QED BY <1>0, <1>1, ReplayChain
<1>3. ASSUME NEW j \in 0..n PROVE Replay(SubSeq(q, 1, j)) = a[j]
  <2>1. j \in Nat /\ SubSeq(q, 1, j) \in [1..j -> Migrations] /\ \A i \in 1..j : SubSeq(q, 1, j)[i] = q[i]
    <3> HIDE DEF Migrations
    <3>1. PICK p : p = SubSeq(q, 1, j)
      OBVIOUS
    <3>2. j \in Nat
      BY <1>1
    <3>3. p \in [1..j -> Migrations] /\ \A i \in 1..j : p[i] = q[i]
      BY <3>1, PrefixFacts
    <3> QED BY <3>1, <3>2, <3>3
  <2>2. PICK b \in [0..j -> Schemas] :
          /\ b[0] = NoSchema /\ FoldLeft(ReplayOne, NoSchema, SubSeq(q, 1, j)) = b[j]
          /\ \A i \in 1..j : b[i] = ReplayOne(b[i - 1], SubSeq(q, 1, j)[i])
    BY <1>0, <2>1, ReplayChain
  <2>3. \A i \in 1..j : i \in 1..n
    BY <1>1
  <2>4. InStep(b, a, j)
    BY <1>2, <2>1, <2>2, <2>3 DEF InStep
  <2>5. \A i \in 0..j : b[i] = a[i]
    BY <2>1, <2>4, ChainsAgree
  <2>6. b[j] = a[j]
    BY <2>1, <2>5
  <2> QED BY <2>2, <2>6 DEF Replay
<1>4. SubSeq(q, 1, n) = q
  <2> HIDE DEF Migrations
  <2> QED BY SubSeqFull
<1>5. \A j \in 1..n : j \in 0..n /\ j - 1 \in 0..n
  BY <1>1
<1>6. 0 \in 0..n
  BY <1>1
<1> QED BY <1>1, <1>2, <1>3, <1>4, <1>5, <1>6

(* Where every statement is accepted, replaying is running.                *)
LEMMA AcceptedIsReplayed ==
  ASSUME NEW s \in Schemas, NEW m \in Migrations,
         \A i \in 1..Len(m.operations) :
           Accepts(Ran(s, SubSeq(m.operations, 1, i - 1)), m.operations[i])
  PROVE  Ran(s, m.operations) = ReplayOne(s, m)
<1>1. PICK ops \in Seq(Operations) : ops = m.operations
  BY DEF Migrations
<1>2. PICK n \in Nat : n = Len(ops)
  OBVIOUS
<1>3. ops \in [1..n -> Operations]
  BY <1>2
<1>4. PICK a \in [0..n -> Schemas] :
        /\ a[0] = s /\ FoldLeft(ApplyToState, s, ops) = a[n]
        /\ \A j \in 1..n : a[j] = ApplyToState(a[j - 1], ops[j])
  BY <1>3, AppliedChain
<1> DEFINE b == [j \in 0..n |-> Ran(s, SubSeq(ops, 1, j))]
<1>5. /\ b[0] = s /\ b[n] = Ran(s, ops)
      /\ \A j \in 1..n : b[j - 1] \in Schemas /\ b[j] = Executed(b[j - 1], ops[j])
                         /\ Accepts(b[j - 1], ops[j])
  <2>1. /\ Ran(s, SubSeq(ops, 1, 0)) = s /\ SubSeq(ops, 1, n) = ops
        /\ \A j \in 0..n : Ran(s, SubSeq(ops, 1, j)) \in Schemas
        /\ \A j \in 1..n : Ran(s, SubSeq(ops, 1, j)) = Executed(Ran(s, SubSeq(ops, 1, j - 1)), ops[j])
    BY <1>2, RanFacts
  <2>2. \A j \in 1..n : j \in 0..n /\ j - 1 \in 0..n
    OBVIOUS
  <2>3. 0 \in 0..n /\ n \in 0..n
    OBVIOUS
  <2> QED BY <1>1, <1>2, <2>1, <2>2, <2>3
<1> HIDE DEF b
<1>6. \A j \in 1..n : a[j - 1] = b[j - 1] => a[j] = b[j]
  <2> SUFFICES ASSUME NEW j \in 1..n, a[j - 1] = b[j - 1] PROVE a[j] = b[j]
    OBVIOUS
  <2>1. ops[j] \in Operations
    BY <1>3
  <2> QED BY <1>4, <1>5, <2>1, OperationTypes
<1>7. \A j \in 0..n : a[j] = b[j]
  <2>1. InStep(a, b, n)
    BY <1>4, <1>5, <1>6 DEF InStep
  <2> QED BY <2>1, ChainsAgree
<1>8. a[n] = b[n]
  BY <1>7
<1> QED BY <1>1, <1>4, <1>5, <1>8 DEF ReplayOne

(* Where the migrations in effect are the first ones, what the records stand *)
(* for is the replay of those files.                                       *)
LEMMA ExpectedOfPrefix ==
  ASSUME NEW q \in Seq(Migrations), NEW n \in 0..Len(q), NEW tr,
         \A i \in 1..Len(q) :
           q[i].replaces = {} /\ Covered(q, q[i].version, tr) <=> i \in 1..n
  PROVE  Expected(q, tr) = Replay(SubSeq(q, 1, n))
<1>0. PICK l : l = Len(q)
  OBVIOUS
<1>1. l \in Nat /\ q \in [1..l -> Migrations] /\ n \in Nat /\ n <= l
  BY <1>0
<1>2. PICK a : ExpectedAlong(a, q, tr, l)
  BY <1>1, ExpectedChain
<1>3. \A j \in 1..l : a[j] = IF j \in 1..n THEN ReplayOne(a[j - 1], q[j]) ELSE a[j - 1]
  BY <1>0, <1>2 DEF Kept, ExpectedAlong
<1> DEFINE b == [j \in 0..l |-> IF j <= n THEN Replay(SubSeq(q, 1, j)) ELSE Replay(SubSeq(q, 1, n))]
<1>4. /\ b[0] = NoSchema /\ b[l] = Replay(SubSeq(q, 1, n))
      /\ \A j \in 1..l : b[j] = IF j \in 1..n THEN ReplayOne(b[j - 1], q[j]) ELSE b[j - 1]
  <2>1. /\ Replay(SubSeq(q, 1, 0)) = NoSchema
        /\ \A j \in 1..l : Replay(SubSeq(q, 1, j)) = ReplayOne(Replay(SubSeq(q, 1, j - 1)), q[j])
    BY <1>0, ReplayPrefix
  <2>2. 0 \in 0..l /\ l \in 0..l /\ 0 <= n /\ (l <= n => l = n)
    BY <1>1
  <2>3. ASSUME NEW j \in 1..l
        PROVE  /\ j \in 0..l /\ j - 1 \in 0..l /\ (j \in 1..n <=> j <= n) /\ (j <= n => j - 1 <= n)
               /\ (~(j <= n) /\ j - 1 <= n => j - 1 = n)
    BY <1>1
  <2>4. ASSUME NEW j \in 1..l
        PROVE  b[j] = IF j \in 1..n THEN ReplayOne(b[j - 1], q[j]) ELSE b[j - 1]
    BY <2>1, <2>3
  <2> QED BY <2>1, <2>2, <2>4
<1> HIDE DEF b
<1>5. InStep(a, b, l)
  BY <1>2, <1>3, <1>4 DEF InStep, ExpectedAlong
<1>6. a[l] = b[l]
  <2>1. l \in 0..l
    BY <1>1
  <2> QED BY <1>1, <1>5, <2>1, ChainsAgree
<1> QED BY <1>2, <1>4, <1>6 DEF ExpectedAlong

-----------------------------------------------------------------------------
(* What a deploy has passed is settled: recorded, or replaced by a file the *)
(* deploy has still to come to.                                            *)
SettledOf(r) ==
  step[r] \in {"choosing", "running", "marking", "committing"} =>
    \A i \in 1..(at[r] - 1) : i \in db.tracked \/ i \in Replaced(r)
SettledInv == \A r \in Runners : SettledOf(r)

LEMMA SettledInit == Init => SettledInv
  BY DEF Init, SettledInv, SettledOf

LEMMA SettledMoves ==
  ASSUME Transactional, PlaceInv, WorkInv, SettledInv, NEW r \in Runners,
         Load(r) \/ Migrate(r) \/ Rollback(r) \/ EngineFails(r) \/ Crash(r), ~CommitRollback(r)
  PROVE  SettledOf(r)' /\ db.tracked \subseteq db'.tracked
<1> USE DEF GoTo
<1>0. SettledOf(r) /\ WorkOf(r) /\ at[r] \in Nat \ {0} /\ LoadInv
  BY DEF SettledInv, WorkInv, PlaceInv
<1>1. CASE \/ Load(r) \/ RaiseHalfWay(r) \/ Finish(r) \/ Raise(r) \/ EngineFails(r) \/ Crash(r)
  <2>1. db' = db /\ step'[r] \notin {"choosing", "running", "marking", "committing"}
    BY <1>1 DEF Load, RaiseHalfWay, Finish, Raise, EngineFails, Crash, Discard, PlaceInv
  <2> QED BY <2>1 DEF SettledOf
<1>2. CASE EnsureTracking(r)
  <2>1. tx[r] = NoTx
    BY <1>2 DEF EnsureTracking, PlaceInv, PlaceOf, Open
  <2>2. db' = db /\ step'[r] \in {"reading", "undo reading"}
    BY <1>2, <2>1 DEF EnsureTracking, Commit, CommitNow, Seen, PlaceInv
  <2> QED BY <2>2 DEF SettledOf
<1>3. CASE ReadApplied(r)
  <2>1. db' = db /\ at'[r] = 1
    BY <1>3 DEF ReadApplied, PlaceInv
  <2> QED BY <2>1 DEF SettledOf
<1>4. CASE Skip(r)
  <2>1. /\ db' = db /\ batch' = batch /\ at'[r] = at[r] + 1 /\ step[r] = "choosing"
        /\ Current(r).version \in already[r] \cup Replaced(r) /\ at[r] <= Len(batch[r])
    BY <1>4 DEF Skip, Choosing, Skips, PlaceInv
  <2>2. at[r] \in 1..Len(batch[r])
    <3>1. Len(batch[r]) \in Nat
      <4>1. batch[r] \in Seq(Migrations)
        BY <1>0 DEF LoadInv
      <4> QED BY <4>1
    <3> QED BY <1>0, <2>1, <3>1
  <2>3. Current(r).version = at[r] /\ already[r] \subseteq db.tracked
    BY <1>0, <2>1, <2>2, InHand DEF Current, WorkOf, WorkIn
  <2>4. ASSUME NEW i \in 1..(at'[r] - 1) PROVE i \in db.tracked \/ i \in Replaced(r)
    <3>1. i \in 1..(at[r] - 1) \/ i = at[r]
      BY <1>0, <2>1
    <3> QED BY <1>0, <2>1, <2>3, <3>1 DEF SettledOf
  <2>5. Replaced(r)' = Replaced(r)
    BY <2>1 DEF Replaced
  <2> QED BY <2>1, <2>4, <2>5 DEF SettledOf
<1>5. CASE StartMarking(r) \/ StartRunning(r)
  <2>1. db' = db /\ batch' = batch /\ at' = at /\ step[r] = "choosing"
    BY <1>5 DEF StartMarking, StartRunning, Pending, Choosing
  <2> QED BY <1>0, <2>1 DEF SettledOf, Replaced
<1>6. CASE Forward(r) \/ Backward(r) \/ Record(r) \/ Unrecord(r) \/ ReadLast(r)
  <2>1. db' = db
    BY <1>6, WorkForward, WorkBackward, WorkRecord, WorkUnrecord, WorkReadLast
  <2>2. CASE Forward(r) \/ Record(r)
    <3>1. step[r] \in {"running", "marking"} /\ batch' = batch /\ at' = at
      BY <2>2 DEF Forward, Record
    <3> QED BY <1>0, <2>1, <3>1 DEF SettledOf, Replaced
  <2>3. CASE Backward(r) \/ Unrecord(r) \/ ReadLast(r)
    <3>1. step'[r] \notin {"choosing", "running", "marking", "committing"}
      BY <2>3 DEF Backward, Unrecord, ReadLast, PlaceInv
    <3> QED BY <2>1, <3>1 DEF SettledOf
  <2> QED BY <1>6, <2>2, <2>3
<1>7. CASE CommitMigration(r)
  <2>1. /\ db' = tx[r] /\ step[r] \in OnFile
        /\ Applied(tx[r], db, Current(r)) \/ Marked(tx[r], db, Current(r))
    BY <1>7, CommitFacts
  <2>2. Current(r).version = at[r]
    BY <2>1, OnFileFacts
  <2>3. db'.tracked = db.tracked \cup {at[r]}
    BY <2>1, <2>2 DEF Applied, Marked
  <2>4. batch' = batch /\ at'[r] = at[r] + 1 /\ step[r] = "committing"
    BY <1>7 DEF CommitMigration, PlaceInv
  <2>5. ASSUME NEW i \in 1..(at'[r] - 1) PROVE i \in db'.tracked \/ i \in Replaced(r)
    <3>1. i \in 1..(at[r] - 1) \/ i = at[r]
      BY <1>0, <2>4
    <3> QED BY <1>0, <2>3, <2>4, <3>1 DEF SettledOf
  <2>6. Replaced(r)' = Replaced(r)
    BY <2>4 DEF Replaced
  <2> QED BY <2>3, <2>5, <2>6 DEF SettledOf
<1> QED BY <1>1, <1>2, <1>3, <1>4, <1>5, <1>6, <1>7 DEF Migrate, Rollback

LEMMA SettledStep ==
  ASSUME Transactional, Alone, PlaceInv, WorkInv, SettledInv, [Next]_vars
  PROVE  SettledInv'
<1>1. ASSUME NEW r \in Runners, Load(r) \/ Migrate(r) \/ Rollback(r) \/ EngineFails(r) \/ Crash(r),
             ~CommitRollback(r), NEW q \in Runners
      PROVE  SettledOf(q)'
  <2>1. SettledOf(r)' /\ db.tracked \subseteq db'.tracked
    BY <1>1, SettledMoves
  <2>2. CASE q # r
    <3>1. SettledOf(q) /\ Apart(r)
      BY <1>1, OthersStand DEF SettledInv
    <3>2. step'[q] = step[q] /\ at'[q] = at[q] /\ batch'[q] = batch[q]
      BY <2>2, <3>1 DEF Apart
    <3>3. Replaced(q)' = Replaced(q)
      BY <3>2 DEF Replaced
    <3> QED BY <2>1, <3>1, <3>2, <3>3 DEF SettledOf
  <2> QED BY <2>1, <2>2
<1>2. ASSUME NEW r \in Runners, CommitRollback(r), NEW q \in Runners PROVE SettledOf(q)'
  <2>1. q = r
    <3>1. PlaceOf(r)
      BY DEF PlaceInv
    <3>2. "rollback" \in Allowed
      BY <1>2, <3>1 DEF CommitRollback, PlaceOf, Undos
    <3>3. PICK x : Runners = {x}
      BY <3>2 DEF Alone
    <3> QED BY <3>3
  <2>2. step'[r] = "idle"
    BY <1>2 DEF CommitRollback, PlaceInv, GoTo
  <2> QED BY <2>1, <2>2 DEF SettledOf
<1>3. CASE UNCHANGED vars \/ \E u \in SquashPoints : SquashUntil(u)
  <2>1. UNCHANGED <<db, tx, step, batch, already, at, k>>
    BY <1>3 DEF vars, runnerVars, SquashUntil
  <2> QED BY <2>1 DEF SettledInv, SettledOf, Replaced
<1> QED BY <1>1, <1>2, <1>3 DEF Next, SettledInv

(* Only squash writes a file.                                              *)
LEMMA OnlySquashesWrite ==
  ASSUME [Next]_vars
  PROVE  files' = files \/ \E u \in SquashPoints : SquashUntil(u)
<1>1. ASSUME NEW r \in Runners, Load(r) \/ Migrate(r) \/ Rollback(r) \/ EngineFails(r) \/ Crash(r)
      PROVE  files' = files
  BY <1>1 DEF Load, Migrate, Rollback, EngineFails, Crash, EnsureTracking, ReadApplied, Skip,
     StartMarking, RaiseHalfWay, StartRunning, Finish, Forward, Record, CommitMigration, Raise,
     ReadLast, Backward, Unrecord, CommitRollback
<1> QED BY <1>1 DEF Next, vars

(* What a squash adds to the directory.                                    *)
LEMMA SquashAdds ==
  ASSUME PlaceInv, NEW u \in SquashPoints, SquashUntil(u)
  PROVE  \E n, m :
           /\ n = Len(files) /\ n \in Nat /\ u \in 1..n
           /\ m \in Migrations /\ m.replaces = 1..u /\ m.operations = CreateAll(SubSeq(files, 1, u))
           /\ files' \in Seq(Migrations) /\ Len(files') = n + 1
           /\ files'[n + 1] = m /\ \A i \in 1..n : files'[i] = files[i]
<1>1. LoadInv /\ files \in Seq(Migrations) /\ Len(files) \in Nat
  <2>1. LoadInv /\ files \in Seq(Migrations)
    BY DEF PlaceInv, LoadInv, FilesInv
  <2> QED BY <2>1
<1>2. PICK n : n = Len(files)
  OBVIOUS
<1>3. n \in Nat /\ u \in 1..n /\ u \in 0..n
  BY <1>1, <1>2, FilesAssumption DEF SquashUntil
<1>4. PICK q : q = SubSeq(files, 1, u)
  OBVIOUS
<1>5. q \in Seq(Migrations) /\ Len(q) = u /\ \A i \in 1..u : q[i] = files[i]
  BY <1>1, <1>2, <1>3, <1>4, PrefixFacts
<1>6. VersionsOf(q) = 1..u
  <2>1. DOMAIN q = 1..u
    BY <1>5
  <2>2. \A i \in 1..u : q[i].version = i
    <3>1. \A i \in 1..u : i \in 1..n
      BY <1>3
    <3> QED BY <1>1, <1>2, <1>5, <3>1 DEF LoadInv, FilesInv
  <2> QED BY <2>1, <2>2 DEF VersionsOf, Range
<1>7. PICK m : m = Squash(q, n + 1)
  OBVIOUS
<1>8. m.replaces = 1..u /\ m.operations = CreateAll(q)
  BY <1>6, <1>7 DEF Squash, Migration
<1>9. files' = Append(files, m) /\ m \in Migrations
  <2>1. n + 1 \in Nat
    BY <1>3
  <2> QED BY <1>2, <1>4, <1>5, <1>7, <2>1, SquashType DEF SquashUntil
<1>10. /\ files' \in Seq(Migrations) /\ Len(files') = n + 1
       /\ files'[n + 1] = m /\ \A i \in 1..n : files'[i] = files[i]
  <2> HIDE DEF Migrations
  <2> QED BY <1>1, <1>2, <1>3, <1>9
<1> QED BY <1>2, <1>3, <1>4, <1>8, <1>9, <1>10

(* The files as squash writes them: a squash replaces files before it, and  *)
(* with a squash everything that squash replaces.                          *)
Nested(f) ==
  \A i \in 1..Len(f) :
    /\ f[i].replaces \subseteq 1..(i - 1)
    /\ \A j \in f[i].replaces : f[j].replaces \subseteq f[i].replaces

LEMMA NestedStep ==
  ASSUME PlaceInv, Nested(files), [Next]_vars
  PROVE  Nested(files')
<1>1. CASE files' = files
  BY <1>1
<1>2. CASE \E u \in SquashPoints : SquashUntil(u)
  <2>1. PICK u \in SquashPoints : SquashUntil(u)
    BY <1>2
  <2>2. PICK n, m :
          /\ n = Len(files) /\ n \in Nat /\ u \in 1..n /\ m.replaces = 1..u
          /\ Len(files') = n + 1 /\ files'[n + 1] = m /\ \A i \in 1..n : files'[i] = files[i]
    BY <2>1, SquashAdds
  <2>3. ASSUME NEW i \in 1..(n + 1)
         PROVE  /\ files'[i].replaces \subseteq 1..(i - 1)
                /\ \A j \in files'[i].replaces : files'[j].replaces \subseteq files'[i].replaces
    <3>1. CASE i \in 1..n
      <4>1. files'[i] = files[i] /\ files[i].replaces \subseteq 1..(i - 1)
        BY <2>2, <3>1 DEF Nested
      <4>2. ASSUME NEW j \in files[i].replaces PROVE files'[j].replaces \subseteq files[i].replaces
        <5>1. j \in 1..n
          <6>1. j \in 1..(i - 1)
            BY <4>1, <4>2
          <6> QED BY <2>2, <3>1, <6>1
        <5> QED BY <2>2, <3>1, <5>1 DEF Nested
      <4> QED BY <4>1, <4>2
    <3>2. CASE i = n + 1
      <4>1. files'[i].replaces = 1..u /\ 1..u \subseteq 1..(i - 1)
        BY <2>2, <3>2
      <4>2. ASSUME NEW j \in 1..u PROVE files'[j].replaces \subseteq 1..u
        <5>1. j \in 1..n /\ 1..(j - 1) \subseteq 1..u
          BY <2>2
        <5> QED BY <2>2, <5>1 DEF Nested
      <4> QED BY <4>1, <4>2
    <3> QED BY <2>2, <3>1, <3>2
  <2> QED BY <2>2, <2>3 DEF Nested
<1> QED BY <1>1, <1>2, OnlySquashesWrite

(* A file that is replaced is covered by the last squash that replaces it.  *)
LEMMA LastSquashCovers ==
  ASSUME LoadInv, Nested(files), NEW r \in Runners, NEW t,
         \A i \in 1..Len(batch[r]) : i \in t \/ i \in Replaced(r)
  PROVE  UpToDate(batch[r], t)
<1>1. PICK b : b = batch[r]
  OBVIOUS
<1>2. PICK n : n = Len(b)
  OBVIOUS
<1>3. b \in Seq(Migrations) /\ n \in Nat /\ DOMAIN b = 1..n
  <2>1. b \in Seq(Migrations)
    BY <1>1 DEF LoadInv
  <2> QED BY <1>2, <2>1
<1>4. \A i \in 1..n : b[i] = files[i] /\ b[i].version = i /\ i \in 1..Len(files)
  BY <1>1, <1>2, InHand
<1>5. \A i \in 1..n : i \in t \/ \E j \in 1..n : i \in b[j].replaces
  BY <1>1, <1>2, <1>3 DEF Replaced, Range
<1>6. ASSUME NEW i \in 1..n PROVE Covered(b, i, t)
  <2> DEFINE over == {j \in 1..n : i \in b[j].replaces}
  <2>1. CASE i \in t
    BY <2>1 DEF Covered
  <2>2. CASE i \notin t
    <3>1. over \in SUBSET (1..n) /\ over # {}
      BY <1>5, <2>2
    <3>2. PICK j \in over : \A x \in over : x <= j
      <4> HIDE DEF over
      <4> QED BY <1>3, <3>1, Greatest
    <3>3. j \in 1..n /\ i \in b[j].replaces
      OBVIOUS
    <3>4. CASE j \in t
      BY <1>3, <1>4, <3>3, <3>4 DEF Covered, Range
    <3>5. CASE j \notin t
      <4>1. PICK l \in 1..n : j \in b[l].replaces
        BY <1>5, <3>3, <3>5
      <4>2. i \in b[l].replaces /\ j \in 1..(l - 1)
        BY <1>4, <3>3, <4>1 DEF Nested
      <4>3. l \in over /\ ~(l <= j)
        BY <4>2
      <4> QED BY <3>2, <4>3
    <3> QED BY <3>4, <3>5
  <2> QED BY <2>1, <2>2
<1> QED BY <1>1, <1>3, <1>4, <1>6 DEF UpToDate, Range

(* A migrate that ends without raising leaves nothing of its files pending, *)
(* whoever else deploys or squashes at the same time.                      *)
THEOREM AFinishedDeployIsDone ==
  ASSUME Transactional, Alone, Nested(Files)
  PROVE  Spec => FinishMeansUpToDate
<1> DEFINE Inv == PlaceInv /\ WorkInv /\ SettledInv /\ Nested(files)
           Ends == \A r \in Runners : Finish(r) => UpToDate(batch[r], db.tracked)
<1>1. Init => Inv
  BY PlaceInit, WorkInit, SettledInit DEF Init
<1>2. Inv /\ [Next]_vars => Inv'
  BY PlaceStep, WorkStep, SettledStep, NestedStep
<1>3. Inv /\ [Next]_vars => [Ends]_vars
  <2> SUFFICES ASSUME Inv, NEW r \in Runners, Finish(r) PROVE UpToDate(batch[r], db.tracked)
    OBVIOUS
  <2>1. step[r] = "choosing" /\ at[r] > Len(batch[r]) /\ at[r] \in Nat /\ LoadInv /\ SettledOf(r)
    BY DEF Finish, PlaceInv, SettledInv
  <2>2. Len(batch[r]) \in Nat
    <3>1. batch[r] \in Seq(Migrations)
      BY <2>1 DEF LoadInv
    <3> QED BY <3>1
  <2>3. \A i \in 1..Len(batch[r]) : i \in 1..(at[r] - 1)
    BY <2>1, <2>2
  <2> QED BY <2>1, <2>3, LastSquashCovers DEF SettledOf
<1> QED BY <1>1, <1>2, <1>3, PTL DEF Spec, FinishMeansUpToDate

-----------------------------------------------------------------------------
(* With no squash in the directory and none to come, and nobody rolling     *)
(* back, the deploys apply the files in order, whoever applies which.      *)
Straight ==
  /\ "rollback" \notin Allowed /\ SquashPoints = {}
  /\ \A i \in DOMAIN Files : Files[i].replaces = {}

InOrder(n) ==
  n \in 0..Len(files) /\ db.tracked = 1..n /\ db.schema = Replay(SubSeq(files, 1, n))
NoSquash == \A i \in 1..Len(files) : files[i].version = i /\ files[i].replaces = {}
StraightInv == NoSquash /\ \E n : InOrder(n)

LEMMA NothingYet ==
  ASSUME \A i \in DOMAIN Files : Files[i].replaces = {}, Init
  PROVE  NoSquash /\ InOrder(0)
<1>1. files \in Seq(Migrations) /\ FilesInv
  BY LoadInit DEF LoadInv, FilesInv
<1>2. Len(files) \in Nat /\ DOMAIN files = 1..Len(files)
  <2> HIDE DEF Migrations
  <2> QED BY <1>1
<1>3. Replay(SubSeq(files, 1, 0)) = NoSchema
  BY <1>1, ReplayPrefix
<1>4. 1..0 = {} /\ 0 \in 0..Len(files)
  BY <1>2
<1>5. InOrder(0)
  BY <1>3, <1>4 DEF Init, EmptyDatabase, InOrder
<1>6. NoSquash
  BY <1>1, <1>2 DEF Init, FilesInv, NoSquash
<1> QED BY <1>5, <1>6

(* The file that goes through is the next one.                             *)
LEMMA NextInOrder ==
  ASSUME Transactional, PlaceInv, WorkInv, SettledInv, NoSquash,
         NEW n, InOrder(n), NEW r \in Runners, CommitMigration(r)
  PROVE  /\ InOrder(n + 1)' /\ n + 1 \in 1..Len(files) /\ n \in Nat
         /\ \A j \in 1..Len(files[n + 1].operations) :
              Accepts(Ran(db.schema, SubSeq(files[n + 1].operations, 1, j - 1)),
                      files[n + 1].operations[j])
<1>0. files' = files /\ LoadInv /\ files \in Seq(Migrations)
  BY DEF CommitMigration, PlaceInv, LoadInv, FilesInv
<1>1. PICK l : l = Len(files)
  OBVIOUS
<1>2. l \in Nat /\ n \in 0..l /\ n \in Nat
  <2> HIDE DEF Migrations
  <2> QED BY <1>0, <1>1 DEF InOrder
<1>3. /\ db' = tx[r] /\ step[r] = "committing" /\ step[r] \in OnFile
      /\ Applied(tx[r], db, Current(r)) \/ Marked(tx[r], db, Current(r))
  BY CommitFacts DEF CommitMigration
<1>4. PICK i : i = at[r]
  OBVIOUS
<1>5. PICK m : m = Current(r)
  OBVIOUS
<1>6. i \in 1..l /\ m = files[i] /\ m.version = i /\ m \in Migrations
      /\ m.operations \in Seq(Operations) /\ m.replaces = {}
  BY <1>1, <1>3, <1>4, <1>5, OnFileFacts DEF NoSquash
<1>7. Applied(tx[r], db, m)
  BY <1>3, <1>5, <1>6 DEF Marked
<1>8. Replaced(r) = {}
  <2>1. batch[r] \in Seq(Migrations)
    BY <1>0 DEF LoadInv
  <2>2. DOMAIN batch[r] = 1..Len(batch[r])
    <3> HIDE DEF Migrations
    <3> QED BY <2>1
  <2>3. ASSUME NEW j \in 1..Len(batch[r]) PROVE batch[r][j].replaces = {}
    BY <1>0, InHand DEF NoSquash
  <2> QED BY <2>2, <2>3 DEF Replaced, Range
<1>9. \A j \in 1..(i - 1) : j \in 1..n
  BY <1>3, <1>4, <1>8 DEF SettledInv, SettledOf, InOrder
<1>10. i \notin 1..n
  BY <1>6, <1>7 DEF Applied, InOrder
<1>11. i = n + 1
  <2>1. CASE i - 1 = 0
    BY <1>2, <1>6, <1>10, <2>1
  <2>2. CASE i - 1 # 0
    <3>1. i - 1 \in 1..(i - 1)
      BY <1>2, <1>6, <2>2
    <3>2. i - 1 \in 1..n
      BY <1>9, <3>1
    <3> QED BY <1>2, <1>6, <1>10, <3>2
  <2> QED BY <2>1, <2>2
<1>12. db'.tracked = 1..(n + 1)
  <2>1. db'.tracked = (1..n) \cup {i}
    BY <1>3, <1>6, <1>7 DEF Applied, InOrder
  <2> QED BY <1>2, <1>11, <2>1
<1>13. PICK s : s = db.schema
  OBVIOUS
<1>14. s \in Schemas /\ s = Replay(SubSeq(files, 1, n))
  BY <1>13 DEF PlaceInv, Databases, InOrder
<1>15. /\ db'.schema = Ran(s, m.operations)
       /\ \A j \in 1..Len(m.operations) :
            Accepts(Ran(s, SubSeq(m.operations, 1, j - 1)), m.operations[j])
  <2>1. SubSeq(m.operations, 1, Len(m.operations)) = m.operations
    BY <1>6, <1>14, RanFacts
  <2> QED BY <1>3, <1>7, <1>13, <2>1 DEF Applied, Did
<1>16. db'.schema = ReplayOne(s, m)
  BY <1>6, <1>14, <1>15, AcceptedIsReplayed
<1>17. Replay(SubSeq(files, 1, n + 1)) = ReplayOne(s, m)
  <2>1. Replay(SubSeq(files, 1, i)) = ReplayOne(Replay(SubSeq(files, 1, i - 1)), files[i])
    BY <1>0, <1>1, <1>6, ReplayPrefix
  <2>2. i - 1 = n
    BY <1>2, <1>11
  <2> QED BY <1>6, <1>11, <1>14, <2>1, <2>2
<1>18. n + 1 \in 0..l
  BY <1>2, <1>6, <1>11
<1>19. InOrder(n + 1)'
  BY <1>0, <1>1, <1>12, <1>16, <1>17, <1>18 DEF InOrder
<1> QED BY <1>1, <1>2, <1>6, <1>11, <1>13, <1>15, <1>19

LEMMA StraightStep ==
  ASSUME Transactional, Straight, PlaceInv, WorkInv, SettledInv, StraightInv, [Next]_vars
  PROVE  StraightInv'
<1>1. files' = files
  BY OnlySquashesWrite DEF Straight
<1>2. CASE db' = db
  BY <1>1, <1>2 DEF StraightInv, NoSquash, InOrder
<1>3. ASSUME NEW r \in Runners, CommitMigration(r) PROVE StraightInv'
  BY <1>1, <1>3, NextInOrder DEF StraightInv, NoSquash
<1>4. ASSUME NEW r \in Runners, CommitRollback(r) PROVE FALSE
  <2>1. PlaceOf(r)
    BY DEF PlaceInv
  <2> QED BY <1>4, <2>1 DEF CommitRollback, PlaceOf, Undos, Straight
<1> QED BY <1>2, <1>3, <1>4, OnlyCommits

(* With the first files recorded and none of them a squash, what the records*)
(* stand for is the replay of those files.                                 *)
LEMMA StraightMeans ==
  ASSUME PlaceInv, StraightInv
  PROVE  SchemaMatchesRecords /\ ReplayMatchesDatabase
<1>1. files \in Seq(Migrations)
  BY DEF PlaceInv, LoadInv, FilesInv
<1>2. PICK n : InOrder(n)
  BY DEF StraightInv
<1>3. PICK l : l = Len(files)
  OBVIOUS
<1>4. l \in Nat /\ DOMAIN files = 1..l /\ n \in 0..l
  <2> HIDE DEF Migrations
  <2> QED BY <1>1, <1>2, <1>3 DEF InOrder
<1>5. \A i \in 1..l : files[i].version = i /\ files[i].replaces = {}
  BY <1>3 DEF StraightInv, NoSquash
<1>6. Expected(files, 1..n) = Replay(SubSeq(files, 1, n))
  <2>1. \A m \in Range(files) : m.replaces = {}
    BY <1>4, <1>5 DEF Range
  <2>2. \A i \in 1..l : Covered(files, i, 1..n) <=> i \in 1..n
    BY <2>1 DEF Covered
  <2> QED BY <1>1, <1>3, <1>4, <1>5, <2>2, ExpectedOfPrefix
<1>7. SchemaMatchesRecords
  BY <1>2, <1>6 DEF InOrder, SchemaMatchesRecords
<1>8. ASSUME UpToDate(files, db.tracked) PROVE db.schema = Replay(files)
  <2>1. \A i \in 1..l : i \in 1..n
    <3>1. \A m \in Range(files) : m.replaces = {}
      BY <1>4, <1>5 DEF Range
    <3>2. \A i \in 1..l : Covered(files, i, 1..n)
      BY <1>2, <1>4, <1>5, <1>8 DEF UpToDate, Range, InOrder
    <3> QED BY <3>1, <3>2 DEF Covered
  <2>2. n = l
    <3>1. CASE l = 0
      BY <1>4, <3>1
    <3>2. CASE l # 0
      <4>1. l \in 1..l
        BY <1>4, <3>2
      <4> QED BY <1>4, <2>1, <4>1
    <3> QED BY <3>1, <3>2
  <2>3. SubSeq(files, 1, l) = files
    BY <1>1, <1>3, ReplayPrefix
  <2> QED BY <1>2, <2>2, <2>3 DEF InOrder
<1> QED BY <1>7, <1>8 DEF ReplayMatchesDatabase

(* The schema the database has is the one its records claim, and once       *)
(* nothing is pending it is the replay of the files that makemigrations     *)
(* compares the models with: however many deploys race, crash and fail, for *)
(* any operations the files hold, refused ones and data included, as long   *)
(* as nobody squashes or rolls back.                                       *)
THEOREM SchemaIsWhatIsRecorded ==
  ASSUME Transactional, Straight
  PROVE  Spec => [](SchemaMatchesRecords /\ ReplayMatchesDatabase)
<1> DEFINE Inv == PlaceInv /\ WorkInv /\ SettledInv /\ StraightInv
<1>0. Alone
  BY DEF Straight, Alone
<1>1. Init => Inv
  <2>1. Init => StraightInv
    BY NothingYet DEF Straight, StraightInv
  <2> QED BY <2>1, PlaceInit, WorkInit, SettledInit DEF Init
<1>2. Inv /\ [Next]_vars => Inv'
  BY <1>0, PlaceStep, WorkStep, SettledStep, StraightStep
<1>3. Inv => SchemaMatchesRecords /\ ReplayMatchesDatabase
  BY StraightMeans
<1> QED BY <1>1, <1>2, <1>3, PTL DEF Spec

-----------------------------------------------------------------------------
(* One process that deploys and rolls back, with no squash. Undoing a file  *)
(* gives back the schema it found where every operation says what it takes  *)
(* away; a drop is the one that could say it wrong.                        *)
OneByOne ==
  /\ SquashPoints = {} /\ \E r : Runners = {r}
  /\ \A i \in DOMAIN Files : Files[i].replaces = {}
Found(f, i, j) ==
  Ran(Replay(SubSeq(f, 1, i - 1)), SubSeq(f[i].operations, 1, j - 1))
DropsNameTheirTable ==
  \A i \in DOMAIN Files : \A j \in DOMAIN Files[i].operations :
    LET op == Files[i].operations[j]
        s == Found(Files, i, j)
    IN op.kind = "drop" /\ s[op.table] # {} => op.columns = s[op.table]

LEMMA UndoneUndoes ==
  ASSUME NEW s \in Schemas, NEW op \in Operations, Accepts(s, op),
         op.kind = "drop" /\ s[op.table] # {} => op.columns = s[op.table]
  PROVE  Executed(Executed(s, op), Undone(op)) = s
<1>1. PICK u \in Tables : u = op.table
  BY DEF Operations
<1>2. op.kind \in {"create", "drop", "add", "remove", "data"}
  BY DEF Operations
<1>3. Undone(op).table = u /\ Undone(op).columns = op.columns /\ Undone(op).kind = Opposite[op.kind]
  <2>1. op = [kind |-> op.kind, table |-> op.table, columns |-> op.columns]
    BY DEF Operations
  <2>2. Undone(op) = [kind |-> Opposite[op.kind], table |-> op.table, columns |-> op.columns]
    BY <2>1 DEF Undone
  <2> QED BY <1>1, <2>2
<1>4. DOMAIN s = Tables
  BY DEF Schemas
<1>5. \A x : [[s EXCEPT ![u] = x] EXCEPT ![u] = s[u]] = s
  BY <1>4 DEF Schemas
<1>6. CASE op.kind = "create"
  <2>1. Executed(s, op) = [s EXCEPT ![u] = op.columns] /\ s[u] = {}
    BY <1>1, <1>6 DEF Executed, Accepts
  <2>2. Undone(op).kind = "drop"
    BY <1>3, <1>6 DEF Opposite
  <2>3. Executed(Executed(s, op), Undone(op)) = [[s EXCEPT ![u] = op.columns] EXCEPT ![u] = {}]
    BY <1>3, <2>1, <2>2 DEF Executed
  <2> QED BY <1>5, <2>1, <2>3
<1>7. CASE op.kind = "drop"
  <2>1. Executed(s, op) = [s EXCEPT ![u] = {}] /\ op.columns = s[u]
    BY <1>1, <1>7 DEF Executed, Accepts
  <2>2. Undone(op).kind = "create"
    BY <1>3, <1>7 DEF Opposite
  <2>3. Executed(Executed(s, op), Undone(op)) = [[s EXCEPT ![u] = {}] EXCEPT ![u] = s[u]]
    BY <1>3, <2>1, <2>2 DEF Executed
  <2> QED BY <1>5, <2>3
<1>8. CASE op.kind = "add"
  <2>1. Executed(s, op) = [s EXCEPT ![u] = s[u] \cup op.columns] /\ op.columns \cap s[u] = {}
    BY <1>1, <1>8 DEF Executed, Accepts
  <2>2. Undone(op).kind = "remove"
    BY <1>3, <1>8 DEF Opposite
  <2>3. [s EXCEPT ![u] = s[u] \cup op.columns][u] \ op.columns = s[u]
    BY <1>4, <2>1
  <2>4. Executed(Executed(s, op), Undone(op)) = [[s EXCEPT ![u] = s[u] \cup op.columns] EXCEPT ![u] = s[u]]
    BY <1>3, <2>1, <2>2, <2>3 DEF Executed
  <2> QED BY <1>5, <2>4
<1>9. CASE op.kind = "remove"
  <2>1. Executed(s, op) = [s EXCEPT ![u] = s[u] \ op.columns] /\ op.columns \subseteq s[u]
    BY <1>1, <1>9 DEF Executed, Accepts
  <2>2. Undone(op).kind = "add"
    BY <1>3, <1>9 DEF Opposite
  <2>3. [s EXCEPT ![u] = s[u] \ op.columns][u] \cup op.columns = s[u]
    BY <1>4, <2>1
  <2>4. Executed(Executed(s, op), Undone(op)) = [[s EXCEPT ![u] = s[u] \ op.columns] EXCEPT ![u] = s[u]]
    BY <1>3, <2>1, <2>2, <2>3 DEF Executed
  <2> QED BY <1>5, <2>4
<1>10. CASE op.kind = "data"
  <2>1. Executed(s, op) = s /\ Undone(op).kind = "data"
    BY <1>3, <1>10 DEF Executed, Opposite
  <2> QED BY <2>1 DEF Executed
<1> QED BY <1>2, <1>6, <1>7, <1>8, <1>9, <1>10

LEMMA BackAgain ==
  ASSUME NEW s \in Schemas, NEW ops \in Seq(Operations),
         \A j \in 1..Len(ops) :
           LET d == Ran(s, SubSeq(ops, 1, j - 1))
           IN Accepts(d, ops[j]) /\ (ops[j].kind = "drop" /\ d[ops[j].table] # {}
                                       => ops[j].columns = d[ops[j].table])
  PROVE  Ran(Ran(s, ops), Backwards(ops)) = s
<1>1. PICK n : n = Len(ops)
  OBVIOUS
<1>2. PICK q : q = Backwards(ops)
  OBVIOUS
<1>3. /\ n \in Nat /\ q \in Seq(Operations) /\ Len(q) = n
      /\ \A j \in 1..n : ops[j] \in Operations /\ q[j] = Undone(ops[n + 1 - j])
  BY <1>1, <1>2, BackwardsFacts
<1> DEFINE b == [j \in 0..n |-> Ran(s, SubSeq(ops, 1, j))]
<1>4. /\ b[0] = s /\ b[n] = Ran(s, ops) /\ \A j \in 0..n : b[j] \in Schemas
      /\ \A j \in 1..n : /\ b[j] = Executed(b[j - 1], ops[j]) /\ Accepts(b[j - 1], ops[j])
                         /\ ops[j].kind = "drop" /\ b[j - 1][ops[j].table] # {}
                              => ops[j].columns = b[j - 1][ops[j].table]
  <2>1. /\ Ran(s, SubSeq(ops, 1, 0)) = s /\ SubSeq(ops, 1, n) = ops
        /\ \A j \in 0..n : Ran(s, SubSeq(ops, 1, j)) \in Schemas
        /\ \A j \in 1..n : Ran(s, SubSeq(ops, 1, j)) = Executed(Ran(s, SubSeq(ops, 1, j - 1)), ops[j])
    BY <1>1, RanFacts
  <2>2. \A j \in 1..n : j \in 0..n /\ j - 1 \in 0..n
    BY <1>3
  <2>3. 0 \in 0..n /\ n \in 0..n
    BY <1>3
  <2>4. ASSUME NEW j \in 1..n
        PROVE  /\ Accepts(b[j - 1], ops[j])
               /\ ops[j].kind = "drop" /\ b[j - 1][ops[j].table] # {}
                    => ops[j].columns = b[j - 1][ops[j].table]
    <3>1. PICK d : d = Ran(s, SubSeq(ops, 1, j - 1))
      OBVIOUS
    <3>2. b[j - 1] = d
      BY <2>2, <3>1
    <3>3. Accepts(d, ops[j]) /\ (ops[j].kind = "drop" /\ d[ops[j].table] # {}
                                   => ops[j].columns = d[ops[j].table])
      BY <1>1, <3>1
    <3> HIDE DEF b
    <3> QED BY <3>2, <3>3
  <2>5. /\ b[0] = s /\ b[n] = Ran(s, ops) /\ \A j \in 0..n : b[j] \in Schemas
        /\ \A j \in 1..n : b[j] = Executed(b[j - 1], ops[j])
    BY <2>1, <2>2, <2>3
  <2> HIDE DEF b
  <2> QED BY <2>4, <2>5
<1> HIDE DEF b
<1>5. \A j \in 1..n : Executed(b[j], Undone(ops[j])) = b[j - 1]
  <2> SUFFICES ASSUME NEW j \in 1..n PROVE Executed(b[j], Undone(ops[j])) = b[j - 1]
    OBVIOUS
  <2>1. PICK d, op : d = b[j - 1] /\ op = ops[j]
    OBVIOUS
  <2>2. j - 1 \in 0..n
    BY <1>3
  <2>3. d \in Schemas /\ op \in Operations
    BY <1>3, <1>4, <2>1, <2>2
  <2>4. /\ b[j] = Executed(d, op) /\ Accepts(d, op)
        /\ op.kind = "drop" /\ d[op.table] # {} => op.columns = d[op.table]
    BY <1>4, <2>1
  <2>5. Executed(Executed(d, op), Undone(op)) = d
    BY <2>3, <2>4, UndoneUndoes
  <2> QED BY <2>1, <2>4, <2>5
<1>6. PICK top : top = Ran(s, ops)
  OBVIOUS
<1>7. top = b[n] /\ top \in Schemas
  <2>1. n \in 0..n
    BY <1>3
  <2> QED BY <1>4, <1>6, <2>1
<1> DEFINE c == [j \in 0..n |-> Ran(top, SubSeq(q, 1, j))]
           e == [j \in 0..n |-> b[n - j]]
<1>8. /\ c[0] = top /\ c[n] = Ran(top, q) /\ \A j \in 1..n : c[j] = Executed(c[j - 1], q[j])
  <2>1. /\ Ran(top, SubSeq(q, 1, 0)) = top /\ SubSeq(q, 1, n) = q
        /\ \A j \in 1..n : Ran(top, SubSeq(q, 1, j)) = Executed(Ran(top, SubSeq(q, 1, j - 1)), q[j])
    BY <1>3, <1>7, RanFacts
  <2>2. \A j \in 1..n : j \in 0..n /\ j - 1 \in 0..n
    BY <1>3
  <2>3. 0 \in 0..n /\ n \in 0..n
    BY <1>3
  <2> QED BY <2>1, <2>2, <2>3
<1>9. /\ e[0] = top /\ e[n] = s /\ \A j \in 1..n : e[j] = Executed(e[j - 1], q[j])
  <2>1. 0 \in 0..n /\ n \in 0..n /\ n - 0 = n /\ n - n = 0
    BY <1>3
  <2>2. ASSUME NEW j \in 1..n PROVE e[j] = Executed(e[j - 1], q[j])
    <3>1. PICK h : h = n + 1 - j
      OBVIOUS
    <3>2. j \in 0..n /\ j - 1 \in 0..n /\ h \in 1..n /\ n - j = h - 1 /\ n - (j - 1) = h
      BY <1>3, <3>1
    <3>3. e[j] = b[h - 1] /\ e[j - 1] = b[h]
      BY <3>2
    <3>4. q[j] = Undone(ops[h])
      BY <1>3, <3>1
    <3> HIDE DEF e
    <3> QED BY <1>5, <3>2, <3>3, <3>4
  <2> QED BY <1>4, <1>7, <2>1, <2>2
<1> HIDE DEF c, e
<1>10. c[n] = e[n]
  <2>1. InStep(c, e, n)
    BY <1>8, <1>9 DEF InStep
  <2>2. n \in 0..n
    BY <1>3
  <2> QED BY <1>3, <2>1, <2>2, ChainsAgree
<1> QED BY <1>2, <1>6, <1>8, <1>9, <1>10

(* A rollback has the last recorded file in hand.                          *)
LastOf(r) ==
  /\ step[r] # "idle" => batch[r] = files
  /\ step[r] \in {"undoing", "undo committing"} =>
       \A j \in (at[r] + 1)..Len(files) : j \notin db.tracked

LEMMA LastStep ==
  ASSUME Transactional, SquashPoints = {}, NEW r, Runners = {r}, PlaceInv, WorkInv, LastOf(r),
         [Next]_vars
  PROVE  LastOf(r)'
<1> USE DEF GoTo
<1>0. files' = files /\ r \in Runners /\ LoadInv /\ at[r] \in Nat
  BY OnlySquashesWrite DEF PlaceInv
<1>1. CASE Load(r)
  <2>1. batch'[r] = files /\ step'[r] \in {"opening", "undo opening"}
    BY <1>0, <1>1 DEF Load, PlaceInv, LoadInv
  <2> QED BY <1>0, <2>1 DEF LastOf
<1>2. ASSUME batch' = batch, step'[r] \in Steps \ {"idle", "undoing", "undo committing"}, step[r] # "idle"
      PROVE  LastOf(r)'
  BY <1>0, <1>2 DEF LastOf
<1>3. CASE \/ EnsureTracking(r) \/ ReadApplied(r) \/ Skip(r) \/ StartMarking(r) \/ StartRunning(r)
           \/ Forward(r) \/ Record(r) \/ CommitMigration(r) \/ EngineFails(r)
  <2>1. batch' = batch /\ step[r] # "idle" /\ step'[r] \notin {"idle", "undoing", "undo committing"}
    BY <1>0, <1>3 DEF EnsureTracking, ReadApplied, Skip, Choosing, StartMarking, StartRunning, Pending,
       Forward, Record, CommitMigration, EngineFails, PlaceInv
  <2> QED BY <1>0, <2>1 DEF LastOf
<1>4. CASE Raise(r) \/ Crash(r) \/ Finish(r) \/ RaiseHalfWay(r) \/ CommitRollback(r)
  <2>1. step'[r] = "idle"
    BY <1>0, <1>4 DEF Raise, Crash, Finish, RaiseHalfWay, CommitRollback, PlaceInv
  <2> QED BY <2>1 DEF LastOf
<1>5. CASE Backward(r) \/ Unrecord(r)
  <2>1. db' = db
    BY <1>0, <1>5, WorkBackward, WorkUnrecord
  <2>2. batch' = batch /\ at' = at /\ step[r] = "undoing"
    BY <1>5 DEF Backward, Unrecord
  <2> QED BY <1>0, <2>1, <2>2 DEF LastOf
<1>6. CASE ReadLast(r)
  <2>1. /\ db' = db /\ batch' = batch /\ batch[r] = files /\ step[r] = "undo reading"
        /\ tx[r] = NoTx
    BY <1>0, <1>6 DEF ReadLast, LastOf, PlaceInv, PlaceOf, Open
  <2>2. CASE LastRegistered(r) = {}
    <3>1. step'[r] = "idle"
      BY <1>0, <1>6, <2>2 DEF ReadLast, PlaceInv
    <3> QED BY <3>1 DEF LastOf
  <2>3. CASE LastRegistered(r) # {}
    <3>1. PICK i \in LastRegistered(r) : at'[r] = i /\ step'[r] = "undoing"
      BY <1>0, <1>6, <2>3 DEF ReadLast, PlaceInv
    <3>2. \A j \in (i + 1)..Len(files) : files[j].version \notin db.tracked
      BY <2>1, <3>1 DEF LastRegistered, Seen
    <3>3. i \in 1..Len(files)
      <4>1. files \in Seq(Migrations)
        BY <1>0 DEF LoadInv, FilesInv
      <4>2. DOMAIN files = 1..Len(files)
        <5> HIDE DEF Migrations
        <5> QED BY <4>1
      <4> QED BY <2>1, <4>2 DEF LastRegistered
    <3>4. \A j \in (i + 1)..Len(files) : j \in 1..Len(files)
      BY <3>3
    <3>5. \A j \in (i + 1)..Len(files) : j \notin db.tracked
      BY <1>0, <3>2, <3>4 DEF LoadInv, FilesInv
    <3> QED BY <1>0, <2>1, <3>1, <3>5 DEF LastOf
  <2> QED BY <2>2, <2>3
<1>7. CASE UNCHANGED vars
  BY <1>7 DEF vars, runnerVars, LastOf
<1> QED BY <1>0, <1>1, <1>3, <1>4, <1>5, <1>6, <1>7 DEF Next, Migrate, Rollback

(* Every file that is recorded went through without a refusal.             *)
WentThrough(i) ==
  \A j \in 1..Len(files[i].operations) : Accepts(Found(files, i, j), files[i].operations[j])
RewoundInv ==
  NoSquash /\ files = Files /\ \E n : InOrder(n) /\ \A i \in 1..n : WentThrough(i)

LEMMA RewoundStep ==
  ASSUME Transactional, OneByOne, DropsNameTheirTable, NEW r, Runners = {r},
         PlaceInv, WorkInv, SettledInv, LastOf(r), RewoundInv, [Next]_vars
  PROVE  RewoundInv'
<1>0. files' = files /\ LoadInv /\ files \in Seq(Migrations) /\ NoSquash /\ NoSquash' /\ files = Files
  <2>1. files' = files
    BY OnlySquashesWrite DEF OneByOne
  <2> QED BY <2>1 DEF RewoundInv, NoSquash, PlaceInv, LoadInv, FilesInv
<1>1. PICK n : InOrder(n) /\ \A i \in 1..n : WentThrough(i)
  BY DEF RewoundInv
<1>2. PICK l : l = Len(files)
  OBVIOUS
<1>3. l \in Nat /\ n \in 0..l /\ n \in Nat /\ DOMAIN files = 1..l
  <2> HIDE DEF Migrations
  <2> QED BY <1>0, <1>1, <1>2 DEF InOrder
<1>4. ASSUME NEW p, InOrder(p)', \A i \in 1..p : WentThrough(i) PROVE RewoundInv'
  <2>1. \A i \in 1..p : WentThrough(i)'
    BY <1>0, <1>4 DEF WentThrough, Found
  <2> QED BY <1>0, <1>4, <2>1 DEF RewoundInv
<1>5. CASE db' = db
  <2>1. InOrder(n)'
    BY <1>0, <1>1, <1>5 DEF InOrder
  <2> QED BY <1>1, <1>4, <2>1
<1>6. CASE CommitMigration(r)
  <2>1. /\ InOrder(n + 1)'
        /\ \A j \in 1..Len(files[n + 1].operations) :
             Accepts(Ran(db.schema, SubSeq(files[n + 1].operations, 1, j - 1)),
                     files[n + 1].operations[j])
    BY <1>0, <1>1, <1>6, NextInOrder
  <2>2. db.schema = Replay(SubSeq(files, 1, n))
    BY <1>1 DEF InOrder
  <2>3. WentThrough(n + 1)
    <3>1. PICK p, ops : p = n + 1 /\ ops = files[p].operations
      OBVIOUS
    <3>2. SUFFICES ASSUME NEW j \in 1..Len(ops) PROVE Accepts(Found(files, p, j), ops[j])
      BY Zenon, <3>1 DEF WentThrough
    <3>3. Found(files, p, j) = Ran(db.schema, SubSeq(ops, 1, j - 1))
      <4>1. p - 1 = n
        BY <1>3, <3>1
      <4> QED BY Zenon, <2>2, <3>1, <4>1 DEF Found
    <3>4. Accepts(Ran(db.schema, SubSeq(ops, 1, j - 1)), ops[j])
      BY Zenon, <2>1, <3>1
    <3> QED BY Zenon, <3>3, <3>4
  <2>4. \A i \in 1..(n + 1) : i \in 1..n \/ i = n + 1
    BY <1>3
  <2> QED BY <1>1, <1>4, <2>1, <2>3, <2>4
<1>7. CASE CommitRollback(r)
  <2>1. /\ db' = tx[r] /\ Reverted(tx[r], db, Current(r)) /\ step[r] \in OnFile
        /\ step[r] = "undo committing"
    BY <1>7, CommitFacts DEF CommitRollback
  <2>2. PICK i : i = at[r]
    OBVIOUS
  <2>3. PICK m : m = Current(r)
    OBVIOUS
  <2>4. /\ i \in 1..l /\ m = files[i] /\ m.version = i /\ m \in Migrations
        /\ m.operations \in Seq(Operations)
    BY <1>0, <1>2, <2>1, <2>2, <2>3, OnFileFacts DEF NoSquash
  <2>5. i = n
    <3>1. i \in 1..n
      BY <1>1, <2>1, <2>3, <2>4 DEF Reverted, InOrder
    <3>2. \A j \in (i + 1)..l : j \notin 1..n
      BY <1>1, <1>2, <2>1, <2>2 DEF LastOf, InOrder
    <3>3. CASE i # n
      <4>1. n \in (i + 1)..l /\ n \in 1..n
        BY <1>3, <2>4, <3>1, <3>3
      <4> QED BY <3>2, <4>1
    <3> QED BY <3>3
  <2>6. n \in 1..l /\ n - 1 \in 0..l /\ n \in 1..n
    BY <1>3, <2>4, <2>5
  <2>7. PICK s : s = Replay(SubSeq(files, 1, n - 1))
    OBVIOUS
  <2>8. s \in Schemas /\ Replay(SubSeq(files, 1, n)) = ReplayOne(s, m)
    BY <1>0, <1>2, <2>4, <2>5, <2>6, <2>7, ReplayPrefix
  <2>9. ASSUME NEW j \in 1..Len(m.operations)
        PROVE  LET d == Ran(s, SubSeq(m.operations, 1, j - 1))
               IN /\ Accepts(d, m.operations[j])
                  /\ m.operations[j].kind = "drop" /\ d[m.operations[j].table] # {}
                       => m.operations[j].columns = d[m.operations[j].table]
    <3>1. Found(files, n, j) = Ran(s, SubSeq(m.operations, 1, j - 1))
      BY Zenon, <2>4, <2>5, <2>7 DEF Found
    <3>2. Accepts(Found(files, n, j), m.operations[j])
      BY <1>1, <2>4, <2>5, <2>6 DEF WentThrough
    <3>3. j \in DOMAIN m.operations /\ n \in DOMAIN Files
      BY <1>0, <1>3, <2>4, <2>6
    <3>4. m.operations[j].kind = "drop" /\ Found(files, n, j)[m.operations[j].table] # {}
            => m.operations[j].columns = Found(files, n, j)[m.operations[j].table]
      BY <1>0, <2>4, <2>5, <3>3 DEF DropsNameTheirTable
    <3> QED BY Zenon, <3>1, <3>2, <3>4
  <2>10. Ran(s, m.operations) = ReplayOne(s, m)
    BY <2>4, <2>8, <2>9, AcceptedIsReplayed
  <2>11. db.schema = Ran(s, m.operations)
    BY <1>1, <2>8, <2>10 DEF InOrder
  <2>12. db'.schema = Ran(db.schema, Backwards(m.operations))
    <3>1. PICK q : q = Backwards(m.operations)
      OBVIOUS
    <3>2. q \in Seq(Operations) /\ Len(q) = Len(m.operations)
      BY <2>4, <3>1, BackwardsFacts
    <3>3. db.schema \in Schemas
      BY DEF PlaceInv, Databases
    <3>4. SubSeq(q, 1, Len(m.operations)) = q
      BY <3>2, <3>3, RanFacts
    <3> QED BY <2>1, <2>3, <3>1, <3>4 DEF Reverted, Did
  <2>13. db'.schema = s
    BY <2>4, <2>8, <2>9, <2>11, <2>12, BackAgain
  <2>14. db'.tracked = 1..(n - 1)
    <3>1. db'.tracked = (1..n) \ {n}
      BY <1>1, <2>1, <2>3, <2>4, <2>5 DEF Reverted, InOrder
    <3> QED BY <2>6, <3>1
  <2>15. InOrder(n - 1)'
    BY <1>0, <1>2, <2>6, <2>7, <2>13, <2>14 DEF InOrder
  <2>16. \A x \in 1..(n - 1) : x \in 1..n
    BY <2>6
  <2> QED BY <1>1, <1>4, <2>15, <2>16
<1> QED BY <1>5, <1>6, <1>7, OnlyCommits

(* Rollbacks included, when one process runs at a time: whatever is applied,*)
(* undone and applied again, crashes and failures included, the schema is   *)
(* the one the recorded files make, because undoing gives back what was.   *)
THEOREM RollingBackGivesBack ==
  ASSUME Transactional, OneByOne, DropsNameTheirTable
  PROVE  Spec => [](SchemaMatchesRecords /\ ReplayMatchesDatabase)
<1>0. PICK r : Runners = {r}
  BY DEF OneByOne
<1> DEFINE Inv == PlaceInv /\ WorkInv /\ SettledInv /\ LastOf(r) /\ RewoundInv
<1>1. Alone
  BY <1>0 DEF Alone
<1>2. Init => Inv
  <2> SUFFICES ASSUME Init PROVE LastOf(r) /\ RewoundInv
    BY PlaceInit, WorkInit, SettledInit
  <2>1. LastOf(r)
    BY <1>0 DEF Init, LastOf
  <2>2. InOrder(0) /\ NoSquash
    BY NothingYet DEF OneByOne
  <2>3. \A i \in 1..0 : WentThrough(i)
    OBVIOUS
  <2> QED BY <2>1, <2>2, <2>3 DEF RewoundInv, Init
<1>3. Inv /\ [Next]_vars => Inv'
  BY <1>0, <1>1, PlaceStep, WorkStep, SettledStep, LastStep, RewoundStep DEF OneByOne
<1>4. Inv => SchemaMatchesRecords /\ ReplayMatchesDatabase
  BY StraightMeans DEF RewoundInv, StraightInv
<1> QED BY <1>2, <1>3, <1>4, PTL DEF Spec

-----------------------------------------------------------------------------
(* A sequence of a finite set has every one of its elements.               *)
LEMMA SequencesHaveAll ==
  ASSUME NEW S, IsFiniteSet(S), NEW x \in S
  PROVE  \E i \in 1..Len(SetToSeq(S)) : SetToSeq(S)[i] = x
<1>1. PICK n \in Nat : n = Cardinality(S)
  BY FS_CardinalityType
<1>2. \E f \in [1..n -> S] : IsInjective(f)
  BY <1>1, FS_CardinalityType DEF ExistsBijection, Bijection, Injection, IsInjective
<1>3. PICK f : f = SetToSeq(S)
  OBVIOUS
<1>4. f \in [1..n -> S] /\ IsInjective(f)
  BY <1>1, <1>2, <1>3 DEF SetToSeq
<1>5. f \in Injection(1..n, S)
  BY <1>4 DEF IsInjective, Injection
<1>6. Cardinality(1..n) = n
  BY FS_Interval
<1>7. f \in Surjection(1..n, S)
  BY <1>1, <1>5, <1>6, FS_Injection
<1>8. PICK i \in 1..n : f[i] = x
  BY <1>7 DEF Surjection
<1>9. Len(f) = n
  BY <1>4
<1> QED BY <1>3, <1>8, <1>9

(* What a squash holds: one CREATE TABLE for each table of a schema.       *)
Creates(s) ==
  LET present == {t \in Tables : s[t] # {}}
      create == [t \in Tables |-> CreateTable(t, s[t])]
  IN SetToSeq({create[t] : t \in present})

LEMMA CreatesFacts ==
  ASSUME NEW s \in Schemas
  PROVE  /\ Creates(s) \in Seq(Operations)
         /\ \A i \in 1..Len(Creates(s)) :
              /\ Creates(s)[i] \in Operations /\ Creates(s)[i].kind = "create"
              /\ Creates(s)[i].columns = s[Creates(s)[i].table] /\ s[Creates(s)[i].table] # {}
         /\ \A t \in Tables : s[t] # {} => \E i \in 1..Len(Creates(s)) : Creates(s)[i].table = t
<1> DEFINE present == {t \in Tables : s[t] # {}}
           create == [t \in Tables |-> CreateTable(t, s[t])]
           all == {create[t] : t \in present}
<1>1. all \subseteq Operations
  BY DEF Schemas, CreateTable, Operations
<1>2. IsFiniteSet(all)
  <2>1. IsFiniteSet(present)
    BY TablesAssumption, FS_Subset
  <2>2. [t \in present |-> create[t]] \in Surjection(present, all)
    BY DEF Surjection
  <2> HIDE DEF present, all, create
  <2> QED BY <2>1, <2>2, FS_Surjection
<1>3. PICK q : q = SetToSeq(all)
  OBVIOUS
<1>4. Creates(s) = q
  BY <1>3 DEF Creates
<1>5. q \in Seq(all)
  <2> HIDE DEF all
  <2> QED BY <1>2, <1>3, SequencesOfSets
<1>6. q \in Seq(Operations) /\ \A i \in 1..Len(q) : q[i] \in all
  <2> HIDE DEF all
  <2> QED BY <1>1, <1>5
<1>7. ASSUME NEW op \in all
      PROVE  op \in Operations /\ op.kind = "create" /\ op.columns = s[op.table] /\ s[op.table] # {}
  <2>1. PICK t \in present : op = create[t]
    OBVIOUS
  <2>2. op = CreateTable(t, s[t])
    BY <2>1
  <2> QED BY <1>1, <2>1, <2>2 DEF CreateTable
<1>8. ASSUME NEW t \in Tables, s[t] # {} PROVE \E i \in 1..Len(q) : q[i].table = t
  <2>1. create[t] \in all /\ create[t].table = t
    BY <1>8 DEF CreateTable
  <2> HIDE DEF all, create
  <2>2. \E i \in 1..Len(q) : q[i] = create[t]
    BY <1>2, <1>3, <2>1, SequencesHaveAll
  <2> QED BY <2>1, <2>2
<1> HIDE DEF all
<1>9. \A i \in 1..Len(q) : /\ q[i] \in Operations /\ q[i].kind = "create"
                           /\ q[i].columns = s[q[i].table] /\ s[q[i].table] # {}
  BY <1>6, <1>7
<1> QED BY <1>4, <1>6, <1>8, <1>9

LEMMA CreateRuns ==
  ASSUME NEW s, NEW op \in Operations, op.kind = "create"
  PROVE  /\ Executed(s, op) = [s EXCEPT ![op.table] = op.columns]
         /\ ApplyToState(s, op) = [s EXCEPT ![op.table] = op.columns]
         /\ Accepts(s, op) <=> s[op.table] = {}
  BY DEF Executed, ApplyToState, Accepts

(* On an empty database they build that schema.                            *)
LEMMA CreatesBuild ==
  ASSUME NEW s \in Schemas
  PROVE  Ran(NoSchema, Creates(s)) = s
<1>1. PICK q : q = Creates(s)
  OBVIOUS
<1>2. PICK n : n = Len(q)
  OBVIOUS
<1>3. NoSchema \in Schemas
  BY DEF NoSchema, Schemas
<1>4. /\ q \in Seq(Operations)
      /\ \A i \in 1..n : /\ q[i] \in Operations /\ q[i].kind = "create"
                         /\ q[i].columns = s[q[i].table] /\ s[q[i].table] # {}
      /\ \A t \in Tables : s[t] # {} => \E i \in 1..n : q[i].table = t
  BY <1>1, <1>2, CreatesFacts
<1>5. n \in Nat
  BY <1>2, <1>4
<1> DEFINE b == [j \in 0..n |-> Ran(NoSchema, SubSeq(q, 1, j))]
           c == [j \in 0..n |-> [t \in Tables |-> IF \E i \in 1..j : q[i].table = t THEN s[t] ELSE {}]]
<1>6. /\ b[0] = NoSchema /\ b[n] = Ran(NoSchema, q)
      /\ \A j \in 1..n : b[j - 1] \in Schemas /\ b[j] = Executed(b[j - 1], q[j])
  <2>1. /\ Ran(NoSchema, SubSeq(q, 1, 0)) = NoSchema /\ SubSeq(q, 1, n) = q
        /\ \A j \in 0..n : Ran(NoSchema, SubSeq(q, 1, j)) \in Schemas
        /\ \A j \in 1..n : Ran(NoSchema, SubSeq(q, 1, j)) = Executed(Ran(NoSchema, SubSeq(q, 1, j - 1)), q[j])
    BY <1>2, <1>3, <1>4, RanFacts
  <2>2. \A j \in 1..n : j \in 0..n /\ j - 1 \in 0..n
    BY <1>5
  <2>3. 0 \in 0..n /\ n \in 0..n
    BY <1>5
  <2> QED BY <2>1, <2>2, <2>3
<1> HIDE DEF b
<1>7. c[0] = NoSchema
  <2>1. 0 \in 0..n /\ ~\E i \in 1..0 : TRUE
    BY <1>5
  <2> QED BY <2>1 DEF NoSchema
<1>8. ASSUME NEW j \in 1..n, b[j - 1] = c[j - 1] PROVE b[j] = c[j]
  <2>1. j \in 0..n /\ j - 1 \in 0..n /\ \A i : i \in 1..j <=> i \in 1..(j - 1) \/ i = j
    BY <1>5
  <2>2. PICK u \in Tables : u = q[j].table
    BY <1>4 DEF Operations
  <2>3. b[j] = [b[j - 1] EXCEPT ![u] = s[u]] /\ b[j - 1] \in Schemas
    <3>1. b[j] = Executed(b[j - 1], q[j]) /\ b[j - 1] \in Schemas
      BY <1>6
    <3>2. q[j] \in Operations /\ q[j].kind = "create" /\ q[j].columns = s[u]
      BY <1>4, <2>2
    <3> QED BY <2>2, <3>1, <3>2, CreateRuns
  <2>4. c[j - 1] = [t \in Tables |-> IF \E i \in 1..(j - 1) : q[i].table = t THEN s[t] ELSE {}]
    BY <2>1
  <2>5. c[j] = [t \in Tables |-> IF \E i \in 1..j : q[i].table = t THEN s[t] ELSE {}]
    BY <2>1
  <2> HIDE DEF c
  <2>6. ASSUME NEW t \in Tables PROVE b[j][t] = c[j][t]
    <3>1. (\E i \in 1..j : q[i].table = t) <=> (\E i \in 1..(j - 1) : q[i].table = t) \/ u = t
      BY <2>1, <2>2
    <3>2. b[j][t] = IF u = t THEN s[t] ELSE b[j - 1][t]
      BY <2>3 DEF Schemas
    <3>3. b[j - 1][t] = IF \E i \in 1..(j - 1) : q[i].table = t THEN s[t] ELSE {}
      BY <1>8, <2>4
    <3>4. c[j][t] = IF \E i \in 1..j : q[i].table = t THEN s[t] ELSE {}
      BY <2>5
    <3> QED BY <3>1, <3>2, <3>3, <3>4
  <2>7. b[j] = [t \in Tables |-> b[j][t]]
    BY <2>3 DEF Schemas
  <2>8. c[j] = [t \in Tables |-> c[j][t]]
    BY <2>5
  <2> QED BY <2>6, <2>7, <2>8
<1>9. c[n] = s
  <2>1. n \in 0..n
    BY <1>5
  <2>2. c[n] = [t \in Tables |-> IF \E i \in 1..n : q[i].table = t THEN s[t] ELSE {}]
    BY <2>1
  <2> HIDE DEF c
  <2>3. \A t \in Tables : c[n][t] = s[t]
    BY <1>4, <2>2
  <2> QED BY <2>2, <2>3 DEF Schemas
<1> HIDE DEF c
<1>10. b[n] = c[n]
  <2>1. InStep(b, c, n)
    BY <1>6, <1>7, <1>8 DEF InStep
  <2>2. n \in 0..n
    BY <1>5
  <2> QED BY <1>5, <2>1, <2>2, ChainsAgree
<1> QED BY <1>1, <1>6, <1>9, <1>10

(* In a replay that has the schema already they change nothing.            *)
LEMMA CreatesAgain ==
  ASSUME NEW s \in Schemas, NEW m \in Migrations, m.operations = Creates(s)
  PROVE  ReplayOne(s, m) = s
<1>1. PICK q : q = Creates(s)
  OBVIOUS
<1>2. PICK n : n = Len(q)
  OBVIOUS
<1>3. /\ q \in Seq(Operations)
      /\ \A i \in 1..n : /\ q[i] \in Operations /\ q[i].kind = "create"
                         /\ q[i].columns = s[q[i].table]
  BY <1>1, <1>2, CreatesFacts
<1>4. n \in Nat /\ q \in [1..n -> Operations]
  BY <1>2, <1>3
<1>5. PICK a \in [0..n -> Schemas] :
        /\ a[0] = s /\ FoldLeft(ApplyToState, s, q) = a[n]
        /\ \A j \in 1..n : a[j] = ApplyToState(a[j - 1], q[j])
  BY <1>4, AppliedChain
<1> DEFINE b == [j \in 0..n |-> s]
<1>6. ASSUME NEW j \in 1..n, a[j - 1] = b[j - 1] PROVE a[j] = b[j]
  <2>1. j \in 0..n /\ j - 1 \in 0..n
    BY <1>4
  <2>2. PICK u \in Tables : u = q[j].table
    BY <1>3 DEF Operations
  <2>3. a[j] = [s EXCEPT ![u] = s[u]]
    <3>1. a[j] = ApplyToState(s, q[j])
      BY <1>5, <1>6, <2>1
    <3>2. q[j] \in Operations /\ q[j].kind = "create" /\ q[j].columns = s[u]
      BY <1>3, <2>2
    <3> QED BY <2>2, <3>1, <3>2, CreateRuns
  <2> QED BY <2>1, <2>3 DEF Schemas
<1>7. a[n] = s
  <2>1. n \in 0..n /\ 0 \in 0..n
    BY <1>4
  <2>2. InStep(a, b, n)
    BY <1>5, <1>6, <2>1 DEF InStep
  <2>3. a[n] = b[n]
    BY <1>4, <2>1, <2>2, ChainsAgree
  <2> QED BY <2>1, <2>3
<1> QED BY <1>1, <1>5, <1>7 DEF ReplayOne

(* The engine refuses them where a table of that schema is there.          *)
LEMMA CreatesClash ==
  ASSUME NEW s \in Schemas, NEW old \in Schemas, NEW t \in Tables, s[t] # {}, old[t] # {},
         \A i \in 1..Len(Creates(s)) : Accepts(Ran(old, SubSeq(Creates(s), 1, i - 1)), Creates(s)[i])
  PROVE  FALSE
<1>1. PICK q : q = Creates(s)
  OBVIOUS
<1>2. PICK n : n = Len(q)
  OBVIOUS
<1>3. /\ q \in Seq(Operations)
      /\ \A i \in 1..n : /\ q[i] \in Operations /\ q[i].kind = "create"
                         /\ q[i].columns = s[q[i].table] /\ s[q[i].table] # {}
      /\ \E i \in 1..n : q[i].table = t
  <2>1. \E i \in 1..n : q[i].table = t
    BY Zenon, <1>1, <1>2, CreatesFacts
  <2> QED BY <1>1, <1>2, <2>1, CreatesFacts
<1>4. n \in Nat
  BY <1>2, <1>3
<1>5. /\ Ran(old, SubSeq(q, 1, 0)) = old
      /\ \A j \in 0..n : Ran(old, SubSeq(q, 1, j)) \in Schemas
      /\ \A j \in 1..n : Ran(old, SubSeq(q, 1, j)) = Executed(Ran(old, SubSeq(q, 1, j - 1)), q[j])
  BY <1>2, <1>3, RanFacts
<1> DEFINE B == {j \in 0..n : Ran(old, SubSeq(q, 1, j))[t] # {}}
<1>6. 0 \in B
  BY <1>4, <1>5
<1>7. ASSUME NEW j \in 1..n, j - 1 \in B PROVE j \in B
  <2>1. j \in 0..n /\ j - 1 \in 0..n
    BY <1>4
  <2>2. PICK u \in Tables : u = q[j].table
    BY <1>3 DEF Operations
  <2>3. PICK d \in Schemas : d = Ran(old, SubSeq(q, 1, j - 1))
    BY <1>5, <2>1
  <2>4. Ran(old, SubSeq(q, 1, j)) = [d EXCEPT ![u] = s[u]]
    <3>1. Ran(old, SubSeq(q, 1, j)) = Executed(d, q[j])
      BY <1>5, <2>3
    <3>2. q[j] \in Operations /\ q[j].kind = "create" /\ q[j].columns = s[u]
      BY <1>3, <2>2
    <3> QED BY <2>2, <3>1, <3>2, CreateRuns
  <2>5. d[t] # {} /\ s[u] # {}
    BY <1>3, <1>7, <2>2, <2>3
  <2>6. [d EXCEPT ![u] = s[u]][t] # {}
    BY <2>5 DEF Schemas
  <2> QED BY <2>1, <2>4, <2>6
<1> HIDE DEF B
<1>8. \A j \in 0..n : j \in B
  BY <1>4, <1>6, <1>7, Climb
<1>9. PICK i \in 1..n : q[i].table = t
  BY <1>3
<1>10. Ran(old, SubSeq(q, 1, i - 1))[t] # {}
  <2>1. i - 1 \in 0..n
    BY <1>4
  <2> QED BY <1>8, <2>1 DEF B
<1>11. Accepts(Ran(old, SubSeq(q, 1, i - 1)), q[i])
  BY <1>1, <1>2
<1>12. q[i] \in Operations /\ q[i].kind = "create"
  BY <1>3
<1>13. Ran(old, SubSeq(q, 1, i - 1))[q[i].table] = {}
  BY <1>11, <1>12, CreateRuns
<1> QED BY <1>9, <1>10, <1>13

-----------------------------------------------------------------------------
(* With squashes, each of them of every file there was, the records can be  *)
(* relied on where the first statement of the history creates a table that  *)
(* stays: that is what makes the engine refuse a deploy that takes the      *)
(* other way, the squash or the originals, on a database under way.        *)
SquashesAreWhole ==
  /\ \A i \in DOMAIN Files : Files[i].replaces = {}
  /\ \A u \in SquashPoints : u >= Len(Files)
FirstTableStays ==
  /\ Files # <<>> /\ Files[1].operations # <<>>
  /\ LET first == Files[1].operations[1]
     IN /\ first.kind = "create"
        /\ \A n \in 1..Len(Files) : Replay(SubSeq(Files, 1, n))[first.table] # {}

(* The directory then: the files it began with, and squashes that build    *)
(* what those build.                                                       *)
Origin == Len(Files)
WholeInv ==
  /\ Origin <= Len(files) /\ \A i \in 1..Origin : files[i] = Files[i]
  /\ \A i \in (Origin + 1)..Len(files) :
       /\ files[i].operations = Creates(Replay(Files))
       /\ \E u \in Origin..Len(files) : files[i].replaces = 1..u
Along(j) == Replay(SubSeq(Files, 1, IF j <= Origin THEN j ELSE Origin))

LEMMA OriginFacts ==
  /\ Files \in Seq(Migrations) /\ Origin \in Nat /\ DOMAIN Files = 1..Origin
  /\ SubSeq(Files, 1, Origin) = Files
  /\ \A i \in 1..Origin : Files[i].version = i /\ Files[i] \in Migrations
<1>1. Files \in Seq(Migrations)
  BY FilesAssumption DEF Migrations
<1>2. Origin \in Nat /\ DOMAIN Files = 1..Origin /\ \A i \in 1..Origin : Files[i] \in Migrations
  <2> HIDE DEF Migrations
  <2> QED BY <1>1 DEF Origin
<1>3. SubSeq(Files, 1, Origin) = Files
  BY <1>1, ReplayPrefix DEF Origin
<1> QED BY <1>1, <1>2, <1>3, FilesAssumption

(* Its replay is that of the files it began with, at every length.         *)
LEMMA WholeReplay ==
  ASSUME files \in Seq(Migrations), WholeInv
  PROVE  \A j \in 0..Len(files) : Replay(SubSeq(files, 1, j)) = Along(j)
<1>1. PICK l : l = Len(files)
  OBVIOUS
<1>2. l \in Nat /\ Origin \in Nat /\ Origin <= l /\ \A j \in 1..l : files[j] \in Migrations
  <2> HIDE DEF Migrations
  <2> QED BY <1>1, OriginFacts DEF WholeInv
<1> DEFINE a == [j \in 0..l |-> Replay(SubSeq(files, 1, j))]
           b == [j \in 0..l |-> Along(j)]
<1>3. a[0] = NoSchema /\ \A j \in 1..l : a[j] = ReplayOne(a[j - 1], files[j])
  <2>1. /\ Replay(SubSeq(files, 1, 0)) = NoSchema
        /\ \A j \in 1..l : Replay(SubSeq(files, 1, j)) = ReplayOne(Replay(SubSeq(files, 1, j - 1)), files[j])
    BY <1>1, ReplayPrefix
  <2>2. 0 \in 0..l /\ \A j \in 1..l : j \in 0..l /\ j - 1 \in 0..l
    BY <1>2
  <2> QED BY <2>1, <2>2
<1>4. /\ Replay(SubSeq(Files, 1, 0)) = NoSchema
      /\ \A j \in 1..Origin : Replay(SubSeq(Files, 1, j)) = ReplayOne(Replay(SubSeq(Files, 1, j - 1)), Files[j])
  BY OriginFacts, ReplayPrefix DEF Origin
<1>5. b[0] = NoSchema
  <2>1. 0 \in 0..l /\ 0 <= Origin
    BY <1>2
  <2> QED BY <1>4, <2>1 DEF Along
<1>6. ASSUME NEW j \in 1..l PROVE b[j] = ReplayOne(b[j - 1], files[j])
  <2>1. j \in 0..l /\ j - 1 \in 0..l
    BY <1>2
  <2>2. CASE j <= Origin
    <3>1. j \in 1..Origin /\ j - 1 <= Origin
      BY <1>2, <2>2
    <3>2. b[j] = Replay(SubSeq(Files, 1, j)) /\ b[j - 1] = Replay(SubSeq(Files, 1, j - 1))
      BY <2>1, <2>2, <3>1 DEF Along
    <3>3. files[j] = Files[j]
      BY <3>1 DEF WholeInv
    <3> QED BY <1>4, <3>1, <3>2, <3>3
  <2>3. CASE ~(j <= Origin)
    <3>1. j \in (Origin + 1)..l /\ (j - 1 <= Origin => j - 1 = Origin)
      BY <1>2, <2>3
    <3>2. b[j] = Replay(Files) /\ b[j - 1] = Replay(Files)
      BY <2>1, <2>3, <3>1, OriginFacts DEF Along
    <3>3. files[j].operations = Creates(Replay(Files))
      BY <1>1, <3>1 DEF WholeInv
    <3>4. ReplayOne(Replay(Files), files[j]) = Replay(Files)
      BY <1>2, <3>3, OriginFacts, ReplayType, CreatesAgain
    <3> QED BY <3>2, <3>4
  <2> QED BY <2>2, <2>3
<1> HIDE DEF a, b
<1>7. InStep(a, b, l)
  BY <1>3, <1>5, <1>6 DEF InStep
<1>8. \A j \in 0..l : a[j] = b[j]
  BY <1>2, <1>7, ChainsAgree
<1> QED BY <1>1, <1>8 DEF a, b

LEMMA WholeStep ==
  ASSUME SquashesAreWhole, PlaceInv, WholeInv, [Next]_vars
  PROVE  WholeInv'
<1>0. files \in Seq(Migrations) /\ Origin \in Nat
  BY OriginFacts DEF PlaceInv, LoadInv, FilesInv
<1>1. CASE files' = files
  BY <1>1 DEF WholeInv
<1>2. CASE \E u \in SquashPoints : SquashUntil(u)
  <2>1. PICK u \in SquashPoints : SquashUntil(u)
    BY <1>2
  <2>2. PICK n, m :
          /\ n = Len(files) /\ n \in Nat /\ u \in 1..n
          /\ m.replaces = 1..u /\ m.operations = CreateAll(SubSeq(files, 1, u))
          /\ Len(files') = n + 1 /\ files'[n + 1] = m /\ \A i \in 1..n : files'[i] = files[i]
    BY <2>1, SquashAdds
  <2>3. u >= Origin
    BY DEF SquashesAreWhole, Origin
  <2>4. Replay(SubSeq(files, 1, u)) = Replay(Files)
    <3>1. u \in 0..n
      BY <2>2
    <3>2. Replay(SubSeq(files, 1, u)) = Along(u)
      BY <1>0, <2>2, <3>1, WholeReplay
    <3>3. (IF u <= Origin THEN u ELSE Origin) = Origin
      BY <1>0, <2>2, <2>3
    <3>4. Along(u) = Replay(SubSeq(Files, 1, Origin))
      BY Zenon, <3>3 DEF Along
    <3> QED BY <3>2, <3>4, OriginFacts
  <2>5. m.operations = Creates(Replay(Files))
    BY <2>2, <2>4 DEF CreateAll, Creates
  <2>6. Origin <= n + 1 /\ \A i \in 1..Origin : i \in 1..n
    BY <1>0, <2>2 DEF WholeInv
  <2>7. ASSUME NEW i \in (Origin + 1)..(n + 1)
        PROVE  /\ files'[i].operations = Creates(Replay(Files))
               /\ \E v \in Origin..(n + 1) : files'[i].replaces = 1..v
    <3>1. CASE i = n + 1
      <4>1. u \in Origin..(n + 1)
        BY <1>0, <2>2, <2>3
      <4> QED BY <2>2, <2>5, <3>1, <4>1
    <3>2. CASE i # n + 1
      <4>1. i \in (Origin + 1)..n /\ i \in 1..n /\ \A v \in Origin..n : v \in Origin..(n + 1)
        BY <1>0, <2>2, <3>2
      <4> QED BY <2>2, <4>1 DEF WholeInv
    <3> QED BY <3>1, <3>2
  <2> QED BY <2>2, <2>6, <2>7 DEF WholeInv
<1> QED BY <1>1, <1>2, OnlySquashesWrite

-----------------------------------------------------------------------------
(* A deploy runs or marks nothing that a file it loaded replaces.          *)
ChosenOf(r) ==
  step[r] \in {"running", "marking", "committing"} => Current(r).version \notin Replaced(r)
ChosenInv == \A r \in Runners : ChosenOf(r)

LEMMA ChosenInit == Init => ChosenInv
  BY DEF Init, ChosenInv, ChosenOf

LEMMA ChosenStep ==
  ASSUME PlaceInv, ChosenInv, [Next]_vars
  PROVE  ChosenInv'
<1> USE DEF GoTo
<1>1. ASSUME NEW r \in Runners, Load(r) \/ Migrate(r) \/ Rollback(r) \/ EngineFails(r) \/ Crash(r),
             NEW q \in Runners
      PROVE  ChosenOf(q)'
  <2>0. ChosenOf(q) /\ Apart(r)
    BY <1>1, OthersStand DEF ChosenInv
  <2>1. ASSUME step'[q] = step[q], at'[q] = at[q], batch'[q] = batch[q] PROVE ChosenOf(q)'
    <3>1. Current(q)' = Current(q) /\ Replaced(q)' = Replaced(q)
      BY <2>1 DEF Current, Replaced
    <3> QED BY <2>0, <2>1, <3>1 DEF ChosenOf
  <2>2. CASE q # r
    BY <2>0, <2>1, <2>2 DEF Apart
  <2>3. CASE q = r
    <3>1. CASE \/ Load(r) \/ EnsureTracking(r) \/ ReadApplied(r) \/ Skip(r) \/ RaiseHalfWay(r)
               \/ Finish(r) \/ CommitMigration(r) \/ Raise(r) \/ ReadLast(r) \/ Unrecord(r)
               \/ CommitRollback(r) \/ EngineFails(r) \/ Crash(r) \/ Backward(r)
      <4>1. step'[r] \notin {"running", "marking", "committing"}
        BY <3>1 DEF Load, EnsureTracking, ReadApplied, Skip, Choosing, RaiseHalfWay, Finish,
           CommitMigration, Raise, ReadLast, Unrecord, CommitRollback, EngineFails, Crash, Backward,
           PlaceInv
      <4> QED BY <2>3, <4>1 DEF ChosenOf
    <3>2. CASE StartMarking(r) \/ StartRunning(r)
      <4>1. batch' = batch /\ at' = at /\ ~Skips(r)
        BY <3>2 DEF StartMarking, StartRunning, Pending
      <4>2. Current(r)' = Current(r) /\ Replaced(r)' = Replaced(r)
        BY <4>1 DEF Current, Replaced
      <4> QED BY <2>3, <4>1, <4>2 DEF Skips, ChosenOf
    <3>3. CASE Forward(r) \/ Record(r)
      <4>1. batch' = batch /\ at' = at /\ step[r] \in {"running", "marking"}
        BY <3>3 DEF Forward, Record
      <4>2. Current(r)' = Current(r) /\ Replaced(r)' = Replaced(r)
        BY <4>1 DEF Current, Replaced
      <4> QED BY <2>0, <2>3, <4>1, <4>2 DEF ChosenOf
    <3> QED BY <1>1, <3>1, <3>2, <3>3 DEF Migrate, Rollback
  <2> QED BY <2>2, <2>3
<1>2. CASE UNCHANGED vars \/ \E u \in SquashPoints : SquashUntil(u)
  <2>1. UNCHANGED <<step, batch, at>>
    BY <1>2 DEF vars, runnerVars, SquashUntil
  <2> QED BY <2>1 DEF ChosenInv, ChosenOf, Current, Replaced
<1> QED BY <1>1, <1>2 DEF Next, ChosenInv

-----------------------------------------------------------------------------
(* The first n originals and the squashes of S are recorded; with a squash, *)
(* none of the originals or all of them, and the schema they all make.     *)
InOrderOrSquashed(n, S) ==
  /\ n \in 0..Origin /\ S \subseteq (Origin + 1)..Len(files) /\ db.tracked = (1..n) \cup S
  /\ S # {} => n = 0 \/ n = Origin
  /\ db.schema = Along(IF S = {} THEN n ELSE Origin)
SquashedInv == WholeInv /\ \E n, S : InOrderOrSquashed(n, S)

LEMMA SquashedInit ==
  ASSUME Init PROVE SquashedInv
<1>1. Origin \in Nat /\ Files \in Seq(Migrations)
  BY OriginFacts
<1>2. WholeInv
  <2>1. ~\E i \in (Origin + 1)..Origin : TRUE
    BY <1>1
  <2> QED BY <1>1, <2>1 DEF Init, WholeInv, Origin
<1>3. Along(0) = NoSchema
  <2>1. 0 <= Origin
    BY <1>1
  <2> QED BY <1>1, <2>1, ReplayPrefix DEF Along
<1>4. 0 \in 0..Origin /\ 1..0 = {}
  BY <1>1
<1>5. InOrderOrSquashed(0, {})
  BY <1>3, <1>4 DEF Init, EmptyDatabase, InOrderOrSquashed
<1> QED BY <1>2, <1>5 DEF SquashedInv

(* The table of the first statement is there once an original has run.     *)
LEMMA FirstTable ==
  ASSUME FirstTableStays
  PROVE  /\ 1 \in 1..Origin
         /\ \E t \in Tables :
              /\ Files[1].operations \in Seq(Operations) /\ 1 \in 1..Len(Files[1].operations)
              /\ Files[1].operations[1].kind = "create" /\ Files[1].operations[1].table = t
              /\ \A j \in 0..Origin : j # 0 => Along(j)[t] # {}
<1>1. Files \in Seq(Migrations) /\ Origin \in Nat
  BY OriginFacts
<1>2. 1 \in 1..Origin
  <2> HIDE DEF Migrations
  <2> QED BY <1>1 DEF FirstTableStays, Origin
<1>3. PICK ops : ops = Files[1].operations
  OBVIOUS
<1>4. ops \in Seq(Operations)
  BY <1>2, <1>3, OriginFacts DEF Migrations
<1>5. 1 \in 1..Len(ops) /\ ops[1] \in Operations
  BY <1>3, <1>4 DEF FirstTableStays
<1>6. PICK t \in Tables : t = ops[1].table
  BY <1>5 DEF Operations
<1>7. ASSUME NEW j \in 0..Origin, j # 0 PROVE Along(j)[t] # {}
  <2>1. j \in 1..Origin /\ j <= Origin
    BY <1>1, <1>7
  <2> QED BY <1>3, <1>6, <2>1 DEF FirstTableStays, Along, Origin
<1> QED BY <1>2, <1>3, <1>4, <1>5, <1>6, <1>7 DEF FirstTableStays

(* An original that went through is the next of the originals, and no       *)
(* squash is recorded: on the finished schema its first statement fails.   *)
LEMMA OriginalCommits ==
  ASSUME Transactional, SquashesAreWhole, FirstTableStays, PlaceInv, WorkInv, SettledInv, ChosenInv,
         WholeInv, NEW n, NEW S, InOrderOrSquashed(n, S),
         NEW r \in Runners, CommitMigration(r), Current(r).version \in 1..Origin
  PROVE  InOrderOrSquashed(n + 1, {})' /\ n + 1 \in 0..Origin
<1>0. LoadInv /\ files \in Seq(Migrations) /\ Origin \in Nat /\ n \in 0..Origin /\ n \in Nat
  <2>1. LoadInv /\ files \in Seq(Migrations)
    BY DEF PlaceInv, LoadInv, FilesInv
  <2>2. Origin \in Nat /\ n \in 0..Origin
    BY OriginFacts DEF InOrderOrSquashed
  <2> QED BY <2>1, <2>2
<1>1. /\ db' = tx[r] /\ step[r] = "committing" /\ step[r] \in OnFile /\ files' = files
      /\ Applied(tx[r], db, Current(r)) \/ Marked(tx[r], db, Current(r))
  BY CommitFacts DEF CommitMigration
<1>2. PICK i : i = at[r]
  OBVIOUS
<1>3. PICK m : m = Current(r)
  OBVIOUS
<1>4. /\ i \in 1..Len(files) /\ m = files[i] /\ m.version = i /\ m \in Migrations
      /\ m.operations \in Seq(Operations)
  BY <1>0, <1>1, <1>2, <1>3, OnFileFacts
<1>5. i \in 1..Origin /\ m = Files[i] /\ m.replaces = {}
  BY <1>3, <1>4, OriginFacts DEF WholeInv, SquashesAreWhole
<1>6. Applied(tx[r], db, m)
  BY <1>1, <1>3, <1>5 DEF Marked
<1>7. Replaced(r) \cap (1..Origin) = {}
  <2> SUFFICES ASSUME NEW v \in 1..Origin, v \in Replaced(r) PROVE FALSE
    OBVIOUS
  <2>1. batch[r] \in Seq(Migrations)
    BY <1>0 DEF LoadInv
  <2>2. DOMAIN batch[r] = 1..Len(batch[r])
    <3> HIDE DEF Migrations
    <3> QED BY <2>1
  <2>3. PICK j \in 1..Len(batch[r]) : v \in batch[r][j].replaces
    BY <2>2 DEF Replaced, Range
  <2>4. batch[r][j] = files[j] /\ j \in 1..Len(files)
    BY <1>0, InHand
  <2>5. CASE j \in 1..Origin
    BY <2>3, <2>4, <2>5, OriginFacts DEF WholeInv, SquashesAreWhole
  <2>6. CASE j \notin 1..Origin
    <3>1. j \in (Origin + 1)..Len(files)
      BY <1>0, <2>4, <2>6
    <3>2. PICK u \in Origin..Len(files) : files[j].replaces = 1..u
      BY <3>1 DEF WholeInv
    <3>3. i \in 1..u
      BY <1>0, <1>5, <3>2
    <3>4. i \in Replaced(r)
      BY <2>2, <2>4, <3>2, <3>3 DEF Replaced, Range
    <3> QED BY <1>1, <1>3, <1>4, <3>4 DEF ChosenInv, ChosenOf
  <2> QED BY <2>5, <2>6
<1>8. db.tracked = (1..n) \cup S /\ S \subseteq (Origin + 1)..Len(files)
  BY DEF InOrderOrSquashed
<1>9. \A j \in 1..(i - 1) : j \in 1..n
  <2> SUFFICES ASSUME NEW j \in 1..(i - 1) PROVE j \in 1..n
    OBVIOUS
  <2>1. j \in 1..Origin /\ j \notin (Origin + 1)..Len(files)
    BY <1>0, <1>5
  <2>2. j \in db.tracked
    BY <1>1, <1>2, <1>7, <2>1 DEF SettledInv, SettledOf
  <2> QED BY <1>8, <2>1, <2>2
<1>10. i \notin db.tracked
  BY <1>4, <1>6 DEF Applied
<1>11. i = n + 1
  <2>1. i \notin 1..n
    BY <1>8, <1>10
  <2>2. CASE i - 1 = 0
    BY <1>0, <1>5, <2>1, <2>2
  <2>3. CASE i - 1 # 0
    <3>1. i - 1 \in 1..(i - 1)
      BY <1>5, <2>3
    <3>2. i - 1 \in 1..n
      BY <1>9, <3>1
    <3> QED BY <1>0, <1>5, <2>1, <3>2
  <2> QED BY <2>2, <2>3
<1>12. PICK s : s = db.schema
  OBVIOUS
<1>13. s \in Schemas
  BY <1>12 DEF PlaceInv, Databases
<1>14. /\ Ran(s, SubSeq(m.operations, 1, 0)) = s
       /\ SubSeq(m.operations, 1, Len(m.operations)) = m.operations
  BY <1>4, <1>13, RanFacts
<1>15. /\ db'.schema = Ran(s, m.operations)
       /\ \A j \in 1..Len(m.operations) : Accepts(Ran(s, SubSeq(m.operations, 1, j - 1)), m.operations[j])
  BY <1>1, <1>6, <1>12, <1>14 DEF Applied, Did
<1>16. S = {}
  <2> SUFFICES ASSUME S # {} PROVE FALSE
    OBVIOUS
  <2>1. n = 0 /\ i = 1
    BY <1>0, <1>5, <1>11 DEF InOrderOrSquashed
  <2>2. PICK t \in Tables :
          /\ 1 \in 1..Len(m.operations)
          /\ m.operations[1].kind = "create" /\ m.operations[1].table = t
          /\ Along(Origin)[t] # {}
    <3>1. Origin \in 0..Origin /\ Origin # 0
      BY <1>0, <1>5
    <3> QED BY <1>5, <2>1, <3>1, FirstTable
  <2>3. s[t] # {}
    BY <1>12, <2>2 DEF InOrderOrSquashed
  <2>4. Accepts(s, m.operations[1])
    <3>1. 1 - 1 = 0
      OBVIOUS
    <3> QED BY <1>14, <1>15, <2>2, <3>1
  <2> QED BY <2>2, <2>3, <2>4 DEF Accepts
<1>17. db'.tracked = 1..(n + 1)
  <2>1. db'.tracked = (1..n) \cup {i}
    BY <1>1, <1>4, <1>6, <1>8, <1>16 DEF Applied
  <2> QED BY <1>0, <1>11, <2>1
<1>18. db'.schema = ReplayOne(s, m)
  BY <1>4, <1>13, <1>15, AcceptedIsReplayed
<1>19. n + 1 \in 0..Origin /\ n + 1 \in 1..Origin /\ n + 1 <= Origin /\ n <= Origin
  BY <1>0, <1>5, <1>11
<1>20. Along(i) = ReplayOne(s, m)
  <2>1. \A j \in 1..Origin :
          Replay(SubSeq(Files, 1, j)) = ReplayOne(Replay(SubSeq(Files, 1, j - 1)), Files[j])
    BY OriginFacts, ReplayPrefix DEF Origin
  <2>2. s = Replay(SubSeq(Files, 1, n))
    BY <1>12, <1>16, <1>19 DEF InOrderOrSquashed, Along
  <2>3. i - 1 = n /\ i <= Origin
    BY <1>0, <1>11, <1>19
  <2>4. Replay(SubSeq(Files, 1, i)) = ReplayOne(s, m)
    <3>1. Replay(SubSeq(Files, 1, i)) = ReplayOne(Replay(SubSeq(Files, 1, i - 1)), m)
      BY Zenon, <1>5, <2>1
    <3> QED BY Zenon, <2>2, <2>3, <3>1
  <2> QED BY <1>11, <2>3, <2>4 DEF Along
<1> QED BY <1>11, <1>17, <1>18, <1>19, <1>20 DEF InOrderOrSquashed, Along

(* A squash that went through was marked on the finished schema or built it *)
(* on an empty one: anywhere else one of its tables was there.             *)
LEMMA SquashCommits ==
  ASSUME Transactional, SquashesAreWhole, FirstTableStays, PlaceInv, WorkInv,
         WholeInv, NEW n, NEW S, InOrderOrSquashed(n, S),
         NEW r \in Runners, CommitMigration(r), Current(r).version \notin 1..Origin,
         NEW i, i = at[r]
  PROVE  InOrderOrSquashed(n, S \cup {i})'
<1>0. LoadInv /\ files \in Seq(Migrations) /\ Origin \in Nat /\ n \in 0..Origin /\ n \in Nat
  <2>1. LoadInv /\ files \in Seq(Migrations)
    BY DEF PlaceInv, LoadInv, FilesInv
  <2>2. Origin \in Nat /\ n \in 0..Origin
    BY OriginFacts DEF InOrderOrSquashed
  <2> QED BY <2>1, <2>2
<1>1. /\ db' = tx[r] /\ step[r] = "committing" /\ step[r] \in OnFile /\ files' = files
      /\ Applied(tx[r], db, Current(r)) \/ Marked(tx[r], db, Current(r))
  BY CommitFacts DEF CommitMigration
<1>2. PICK m : m = Current(r)
  OBVIOUS
<1>3. i \in 1..Len(files) /\ m = files[i] /\ m.version = i /\ m.operations \in Seq(Operations)
  BY <1>0, <1>1, <1>2, OnFileFacts
<1>4. i \in (Origin + 1)..Len(files)
  BY <1>0, <1>2, <1>3
<1>5. PICK u \in Origin..Len(files) : m.replaces = 1..u /\ m.operations = Creates(Replay(Files))
  BY <1>3, <1>4 DEF WholeInv
<1>6. db.tracked = (1..n) \cup S /\ S \subseteq (Origin + 1)..Len(files)
  BY DEF InOrderOrSquashed
<1>7. db'.tracked = (1..n) \cup (S \cup {i})
  BY <1>1, <1>2, <1>3, <1>6 DEF Applied, Marked
<1>8. PICK s : s = db.schema
  OBVIOUS
<1>9. s \in Schemas /\ Replay(Files) \in Schemas
  BY <1>8, OriginFacts, ReplayType DEF PlaceInv, Databases
<1>10. Along(Origin) = Replay(Files)
  <2>1. Origin <= Origin
    BY <1>0
  <2> QED BY <2>1, OriginFacts DEF Along
<1>11. ASSUME db'.schema = Along(Origin), n = 0 \/ n = Origin
      PROVE  InOrderOrSquashed(n, S \cup {i})'
  <2>1. S \cup {i} # {} /\ S \cup {i} \subseteq (Origin + 1)..Len(files)
    BY <1>4, <1>6
  <2> QED BY <1>0, <1>1, <1>11, <1>7, <2>1 DEF InOrderOrSquashed, Along
<1>12. CASE Marked(tx[r], db, m)
  <2>1. 1..Origin \subseteq 1..n
    <3>1. 1..u \subseteq (1..n) \cup S
      BY <1>5, <1>6, <1>12 DEF Marked
    <3>2. ASSUME NEW j \in 1..Origin PROVE j \in 1..n
      <4>1. j \in 1..u /\ j \notin (Origin + 1)..Len(files)
        BY <1>0, <1>5
      <4> QED BY <1>6, <3>1, <4>1
    <3> QED BY <3>2
  <2>2. n = Origin
    <3>1. CASE Origin = 0
      BY <1>0, <3>1
    <3>2. CASE Origin # 0
      <4>1. Origin \in 1..Origin
        BY <1>0, <3>2
      <4>2. Origin \in 1..n
        BY <2>1, <4>1
      <4> QED BY <1>0, <4>2
    <3> QED BY <3>1, <3>2
  <2>3. db'.schema = Along(Origin)
    BY <1>1, <1>12, <2>2 DEF Marked, InOrderOrSquashed
  <2> QED BY <1>11, <2>2, <2>3
<1>13. CASE Applied(tx[r], db, m)
  <2>1. SubSeq(m.operations, 1, Len(m.operations)) = m.operations
    BY <1>3, <1>9, RanFacts
  <2>2. /\ db'.schema = Ran(s, m.operations)
        /\ \A j \in 1..Len(m.operations) : Accepts(Ran(s, SubSeq(m.operations, 1, j - 1)), m.operations[j])
    BY <1>1, <1>8, <1>13, <2>1 DEF Applied, Did
  <2>3. PICK t \in Tables : \A j \in 0..Origin : j # 0 => Along(j)[t] # {}
    BY FirstTable
  <2>4. Origin \in 0..Origin /\ Origin # 0
    BY <1>0, FirstTable
  <2>5. S = {} /\ n = 0
    <3> SUFFICES ASSUME ~(S = {} /\ n = 0) PROVE FALSE
      OBVIOUS
    <3>1. s[t] # {}
      BY <1>0, <1>8, <2>3, <2>4 DEF InOrderOrSquashed
    <3>2. Replay(Files)[t] # {}
      BY <1>10, <2>3, <2>4
    <3> QED BY <1>5, <1>9, <2>2, <3>1, <3>2, CreatesClash
  <2>6. s = NoSchema
    <3>1. 0 <= Origin /\ Files \in Seq(Migrations)
      BY <1>0, OriginFacts
    <3> QED BY <1>8, <2>5, <3>1, ReplayPrefix DEF InOrderOrSquashed, Along
  <2>7. db'.schema = Along(Origin)
    BY <1>5, <1>9, <1>10, <2>2, <2>6, CreatesBuild
  <2> QED BY <1>11, <2>5, <2>7
<1> QED BY <1>1, <1>2, <1>12, <1>13

LEMMA SquashedStep ==
  ASSUME Transactional, "rollback" \notin Allowed, SquashesAreWhole, FirstTableStays,
         PlaceInv, WorkInv, SettledInv, ChosenInv, SquashedInv, [Next]_vars
  PROVE  SquashedInv'
<1>1. WholeInv /\ WholeInv'
  BY WholeStep DEF SquashedInv
<1>2. PICK n, S : InOrderOrSquashed(n, S)
  BY DEF SquashedInv
<1>3. CASE db' = db
  <2>1. \A j \in (Origin + 1)..Len(files) : j \in (Origin + 1)..Len(files')
    <3>1. Len(files) \in Nat /\ Len(files') \in Nat /\ Len(files) <= Len(files')
      <4>1. files \in Seq(Migrations)
        BY DEF PlaceInv, LoadInv, FilesInv
      <4>2. Len(files) \in Nat
        <5> HIDE DEF Migrations
        <5> QED BY <4>1
      <4>3. ASSUME NEW u \in SquashPoints, SquashUntil(u) PROVE Len(files') = Len(files) + 1
        BY <4>3, SquashAdds
      <4> QED BY <4>2, <4>3, OnlySquashesWrite
    <3> QED BY <3>1, OriginFacts
  <2>2. InOrderOrSquashed(n, S)'
    BY <1>2, <1>3, <2>1 DEF InOrderOrSquashed, Along
  <2> QED BY <1>1, <2>2 DEF SquashedInv
<1>4. ASSUME NEW r \in Runners, CommitMigration(r) PROVE SquashedInv'
  <2>1. \E p, T : InOrderOrSquashed(p, T)'
    <3>1. CASE Current(r).version \in 1..Origin
      BY <1>1, <1>2, <1>4, <3>1, OriginalCommits
    <3>2. CASE Current(r).version \notin 1..Origin
      <4>1. PICK i : i = at[r]
        OBVIOUS
      <4>2. InOrderOrSquashed(n, S \cup {i})'
        BY <1>1, <1>2, <1>4, <3>2, <4>1, SquashCommits
      <4> QED BY <4>2
    <3> QED BY <3>1, <3>2
  <2> QED BY <1>1, <2>1 DEF SquashedInv
<1>5. ASSUME NEW r \in Runners, CommitRollback(r) PROVE FALSE
  <2>1. PlaceOf(r)
    BY DEF PlaceInv
  <2> QED BY <1>5, <2>1 DEF CommitRollback, PlaceOf, Undos
<1> QED BY <1>3, <1>4, <1>5, OnlyCommits

(* The same two with squashes, of the whole history and as many as one     *)
(* likes, added at any moment of any number of deploys, on databases that   *)
(* are new, half-way or up to date: the recorded files stand for the schema *)
(* the database has, and once nothing is pending that is the schema         *)
(* makemigrations compares the models with.                                *)
THEOREM SquashingKeepsTheSchema ==
  ASSUME Transactional, "rollback" \notin Allowed, SquashesAreWhole, FirstTableStays
  PROVE  Spec => [](SchemaMatchesRecords /\ ReplayMatchesDatabase)
<1> DEFINE Inv == PlaceInv /\ WorkInv /\ SettledInv /\ ChosenInv /\ SquashedInv
<1>0. Alone
  BY DEF Alone
<1>1. Init => Inv
  BY PlaceInit, WorkInit, SettledInit, ChosenInit, SquashedInit DEF Init
<1>2. Inv /\ [Next]_vars => Inv'
  BY <1>0, PlaceStep, WorkStep, SettledStep, ChosenStep, SquashedStep
<1>3. Inv => SchemaMatchesRecords /\ ReplayMatchesDatabase
  <2> SUFFICES ASSUME Inv PROVE SchemaMatchesRecords /\ ReplayMatchesDatabase
    OBVIOUS
  <2>1. files \in Seq(Migrations) /\ WholeInv /\ \A i \in 1..Len(files) : files[i].version = i
    BY DEF PlaceInv, LoadInv, FilesInv, SquashedInv
  <2>2. PICK n, S : InOrderOrSquashed(n, S)
    BY DEF SquashedInv
  <2>3. PICK l : l = Len(files)
    OBVIOUS
  <2>4. /\ l \in Nat /\ Origin \in Nat /\ Origin <= l /\ DOMAIN files = 1..l
        /\ n \in 0..Origin /\ S \subseteq (Origin + 1)..l /\ db.tracked = (1..n) \cup S
    <3> HIDE DEF Migrations
    <3> QED BY <2>1, <2>2, <2>3, OriginFacts DEF WholeInv, InOrderOrSquashed
  <2>5. PICK p : p = IF S = {} THEN n ELSE Origin
    OBVIOUS
  <2>6. p \in 0..Origin /\ p \in 0..l /\ db.schema = Along(p) /\ Replay(SubSeq(files, 1, p)) = Along(p)
    <3>1. p \in 0..Origin /\ p \in 0..l /\ db.schema = Along(p)
      BY <2>2, <2>4, <2>5 DEF InOrderOrSquashed
    <3> QED BY <2>1, <2>3, <3>1, WholeReplay
  <2>7. ASSUME NEW i \in 1..Origin
        PROVE  files[i].replaces = {} /\ i \in 1..l /\ i \notin (Origin + 1)..l
    BY <2>1, <2>4, OriginFacts DEF WholeInv, SquashesAreWhole
  <2>8. ASSUME NEW i \in (Origin + 1)..l
        PROVE  \E u \in Origin..l : files[i].replaces = 1..u
    BY <2>1, <2>3 DEF WholeInv
  <2>9. ASSUME NEW i \in 1..l, files[i].replaces = {} PROVE i \in 1..Origin
    <3> SUFFICES ASSUME i \notin 1..Origin PROVE FALSE
      OBVIOUS
    <3>1. i \in (Origin + 1)..l
      BY <2>4
    <3>2. PICK u \in Origin..l : 1..u = {}
      BY <2>8, <2>9, <3>1
    <3>3. 1 \in 1..u
      BY <2>4, FirstTable
    <3> QED BY <3>2, <3>3
  <2>10. ASSUME NEW i \in 1..Origin
         PROVE  Covered(files, i, db.tracked) <=> i \in 1..p
    <3>1. CASE S = {}
      <4>1. ASSUME NEW j \in 1..l, j \in db.tracked PROVE i \notin files[j].replaces
        BY <2>4, <2>7, <3>1, <4>1
      <4>2. Covered(files, i, db.tracked) <=> i \in db.tracked
        BY <2>1, <2>3, <2>4, <4>1 DEF Covered, Range
      <4> QED BY <2>4, <2>5, <3>1, <4>2
    <3>2. CASE S # {}
      <4>1. PICK j \in S : TRUE
        BY <3>2
      <4>2. j \in (Origin + 1)..l /\ j \in 1..l /\ j \in db.tracked
        BY <2>4
      <4>3. PICK u \in Origin..l : files[j].replaces = 1..u
        BY <2>8, <4>2
      <4>4. i \in 1..u
        BY <2>4, <4>3
      <4> QED BY <2>1, <2>3, <2>4, <2>5, <3>2, <4>2, <4>3, <4>4 DEF Covered, Range
    <3> QED BY <3>1, <3>2
  <2>11. SchemaMatchesRecords
    <3>1. ASSUME NEW i \in 1..l
          PROVE  files[i].replaces = {} /\ Covered(files, files[i].version, db.tracked) <=> i \in 1..p
      <4>1. files[i].version = i /\ (i \in 1..p => i \in 1..Origin)
        BY <2>1, <2>3, <2>4, <2>6
      <4> QED BY <2>7, <2>9, <2>10, <4>1
    <3>2. Expected(files, db.tracked) = Replay(SubSeq(files, 1, p))
      BY <2>1, <2>3, <2>6, <3>1, ExpectedOfPrefix
    <3> QED BY <2>6, <3>2 DEF SchemaMatchesRecords
  <2>12. ASSUME UpToDate(files, db.tracked) PROVE db.schema = Replay(files)
    <3>1. Origin \in 1..Origin
      BY <2>4, FirstTable
    <3>2. Covered(files, Origin, db.tracked)
      <4>1. files[Origin].version = Origin /\ Origin \in DOMAIN files
        BY <2>1, <2>3, <2>4, <2>7, <3>1
      <4>2. files[Origin] \in Range(files)
        BY <4>1 DEF Range
      <4> QED BY <2>12, <4>1, <4>2 DEF UpToDate
    <3>3. p = Origin
      BY <2>4, <2>6, <2>10, <3>1, <3>2
    <3>4. SubSeq(files, 1, l) = files
      BY <2>1, <2>3, ReplayPrefix
    <3>5. Replay(SubSeq(files, 1, l)) = Along(l)
      <4>1. l \in 0..l
        BY <2>4
      <4> QED BY <2>1, <2>3, <4>1, WholeReplay
    <3>6. (IF l <= Origin THEN l ELSE Origin) = Origin /\ Origin <= Origin
      BY <2>4
    <3>7. Along(l) = Along(Origin)
      BY <3>6 DEF Along
    <3> QED BY <2>6, <3>3, <3>4, <3>5, <3>7
  <2> QED BY <2>11, <2>12 DEF ReplayMatchesDatabase
<1> QED BY <1>1, <1>2, <1>3, PTL DEF Spec
=============================================================================
