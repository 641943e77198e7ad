---------------------------- MODULE RequestProofs ----------------------------
(***************************************************************************)
(* What a request reads, writes and reports (EagerLoad, Writes, Reports),    *)
(* for any models, chains, databases, ceilings, objects, batches, handlers,  *)
(* workers and capacities. No select-in binds more than the engine takes,    *)
(* and what a query reaches has been given its children; a write through an  *)
(* object reaches the row the object stands for; a call leaves in its objects *)
(* what their rows say; no row is outside a declared limit; a report has the *)
(* statements of its own request, and a token shows it until the buffer has  *)
(* had to push it out.                                                      *)
(***************************************************************************)
EXTENDS EagerLoad, Writes, Reports, FiniteSetTheorems, SequenceTheorems, WellFoundedInduction, TLAPS

(* A number of keys within the quotient costs no more than was divided.     *)
LEMMA QuotientFits ==
  ASSUME NEW a \in Int, NEW w \in Nat \ {0}, NEW k \in Nat, k <= a \div w
  PROVE  k * w <= a
<1>1. a \div w \in Int /\ (a \div w) * w <= a
  BY SMTT(30)
<1>2. k * w <= (a \div w) * w
  BY <1>1, SMTT(30)
<1> QED
  BY <1>1, <1>2

(* A batch is never empty, and its keys and the filter are within the       *)
(* ceiling.                                                                *)
LEMMA BatchFits ==
  ASSUME NEW hop, hop.width \in Nat \ {0}, hop.binds \in Nat,
         hop.binds + hop.width <= MaxBind,
         NEW k \in Nat, k <= parents_per_batch(hop)
  PROVE  k * hop.width + hop.binds <= MaxBind
<1> DEFINE w == hop.width
           a == MaxBind - hop.binds
<1>1. a \in Int /\ w \in Nat \ {0} /\ w <= a
  BY BoundsAssumption
<1> HIDE DEF w, a
<1>2. a \div w \in Int
  BY <1>1, SMTT(30)
<1>3. k <= IF 1 > a \div w THEN 1 ELSE a \div w
  BY DEF parents_per_batch, Larger, w, a
<1>4. k * w <= a
  <2>1. CASE 1 > a \div w
    <3>1. k = 0 \/ k = 1
      BY <1>2, <1>3, <2>1
    <3>2. k * w = 0 \/ k * w = w
      BY <1>1, <3>1
    <3> QED
      BY <1>1, <3>2
  <2>2. CASE ~(1 > a \div w)
    BY <1>1, <1>2, <1>3, <2>2, QuotientFits
  <2> QED
    BY <2>1, <2>2
<1> QED
  BY <1>1, <1>4, BoundsAssumption DEF w, a

LEMMA SizeIsPositive ==
  ASSUME NEW hop, hop.width \in Nat \ {0}, hop.binds \in Nat
  PROVE  parents_per_batch(hop) \in Nat \ {0}
<1>1. (MaxBind - hop.binds) \div hop.width \in Int
  BY BoundsAssumption, SMTT(30)
<1> QED
  BY <1>1 DEF parents_per_batch, Larger

(* A statement names at most as many keys as its batch has parents.         *)
LEMMA NamesAtMostTheBatch ==
  ASSUME NEW size \in Nat, NEW parents \in SUBSET (1..size), NEW hop
  PROVE  Named(parents, hop) \in Nat /\ Named(parents, hop) <= size
<1> DEFINE P == {i \in parents : KeyOf(todo[i], hop) # None}
           keys == parent_keys(parents, hop)
           f == [i \in P |-> KeyOf(todo[i], hop)]
<1>1. IsFiniteSet(1..size) /\ Cardinality(1..size) = size
  BY FS_Interval
<1>2. IsFiniteSet(P) /\ Cardinality(P) <= size
  BY <1>1, FS_Subset
<1>3. f \in Surjection(P, keys)
  <2>1. keys = {f[i] : i \in P}
    BY DEF parent_keys
  <2> QED
    BY <2>1 DEF Surjection
<1>4. IsFiniteSet(keys) /\ Cardinality(keys) <= Cardinality(P)
  BY <1>2, <1>3, FS_Surjection
<1>5. Cardinality(P) \in Nat /\ Cardinality(keys) \in Nat
  BY <1>2, <1>4, FS_CardinalityType
<1> QED
  BY <1>2, <1>4, <1>5 DEF Named

-----------------------------------------------------------------------------
(* Where a level is loaded it is one of the chain's, and the ceiling holds.  *)
InAChain ==
  /\ at.chain \in Nat /\ at = [chain |-> at.chain, level |-> at.level]
  /\ Loading => at.level \in DOMAIN Chains[at.chain]
Bounded == binds \in Nat /\ WithinTheCeiling
Inv == InAChain /\ Bounded

LEMMA EveryChainBegins == \A n \in DOMAIN Chains : 1 \in DOMAIN Chains[n]
<1> SUFFICES ASSUME NEW n \in DOMAIN Chains PROVE 1 \in DOMAIN Chains[n]
  OBVIOUS
<1> DEFINE S == Range(Chains[n])
<1>1. Chains[n] \in Seq(S) /\ Chains[n] # <<>>
  BY ChainsAssumption
<1> HIDE DEF S
<1> QED
  BY <1>1

LEMMA InitInv == Init => Inv
<1> SUFFICES ASSUME Init PROVE Inv
  OBVIOUS
<1>1. DOMAIN Chains = 1..Len(Chains) /\ Len(Chains) \in Nat
  BY ChainsAssumption
<1> QED
  BY <1>1, BoundsAssumption DEF Init, Inv, InAChain, Bounded, WithinTheCeiling, Loading

LEMMA BatchBounds ==
  ASSUME Inv, LoadBatch PROVE Bounded'
<1>1. /\ Hop = Chains[at.chain][at.level] /\ at.chain \in DOMAIN Chains
      /\ at.level \in DOMAIN Chains[at.chain]
  BY DEF Inv, InAChain, LoadBatch, Loading, Hop, Chain
<1> DEFINE hop == Hop
           size == parents_per_batch(hop)
           parents == {i \in 1..size : i \in DOMAIN todo}
           k == Named(parents, hop)
<1>2. /\ hop.width \in Nat \ {0} /\ hop.binds \in Nat
      /\ hop.binds + hop.width <= MaxBind
  BY <1>1, RoomAssumption
<1>3. binds' = binds \/ binds' = Spent(k, hop)
  BY DEF LoadBatch
<1> HIDE DEF hop
<1>4. size \in Nat
  BY <1>2, SizeIsPositive
<1>5. k \in Nat /\ k <= size
  <2> HIDE DEF size
  <2> QED
    BY <1>4, NamesAtMostTheBatch
<1> HIDE DEF k
<1>6. k * hop.width + hop.binds <= MaxBind
  BY <1>2, <1>5, BatchFits
<1>7. k * hop.width \in Nat
  BY <1>2, <1>5
<1>8. Spent(k, hop) \in Nat /\ Spent(k, hop) <= MaxBind
  BY <1>2, <1>6, <1>7, BoundsAssumption DEF Spent
<1> QED
  BY <1>3, <1>8 DEF Inv, Bounded, WithinTheCeiling

LEMMA NextInv == Inv /\ [Next]_vars => Inv'
<1> SUFFICES ASSUME Inv, [Next]_vars PROVE Inv'
  OBVIOUS
<1> USE DEF Inv
<1>1. CASE LoadRoots
  <2>1. at' = [chain |-> 1, level |-> 1] /\ binds' = binds
    BY <1>1 DEF LoadRoots
  <2> QED
    BY <2>1, EveryChainBegins DEF InAChain, Bounded, WithinTheCeiling, Loading
<1>2. CASE LoadBatch
  <2>1. at' = at
    BY <1>2 DEF LoadBatch
  <2> QED
    BY <1>2, <2>1, BatchBounds DEF InAChain, Loading
<1>3. CASE NextLevel
  <2>1. /\ at' = [at EXCEPT !.level = @ + 1] /\ binds' = binds
        /\ Loading /\ at.level < Len(Chains[at.chain])
    BY <1>3 DEF NextLevel, Chain
  <2> DEFINE S == Range(Chains[at.chain])
  <2>2. Chains[at.chain] \in Seq(S)
    BY <2>1, ChainsAssumption DEF Loading
  <2> HIDE DEF S
  <2>3. at.level + 1 \in DOMAIN Chains[at.chain]
    BY <2>1, <2>2 DEF InAChain
  <2>4. at'.chain = at.chain /\ at'.level = at.level + 1 /\ at' = [chain |-> at.chain, level |-> at.level + 1]
    BY <2>1 DEF InAChain
  <2> QED
    BY <2>1, <2>3, <2>4 DEF InAChain, Bounded, WithinTheCeiling, Loading
<1>4. CASE NextChain
  <2>1. at' = [chain |-> at.chain + 1, level |-> 1] /\ binds' = binds
    BY <1>4 DEF NextChain
  <2> QED
    BY <2>1, EveryChainBegins DEF InAChain, Bounded, WithinTheCeiling, Loading
<1>5. CASE Write \/ UNCHANGED vars
  <2>1. at' = at /\ binds' = binds
    BY <1>5 DEF Write, vars
  <2> QED
    BY <2>1 DEF InAChain, Bounded, WithinTheCeiling, Loading
<1> QED
  BY <1>1, <1>2, <1>3, <1>4, <1>5 DEF Next

(* "How many parents fit in ONE select-in without overshooting the engine's  *)
(* placeholder ceiling" (planning.py:494): whatever is loaded, no statement  *)
(* binds more than the engine takes, when a filter leaves room for one key. *)
THEOREM CeilingHolds == Spec => []WithinTheCeiling
<1>1. Inv => WithinTheCeiling
  BY DEF Inv, Bounded
<1> QED
  BY <1>1, InitInv, NextInv, PTL DEF Spec

-----------------------------------------------------------------------------
(* Counting up: a set of numbers that has 0 and the next of each it has.   *)
LEMMA LeastOf ==
  ASSUME NEW T \in SUBSET Nat, T # {}
  PROVE  \E n \in T : \A m \in T : n <= m
<1> DEFINE R == StrictSubsetOrdering(Nat)
           C == {0..n : n \in T}
<1>1. ASSUME NEW n \in Nat PROVE 0..n \in FiniteSubsetsOf(Nat)
  BY FS_Interval DEF FiniteSubsetsOf
<1>2. C \subseteq FiniteSubsetsOf(Nat) /\ C # {}
  BY <1>1
<1>3. IsWellFoundedOn(R, FiniteSubsetsOf(Nat))
  BY FS_StrictSubsetOrderingWellFounded
<1> HIDE DEF R
<1>4. \E x \in C : \A y \in C : ~(<<y, x>> \in R)
  BY <1>2, <1>3, WFMin
<1>5. PICK n \in T : \A y \in C : ~(<<y, 0..n>> \in R)
  BY <1>4
<1>6. ASSUME NEW m \in T, m < n PROVE FALSE
  <2>1. 0..m \in C /\ 0..m \subseteq 0..n /\ n \in 0..n /\ n \notin 0..m
    BY <1>6
  <2>2. <<0..m, 0..n>> \in R
    BY <2>1 DEF StrictSubsetOrdering, R
  <2> QED BY <1>5, <2>1, <2>2
<1> QED BY <1>6

LEMMA Climb ==
  ASSUME NEW n \in Nat, NEW B, 0 \in B, \A j \in 1..n : j - 1 \in B => j \in B
  PROVE  \A j \in 0..n : j \in B
<1> DEFINE T == {j \in 0..n : j \notin B}
<1>1. T \in SUBSET Nat
  OBVIOUS
<1>2. ASSUME T # {} PROVE FALSE
  <2>1. PICK j \in T : \A i \in T : j <= i
    <3> HIDE DEF T
    <3> QED BY <1>1, <1>2, LeastOf
  <2>2. j \in 1..n /\ j - 1 \in 0..n /\ ~(j <= j - 1)
    BY <2>1
  <2>3. j - 1 \in B
    BY <2>1, <2>2
  <2> QED BY <2>1, <2>2, <2>3
<1> QED BY <1>2

LEMMA Greatest ==
  ASSUME NEW n \in Nat, NEW t \in SUBSET (1..n), t # {}
  PROVE  Max(t) \in t /\ \A x \in t : x <= Max(t)
<1> DEFINE T == {n - x : x \in t}
<1>0. \A x \in t : x \in 1..n /\ n - x \in Nat
  OBVIOUS
<1>1. T \in SUBSET Nat /\ T # {}
  BY <1>0
<1>2. PICK m \in T : \A i \in T : m <= i
  <2> HIDE DEF T
  <2> QED BY <1>1, LeastOf
<1>3. PICK y \in t : m = n - y
  BY <1>2
<1>4. \A x \in t : y >= x
  <2> TAKE x \in t
  <2>1. n - y <= n - x
    BY <1>2, <1>3
  <2> QED BY <2>1
<1>5. Max(t) \in t /\ \A x \in t : Max(t) >= x
  BY <1>4 DEF Max
<1>6. t \subseteq Int
  OBVIOUS
<1> QED BY <1>5, <1>6

LEMMA GreatestIs ==
  ASSUME NEW n \in Nat, NEW t \in SUBSET (1..n), NEW j \in t, \A x \in t : x <= j
  PROVE  Max(t) = j
<1>1. Max(t) \in t /\ j <= Max(t) /\ Max(t) <= j
  BY Greatest
<1>2. \A x \in t : x \in Nat
  OBVIOUS
<1>3. Max(t) \in Nat /\ j \in Nat
  BY <1>1, <1>2
<1> QED BY <1>1, <1>3

(* A fold over the numbers to n, the greatest of a set last.               *)
Folds(F, S, base, n, g) ==
  /\ F \in [SUBSET (1..n) -> S]
  /\ \A t \in SUBSET (1..n) : F[t] = IF t = {} THEN base ELSE g[<<F[t \ {Max(t)}], Max(t)>>]

LEMMA FoldThere ==
  ASSUME NEW S, NEW base \in S, NEW n \in Nat, NEW g \in [S \X (1..n) -> S]
  PROVE  \E F : Folds(F, S, base, n, g)
<1> DEFINE Step(F, t) == F[t] = IF t = {} THEN base ELSE g[<<F[t \ {Max(t)}], Max(t)>>]
           HasFold(m) == \E F \in [SUBSET (1..m) -> S] : \A t \in SUBSET (1..m) : Step(F, t)
           B == {m \in 0..n : HasFold(m)}
<1>1. 0 \in B
  <2> DEFINE F == [t \in SUBSET (1..0) |-> base]
  <2>1. \A t \in SUBSET (1..0) : t = {}
    OBVIOUS
  <2>2. F \in [SUBSET (1..0) -> S] /\ \A t \in SUBSET (1..0) : Step(F, t)
    BY <2>1
  <2> HIDE DEF F, Step
  <2>3. HasFold(0)
    BY <2>2
  <2> HIDE DEF HasFold
  <2> QED BY <2>3
<1>2. ASSUME NEW j \in 1..n, j - 1 \in B PROVE j \in B
  <2>1. PICK F \in [SUBSET (1..(j - 1)) -> S] : \A t \in SUBSET (1..(j - 1)) : Step(F, t)
    BY <1>2
  <2> DEFINE H == [t \in SUBSET (1..j) |-> IF j \in t THEN g[<<F[t \ {j}], j>>] ELSE F[t]]
  <2>2. \A t \in SUBSET (1..j) : t \ {j} \in SUBSET (1..(j - 1))
    OBVIOUS
  <2>3. H \in [SUBSET (1..j) -> S]
    <3> SUFFICES ASSUME NEW t \in SUBSET (1..j) PROVE H[t] \in S
      OBVIOUS
    <3>1. CASE j \in t
      <4>1. F[t \ {j}] \in S
        BY <2>2
      <4>2. <<F[t \ {j}], j>> \in S \X (1..n)
        BY <4>1
      <4> QED BY <3>1, <4>2
    <3>2. CASE j \notin t
      <4>1. t \in SUBSET (1..(j - 1))
        BY <2>2, <3>2
      <4> QED BY <3>2, <4>1
    <3> QED BY <3>1, <3>2
  <2>4. \A t \in SUBSET (1..(j - 1)) : H[t] = F[t]
    OBVIOUS
  <2>5. ASSUME NEW t \in SUBSET (1..j) PROVE Step(H, t)
    <3>1. CASE j \in t
      <4>0. j \in Nat /\ \A x \in t : x <= j
        OBVIOUS
      <4>1. Max(t) = j
        BY <3>1, <4>0, GreatestIs
      <4>2. H[t \ {j}] = F[t \ {j}]
        BY <2>2, <2>4
      <4>3. H[t] = g[<<F[t \ {j}], j>>]
        BY <3>1
      <4> HIDE DEF H
      <4> QED BY <3>1, <4>1, <4>2, <4>3
    <3>2. CASE j \notin t
      <4>1. t \in SUBSET (1..(j - 1)) /\ t \ {Max(t)} \in SUBSET (1..(j - 1))
        BY <2>2, <3>2
      <4>2. H[t] = F[t] /\ H[t \ {Max(t)}] = F[t \ {Max(t)}]
        BY <2>4, <4>1
      <4>3. Step(F, t)
        BY <2>1, <4>1
      <4> HIDE DEF H
      <4> QED BY <4>2, <4>3
    <3> QED BY <3>1, <3>2
  <2> HIDE DEF H, Step
  <2>6. HasFold(j)
    BY <2>3, <2>5
  <2> HIDE DEF HasFold
  <2> QED BY <2>6
<1> HIDE DEF B
<1>3. n \in B
  BY <1>1, <1>2, Climb
<1> QED BY <1>3 DEF B, Folds

LEMMA FirstNumbers ==
  ASSUME NEW n \in Nat, NEW j \in 1..n
  PROVE  1..j \in SUBSET (1..n) /\ 1..j # {} /\ (1..j) \ {j} = 1..(j - 1) /\ Max(1..j) = j
<1>1. /\ 1..j \in SUBSET (1..n) /\ 1..j # {} /\ (1..j) \ {j} = 1..(j - 1)
      /\ j \in 1..j /\ \A x \in 1..j : x <= j
  OBVIOUS
<1> QED BY <1>1, GreatestIs

(* Such a fold is a chain, one element after another.                      *)
Unfolds(K, S, base, n, g) ==
  /\ K[{}] = base
  /\ \A t \in SUBSET (1..n) : t # {} /\ K[t \ {Max(t)}] \in S
       => K[t] = g[<<K[t \ {Max(t)}], Max(t)>>]

Chained(a, S, base, n, g, end) ==
  /\ a \in [0..n -> S] /\ a[0] = base /\ a[n] = end
  /\ \A j \in 1..n : a[j] = g[<<a[j - 1], j>>]

LEMMA FoldChain ==
  ASSUME NEW S, NEW base \in S, NEW n \in Nat, NEW g \in [S \X (1..n) -> S], NEW K,
         Unfolds(K, S, base, n, g)
  PROVE  \E a : Chained(a, S, base, n, g, K[1..n])
<1> DEFINE a == [j \in 0..n |-> K[1..j]]
           B == {j \in 0..n : a[j] \in S}
<1>1. a[0] = base
  <2>1. 1..0 = {}
    OBVIOUS
  <2> QED BY <2>1 DEF Unfolds
<1>2. ASSUME NEW j \in 1..n, a[j - 1] \in S PROVE a[j] = g[<<a[j - 1], j>>]
  <2>1. 1..j \in SUBSET (1..n) /\ 1..j # {} /\ (1..j) \ {j} = 1..(j - 1) /\ Max(1..j) = j
    BY FirstNumbers
  <2>3. j \in 0..n /\ j - 1 \in 0..n
    OBVIOUS
  <2>4. a[j] = K[1..j] /\ a[j - 1] = K[1..(j - 1)]
    BY <2>3
  <2> HIDE DEF a
  <2> QED BY <1>2, <2>1, <2>4 DEF Unfolds
<1>3. \A j \in 0..n : a[j] \in S
  <2>1. 0 \in B
    BY <1>1
  <2>2. ASSUME NEW j \in 1..n, j - 1 \in B PROVE j \in B
    <3>1. a[j - 1] \in S /\ j \in 0..n /\ j - 1 \in 0..n
      BY <2>2
    <3>2. <<a[j - 1], j>> \in S \X (1..n)
      BY <3>1
    <3> HIDE DEF a
    <3>3. a[j] \in S
      BY <1>2, <3>1, <3>2
    <3> QED BY <3>1, <3>3
  <2> HIDE DEF B
  <2>3. \A j \in 0..n : j \in B
    BY <2>1, <2>2, Climb
  <2> QED BY <2>3 DEF B
<1>4. a \in [0..n -> S] /\ a[n] = K[1..n]
  BY <1>3
<1>5. \A j \in 1..n : a[j] = g[<<a[j - 1], j>>]
  <2>1. \A j \in 1..n : j - 1 \in 0..n
    OBVIOUS
  <2> HIDE DEF a
  <2> QED BY <1>2, <1>3, <2>1
<1> HIDE DEF a
<1> QED BY <1>1, <1>4, <1>5 DEF Chained

-----------------------------------------------------------------------------
(* The rows of a table by their ids, and what an object or an INSERT's      *)
(* answer says of one.                                                     *)
Vals == {"short", TooLong, "other"}
Defs == {MISSING, "given", "server"}
RowSet == [key : Keys, val : Vals, def : Defs, born : Nat]
Records == [id : Nat, key : Keys, val : Vals, def : Defs, born : Nat]
Small(D) == \E b \in Nat : \A i \in D : i <= b
Tables == {m \in UNION {[D -> RowSet \cup {Gone}] : D \in SUBSET Nat} : Small(DOMAIN m)}
Live(m) == {i \in DOMAIN m : m[i] # Gone}

LEMMA TableFacts ==
  ASSUME NEW m \in Tables
  PROVE  /\ DOMAIN m \in SUBSET Nat /\ Small(DOMAIN m) /\ Live(m) \in SUBSET Nat
         /\ m \in [DOMAIN m -> RowSet \cup {Gone}]
         /\ \A i \in DOMAIN m : m[i] \in RowSet \cup {Gone}
         /\ \A i \in Live(m) : m[i] \in RowSet
<1>1. PICK D \in SUBSET Nat : m \in [D -> RowSet \cup {Gone}]
  BY DEF Tables
<1>2. DOMAIN m = D /\ Small(DOMAIN m)
  BY <1>1 DEF Tables
<1> QED BY <1>1, <1>2 DEF Live

LEMMA IsTable ==
  ASSUME NEW D \in SUBSET Nat, NEW m \in [D -> RowSet \cup {Gone}], Small(D)
  PROVE  m \in Tables
  BY DEF Tables

LEMMA RowsAreThere ==
  ASSUME NEW r \in RowSet
  PROVE  /\ r # Gone /\ r.key \in Keys /\ r.val \in Vals /\ r.def \in Defs /\ r.born \in Nat
         /\ \A i \in Nat : Answer(i, r) \in Records
  BY DEF RowSet, Gone, Answer, Records

LEMMA SmallAnd ==
  ASSUME NEW D \in SUBSET Nat, NEW E \in SUBSET Nat, Small(D), Small(E)
  PROVE  Small(D \cup E)
<1>1. PICK a \in Nat : \A i \in D : i <= a
  BY DEF Small
<1>2. PICK b \in Nat : \A i \in E : i <= b
  BY DEF Small
<1>3. PICK c \in Nat : a <= c /\ b <= c
  <2>1. a + b \in Nat /\ a <= a + b /\ b <= a + b
    OBVIOUS
  <2> QED BY <2>1
<1>4. \A i \in D \cup E : i <= c
  BY <1>1, <1>2, <1>3
<1> QED BY <1>4 DEF Small

LEMMA OverFacts ==
  ASSUME NEW f \in Tables, NEW m \in Tables
  PROVE  /\ Over(f, m) \in Tables /\ DOMAIN Over(f, m) = DOMAIN f \cup DOMAIN m
         /\ \A i \in DOMAIN f : Over(f, m)[i] = f[i]
         /\ \A i \in DOMAIN m \ DOMAIN f : Over(f, m)[i] = m[i]
<1>1. \A i \in DOMAIN f : f[i] \in RowSet \cup {Gone}
  BY TableFacts
<1>2. \A i \in DOMAIN m : m[i] \in RowSet \cup {Gone}
  BY TableFacts
<1>3. Over(f, m) \in [DOMAIN f \cup DOMAIN m -> RowSet \cup {Gone}]
  BY <1>1, <1>2 DEF Over
<1>4. DOMAIN f \cup DOMAIN m \in SUBSET Nat /\ Small(DOMAIN f \cup DOMAIN m)
  BY TableFacts, SmallAnd
<1>5. Over(f, m) \in Tables
  BY <1>3, <1>4, IsTable
<1> QED BY <1>5 DEF Over

HasPut(n, m, i, r) ==
  /\ n \in Tables /\ DOMAIN n = {i} \cup DOMAIN m /\ n[i] = r
  /\ \A j \in DOMAIN m : j # i => n[j] = m[j]
LEMMA PutFacts ==
  ASSUME NEW m \in Tables, NEW i \in Nat, NEW r \in RowSet \cup {Gone}
  PROVE  HasPut(Put(m, i, r), m, i, r)
<1> DEFINE f == [j \in {i} |-> r]
<1>1. f \in Tables
  <2>1. Small({i})
    BY DEF Small
  <2>2. f \in [{i} -> RowSet \cup {Gone}] /\ {i} \in SUBSET Nat
    OBVIOUS
  <2> HIDE DEF f
  <2> QED BY <2>1, <2>2, IsTable
<1>2. DOMAIN f = {i} /\ f[i] = r
  OBVIOUS
<1>3. Put(m, i, r) = Over(f, m)
  BY DEF Put
<1> HIDE DEF f
<1>4. /\ Over(f, m) \in Tables /\ DOMAIN Over(f, m) = DOMAIN f \cup DOMAIN m
      /\ \A j \in DOMAIN f : Over(f, m)[j] = f[j]
      /\ \A j \in DOMAIN m \ DOMAIN f : Over(f, m)[j] = m[j]
  BY <1>1, OverFacts
<1> QED BY <1>2, <1>3, <1>4 DEF HasPut

LEMMA RowsFacts ==
  ASSUME committed \in Tables, NEW m \in Tables
  PROVE  /\ Rows(m) \in Tables
         /\ \A i : i \in DOMAIN Rows(m) <=> i \in Live(m) \/ (i \notin DOMAIN m /\ i \in Live(committed))
         /\ \A i \in DOMAIN Rows(m) :
              /\ Rows(m)[i] \in RowSet
              /\ i \in DOMAIN m => Rows(m)[i] = m[i]
              /\ i \notin DOMAIN m => Rows(m)[i] = committed[i]
<1>1. PICK all : all = Over(m, committed)
  OBVIOUS
<1>2. /\ all \in Tables /\ DOMAIN all = DOMAIN m \cup DOMAIN committed
      /\ \A i \in DOMAIN m : all[i] = m[i]
      /\ \A i \in DOMAIN committed \ DOMAIN m : all[i] = committed[i]
  BY <1>1, OverFacts
<1>3. Rows(m) = [i \in Live(all) |-> all[i]]
  BY <1>1 DEF Rows, Restrict, Live
<1>4. Live(all) \in SUBSET Nat /\ \A i \in Live(all) : all[i] \in RowSet
  BY <1>2, TableFacts
<1>5. Small(Live(all))
  BY <1>2, TableFacts DEF Live, Small
<1>6. Rows(m) \in Tables
  <2>1. Rows(m) \in [Live(all) -> RowSet \cup {Gone}]
    BY <1>3, <1>4
  <2> QED BY <1>4, <1>5, <2>1, IsTable
<1> QED BY <1>2, <1>3, <1>4, <1>6 DEF Live

LEMMA HighestIs ==
  ASSUME NEW S \in SUBSET Nat, Small(S)
  PROVE  Highest(S) \in Nat
<1>1. CASE S = {}
  BY <1>1 DEF Highest
<1>2. CASE S # {}
  <2>1. PICK b \in Nat : \A i \in S : i <= b
    BY DEF Small
  <2> DEFINE T == {b - i : i \in S}
  <2>2. T \in SUBSET Nat /\ T # {}
    <3>1. \A i \in S : b - i \in Nat
      BY <2>1
    <3> QED BY <1>2, <3>1
  <2>3. PICK x \in T : \A y \in T : x <= y
    <3> HIDE DEF T
    <3> QED BY <2>2, LeastOf
  <2>4. PICK n \in S : x = b - n
    BY <2>3
  <2>5. \A k \in S : k <= n
    <3> TAKE k \in S
    <3>1. b - n <= b - k
      BY <2>3, <2>4
    <3> QED BY <2>1, <3>1
  <2> HIDE DEF T
  <2> QED BY <1>2, <2>5 DEF Highest
<1> QED BY <1>1, <1>2

LEMMA NextIdIs ==
  ASSUME committed \in Tables, NEW m \in Tables, NEW c \in Nat
  PROVE  NextId(m, c) \in Nat \ {0} /\ (engine # "sqlite" => NextId(m, c) = c + 1)
<1>1. Highest(DOMAIN Rows(m)) \in Nat
  BY RowsFacts, TableFacts, HighestIs
<1> QED BY <1>1 DEF NextId

-----------------------------------------------------------------------------
(* Which insertion each id stands for: no insertion has two ids, and where  *)
(* the engine counts for good no id two insertions.                        *)
Births(m) == {<<i, m[i].born>> : i \in Live(m)}
Coherent(e, N, c, b) ==
  /\ \A p \in N : /\ p[1] \in Nat \ {0} /\ p[2] \in Nat /\ p[2] <= b
                  /\ e # "sqlite" => p[1] <= c
  /\ \A p, q \in N : p[2] = q[2] => p[1] = q[1]
  /\ e # "sqlite" => \A p, q \in N : p[1] = q[1] => p[2] = q[2]

LEMMA CoherentLess ==
  ASSUME NEW e, NEW N, NEW c, NEW b, Coherent(e, N, c, b), NEW M \in SUBSET N
  PROVE  Coherent(e, M, c, b)
  BY DEF Coherent

LEMMA CoherentNew ==
  ASSUME NEW e, NEW N, NEW c \in Nat, NEW b \in Nat, Coherent(e, N, c, b),
         NEW i \in Nat \ {0}, e # "sqlite" => i = c + 1
  PROVE  Coherent(e, N \cup {<<i, b + 1>>}, c + 1, b + 1)
<1> DEFINE x == <<i, b + 1>>
<1>1. x[1] = i /\ x[2] = b + 1
  OBVIOUS
<1> HIDE DEF x
<1>2. \A p \in N : /\ p[1] \in Nat \ {0} /\ p[2] \in Nat /\ p[2] <= b + 1 /\ p[2] # b + 1
                   /\ e # "sqlite" => p[1] <= c + 1 /\ p[1] # c + 1
  BY DEF Coherent
<1>3. \A p \in N \cup {x} : /\ p[1] \in Nat \ {0} /\ p[2] \in Nat /\ p[2] <= b + 1
                            /\ e # "sqlite" => p[1] <= c + 1
  BY <1>1, <1>2
<1>4. \A p, q \in N \cup {x} : p[2] = q[2] => p[1] = q[1]
  BY <1>1, <1>2 DEF Coherent
<1>5. e # "sqlite" => \A p, q \in N \cup {x} : p[1] = q[1] => p[2] = q[2]
  BY <1>1, <1>2 DEF Coherent
<1>6. Coherent(e, N \cup {x}, c + 1, b + 1)
  BY <1>3, <1>4, <1>5 DEF Coherent
<1> QED BY <1>6 DEF x

LEMMA CoherentLater ==
  ASSUME NEW e, NEW N, NEW c \in Nat, NEW b \in Nat, Coherent(e, N, c, b)
  PROVE  Coherent(e, N, c, b + 1)
  BY DEF Coherent

LEMMA BirthsOfPut ==
  ASSUME NEW m \in Tables, NEW i \in Nat, NEW r \in RowSet \cup {Gone}
  PROVE  /\ r \in RowSet => Births(Put(m, i, r)) \subseteq Births(m) \cup {<<i, r.born>>}
         /\ r = Gone => Births(Put(m, i, r)) \subseteq Births(m)
<1>1. PICK n : n = Put(m, i, r)
  OBVIOUS
<1>2. DOMAIN n = {i} \cup DOMAIN m /\ n[i] = r /\ \A j \in DOMAIN m : j # i => n[j] = m[j]
  BY <1>1, PutFacts DEF HasPut
<1>3. ASSUME NEW j \in Live(n) PROVE (j = i /\ r # Gone) \/ (j \in Live(m) /\ n[j] = m[j])
  BY <1>2 DEF Live
<1>4. ASSUME NEW p \in Births(n) PROVE p \in Births(m) \/ (r # Gone /\ p = <<i, r.born>>)
  BY <1>2, <1>3 DEF Births
<1> QED BY <1>1, <1>4

(* What an INSERT of one row gives.                                        *)
Outs == [mine : Tables, counter : Nat, births : Nat, rows : Seq(Records), refused : BOOLEAN]
NewId(out, v) == IF v.id = NoId THEN NextId(out.mine, out.counter) ELSE v.id
NewRow(out, v) ==
  [key |-> v.key, val |-> v.val, def |-> IF v.def = MISSING THEN "server" ELSE v.def,
   born |-> IF v.id = NoId THEN out.births + 1 ELSE v.born]
Refuses(out, v) ==
  out.refused \/ NewId(out, v) \in DOMAIN Rows(out.mine) \/ HasKey(out.mine, v.key) # {}
Inserted(out, v) ==
  Outcome(Put(out.mine, NewId(out, v), NewRow(out, v)),
          IF v.id = NoId THEN out.counter + 1 ELSE out.counter, out.births + 1,
          Append(out.rows, Answer(NewId(out, v), NewRow(out, v))), FALSE)

LEMMA InsertOneIs ==
  ASSUME NEW out, NEW v
  PROVE  InsertOne(out, v) = IF Refuses(out, v) THEN [out EXCEPT !.refused = TRUE] ELSE Inserted(out, v)
  BY DEF InsertOne, Refuses, Inserted, NewId, NewRow

LEMMA NewFacts ==
  ASSUME committed \in Tables, NEW out \in Outs, NEW v \in Records
  PROVE  /\ NewId(out, v) \in Nat /\ NewRow(out, v) \in RowSet
         /\ Answer(NewId(out, v), NewRow(out, v)) \in Records
         /\ v.id = NoId => NewId(out, v) \in Nat \ {0}
         /\ v.id = NoId /\ engine # "sqlite" => NewId(out, v) = out.counter + 1
<1>1. /\ out.mine \in Tables /\ out.counter \in Nat /\ out.births \in Nat
      /\ v.id \in Nat /\ v.key \in Keys /\ v.val \in Vals /\ v.def \in Defs /\ v.born \in Nat
  BY DEF Outs, Records
<1>2. NewId(out, v) \in Nat
  BY <1>1, NextIdIs DEF NewId
<1>3. NewRow(out, v) \in RowSet
  BY <1>1 DEF NewRow, RowSet, Defs
<1> QED BY <1>1, <1>2, <1>3, NextIdIs, RowsAreThere DEF NewId

LEMMA InsertOneType ==
  ASSUME committed \in Tables, NEW out \in Outs, NEW v \in Records
  PROVE  InsertOne(out, v) \in Outs
<1>1. CASE Refuses(out, v)
  BY <1>1, InsertOneIs DEF Outs
<1>2. CASE ~Refuses(out, v)
  <2>1. PICK i : i = NewId(out, v)
    OBVIOUS
  <2>2. PICK r : r = NewRow(out, v)
    OBVIOUS
  <2>3. i \in Nat /\ r \in RowSet /\ Answer(i, r) \in Records
    BY <2>1, <2>2, NewFacts
  <2>4. out.mine \in Tables /\ out.counter \in Nat /\ out.births \in Nat /\ out.rows \in Seq(Records)
    BY DEF Outs
  <2>5. Put(out.mine, i, r) \in Tables
    <3>1. r \in RowSet \cup {Gone}
      BY <2>3
    <3> QED BY <2>3, <2>4, <3>1, PutFacts DEF HasPut
  <2>6. Append(out.rows, Answer(i, r)) \in Seq(Records)
    BY <2>3, <2>4
  <2>7. Inserted(out, v) \in Outs
    BY <2>1, <2>2, <2>4, <2>5, <2>6 DEF Inserted, Outcome, Outs
  <2> QED BY <1>2, <2>7, InsertOneIs
<1> QED BY <1>1, <1>2

(* INSERT of several rows, one after another.                              *)
InsertAll(s, values) == FoldLeft(InsertOne, s, values)
OneByOne(a, s, n, values) ==
  /\ a \in [0..n -> Outs]
  /\ a[0] = s /\ InsertAll(s, values) = a[n]
  /\ \A j \in 1..n : a[j] = InsertOne(a[j - 1], values[j])
LEMMA InsertChain ==
  ASSUME committed \in Tables, NEW s \in Outs, NEW n \in Nat, NEW values \in [1..n -> Records]
  PROVE  \E a : OneByOne(a, s, n, values)
<1> DEFINE g == [p \in Outs \X (1..n) |-> InsertOne(p[1], values[p[2]])]
           P(F) == F = [t \in SUBSET (1..n) |-> IF t = {} THEN s ELSE InsertOne(F[t \ {Max(t)}], values[Max(t)])]
           K == CHOOSE F : P(F)
<1>1. g \in [Outs \X (1..n) -> Outs]
  BY InsertOneType
<1>2. \E F : P(F)
  <2>0. PICK G : Folds(G, Outs, s, n, g)
    <3> HIDE DEF g
    <3> QED BY <1>1, FoldThere
  <2>1. /\ G \in [SUBSET (1..n) -> Outs]
        /\ \A t \in SUBSET (1..n) : G[t] = IF t = {} THEN s ELSE g[<<G[t \ {Max(t)}], Max(t)>>]
    BY <2>0 DEF Folds
  <2>2. ASSUME NEW t \in SUBSET (1..n), t # {}
        PROVE  G[t] = InsertOne(G[t \ {Max(t)}], values[Max(t)])
    <3>1. Max(t) \in 1..n
      BY <2>2, Greatest
    <3>2. G[t \ {Max(t)}] \in Outs
      BY <2>1
    <3>3. G[t] = g[<<G[t \ {Max(t)}], Max(t)>>]
      BY <2>1, <2>2
    <3> QED BY <3>1, <3>2, <3>3
  <2>3. \A t \in SUBSET (1..n) : G[t] = IF t = {} THEN s ELSE InsertOne(G[t \ {Max(t)}], values[Max(t)])
    BY <2>1, <2>2
  <2>4. P(G)
    BY <2>1, <2>3
  <2> HIDE DEF P
  <2> QED BY <2>4
<1>3. P(K)
  <2> HIDE DEF P
  <2> QED BY <1>2
<1>4. FoldLeft(InsertOne, s, values) = K[1..n]
  <2>1. DOMAIN values = 1..n
    OBVIOUS
  <2>2. FoldLeft(InsertOne, s, values) =
          (CHOOSE F : F = [t \in SUBSET (DOMAIN values) |->
             IF t = {} THEN s ELSE InsertOne(F[t \ {Max(t)}], values[Max(t)])])[DOMAIN values]
    BY DEF FoldLeft, MapThenFoldSet
  <2> QED BY Zenon, <2>1, <2>2
<1>5. ASSUME NEW t \in SUBSET (1..n), t # {}, K[t \ {Max(t)}] \in Outs
      PROVE  K[t] = g[<<K[t \ {Max(t)}], Max(t)>>]
  <2> HIDE DEF K
  <2>1. Max(t) \in 1..n
    BY <1>5, Greatest
  <2>2. K[t] = InsertOne(K[t \ {Max(t)}], values[Max(t)])
    BY <1>3, <1>5
  <2> QED BY <1>5, <2>1, <2>2
<1>6. K[{}] = s
  <2> HIDE DEF K
  <2> QED BY <1>3
<1>7. PICK a : Chained(a, Outs, s, n, g, K[1..n])
  <2> HIDE DEF K, P, g
  <2>1. Unfolds(K, Outs, s, n, g)
    BY <1>5, <1>6 DEF Unfolds
  <2> QED BY <1>1, <2>1, FoldChain
<1>8. \A j \in 1..n : a[j] = InsertOne(a[j - 1], values[j])
  <2>1. \A j \in 1..n : a[j - 1] \in Outs
    BY <1>7 DEF Chained
  <2> QED BY <1>7, <2>1 DEF Chained
<1>9. InsertAll(s, values) = K[1..n]
  BY Zenon, <1>4 DEF InsertAll
<1> HIDE DEF K, P, g
<1>10. OneByOne(a, s, n, values)
  BY <1>7, <1>8, <1>9 DEF Chained, OneByOne
<1> QED BY <1>10

(* Where an INSERT put a value, and what it left alone.                    *)
Placed(m, v, row) ==
  /\ row.id \in Live(m) /\ row = Answer(row.id, m[row.id])
  /\ row.key = v.key /\ row.val = v.val
  /\ row.def = IF v.def = MISSING THEN "server" ELSE v.def
  /\ v.id # NoId => row.id = v.id /\ row.born = v.born
Untroubled(m, old) == \A i \in Live(old) : i \in Live(m) /\ m[i] = old[i]
Fits(m, old) == \A i \in Live(m) : i \in Live(old) \/ m[i].val # TooLong
InsertedAll(out, old, N, values, j) ==
  /\ Len(out.rows) = j
  /\ \A i \in 1..j : Placed(out.mine, values[i], out.rows[i])
  /\ Untroubled(out.mine, old) /\ Fits(out.mine, old)
  /\ Coherent(engine, N \cup Births(out.mine), out.counter, out.births)
NamesIts(N, v) == v.id # NoId => <<v.id, v.born>> \in N

LEMMA InsertAnother ==
  ASSUME committed \in Tables, NEW out \in Outs, NEW v \in Records, ~Refuses(out, v),
         v.val # TooLong, NEW N, NamesIts(N, v), NEW old \in Tables, NEW j \in Nat,
         NEW values, InsertedAll(out, old, N, values, j), v = values[j + 1]
  PROVE  InsertedAll(Inserted(out, v), old, N, values, j + 1)
<1>1. PICK i : i = NewId(out, v)
  OBVIOUS
<1>2. PICK r : r = NewRow(out, v)
  OBVIOUS
<1>3. PICK m : m = Put(out.mine, i, r)
  OBVIOUS
<1>4. /\ i \in Nat /\ r \in RowSet /\ Answer(i, r) \in Records
      /\ v.id = NoId => i \in Nat \ {0}
      /\ v.id = NoId /\ engine # "sqlite" => i = out.counter + 1
  BY <1>1, <1>2, NewFacts
<1>5. out.mine \in Tables /\ out.counter \in Nat /\ out.births \in Nat /\ out.rows \in Seq(Records)
  BY DEF Outs
<1>6. m \in Tables /\ DOMAIN m = {i} \cup DOMAIN out.mine /\ m[i] = r
      /\ \A x \in DOMAIN out.mine : x # i => m[x] = out.mine[x]
  <2>1. PICK t \in Tables : t = out.mine
    BY <1>5
  <2>2. HasPut(Put(t, i, r), t, i, r)
    <3>1. i \in Nat /\ r \in RowSet \cup {Gone}
      BY <1>4
    <3> QED BY <3>1, PutFacts
  <2> QED BY <1>3, <2>1, <2>2 DEF HasPut
<1>7. i \notin Live(out.mine)
  BY <1>1, <1>5, RowsFacts DEF Refuses
<1>8. i \in Live(m) /\ \A x \in Live(out.mine) : x \in Live(m) /\ m[x] = out.mine[x]
  BY <1>4, <1>6, <1>7, RowsAreThere DEF Live
<1>9. \A x \in Live(m) : x = i \/ x \in Live(out.mine)
  BY <1>6 DEF Live
<1>10. PICK new : new = Inserted(out, v)
  OBVIOUS
<1>11. /\ new.mine = m /\ new.births = out.births + 1
       /\ new.counter = IF v.id = NoId THEN out.counter + 1 ELSE out.counter
       /\ new.rows = Append(out.rows, Answer(i, r))
  BY <1>1, <1>2, <1>3, <1>10 DEF Inserted, Outcome
<1>12. Len(new.rows) = j + 1 /\ new.rows[j + 1] = Answer(i, r)
       /\ \A x \in 1..j : new.rows[x] = out.rows[x]
  BY <1>4, <1>5, <1>11 DEF InsertedAll
<1>13. ASSUME NEW x \in 1..(j + 1) PROVE Placed(m, values[x], new.rows[x])
  <2>1. CASE x \in 1..j
    <3>1. PICK row : row = out.rows[x]
      OBVIOUS
    <3>2. Placed(out.mine, values[x], row) /\ new.rows[x] = row
      BY <1>12, <2>1, <3>1 DEF InsertedAll
    <3> QED BY <1>8, <3>2 DEF Placed
  <2>2. CASE x = j + 1
    <3>1. /\ Answer(i, r).id = i /\ Answer(i, r).key = r.key /\ Answer(i, r).val = r.val
          /\ Answer(i, r).def = r.def /\ Answer(i, r).born = r.born
      BY DEF Answer
    <3>2. /\ r.key = v.key /\ r.val = v.val /\ r.def = IF v.def = MISSING THEN "server" ELSE v.def
          /\ v.id # NoId => i = v.id /\ r.born = v.born
      BY <1>1, <1>2 DEF NewRow, NewId
    <3> QED BY <1>6, <1>8, <1>12, <2>2, <3>1, <3>2 DEF Placed
  <2> QED BY <2>1, <2>2
<1>14. Untroubled(m, old)
  BY <1>8 DEF InsertedAll, Untroubled
<1>15. Fits(m, old)
  <2>1. r.val # TooLong
    BY <1>2 DEF NewRow
  <2> QED BY <1>6, <1>8, <1>9, <2>1 DEF InsertedAll, Fits
<1>16. Coherent(engine, N \cup Births(m), new.counter, new.births)
  <2>1. Births(m) \subseteq Births(out.mine) \cup {<<i, r.born>>}
    BY <1>3, <1>4, <1>5, BirthsOfPut
  <2>2. PICK M : M = N \cup Births(out.mine)
    OBVIOUS
  <2>3. Coherent(engine, M, out.counter, out.births)
    BY <2>2 DEF InsertedAll
  <2>4. CASE v.id = NoId
    <3>1. r.born = out.births + 1
      BY <1>2, <2>4 DEF NewRow
    <3>2. Coherent(engine, M \cup {<<i, out.births + 1>>}, out.counter + 1, out.births + 1)
      BY <1>4, <1>5, <2>3, <2>4, CoherentNew
    <3>3. N \cup Births(m) \in SUBSET (M \cup {<<i, out.births + 1>>})
      BY <2>1, <2>2, <3>1
    <3>4. Coherent(engine, N \cup Births(m), out.counter + 1, out.births + 1)
      BY <3>2, <3>3, CoherentLess
    <3> QED BY <1>11, <2>4, <3>4
  <2>5. CASE v.id # NoId
    <3>1. <<i, r.born>> \in N
      BY <1>1, <1>2, <2>5 DEF NewRow, NewId, NamesIts
    <3>2. Coherent(engine, M, out.counter, out.births + 1)
      BY <1>5, <2>3, CoherentLater
    <3>3. N \cup Births(m) \in SUBSET M
      BY <2>1, <2>2, <3>1
    <3>4. Coherent(engine, N \cup Births(m), out.counter, out.births + 1)
      BY <3>2, <3>3, CoherentLess
    <3> QED BY <1>11, <2>5, <3>4
  <2> QED BY <2>4, <2>5
<1> QED BY <1>10, <1>11, <1>12, <1>13, <1>14, <1>15, <1>16 DEF InsertedAll

LEMMA InsertMany ==
  ASSUME committed \in Tables, mine \in Tables, counter \in Nat, births \in Nat,
         NEW N, Coherent(engine, N \cup Births(mine), counter, births),
         NEW n \in Nat, NEW values \in [1..n -> Records],
         \A i \in 1..n : values[i].val # TooLong /\ NamesIts(N, values[i]),
         NEW out, out = emit_insert_many(values), ~out.refused
  PROVE  out \in Outs /\ InsertedAll(out, mine, N, values, n)
<1>1. Untouched \in Outs /\ ~Untouched.refused
  BY DEF Untouched, Outcome, Outs
<1>2. PICK a : OneByOne(a, Untouched, n, values)
  <2>1. PICK s \in Outs : s = Untouched
    BY <1>1
  <2>2. \E a : OneByOne(a, s, n, values)
    BY InsertChain
  <2> QED BY <2>1, <2>2
<1>3. out = a[n]
  <2>1. emit_insert_many(values) = InsertAll(Untouched, values)
    BY Zenon DEF emit_insert_many, InsertAll
  <2> QED BY <1>2, <2>1 DEF OneByOne
<1> DEFINE B == {j \in 0..n : ~a[j].refused => InsertedAll(a[j], mine, N, values, j)}
<1>4. 0 \in B
  <2>1. InsertedAll(Untouched, mine, N, values, 0)
    BY DEF InsertedAll, Untouched, Outcome, Untroubled, Fits
  <2> QED BY <1>2, <2>1 DEF OneByOne
<1>5. ASSUME NEW j \in 1..n, j - 1 \in B PROVE j \in B
  <2>1. /\ j - 1 \in Nat /\ j - 1 \in 0..n /\ j \in 0..n /\ (j - 1) + 1 = j
        /\ a[j - 1] \in Outs /\ values[j] \in Records
    BY <1>2, <1>5 DEF OneByOne
  <2>2. PICK prev \in Outs : prev = a[j - 1]
    BY <2>1
  <2>3. a[j] = IF Refuses(prev, values[j]) THEN [prev EXCEPT !.refused = TRUE] ELSE Inserted(prev, values[j])
    BY <1>2, <2>2, InsertOneIs DEF OneByOne
  <2>4. CASE Refuses(prev, values[j])
    <3>1. a[j].refused
      BY <2>3, <2>4 DEF Outs
    <3> QED BY <2>1, <3>1
  <2>5. CASE ~Refuses(prev, values[j])
    <3>1. InsertedAll(prev, mine, N, values, j - 1)
      BY <1>5, <2>2, <2>5 DEF Refuses
    <3>2. InsertedAll(Inserted(prev, values[j]), mine, N, values, (j - 1) + 1)
      BY <2>1, <2>5, <3>1, InsertAnother
    <3> QED BY <2>1, <2>3, <2>5, <3>2
  <2> QED BY <2>4, <2>5
<1> HIDE DEF B
<1>6. n \in B
  <2>1. \A j \in 0..n : j \in B
    BY <1>4, <1>5, Climb
  <2> QED BY <2>1
<1>7. a[n] \in Outs
  BY <1>2 DEF OneByOne
<1> QED BY <1>3, <1>6, <1>7 DEF B


-----------------------------------------------------------------------------
(* The state between two steps: what the tables and the objects are, that    *)
(* every id they name stands for one insertion, and that every row fits.     *)
ObjectsType == [Objects -> Records \cup {Unmade}]
Stands(os) == {<<os[o].id, os[o].born>> : o \in {p \in Objects : os[p] # Unmade /\ os[p].id # NoId}}
NamesOf(c, m, os) == Births(c) \cup Births(m) \cup Stands(os)
Short(m) == \A i \in Live(m) : m[i].val # TooLong
Typed(e, c, m, cnt, b, os) ==
  /\ e \in Engines /\ c \in Tables /\ DOMAIN c = Live(c) /\ m \in Tables
  /\ cnt \in Nat /\ b \in Nat /\ os \in ObjectsType
Good(e, c, m, cnt, b, os) ==
  /\ Typed(e, c, m, cnt, b, os)
  /\ Coherent(e, NamesOf(c, m, os), cnt, b)
  /\ Short(m) /\ Short(c)
NowGood == Good(engine, committed, mine, counter, births, objs)

(* What an object says of a row, and of the row of its id in a table.        *)
Says(x, row) == \A c \in {"key", "val", "def"} : x[c] \in {MISSING, row[c]}
SaysOfIts(x, m) == x.id # NoId => x.id \in Live(m) /\ Says(x, m[x.id])

LEMMA GoodWith ==
  ASSUME NEW e, NEW c, NEW m, NEW cnt, NEW b, NEW os, Good(e, c, m, cnt, b, os),
         NEW os2 \in ObjectsType, Stands(os2) \subseteq NamesOf(c, m, os)
  PROVE  Good(e, c, m, cnt, b, os2)
<1>1. NamesOf(c, m, os2) \in SUBSET NamesOf(c, m, os)
  BY DEF NamesOf
<1>2. Coherent(e, NamesOf(c, m, os), cnt, b)
  BY DEF Good
<1>3. Coherent(e, NamesOf(c, m, os2), cnt, b)
  BY <1>1, <1>2, CoherentLess
<1> QED BY <1>3 DEF Good, Typed

LEMMA GoodAfter ==
  ASSUME NEW e, NEW c, NEW m, NEW cnt, NEW b, NEW os, Good(e, c, m, cnt, b, os),
         NEW m2 \in Tables, Births(m2) \subseteq NamesOf(c, m, os), Short(m2)
  PROVE  Good(e, c, m2, cnt, b, os)
<1>1. NamesOf(c, m2, os) \in SUBSET NamesOf(c, m, os)
  BY DEF NamesOf
<1>2. Coherent(e, NamesOf(c, m, os), cnt, b)
  BY DEF Good
<1>3. Coherent(e, NamesOf(c, m2, os), cnt, b)
  BY <1>1, <1>2, CoherentLess
<1> QED BY <1>3 DEF Good, Typed

LEMMA StandsOfOne ==
  ASSUME NEW os \in ObjectsType, NEW o \in Objects, NEW x \in Records,
         NEW N, Stands(os) \subseteq N, NamesIts(N, x)
  PROVE  /\ [os EXCEPT ![o] = x] \in ObjectsType
         /\ Stands([os EXCEPT ![o] = x]) \subseteq N
<1>1. PICK new : new = [os EXCEPT ![o] = x]
  OBVIOUS
<1>2. new \in ObjectsType /\ new[o] = x /\ \A p \in Objects : p # o => new[p] = os[p]
  BY <1>1 DEF ObjectsType
<1>3. ASSUME NEW p \in Objects, new[p] # Unmade, new[p].id # NoId
      PROVE  <<new[p].id, new[p].born>> \in N
  <2>1. CASE p = o
    BY <1>2, <1>3, <2>1 DEF NamesIts
  <2>2. CASE p # o
    BY <1>2, <1>3, <2>2 DEF Stands
  <2> QED BY <2>1, <2>2
<1>4. Stands(new) \subseteq N
  BY <1>3 DEF Stands
<1> QED BY <1>1, <1>2, <1>4

LEMMA ViewIs ==
  ASSUME NowGood
  PROVE  /\ DOMAIN View \in SUBSET (Nat \ {0})
         /\ \A i \in DOMAIN View :
              /\ View[i] \in RowSet /\ View[i].val # TooLong
              /\ <<i, View[i].born>> \in Births(mine) \cup Births(committed)
         /\ \A i \in Live(mine) : i \in DOMAIN View /\ View[i] = mine[i]
         /\ View \in Tables
<1>1. committed \in Tables /\ mine \in Tables /\ Short(mine) /\ Short(committed)
  BY DEF NowGood, Good, Typed
<1>2. PICK v : v = View
  OBVIOUS
<1>3. /\ v \in Tables
      /\ \A i : i \in DOMAIN v <=> i \in Live(mine) \/ (i \notin DOMAIN mine /\ i \in Live(committed))
      /\ \A i \in DOMAIN v :
           /\ v[i] \in RowSet
           /\ i \in DOMAIN mine => v[i] = mine[i]
           /\ i \notin DOMAIN mine => v[i] = committed[i]
  BY <1>1, <1>2, RowsFacts DEF View
<1>4. ASSUME NEW i \in DOMAIN v
      PROVE  /\ <<i, v[i].born>> \in Births(mine) \cup Births(committed)
             /\ v[i].val # TooLong
  <2>1. CASE i \in Live(mine)
    BY <1>1, <1>3, <2>1 DEF Births, Short, Live
  <2>2. CASE i \notin DOMAIN mine /\ i \in Live(committed)
    BY <1>1, <1>3, <2>2 DEF Births, Short
  <2> QED BY <1>3, <2>1, <2>2
<1>5. DOMAIN v \in SUBSET (Nat \ {0})
  <2>1. ASSUME NEW i \in DOMAIN v PROVE i \in Nat \ {0}
    <3>1. PICK p : p = <<i, v[i].born>>
      OBVIOUS
    <3>2. p \in NamesOf(committed, mine, objs) /\ p[1] = i
      BY <1>4, <3>1 DEF NamesOf
    <3> QED BY <3>2 DEF NowGood, Good, Coherent
  <2> QED BY <2>1
<1>6. \A i \in Live(mine) : i \in DOMAIN v /\ v[i] = mine[i]
  BY <1>3 DEF Live
<1> QED BY <1>2, <1>3, <1>4, <1>5, <1>6

LEMMA PreSaveIs ==
  ASSUME NEW x \in Records
  PROVE  /\ PreSave(x) \in Records
         /\ PreSave(x).id = x.id /\ PreSave(x).born = x.born
         /\ PreSave(x).key = x.key /\ PreSave(x).def = x.def
         /\ handler \notin {"trims", "lengthens"} => PreSave(x) = x
  BY DEF PreSave, Records, Vals, TooLong

LEMMA RecordsAre ==
  ASSUME NEW x \in Records
  PROVE  /\ x # Unmade /\ x.id \in Nat /\ x.key \in Keys /\ x.val \in Vals
         /\ x.def \in Defs /\ x.born \in Nat
  BY DEF Records, Unmade

(* What an INSERT leaves in the objects of its batch.                       *)
IsFilled(new, os, n, batch, m) ==
  /\ new \in ObjectsType
  /\ \A o \in Objects : o \notin ToSet(batch) => new[o] = os[o]
  /\ \A i \in 1..n : /\ new[batch[i]] \in Records /\ SaysOfIts(new[batch[i]], m)
                     /\ NamesIts(Births(m), new[batch[i]])
LEMMA FilledIs ==
  ASSUME NEW os \in ObjectsType, NEW n \in Nat, NEW batch \in [1..n -> Objects],
         NEW rows \in Seq(Records), NEW m \in Tables, NEW single \in BOOLEAN, Len(rows) = n,
         \A i \in 1..n : os[batch[i]] \in Records /\ Placed(m, os[batch[i]], rows[i])
  PROVE  IsFilled(Filled(os, batch, rows, single), os, n, batch, m)
<1>1. PICK new : new = Filled(os, batch, rows, single)
  OBVIOUS
<1>2. DOMAIN batch = 1..n /\ ToSet(batch) = {batch[i] : i \in 1..n}
  BY DEF ToSet
<1>3. ASSUME NEW o \in Objects, o \notin ToSet(batch) PROVE new[o] = os[o]
  BY <1>1, <1>3 DEF Filled
<1>4. ASSUME NEW o \in ToSet(batch)
      PROVE  new[o] \in Records /\ SaysOfIts(new[o], m) /\ NamesIts(Births(m), new[o])
  <2>1. PICK i : i = CHOOSE k \in DOMAIN batch : batch[k] = o
    OBVIOUS
  <2>2. i \in 1..n /\ batch[i] = o /\ o \in Objects
    BY <1>2, <2>1
  <2>3. PICK x : x = os[o]
    OBVIOUS
  <2>4. PICK row : row = rows[i]
    OBVIOUS
  <2>5. PICK own : own = StandsFor(x, row)
    OBVIOUS
  <2>6. new[o] = CASE supports_returning -> apply_returned(own, row)
                   [] ~supports_returning /\ single -> apply_last_insert_id(own, row)
                   [] OTHER -> own
    BY <1>1, <2>1, <2>2, <2>3, <2>4, <2>5 DEF Filled, RowOf
  <2>7. x \in Records /\ row \in Records /\ Placed(m, x, row)
    BY <2>2, <2>3, <2>4
  <2>8. /\ own.id = x.id /\ own.key = x.key /\ own.val = x.val /\ own.def = x.def
        /\ own.born = row.born /\ own \in Records
    BY <2>5, <2>7 DEF StandsFor, Records
  <2>9. /\ row.id \in Live(m) /\ m[row.id].key = row.key /\ m[row.id].val = row.val
        /\ m[row.id].def = row.def /\ m[row.id].born = row.born
    BY <2>7 DEF Placed, Answer
  <2>10. <<row.id, row.born>> \in Births(m)
    BY <2>9 DEF Births
  <2>11. CASE new[o] = apply_returned(own, row)
    <3>1. new[o] = row
      BY <2>7, <2>8, <2>11 DEF apply_returned, Object, Records
    <3> QED BY <2>7, <2>9, <2>10, <3>1 DEF SaysOfIts, Says, NamesIts
  <2>12. CASE new[o] = own \/ new[o] = [own EXCEPT !.id = row.id]
    <3>1. /\ new[o] \in Records /\ new[o].key = x.key /\ new[o].val = x.val /\ new[o].def = x.def
          /\ new[o].born = row.born /\ new[o].id \in {x.id, row.id}
      BY <2>7, <2>8, <2>12 DEF Records
    <3>2. x.key = row.key /\ x.val = row.val /\ x.def \in {MISSING, row.def}
          /\ (x.id # NoId => x.id = row.id)
      BY <2>7 DEF Placed
    <3>3. new[o].id # NoId => new[o].id = row.id
      BY <3>1, <3>2
    <3> QED BY <2>9, <2>10, <3>1, <3>2, <3>3 DEF SaysOfIts, Says, NamesIts
  <2> QED BY <2>6, <2>11, <2>12 DEF apply_last_insert_id
<1>5. new \in ObjectsType
  <2>1. DOMAIN new = Objects
    BY <1>1 DEF Filled
  <2>2. new = [o \in Objects |-> new[o]]
    BY <1>1 DEF Filled
  <2>3. \A o \in Objects : new[o] \in Records \cup {Unmade}
    BY <1>3, <1>4 DEF ObjectsType
  <2> QED BY <2>1, <2>2, <2>3 DEF ObjectsType
<1>6. \A i \in 1..n : batch[i] \in ToSet(batch)
  BY <1>2
<1> QED BY <1>1, <1>3, <1>4, <1>5, <1>6 DEF IsFilled

-----------------------------------------------------------------------------
(* The invariant. In the middle of an add_all, n objects of the batch have   *)
(* been inserted, those that have an id say what this transaction's row says, *)
(* and the others fit.                                                     *)
InBatch(batch, n) ==
  /\ pending = [call |-> "add_all", all |-> batch, left |-> SubSeq(batch, n + 1, Len(batch))]
  /\ \A i \in DOMAIN batch : objs[batch[i]] # Unmade
  /\ \A i \in (n + 1)..Len(batch) : objs[batch[i]].val # TooLong
  /\ \A i \in 1..n : SaysOfIts(objs[batch[i]], mine)
  /\ IsInjective(batch) /\ last.wrote = {}
InCreate(o, k) == pending = [call |-> "create", all |-> <<o>>, left |-> <<k>>]
PendingInv ==
  \/ pending = Idle
  \/ \E o \in Objects, k \in Keys : InCreate(o, k)
  \/ \E batch \in Seq(Objects) : \E n \in 0..Len(batch) : InBatch(batch, n)
WritesInv == NowGood /\ PendingInv /\ OwnRow /\ ObjectsAreTheirRows

WroteSay == \A o \in last.wrote : SaysOfIts(objs[o], mine)
LEMMA AgreeIf == NowGood /\ WroteSay => ObjectsAreTheirRows
<1> SUFFICES ASSUME NowGood, WroteSay, NEW o \in last.wrote, objs[o].id \in DOMAIN View
             PROVE  Agrees(o, View[objs[o].id])
  BY DEF ObjectsAreTheirRows, Agree
<1>1. objs[o].id # NoId
  BY ViewIs DEF NoId
<1>2. objs[o].id \in Live(mine) /\ Says(objs[o], mine[objs[o].id])
  BY <1>1 DEF WroteSay, SaysOfIts
<1> QED BY <1>2, ViewIs DEF Says, Agrees

LEMMA WroteNothing == last.wrote = {} => ObjectsAreTheirRows
  BY DEF ObjectsAreTheirRows, Agree

(* A call that ends leaves nothing pending, and says nothing of an object     *)
(* when it fails.                                                          *)
LEMMA EndsIs ==
  ASSUME NEW failed \in BOOLEAN, NEW call, NEW os, Ends(failed, call, os)
  PROVE  /\ pending' = Idle /\ PendingInv'
         /\ failed => last.wrote' = {}
         /\ last.wrote' \subseteq os
         /\ last.wrote' # {} => last.call' = call
  BY DEF Ends, Returned, PendingInv

LEMMA WritesInvInit == WritesInit => WritesInv
<1> SUFFICES ASSUME WritesInit PROVE WritesInv
  OBVIOUS
<1>1. <<>> \in Tables /\ Live(<<>>) = {} /\ DOMAIN <<>> = {}
  <2>1. DOMAIN <<>> = {}
    OBVIOUS
  <2>2. Small({})
    BY DEF Small
  <2>3. <<>> \in [{} -> RowSet \cup {Gone}]
    BY <2>1
  <2> QED BY <2>1, <2>2, <2>3, IsTable DEF Live
<1>2. objs \in ObjectsType /\ Stands(objs) = {}
  BY DEF WritesInit, ObjectsType, Stands
<1>3. Births(committed) = {} /\ Births(mine) = {}
  BY <1>1 DEF WritesInit, Births
<1>4. NamesOf(committed, mine, objs) = {}
  BY <1>2, <1>3 DEF NamesOf
<1>5. Coherent(engine, {}, counter, births)
  BY DEF Coherent
<1>6. Coherent(engine, NamesOf(committed, mine, objs), counter, births)
  BY <1>4, <1>5
<1>7. Typed(engine, committed, mine, counter, births, objs)
  BY <1>1, <1>2 DEF Typed, WritesInit
<1>8. Short(mine) /\ Short(committed)
  BY <1>1 DEF Short, WritesInit
<1>9. NowGood
  BY <1>6, <1>7, <1>8 DEF NowGood, Good
<1>10. PendingInv /\ OwnRow
  BY DEF PendingInv, OwnRow, WritesInit
<1>11. ObjectsAreTheirRows
  <2>1. last.wrote = {}
    BY DEF WritesInit, Returned
  <2> QED BY <2>1, WroteNothing
<1> QED BY <1>9, <1>10, <1>11 DEF WritesInv

-----------------------------------------------------------------------------
(* The statements, from a good state.                                       *)
LEMMA GoodInserted ==
  ASSUME NEW os, Good(engine, committed, mine, counter, births, os), NEW out \in Outs,
         NEW values, NEW j, InsertedAll(out, mine, NamesOf(committed, mine, os), values, j),
         NEW os2 \in ObjectsType, Stands(os2) \subseteq NamesOf(committed, mine, os) \cup Births(out.mine)
  PROVE  Good(engine, committed, out.mine, out.counter, out.births, os2)
<1>1. PICK N : N = NamesOf(committed, mine, os)
  OBVIOUS
<1>2. Coherent(engine, N \cup Births(out.mine), out.counter, out.births)
  BY <1>1 DEF InsertedAll
<1>3. NamesOf(committed, out.mine, os2) \in SUBSET (N \cup Births(out.mine))
  BY <1>1 DEF NamesOf
<1>4. Coherent(engine, NamesOf(committed, out.mine, os2), out.counter, out.births)
  BY <1>2, <1>3, CoherentLess
<1>5. Typed(engine, committed, out.mine, out.counter, out.births, os2)
  BY DEF Good, Typed, Outs
<1>6. Short(out.mine)
  <2>1. Fits(out.mine, mine) /\ Untroubled(out.mine, mine) /\ Short(mine)
    BY DEF InsertedAll, Good
  <2> QED BY <2>1 DEF Fits, Untroubled, Short
<1> QED BY <1>4, <1>5, <1>6 DEF Good

LEMMA InsertsOne ==
  ASSUME NEW os, Good(engine, committed, mine, counter, births, os),
         NEW v \in Records, v.val # TooLong, NamesIts(NamesOf(committed, mine, os), v),
         NEW out, out = InsertOne(Untouched, v) \/ out = emit_insert_many(<<v>>), ~out.refused
  PROVE  out \in Outs /\ InsertedAll(out, mine, NamesOf(committed, mine, os), <<v>>, 1)
<1>1. PICK N : N = NamesOf(committed, mine, os)
  OBVIOUS
<1>2. committed \in Tables /\ mine \in Tables /\ counter \in Nat /\ births \in Nat
  BY DEF Good, Typed
<1>3. Coherent(engine, N \cup Births(mine), counter, births)
  <2>1. N \cup Births(mine) = N
    BY <1>1 DEF NamesOf
  <2> QED BY <1>1, <2>1 DEF Good
<1>4. PICK values \in [1..1 -> Records] : values = <<v>> /\ values[1] = v
  OBVIOUS
<1>5. NamesIts(N, v)
  BY <1>1
<1>6. CASE out = emit_insert_many(<<v>>)
  <2>1. out = emit_insert_many(values)
    BY <1>4, <1>6
  <2>2. \A i \in 1..1 : values[i].val # TooLong /\ NamesIts(N, values[i])
    BY <1>4, <1>5
  <2>3. out \in Outs /\ InsertedAll(out, mine, N, values, 1)
    BY <1>2, <1>3, <2>1, <2>2, InsertMany
  <2> QED BY <1>1, <1>4, <2>3
<1>7. CASE out = InsertOne(Untouched, v)
  <2>0. Untouched \in Outs
    BY <1>2 DEF Untouched, Outcome, Outs
  <2>1. PICK s \in Outs : s = Untouched
    BY <2>0
  <2>2. InsertedAll(s, mine, N, values, 0)
    BY <1>2, <1>3, <2>1 DEF InsertedAll, Untouched, Outcome, Untroubled, Fits
  <2>3. ~Refuses(s, v) /\ out = Inserted(s, v)
    BY <1>7, <2>1, InsertOneIs DEF Outs
  <2>4. v = values[0 + 1]
    BY <1>4
  <2>5. InsertedAll(Inserted(s, v), mine, N, values, 0 + 1)
    BY <1>2, <1>5, <2>2, <2>3, <2>4, InsertAnother
  <2>6. out \in Outs
    BY <1>2, <1>7, <2>1, InsertOneType
  <2> QED BY <1>1, <1>4, <2>3, <2>5, <2>6
<1> QED BY <1>6, <1>7

-----------------------------------------------------------------------------
(* One lemma per action of the program.                                     *)
LEMMA MakeInv == WritesInv /\ Make => WritesInv'
<1> SUFFICES ASSUME WritesInv, Make PROVE WritesInv'
  OBVIOUS
<1>1. PICK os : os = objs
  OBVIOUS
<1>2. Good(engine, committed, mine, counter, births, os) /\ os \in ObjectsType
  BY <1>1 DEF WritesInv, NowGood, Good, Typed
<1>3. PICK o \in Objects, x \in Records : x.id = NoId /\ objs' = [os EXCEPT ![o] = x]
  <2>1. PICK o \in Objects, k \in Keys, d \in {MISSING, "given"} :
          objs' = [os EXCEPT ![o] = Object(NoId, k, "short", d, Nobody)]
    BY <1>1 DEF Make
  <2>2. /\ Object(NoId, k, "short", d, Nobody) \in Records
        /\ Object(NoId, k, "short", d, Nobody).id = NoId
    BY DEF Object, Records, Vals, Defs, NoId, Nobody
  <2> QED BY <2>1, <2>2
<1>4. PICK os2 : os2 = [os EXCEPT ![o] = x]
  OBVIOUS
<1>5. os2 \in ObjectsType /\ Stands(os2) \subseteq NamesOf(committed, mine, os)
  <2>1. Stands(os) \subseteq NamesOf(committed, mine, os) /\ NamesIts(NamesOf(committed, mine, os), x)
    BY <1>3 DEF NamesOf, NamesIts
  <2> QED BY <1>2, <1>4, <2>1, StandsOfOne
<1>6. Good(engine, committed, mine, counter, births, os2)
  BY <1>2, <1>5, GoodWith
<1>7. /\ engine' = engine /\ committed' = committed /\ mine' = mine /\ counter' = counter
      /\ births' = births /\ objs' = os2 /\ strayed' = strayed /\ pending' = Idle
      /\ last' = Returned("none", {})
  BY <1>3, <1>4 DEF Make, NoStatement, Same
<1>8. NowGood'
  BY <1>6, <1>7 DEF NowGood
<1>9. PendingInv' /\ OwnRow'
  BY <1>7 DEF PendingInv, OwnRow, WritesInv
<1>10. ObjectsAreTheirRows'
  <2>1. (last.wrote = {})'
    BY <1>7 DEF Returned
  <2> QED BY <2>1, WroteNothing, PTL
<1> QED BY <1>8, <1>9, <1>10 DEF WritesInv

LEMMA AssignInv == WritesInv /\ Assign => WritesInv'
<1> SUFFICES ASSUME WritesInv, Assign PROVE WritesInv'
  OBVIOUS
<1>1. PICK os : os = objs
  OBVIOUS
<1>2. Good(engine, committed, mine, counter, births, os) /\ os \in ObjectsType
  BY <1>1 DEF WritesInv, NowGood, Good, Typed
<1>3. PICK o \in Objects, v \in {TooLong, "other"} :
        os[o] # Unmade /\ objs' = [os EXCEPT ![o].val = v]
  BY <1>1 DEF Assign, Made
<1>4. PICK x : x = [os[o] EXCEPT !.val = v]
  OBVIOUS
<1>5. x \in Records /\ x.id = os[o].id /\ x.born = os[o].born
  BY <1>2, <1>3, <1>4 DEF ObjectsType, Records, Vals, TooLong
<1>6. PICK os2 : os2 = [os EXCEPT ![o] = x]
  OBVIOUS
<1>7. os2 \in ObjectsType /\ Stands(os2) \subseteq NamesOf(committed, mine, os)
  <2>1. Stands(os) \subseteq NamesOf(committed, mine, os) /\ NamesIts(NamesOf(committed, mine, os), x)
    BY <1>3, <1>5 DEF NamesOf, NamesIts, Stands
  <2> QED BY <1>2, <1>5, <1>6, <2>1, StandsOfOne
<1>8. Good(engine, committed, mine, counter, births, os2)
  BY <1>2, <1>7, GoodWith
<1>9. /\ engine' = engine /\ committed' = committed /\ mine' = mine /\ counter' = counter
      /\ births' = births /\ objs' = os2 /\ strayed' = strayed /\ pending' = Idle
      /\ last' = Returned("none", {})
  BY <1>3, <1>4, <1>6 DEF Assign, MayCall, NoStatement, Same
<1>10. NowGood'
  BY <1>8, <1>9 DEF NowGood
<1>11. PendingInv' /\ OwnRow'
  BY <1>9 DEF PendingInv, OwnRow, WritesInv
<1>12. ObjectsAreTheirRows'
  <2>1. (last.wrote = {})'
    BY <1>9 DEF Returned
  <2> QED BY <2>1, WroteNothing, PTL
<1> QED BY <1>10, <1>11, <1>12 DEF WritesInv

(* A call that wrote nothing, or failed.                                    *)
LEMMA NothingWritten ==
  ASSUME WritesInv, Same, NoStatement, strayed' = strayed, objs' \in ObjectsType,
         Stands(objs') \subseteq NamesOf(committed, mine, objs),
         PendingInv', last'.wrote = {}
  PROVE  WritesInv'
<1>1. PICK os2 : os2 = objs'
  OBVIOUS
<1>2. Good(engine, committed, mine, counter, births, objs)
  BY DEF WritesInv, NowGood
<1>3. Good(engine, committed, mine, counter, births, os2)
  BY <1>1, <1>2, GoodWith
<1>4. NowGood'
  BY <1>1, <1>3 DEF NowGood, Same, NoStatement
<1>5. ObjectsAreTheirRows'
  <2>1. (last.wrote = {})'
    OBVIOUS
  <2> QED BY <2>1, WroteNothing, PTL
<1> QED BY <1>4, <1>5 DEF WritesInv, OwnRow

LEMMA AddsInv ==
  ASSUME WritesInv, Same, strayed' = strayed,
         NEW o \in Objects, NEW made \in ObjectsType, made[o] # Unmade,
         Stands(made) \subseteq NamesOf(committed, mine, objs),
         NEW call, Adds(o, made, call)
  PROVE  WritesInv'
<1>1. PICK x \in Records : x = made[o]
  BY DEF ObjectsType
<1>2. PICK v \in Records : v = PreSave(x)
  BY PreSaveIs
<1>3. v.id = x.id /\ v.born = x.born
  BY <1>2, PreSaveIs
<1>4. PICK pre : pre = [made EXCEPT ![o] = v]
  OBVIOUS
<1>5. pre[o] = v /\ pre = [made EXCEPT ![o] = PreSave(@)]
  BY <1>1, <1>2, <1>4 DEF ObjectsType
<1>6. pre \in ObjectsType /\ Stands(pre) \subseteq NamesOf(committed, mine, objs)
  <2>1. NamesIts(NamesOf(committed, mine, objs), v)
    BY <1>1, <1>3, RecordsAre DEF NamesIts, Stands
  <2> QED BY <1>4, <2>1, StandsOfOne
<1>7. PICK out : out = emit_insert_many(<<v>>)
  OBVIOUS
<1>8. CASE PreRaises \/ v.val = TooLong \/ out.refused
  <2>1. /\ objs' \in {made, pre} /\ NoStatement
        /\ Ends(TRUE, call, {})
    BY <1>5, <1>7, <1>8 DEF Adds, insert_values, _guard_declared_limits
  <2>2. PendingInv' /\ last'.wrote = {}
    BY <2>1, EndsIs
  <2>3. objs' \in ObjectsType /\ Stands(objs') \subseteq NamesOf(committed, mine, objs)
    BY <1>6, <2>1
  <2> QED BY <2>1, <2>2, <2>3, NothingWritten
<1>9. CASE ~PreRaises /\ v.val # TooLong /\ ~out.refused
  <2>1. PICK new : new = Filled(pre, <<o>>, out.rows, TRUE)
    OBVIOUS
  <2>2. objs' = new /\ Statement(out) /\ Ends(PostRaises, call, {o})
    BY <1>5, <1>7, <1>9, <2>1 DEF Adds, insert_values, _guard_declared_limits
  <2>3. Good(engine, committed, mine, counter, births, pre)
    BY <1>6, GoodWith DEF WritesInv, NowGood
  <2>4. NamesIts(NamesOf(committed, mine, pre), v)
    BY <1>5, RecordsAre DEF NamesIts, NamesOf, Stands
  <2>5. out \in Outs /\ InsertedAll(out, mine, NamesOf(committed, mine, pre), <<v>>, 1)
    BY <1>7, <1>9, <2>3, <2>4, InsertsOne
  <2>6. PICK m \in Tables : m = out.mine
    BY <2>5 DEF Outs
  <2>7. PICK rows \in Seq(Records) : rows = out.rows
    BY <2>5 DEF Outs
  <2>8. PICK batch \in [1..1 -> Objects] : batch = <<o>> /\ batch[1] = o /\ ToSet(batch) = {o}
    <3>1. <<o>> \in [1..1 -> Objects] /\ <<o>>[1] = o
      OBVIOUS
    <3>2. ToSet(<<o>>) = {o}
      BY DEF ToSet
    <3> QED BY <3>1, <3>2
  <2>9. Len(rows) = 1 /\ \A i \in 1..1 : pre[batch[i]] \in Records /\ Placed(m, pre[batch[i]], rows[i])
    BY <1>5, <2>5, <2>6, <2>7, <2>8 DEF InsertedAll
  <2>10. IsFilled(Filled(pre, batch, rows, TRUE), pre, 1, batch, m)
    BY <1>6, <2>9, FilledIs
  <2>11. /\ new \in ObjectsType /\ \A p \in Objects : p # o => new[p] = pre[p]
         /\ SaysOfIts(new[o], m) /\ NamesIts(Births(m), new[o])
    <3>1. new = Filled(pre, batch, rows, TRUE)
      BY <2>1, <2>7, <2>8
    <3>2. 1 \in 1..1
      OBVIOUS
    <3> QED BY <2>8, <2>10, <3>1, <3>2 DEF IsFilled
  <2>12. Stands(new) \subseteq NamesOf(committed, mine, pre) \cup Births(m)
    BY <2>11 DEF Stands, NamesOf, NamesIts
  <2>13. Good(engine, committed, out.mine, out.counter, out.births, new)
    BY <2>3, <2>5, <2>6, <2>11, <2>12, GoodInserted
  <2>14. NowGood'
    BY <2>2, <2>13 DEF NowGood, Same, Statement
  <2>15. PendingInv' /\ last'.wrote \subseteq {o}
    BY <2>2, EndsIs DEF PostRaises
  <2>16. WroteSay'
    BY <2>2, <2>6, <2>11, <2>15 DEF WroteSay, Statement
  <2>17. ObjectsAreTheirRows'
    BY <2>14, <2>16, AgreeIf, PTL
  <2> QED BY <2>14, <2>15, <2>17 DEF WritesInv, OwnRow
<1> QED BY <1>8, <1>9

LEMMA addInv == WritesInv /\ add => WritesInv'
<1> SUFFICES ASSUME WritesInv, add PROVE WritesInv'
  OBVIOUS
<1>1. PICK o \in Made : Adds(o, objs, "add")
  BY DEF add
<1>2. PICK made : made = objs
  OBVIOUS
<1>3. Adds(o, made, "add")
  BY <1>1, <1>2
<1>4. made \in ObjectsType /\ o \in Objects /\ made[o] # Unmade
  BY <1>2 DEF WritesInv, NowGood, Good, Typed, Made
<1>5. Stands(made) \subseteq NamesOf(committed, mine, objs)
  BY <1>2 DEF NamesOf
<1>6. Same /\ strayed' = strayed
  BY DEF add
<1> QED BY <1>3, <1>4, <1>5, <1>6, AddsInv

LEMMA CreateInv == WritesInv /\ Create => WritesInv'
<1> SUFFICES ASSUME WritesInv, Create PROVE WritesInv'
  OBVIOUS
<1>1. PICK o \in Objects, k \in Keys : InCreate(o, k)
  BY DEF WritesInv, PendingInv, Create, Idle, InBatch
<1>2. pending.all[1] = o /\ pending.left[1] = k
  BY <1>1 DEF InCreate
<1>3. PICK x \in Records : x = Object(NoId, k, "short", MISSING, Nobody) /\ x.id = NoId
  <2>1. /\ Object(NoId, k, "short", MISSING, Nobody) \in Records
        /\ Object(NoId, k, "short", MISSING, Nobody).id = NoId
    BY DEF Object, Records, Vals, Defs, NoId, Nobody
  <2> QED BY <2>1
<1>4. PICK os : os = objs
  OBVIOUS
<1>5. PICK made : made = [os EXCEPT ![o] = x]
  OBVIOUS
<1>6. os \in ObjectsType /\ Stands(os) \subseteq NamesOf(committed, mine, objs)
  BY <1>4 DEF WritesInv, NowGood, Good, Typed, NamesOf
<1>7. made \in ObjectsType /\ Stands(made) \subseteq NamesOf(committed, mine, objs)
  <2>1. NamesIts(NamesOf(committed, mine, objs), x)
    BY <1>3 DEF NamesIts
  <2> QED BY <1>5, <1>6, <2>1, StandsOfOne
<1>8. made[o] # Unmade
  BY <1>5, <1>6, RecordsAre DEF ObjectsType
<1>9. Adds(o, made, "get_or_create")
  BY <1>2, <1>3, <1>4, <1>5 DEF Create
<1>10. Same /\ strayed' = strayed
  BY DEF Create
<1> QED BY <1>7, <1>8, <1>9, <1>10, AddsInv

LEMMA add_allInv == WritesInv /\ add_all => WritesInv'
<1> SUFFICES ASSUME WritesInv, add_all PROVE WritesInv'
  OBVIOUS
<1>1. PICK os : os = objs
  OBVIOUS
<1>2. os \in ObjectsType
  BY <1>1 DEF WritesInv, NowGood, Good, Typed
<1> DEFINE Pre(batch) == [o \in Objects |-> IF o \in ToSet(batch) THEN PreSave(os[o]) ELSE os[o]]
<1>3. PICK batch \in Batches :
        /\ objs' = IF PreRaises THEN os ELSE Pre(batch)
        /\ \/ Ends(TRUE, "add_all", {})
           \/ /\ ~PreRaises /\ \A i \in DOMAIN batch : Pre(batch)[batch[i]].val # TooLong
              /\ pending' = [call |-> "add_all", all |-> batch, left |-> batch]
              /\ last' = Returned("none", {})
  <2>1. PICK batch \in Batches :
          LET pre == [o \in Objects |-> IF o \in ToSet(batch) THEN PreSave(objs[o]) ELSE objs[o]]
              values == [i \in DOMAIN batch |-> insert_values(pre[batch[i]])]
              fits == (\A i \in DOMAIN values : _guard_declared_limits(values[i]))
                        /\ guard_uniform_bulk_columns(values)
          IN /\ objs' = IF PreRaises THEN objs ELSE pre
             /\ IF PreRaises \/ ~fits THEN Ends(TRUE, "add_all", {})
                ELSE /\ pending' = [call |-> "add_all", all |-> batch, left |-> batch]
                     /\ last' = Returned("none", {}) /\ UNCHANGED raised
    BY Zenon DEF add_all
  <2>2. PICK pre : pre = Pre(batch)
    OBVIOUS
  <2>3. PICK values : values = [i \in DOMAIN batch |-> insert_values(pre[batch[i]])]
    OBVIOUS
  <2>4. objs' = IF PreRaises THEN os ELSE pre
    BY <1>1, <2>1, <2>2
  <2>5. \/ Ends(TRUE, "add_all", {})
        \/ /\ ~PreRaises /\ \A i \in DOMAIN values : _guard_declared_limits(values[i])
           /\ pending' = [call |-> "add_all", all |-> batch, left |-> batch]
           /\ last' = Returned("none", {})
    BY <1>1, <2>1, <2>2, <2>3
  <2>6. (\A i \in DOMAIN values : _guard_declared_limits(values[i]))
          => \A i \in DOMAIN batch : pre[batch[i]].val # TooLong
    BY <2>3 DEF _guard_declared_limits, insert_values
  <2> QED BY <2>2, <2>4, <2>5, <2>6
<1>4. batch \in Seq(Objects) /\ IsInjective(batch) /\ \A i \in DOMAIN batch : os[batch[i]] # Unmade
  <2>1. PICK n \in 2..Cardinality(Objects) : batch \in [1..n -> Made]
    BY <1>3 DEF Batches
  <2>2. n \in Nat /\ Made \subseteq Objects
    BY DEF Made
  <2> QED BY <1>1, <1>3, <2>1, <2>2 DEF Made, Batches
<1>5. PICK pre : pre = Pre(batch)
  OBVIOUS
<1>6. ASSUME NEW o \in Objects
      PROVE  /\ pre[o] \in Records \cup {Unmade}
             /\ os[o] # Unmade <=> pre[o] # Unmade
             /\ pre[o] # Unmade => pre[o].id = os[o].id /\ pre[o].born = os[o].born
  <2>1. pre[o] = IF o \in ToSet(batch) THEN PreSave(os[o]) ELSE os[o]
    BY <1>5
  <2>2. os[o] \in Records \cup {Unmade}
    BY <1>2 DEF ObjectsType
  <2>3. o \in ToSet(batch) => os[o] # Unmade
    BY <1>4 DEF ToSet
  <2>4. os[o] \in Records =>
          PreSave(os[o]) \in Records /\ PreSave(os[o]).id = os[o].id /\ PreSave(os[o]).born = os[o].born
    BY PreSaveIs
  <2> QED BY <2>1, <2>2, <2>3, <2>4, RecordsAre
<1>7. pre \in ObjectsType /\ Stands(pre) \subseteq Stands(os)
  <2>1. pre = [o \in Objects |-> pre[o]]
    BY <1>5
  <2>2. \A o \in Objects : pre[o] \in Records \cup {Unmade}
    BY <1>6
  <2>3. pre \in ObjectsType
    BY <2>1, <2>2 DEF ObjectsType
  <2>4. \A o \in Objects : pre[o] # Unmade /\ pre[o].id # NoId =>
          os[o] # Unmade /\ os[o].id # NoId /\ <<pre[o].id, pre[o].born>> = <<os[o].id, os[o].born>>
    BY <1>6
  <2>5. Stands(pre) \subseteq Stands(os)
    BY <2>4 DEF Stands
  <2> QED BY <2>3, <2>5
<1>8. objs' \in ObjectsType /\ Stands(objs') \subseteq NamesOf(committed, mine, objs)
  BY <1>1, <1>2, <1>3, <1>5, <1>7 DEF NamesOf
<1>9. NoStatement /\ Same /\ strayed' = strayed
  BY DEF add_all
<1>10. CASE Ends(TRUE, "add_all", {})
  BY <1>8, <1>9, <1>10, EndsIs, NothingWritten
<1>11. CASE /\ ~PreRaises /\ \A i \in DOMAIN batch : pre[batch[i]].val # TooLong
            /\ pending' = [call |-> "add_all", all |-> batch, left |-> batch]
            /\ last' = Returned("none", {})
  <2>1. objs' = pre /\ last'.wrote = {}
    BY <1>3, <1>5, <1>11 DEF Returned
  <2>2. PICK L \in Nat : L = Len(batch)
    BY <1>4
  <2>3. DOMAIN batch = 1..L /\ SubSeq(batch, 0 + 1, L) = batch
    BY <1>4, <2>2, SubSeqFull
  <2>4. \A i \in DOMAIN batch : batch[i] \in Objects /\ pre[batch[i]] # Unmade
    BY <1>4, <1>6
  <2>5. InBatch(batch, 0)'
    BY <1>4, <1>11, <2>1, <2>2, <2>3, <2>4 DEF InBatch
  <2>6. PendingInv'
    BY <1>4, <2>2, <2>5 DEF PendingInv
  <2> QED BY <1>8, <1>9, <2>1, <2>6, NothingWritten
<1> QED BY <1>3, <1>5, <1>10, <1>11

(* The chunk of a batch, and what is left of it.                            *)
Chunked(S, all, L, n, size, left) ==
  /\ Len(left) = L - n
  /\ SubSeq(left, 1, size) \in [1..size -> S]
  /\ \A i \in 1..size : SubSeq(left, 1, size)[i] = all[n + i]
  /\ SubSeq(left, size + 1, L - n) = SubSeq(all, (n + size) + 1, L)
  /\ SubSeq(left, size + 1, L - n) = <<>> => n + size = L
LEMMA ChunkIs ==
  ASSUME NEW S, NEW all \in Seq(S), NEW L \in Nat, L = Len(all), NEW n \in 0..L,
         NEW size \in 0..(L - n), NEW left, left = SubSeq(all, n + 1, L)
  PROVE  Chunked(S, all, L, n, size, left)
<1>1. n \in Int /\ L \in Int /\ n + 1 \in Int /\ size \in Int /\ size + 1 \in Int /\ L - n \in Nat
      /\ L - (n + 1) + 1 = L - n
  OBVIOUS
<1>2. \A i \in (n + 1)..L : all[i] \in S
  BY <1>1
<1>3. /\ left \in Seq(S)
      /\ Len(left) = IF n + 1 <= L THEN L - (n + 1) + 1 ELSE 0
      /\ \A i \in 1..(L - (n + 1) + 1) : left[i] = all[(n + 1) + i - 1]
  BY <1>1, <1>2, SubSeqProperties
<1>4. Len(left) = L - n
  BY <1>1, <1>3
<1>5. \A i \in 1..(L - n) : left[i] = all[n + i] /\ left[i] \in S
  BY <1>1, <1>2, <1>3
<1>6. /\ SubSeq(left, 1, size) \in Seq(S)
      /\ Len(SubSeq(left, 1, size)) = IF 1 <= size THEN size - 1 + 1 ELSE 0
      /\ \A i \in 1..(size - 1 + 1) : SubSeq(left, 1, size)[i] = left[1 + i - 1]
  <2>1. \A i \in 1..size : left[i] \in S
    BY <1>1, <1>5
  <2>2. 1 \in Int /\ size \in Int
    BY <1>1
  <2> QED BY <2>1, <2>2, SubSeqProperties
<1>7. SubSeq(left, 1, size) \in [1..size -> S] /\ \A i \in 1..size : SubSeq(left, 1, size)[i] = all[n + i]
  <2>1. PICK c : c = SubSeq(left, 1, size)
    OBVIOUS
  <2>2. size - 1 + 1 = size /\ (IF 1 <= size THEN size - 1 + 1 ELSE 0) = size /\ size \in Nat
    BY <1>1
  <2>3. c \in Seq(S) /\ Len(c) = size
    BY <1>6, <2>1, <2>2
  <2>4. \A i \in 1..size : c[i] = left[i]
    <3>1. \A i \in 1..size : 1 + i - 1 = i
      OBVIOUS
    <3> QED BY <1>6, <2>1, <2>2, <3>1
  <2>5. \A i \in 1..size : i \in 1..(L - n)
    BY <1>1
  <2>6. c \in [1..size -> S]
    BY <2>3
  <2> QED BY <1>5, <2>1, <2>4, <2>5, <2>6
<1>8. CASE size = L - n
  <2>1. SubSeq(left, size + 1, L - n) = <<>>
    BY <1>1, <1>8, SubSeqEmpty
  <2>2. SubSeq(all, (n + size) + 1, L) = <<>>
    <3>1. (n + size) + 1 \in Int /\ L \in Int /\ L < (n + size) + 1
      BY <1>1, <1>8
    <3> QED BY <3>1, SubSeqEmpty
  <2>3. SubSeq(left, size + 1, L - n) = SubSeq(all, (n + size) + 1, L)
    BY <2>1, <2>2
  <2>4. n + size = L
    BY <1>1, <1>8
  <2> QED BY <1>4, <1>7, <2>3, <2>4 DEF Chunked
<1>9. CASE size # L - n
  <2>1. /\ n + 1 \in 1..L /\ L \in 1..L /\ size + 1 \in 1..(L - (n + 1) + 1)
        /\ L - n \in 1..(L - (n + 1) + 1)
    BY <1>1, <1>9
  <2>2. SubSeq(SubSeq(all, n + 1, L), size + 1, L - n) = SubSeq(all, (n + 1) + (size + 1) - 1, (n + 1) + (L - n) - 1)
    BY <2>1, SubSeqOfSubSeq
  <2>3. (n + 1) + (size + 1) - 1 = (n + size) + 1 /\ (n + 1) + (L - n) - 1 = L
    BY <1>1
  <2>4. SubSeq(left, size + 1, L - n) = SubSeq(all, (n + size) + 1, L)
    BY <2>2, <2>3
  <2>5. (n + size) + 1 \in Int /\ (n + size) + 1 <= L
    BY <1>1, <1>9
  <2>6. Len(SubSeq(all, (n + size) + 1, L)) = L - ((n + size) + 1) + 1
    <3>1. \A i \in ((n + size) + 1)..L : all[i] \in S
      BY <1>1, <2>5
    <3> QED BY <1>1, <2>5, <3>1, SubSeqProperties
  <2>7. SubSeq(all, (n + size) + 1, L) # <<>>
    <3>1. PICK c : c = SubSeq(all, (n + size) + 1, L)
      OBVIOUS
    <3>2. Len(c) # 0
      BY <1>1, <1>9, <2>5, <2>6, <3>1
    <3>3. c # <<>>
      BY <3>2
    <3> QED BY <3>1, <3>3
  <2> QED BY <1>4, <1>7, <2>4, <2>7 DEF Chunked
<1> QED BY <1>8, <1>9

LEMMA ChunkInv == WritesInv /\ Chunk => WritesInv'
<1> SUFFICES ASSUME WritesInv, Chunk PROVE WritesInv'
  OBVIOUS
<1>1. PICK all \in Seq(Objects) : \E n \in 0..Len(all) : InBatch(all, n)
  BY DEF WritesInv, PendingInv, Chunk, Idle, InCreate
<1>20. PICK n \in 0..Len(all) : InBatch(all, n)
  BY <1>1
<1>2. PICK L \in Nat : L = Len(all)
  OBVIOUS
<1>3. PICK left : left = SubSeq(all, n + 1, L)
  OBVIOUS
<1>4. pending = [call |-> "add_all", all |-> all, left |-> left] /\ Len(left) = L - n
  <2>1. 0 \in 0..(L - n)
    BY <1>2
  <2>2. Chunked(Objects, all, L, n, 0, left)
    BY <1>2, <1>3, <2>1, ChunkIs
  <2> QED BY <1>20, <1>2, <1>3, <2>2 DEF InBatch, Chunked
<1>5. PICK os : os = objs
  OBVIOUS
<1>6. os \in ObjectsType /\ Good(engine, committed, mine, counter, births, os) /\ engine \in Engines
  BY <1>5 DEF WritesInv, NowGood, Good, Typed
<1>7. PICK size \in 0..(L - n) : size = IF Len(left) < ChunkRows[engine] THEN Len(left) ELSE ChunkRows[engine]
  <2>1. ChunkRows[engine] \in Nat \ {0} /\ L - n \in Nat
    BY <1>2, <1>6, WritesAssumption
  <2> QED BY <1>4, <2>1
<1>8. PICK batch : batch = SubSeq(left, 1, size)
  OBVIOUS
<1>9. /\ batch \in [1..size -> Objects] /\ \A i \in 1..size : batch[i] = all[n + i]
      /\ SubSeq(left, size + 1, L - n) = SubSeq(all, (n + size) + 1, L)
      /\ SubSeq(left, size + 1, L - n) = <<>> => n + size = L
  <2>1. /\ SubSeq(left, 1, size) \in [1..size -> Objects]
        /\ \A i \in 1..size : SubSeq(left, 1, size)[i] = all[n + i]
        /\ SubSeq(left, size + 1, L - n) = SubSeq(all, (n + size) + 1, L)
        /\ SubSeq(left, size + 1, L - n) = <<>> => n + size = L
    <3>1. n \in 0..L
      BY <1>2
    <3>2. Chunked(Objects, all, L, n, size, left)
      BY <1>2, <1>3, <1>7, <3>1, ChunkIs
    <3> QED BY <3>2 DEF Chunked
  <2> QED BY <1>8, <2>1
<1>10. ASSUME NEW i \in 1..L
       PROVE  all[i] \in Objects /\ os[all[i]] \in Records
  <2>1. i \in DOMAIN all /\ all[i] \in Objects
    BY <1>2
  <2>2. os[all[i]] # Unmade
    BY <1>20, <1>5, <2>1 DEF InBatch
  <2> QED BY <1>6, <2>1, <2>2 DEF ObjectsType
<1>11. \A i \in 1..size : n + i \in 1..L /\ n + i \in (n + 1)..L
  BY <1>2, <1>7
<1>12. ASSUME NEW i \in 1..size
       PROVE  /\ os[batch[i]] \in Records /\ os[batch[i]].val # TooLong
              /\ NamesIts(NamesOf(committed, mine, os), os[batch[i]])
  <2>1. batch[i] = all[n + i] /\ n + i \in 1..L /\ n + i \in (n + 1)..Len(all)
    BY <1>2, <1>9, <1>11
  <2>2. os[batch[i]] \in Records /\ os[batch[i]].val # TooLong
    BY <1>20, <1>5, <1>10, <2>1 DEF InBatch
  <2>3. NamesIts(NamesOf(committed, mine, os), os[batch[i]])
    BY <1>9, <2>2, RecordsAre DEF NamesIts, NamesOf, Stands
  <2> QED BY <2>2, <2>3
<1>13. PICK values \in [1..size -> Records] : values = [i \in DOMAIN batch |-> os[batch[i]]]
  <2>1. DOMAIN batch = 1..size
    BY <1>9
  <2>2. [i \in DOMAIN batch |-> os[batch[i]]] \in [1..size -> Records]
    BY <1>12, <2>1
  <2> QED BY <2>2
<1>14. PICK out : out = emit_insert_many(values)
  OBVIOUS
<1>15. PICK new : new = Filled(os, batch, out.rows, FALSE)
  OBVIOUS
<1>16. IF out.refused THEN NoStatement /\ objs' = objs /\ Ends(TRUE, "add_all", {})
       ELSE /\ objs' = new /\ Statement(out)
            /\ IF SubSeq(left, size + 1, L - n) # <<>>
               THEN /\ pending' = [pending EXCEPT !.left = SubSeq(left, size + 1, L - n)]
                    /\ raised' = raised /\ last' = last
               ELSE Ends(PostRaises, "add_all", ToSet(all))
  BY <1>4, <1>5, <1>7, <1>8, <1>13, <1>14, <1>15 DEF Chunk, insert_values
<1>17. Same /\ strayed' = strayed
  BY DEF Chunk
<1>18. CASE out.refused
  <2>1. NoStatement /\ objs' = objs /\ Ends(TRUE, "add_all", {})
    BY <1>16, <1>18
  <2>2. PendingInv' /\ last'.wrote = {}
    BY <2>1, EndsIs
  <2>3. objs' \in ObjectsType /\ Stands(objs') \subseteq NamesOf(committed, mine, objs)
    BY <1>5, <1>6, <2>1 DEF NamesOf
  <2> QED BY <1>17, <2>1, <2>2, <2>3, NothingWritten
<1>19. CASE ~out.refused
  <2>1. PICK N : N = NamesOf(committed, mine, os)
    OBVIOUS
  <2>2. out \in Outs /\ InsertedAll(out, mine, N, values, size)
    <3>1. committed \in Tables /\ mine \in Tables /\ counter \in Nat /\ births \in Nat
      BY <1>6 DEF Good, Typed
    <3>2. Coherent(engine, N \cup Births(mine), counter, births)
      <4>1. N \cup Births(mine) = N
        BY <2>1 DEF NamesOf
      <4> QED BY <1>6, <2>1, <4>1 DEF Good
    <3>3. \A i \in 1..size : values[i].val # TooLong /\ NamesIts(N, values[i])
      BY <1>9, <1>12, <1>13, <2>1
    <3>4. size \in Nat
      BY <1>2, <1>7
    <3> QED BY <1>14, <1>19, <3>1, <3>2, <3>3, <3>4, InsertMany
  <2>3. PICK m \in Tables : m = out.mine
    BY <2>2 DEF Outs
  <2>4. PICK rows \in Seq(Records) : rows = out.rows
    BY <2>2 DEF Outs
  <2>5. Len(rows) = size /\ size \in Nat
        /\ \A i \in 1..size : os[batch[i]] \in Records /\ Placed(m, os[batch[i]], rows[i])
    <3>1. Len(rows) = size /\ size \in Nat
      BY <1>2, <1>7, <2>2, <2>4 DEF InsertedAll
    <3>2. ASSUME NEW i \in 1..size PROVE os[batch[i]] \in Records /\ Placed(m, os[batch[i]], rows[i])
      <4>1. values[i] = os[batch[i]]
        BY <1>9, <1>13
      <4>2. Placed(m, values[i], rows[i])
        BY <2>2, <2>3, <2>4 DEF InsertedAll
      <4> QED BY <1>12, <4>1, <4>2
    <3> QED BY <3>1, <3>2
  <2>6. PICK f : f = Filled(os, batch, rows, FALSE)
    OBVIOUS
  <2>61. IsFilled(f, os, size, batch, m)
    BY <1>6, <1>9, <2>5, <2>6, FilledIs
  <2>7. /\ new \in ObjectsType /\ \A o \in Objects : o \notin ToSet(batch) => new[o] = os[o]
        /\ \A i \in 1..size : /\ new[batch[i]] \in Records /\ SaysOfIts(new[batch[i]], m)
                              /\ NamesIts(Births(m), new[batch[i]])
    BY <1>15, <2>4, <2>6, <2>61 DEF IsFilled
  <2>8. ToSet(batch) = {batch[i] : i \in 1..size}
    BY <1>9 DEF ToSet
  <2>9. Stands(new) \subseteq N \cup Births(m)
    <3>1. ASSUME NEW o \in Objects, new[o] # Unmade, new[o].id # NoId
          PROVE  <<new[o].id, new[o].born>> \in N \cup Births(m)
      <4>1. CASE o \in ToSet(batch)
        <5>1. PICK i \in 1..size : o = batch[i]
          BY <2>8, <4>1
        <5>2. NamesIts(Births(m), new[o])
          BY <2>7, <5>1
        <5> QED BY <3>1, <5>2 DEF NamesIts
      <4>2. CASE o \notin ToSet(batch)
        BY <2>1, <2>7, <3>1, <4>2 DEF NamesOf, Stands
      <4> QED BY <4>1, <4>2
    <3> QED BY <3>1 DEF Stands
  <2>10. Good(engine, committed, out.mine, out.counter, out.births, new)
    BY <1>6, <2>1, <2>2, <2>3, <2>7, <2>9, GoodInserted
  <2>11. NowGood' /\ mine' = m /\ objs' = new
    BY <1>16, <1>17, <1>19, <2>3, <2>10 DEF NowGood, Same, Statement
  <2>12. ASSUME NEW i \in 1..n PROVE SaysOfIts(new[all[i]], m)
    <3>1. all[i] \notin ToSet(batch)
      <4>1. ASSUME NEW k \in 1..size, batch[k] = all[i] PROVE FALSE
        <5>1. n + k \in DOMAIN all /\ i \in DOMAIN all /\ all[n + k] = all[i] /\ n + k # i
          BY <1>2, <1>9, <1>11, <4>1
        <5> QED BY <1>20, <5>1 DEF InBatch, IsInjective
      <4> QED BY <2>8, <4>1
    <3>2. i \in 1..L
      BY <1>2
    <3>3. new[all[i]] = os[all[i]] /\ SaysOfIts(os[all[i]], mine)
      BY <1>20, <1>5, <1>10, <2>7, <3>1, <3>2 DEF InBatch
    <3>4. Untroubled(m, mine)
      BY <2>2, <2>3 DEF InsertedAll
    <3> QED BY <3>3, <3>4 DEF SaysOfIts, Untroubled
  <2>13. ASSUME NEW i \in 1..(n + size) PROVE SaysOfIts(new[all[i]], m)
    <3>1. CASE i \in 1..n
      BY <2>12, <3>1
    <3>2. CASE i \notin 1..n
      <4>1. PICK k \in 1..size : i = n + k
        <5>1. i - n \in 1..size /\ i = n + (i - n)
          BY <1>2, <1>7, <3>2
        <5> QED BY <5>1
      <4> QED BY <1>9, <2>7, <4>1
    <3> QED BY <3>1, <3>2
  <2>14. CASE SubSeq(left, size + 1, L - n) # <<>>
    <3>1. PICK k \in 0..L : k = n + size
      BY <1>2, <1>7
    <3>2. /\ pending' = [call |-> "add_all", all |-> all, left |-> SubSeq(all, k + 1, Len(all))]
          /\ last' = last /\ last.wrote = {}
      <4>1. pending' = [pending EXCEPT !.left = SubSeq(left, size + 1, L - n)] /\ last' = last
        BY <1>16, <1>19, <2>14
      <4>2. SubSeq(left, size + 1, L - n) = SubSeq(all, k + 1, Len(all))
        BY <1>2, <1>9, <3>1
      <4>3. last.wrote = {}
        BY <1>20 DEF InBatch
      <4> QED BY <1>4, <4>1, <4>2, <4>3
    <3>3. \A i \in DOMAIN all : new[all[i]] # Unmade
      <4>1. ASSUME NEW i \in DOMAIN all PROVE new[all[i]] # Unmade
        <5>1. i \in 1..L
          BY <1>2
        <5>2. CASE all[i] \in ToSet(batch)
          <6>1. PICK h \in 1..size : all[i] = batch[h]
            BY <2>8, <5>2
          <6>2. new[all[i]] \in Records
            BY <2>7, <6>1
          <6> QED BY <6>2, RecordsAre
        <5>3. CASE all[i] \notin ToSet(batch)
          BY <1>10, <2>7, <5>1, <5>3, RecordsAre
        <5> QED BY <5>2, <5>3
      <4> QED BY <4>1
    <3>4. \A i \in (k + 1)..Len(all) : new[all[i]].val # TooLong
      <4>1. ASSUME NEW i \in (k + 1)..Len(all) PROVE new[all[i]].val # TooLong
        <5>1. i \in 1..L /\ i \in (n + 1)..Len(all)
          <6>1. i \in (k + 1)..L
            BY <1>2
          <6>2. k >= n /\ n \in Nat /\ k \in Nat
            BY <1>2, <1>7, <3>1
          <6>3. i \in 1..L /\ i \in (n + 1)..L
            BY <6>1, <6>2
          <6> QED BY <1>2, <6>3
        <5>2. all[i] \notin ToSet(batch)
          <6>1. ASSUME NEW h \in 1..size, batch[h] = all[i] PROVE FALSE
            <7>1. n + h \in DOMAIN all /\ i \in DOMAIN all /\ all[n + h] = all[i] /\ n + h # i
              <8>1. n + h # i
                <9>1. i \in Int /\ k + 1 <= i /\ h <= size /\ h \in Int /\ n \in Int /\ size \in Int
                  BY <1>2, <1>7, <3>1
                <9> QED BY <3>1, <9>1
              <8>2. n + h \in DOMAIN all /\ i \in DOMAIN all
                BY <1>2, <1>11, <5>1
              <8> QED BY <1>9, <6>1, <8>1, <8>2
            <7> QED BY <1>20, <7>1 DEF InBatch, IsInjective
          <6> QED BY <2>8, <6>1
        <5>3. os[all[i]].val # TooLong
          BY <1>20, <1>5, <5>1 DEF InBatch
        <5> QED BY <1>10, <2>7, <5>1, <5>2, <5>3
      <4> QED BY <4>1
    <3>5. \A i \in 1..k : SaysOfIts(new[all[i]], m)
      BY <2>13, <3>1
    <3>6. InBatch(all, k)'
      BY <1>20, <2>11, <3>2, <3>3, <3>4, <3>5 DEF InBatch
    <3>7. PendingInv'
      BY <1>2, <3>6 DEF PendingInv
    <3>8. ObjectsAreTheirRows'
      <4>1. (last.wrote = {})'
        BY <3>2
      <4> QED BY <4>1, WroteNothing, PTL
    <3> QED BY <1>17, <2>11, <3>7, <3>8 DEF WritesInv, OwnRow
  <2>15. CASE SubSeq(left, size + 1, L - n) = <<>>
    <3>1. Ends(PostRaises, "add_all", ToSet(all)) /\ n + size = L
      BY <1>9, <1>16, <1>19, <2>15
    <3>2. PendingInv' /\ last'.wrote \subseteq ToSet(all)
      BY <3>1, EndsIs DEF PostRaises
    <3>3. \A o \in ToSet(all) : SaysOfIts(new[o], m)
      BY <1>2, <2>13, <3>1 DEF ToSet
    <3>4. WroteSay'
      BY <2>11, <3>2, <3>3 DEF WroteSay
    <3>5. ObjectsAreTheirRows'
      BY <2>11, <3>4, AgreeIf, PTL
    <3> QED BY <1>17, <2>11, <3>2, <3>5 DEF WritesInv, OwnRow
  <2> QED BY <2>14, <2>15
<1> QED BY <1>18, <1>19

(* A row of the view is written again: the same row, with other values.      *)
LEMMA PutKeeps ==
  ASSUME NowGood, NEW i \in DOMAIN View, NEW r \in RowSet, r.born = View[i].born, r.val # TooLong,
         NEW m, m = Put(mine, i, r)
  PROVE  /\ m \in Tables /\ i \in Live(m) /\ m[i] = r
         /\ Good(engine, committed, m, counter, births, objs)
<1>1. mine \in Tables /\ i \in Nat /\ r \in RowSet \cup {Gone} /\ r # Gone /\ Short(mine)
  BY ViewIs, RowsAreThere DEF NowGood, Good, Typed
<1>2. /\ m \in Tables /\ DOMAIN m = {i} \cup DOMAIN mine /\ m[i] = r
      /\ \A j \in DOMAIN mine : j # i => m[j] = mine[j]
  <2>1. HasPut(Put(mine, i, r), mine, i, r)
    BY <1>1, PutFacts
  <2> QED BY <2>1 DEF HasPut
<1>3. Births(m) \subseteq Births(mine) \cup {<<i, r.born>>}
  BY <1>1, BirthsOfPut
<1>4. Births(m) \subseteq NamesOf(committed, mine, objs)
  BY <1>3, ViewIs DEF NamesOf
<1>5. Short(m)
  BY <1>1, <1>2 DEF Short, Live
<1>6. Good(engine, committed, mine, counter, births, objs)
  BY DEF NowGood
<1>7. Good(engine, committed, m, counter, births, objs)
  BY <1>2, <1>4, <1>5, <1>6, GoodAfter
<1> QED BY <1>1, <1>2, <1>7 DEF Live

LEMMA upsertInv == WritesInv /\ upsert => WritesInv'
<1> SUFFICES ASSUME WritesInv, upsert PROVE WritesInv'
  OBVIOUS
<1>1. PICK os : os = objs
  OBVIOUS
<1>2. os \in ObjectsType /\ Good(engine, committed, mine, counter, births, os) /\ NowGood
  BY <1>1 DEF WritesInv, NowGood, Good, Typed
<1> DEFINE Does(o, do) ==
      LET pre == [os EXCEPT ![o] = PreSave(@)]
          out == emit_upsert(pre[o], do)
      IN IF PreRaises \/ pre[o].val = TooLong \/ out.refused
         THEN objs' = (IF PreRaises THEN os ELSE pre) /\ NoStatement /\ Ends(TRUE, "upsert", {})
         ELSE LET answers == supports_returning /\ out.rows # <<>> IN
           /\ objs' = IF ~answers THEN pre
                      ELSE [pre EXCEPT ![o] =
                              apply_returned(StandsFor(@, out.rows[1]), out.rows[1])]
           /\ Statement(out)
           /\ Ends(PostRaises, "upsert", IF answers THEN {o} ELSE {})
<1>3. PICK o \in Made, do \in BOOLEAN : Does(o, do)
  <2>1. PICK o \in Made, do \in BOOLEAN :
          LET pre == [objs EXCEPT ![o] = PreSave(@)]
              v == insert_values(pre[o])
              out == emit_upsert(v, do)
          IN IF PreRaises \/ ~_guard_declared_limits(v) \/ out.refused
             THEN objs' = (IF PreRaises THEN objs ELSE pre) /\ NoStatement /\ Ends(TRUE, "upsert", {})
             ELSE LET answers == supports_returning /\ out.rows # <<>> IN
               /\ objs' = IF ~answers THEN pre
                          ELSE [pre EXCEPT ![o] =
                                  apply_returned(StandsFor(@, out.rows[1]), out.rows[1])]
               /\ Statement(out)
               /\ Ends(PostRaises, "upsert", IF answers THEN {o} ELSE {})
    BY Zenon DEF upsert
  <2>2. Does(o, do)
    BY <1>1, <2>1 DEF insert_values, _guard_declared_limits
  <2> QED BY <2>2
<1>4. PICK x \in Records : x = os[o]
  BY <1>1, <1>2 DEF Made, ObjectsType
<1>5. PICK v \in Records : v = PreSave(x)
  BY PreSaveIs
<1>6. v.id = x.id /\ v.born = x.born
  BY <1>5, PreSaveIs
<1>7. PICK pre : pre = [os EXCEPT ![o] = v]
  OBVIOUS
<1>8. o \in Objects /\ pre[o] = v /\ pre = [os EXCEPT ![o] = PreSave(@)]
  BY <1>2, <1>4, <1>5, <1>7 DEF ObjectsType, Made
<1>9. NamesIts(NamesOf(committed, mine, os), v) /\ Stands(os) \subseteq NamesOf(committed, mine, os)
  BY <1>4, <1>6, <1>8, RecordsAre DEF NamesIts, Stands, NamesOf
<1>10. pre \in ObjectsType /\ Stands(pre) \subseteq NamesOf(committed, mine, os)
  <2>1. PICK N : N = NamesOf(committed, mine, os)
    OBVIOUS
  <2>2. Stands(os) \subseteq N /\ NamesIts(N, v)
    BY <1>9, <2>1
  <2>3. [os EXCEPT ![o] = v] \in ObjectsType /\ Stands([os EXCEPT ![o] = v]) \subseteq N
    BY <1>2, <1>8, <2>2, StandsOfOne
  <2> QED BY <1>7, <2>1, <2>3
<1>11. PICK out : out = emit_upsert(v, do)
  OBVIOUS
<1>12. Same /\ strayed' = strayed
  BY DEF upsert
<1>13. CASE PreRaises \/ v.val = TooLong \/ out.refused
  <2>1. objs' \in {os, pre} /\ NoStatement /\ Ends(TRUE, "upsert", {})
    BY <1>3, <1>8, <1>11, <1>13
  <2>2. PendingInv' /\ last'.wrote = {}
    BY <2>1, EndsIs
  <2>3. objs' \in ObjectsType /\ Stands(objs') \subseteq NamesOf(committed, mine, objs)
    BY <1>1, <1>2, <1>9, <1>10, <2>1
  <2> QED BY <1>12, <2>1, <2>2, <2>3, NothingWritten
<1>14. CASE ~(PreRaises \/ v.val = TooLong \/ out.refused)
  <2>1. /\ Statement(out)
        /\ \/ objs' = pre /\ Ends(PostRaises, "upsert", {})
           \/ /\ out.rows # <<>>
              /\ objs' = [pre EXCEPT ![o] = apply_returned(StandsFor(v, out.rows[1]), out.rows[1])]
              /\ Ends(PostRaises, "upsert", {o})
    BY <1>3, <1>8, <1>11, <1>14
  <2>2. Good(engine, committed, mine, counter, births, pre)
    BY <1>2, <1>10, GoodWith
  (* The statement leaves a good state, and its row is this transaction's.    *)
  <2> DEFINE Fine(row) ==
        /\ row \in Records /\ row.id \in Live(out.mine) /\ Says(row, out.mine[row.id])
        /\ <<row.id, row.born>> \in Births(out.mine)
  <2>3. /\ Good(engine, committed, out.mine, out.counter, out.births, pre)
        /\ out.rows # <<>> => Fine(out.rows[1])
    <3>1. CASE Conflicts(v) = {}
      <4>1. out = InsertOne(Untouched, v)
        BY <1>11, <3>1 DEF emit_upsert
      <4>2. NamesIts(NamesOf(committed, mine, pre), v)
        BY <1>8, RecordsAre DEF NamesIts, NamesOf, Stands
      <4>3. out \in Outs /\ InsertedAll(out, mine, NamesOf(committed, mine, pre), <<v>>, 1)
        BY <1>14, <2>2, <4>1, <4>2, InsertsOne
      <4>4. Stands(pre) \subseteq NamesOf(committed, mine, pre) \cup Births(out.mine)
        BY DEF NamesOf
      <4>5. Good(engine, committed, out.mine, out.counter, out.births, pre)
        BY <1>10, <2>2, <4>3, <4>4, GoodInserted
      <4>6. PICK row : row = out.rows[1]
        OBVIOUS
      <4>7. row \in Records
        BY <4>3, <4>6 DEF InsertedAll, Outs
      <4>8. Placed(out.mine, v, row)
        BY <4>3, <4>6 DEF InsertedAll
      <4>9. /\ row.id \in Live(out.mine) /\ out.mine[row.id].key = row.key
            /\ out.mine[row.id].val = row.val /\ out.mine[row.id].def = row.def
            /\ out.mine[row.id].born = row.born
        BY <4>7, <4>8 DEF Placed, Answer
      <4>10. Fine(row)
        BY <4>7, <4>9 DEF Says, Births
      <4> QED BY <4>5, <4>6, <4>10
    <3>2. CASE Conflicts(v) # {} /\ ~do
      <4>1. out = Untouched
        BY <1>11, <3>2 DEF emit_upsert
      <4> QED BY <2>2, <4>1 DEF Untouched, Outcome
    <3>3. CASE Conflicts(v) # {} /\ do
      <4>1. PICK i : i = CHOOSE k \in Conflicts(v) : TRUE
        OBVIOUS
      <4>2. i \in DOMAIN View
        BY <3>3, <4>1 DEF Conflicts, HasKey, View
      <4>3. PICK old \in RowSet : old = View[i]
        BY <1>2, <4>2, ViewIs
      <4>4. PICK r : r = [old EXCEPT !.val = v.val]
        OBVIOUS
      <4>5. r \in RowSet /\ r.born = View[i].born /\ r.val # TooLong
        BY <1>14, <4>3, <4>4, RecordsAre DEF RowSet
      <4>6. PICK m : m = Put(mine, i, r)
        OBVIOUS
      <4>7. out = Outcome(m, counter, births, <<Answer(i, r)>>, FALSE)
        BY <1>11, <3>3, <4>1, <4>3, <4>4, <4>6 DEF emit_upsert
      <4>8. /\ m \in Tables /\ i \in Live(m) /\ m[i] = r
            /\ Good(engine, committed, m, counter, births, objs)
        BY <1>2, <4>2, <4>5, <4>6, PutKeeps
      <4>9. Stands(pre) \subseteq NamesOf(committed, m, objs)
        BY <1>1, <1>2, <1>4, <1>6, <1>7, <1>8, RecordsAre, StandsOfOne DEF NamesOf, NamesIts, Stands
      <4>10. Good(engine, committed, m, counter, births, pre)
        BY <1>10, <4>8, <4>9, GoodWith
      <4>11. /\ out.mine = m /\ out.counter = counter /\ out.births = births
             /\ out.rows[1] = Answer(i, r)
        BY <4>7 DEF Outcome
      <4>12. i \in Nat /\ Answer(i, r) \in Records
        BY <1>2, <4>2, <4>5, ViewIs, RowsAreThere
      <4>13. /\ Answer(i, r).id = i /\ Answer(i, r).key = r.key /\ Answer(i, r).val = r.val
             /\ Answer(i, r).def = r.def /\ Answer(i, r).born = r.born
        BY DEF Answer
      <4>14. Fine(Answer(i, r))
        BY <4>8, <4>11, <4>12, <4>13 DEF Says, Births
      <4> QED BY <4>10, <4>11, <4>14
    <3> QED BY <1>3, <3>1, <3>2, <3>3
  <2>4. CASE objs' = pre /\ Ends(PostRaises, "upsert", {})
    <3>1. NowGood'
      BY <1>12, <2>1, <2>3, <2>4 DEF NowGood, Same, Statement
    <3>2. PendingInv' /\ last'.wrote = {}
      BY <2>4 DEF Ends, Returned, PendingInv
    <3>3. ObjectsAreTheirRows'
      <4>1. (last.wrote = {})'
        BY <3>2
      <4> QED BY <4>1, WroteNothing, PTL
    <3> QED BY <1>12, <3>1, <3>2, <3>3 DEF WritesInv, OwnRow
  <2>5. CASE /\ out.rows # <<>>
             /\ objs' = [pre EXCEPT ![o] = apply_returned(StandsFor(v, out.rows[1]), out.rows[1])]
             /\ Ends(PostRaises, "upsert", {o})
    <3>1. PICK row : row = out.rows[1]
      OBVIOUS
    <3>2. Fine(row)
      BY <2>3, <2>5, <3>1
    <3>3. apply_returned(StandsFor(v, row), row) = row
      BY <3>2 DEF apply_returned, StandsFor, Object, Records
    <3>4. PICK new : new = [pre EXCEPT ![o] = row]
      OBVIOUS
    <3>5. objs' = new /\ new[o] = row
      BY <1>8, <1>10, <2>5, <3>1, <3>3, <3>4 DEF ObjectsType
    <3>6. PICK N : N = NamesOf(committed, out.mine, pre)
      OBVIOUS
    <3>7. Stands(pre) \subseteq N /\ NamesIts(N, row) /\ row \in Records
      BY <3>2, <3>6 DEF NamesIts, NamesOf
    <3>8. new \in ObjectsType /\ Stands(new) \subseteq N
      BY <1>8, <1>10, <3>4, <3>7, StandsOfOne
    <3>9. Good(engine, committed, out.mine, out.counter, out.births, new)
      BY <2>3, <3>6, <3>8, GoodWith
    <3>10. NowGood'
      BY <1>12, <2>1, <3>5, <3>9 DEF NowGood, Same, Statement
    <3>11. PendingInv' /\ last'.wrote \subseteq {o}
      BY <2>5, EndsIs DEF PostRaises
    <3>12. SaysOfIts(row, out.mine)
      BY <3>2 DEF SaysOfIts
    <3>13. WroteSay'
      BY <2>1, <3>5, <3>11, <3>12 DEF WroteSay, Statement
    <3>14. ObjectsAreTheirRows'
      BY <3>10, <3>13, AgreeIf, PTL
    <3> QED BY <1>12, <3>10, <3>11, <3>14 DEF WritesInv, OwnRow
  <2> QED BY <2>1, <2>4, <2>5
<1> QED BY <1>13, <1>14

(* An object and the row of its id are one insertion; on SQLite, if that      *)
(* insertion is still in the table.                                        *)
LEMMA NoStray ==
  ASSUME NowGood, NEW o \in Made
  PROVE  ~Reaches(o, objs[o].id)
<1> SUFFICES ASSUME Reaches(o, objs[o].id) PROVE FALSE
  OBVIOUS
<1>1. PICK x : x = objs[o]
  OBVIOUS
<1>2. /\ x.id \in DOMAIN View /\ View[x.id].born # x.born
      /\ engine = "sqlite" => \E j \in DOMAIN View : View[j].born = x.born
  BY <1>1 DEF Reaches
<1>3. PICK N : N = NamesOf(committed, mine, objs)
  OBVIOUS
<1>4. Coherent(engine, N, counter, births)
  BY <1>3 DEF NowGood, Good
<1>5. x.id # NoId /\ \A i \in DOMAIN View : <<i, View[i].born>> \in N
  BY <1>2, <1>3, ViewIs DEF NoId, NamesOf
<1>6. <<x.id, x.born>> \in N
  BY <1>1, <1>3, <1>5 DEF Made, NamesOf, Stands
<1>7. PICK p \in N : p[1] = x.id /\ p[2] = x.born
  BY <1>6
<1>8. PICK q \in N : q[1] = x.id /\ q[2] = View[x.id].born
  BY <1>2, <1>5
<1>9. CASE engine # "sqlite"
  BY <1>2, <1>4, <1>7, <1>8, <1>9 DEF Coherent
<1>10. CASE engine = "sqlite"
  <2>1. PICK j \in DOMAIN View : View[j].born = x.born
    BY <1>2, <1>10
  <2>2. PICK r \in N : r[1] = j /\ r[2] = x.born
    BY <1>5, <2>1
  <2>3. j = x.id
    BY <1>4, <1>7, <2>2 DEF Coherent
  <2> QED BY <1>2, <2>1, <2>3
<1> QED BY <1>9, <1>10

LEMMA SameView == committed' = committed /\ mine' = mine => View' = View
  BY DEF View, Rows, Over

LEMMA updateInv == WritesInv /\ update => WritesInv'
<1> SUFFICES ASSUME WritesInv, update PROVE WritesInv'
  OBVIOUS
<1>1. PICK os : os = objs
  OBVIOUS
<1>2. os \in ObjectsType /\ Good(engine, committed, mine, counter, births, os) /\ NowGood
  BY <1>1 DEF WritesInv, NowGood, Good, Typed
<1> DEFINE Does(o) ==
      LET out == emit_update(os[o].id, os[o])
      IN IF os[o].val = TooLong \/ PreRaises
         THEN objs' = os /\ strayed' = strayed /\ NoStatement /\ Ends(TRUE, "update", {})
         ELSE /\ objs' = [os EXCEPT ![o] = PreSave(@)]
              /\ IF out.refused THEN NoStatement /\ strayed' = strayed /\ Ends(TRUE, "update", {})
                 ELSE /\ Statement(out)
                      /\ strayed' = (strayed \/ Reaches(o, os[o].id))
                      /\ Ends(PostRaises, "update", {o})
<1>3. PICK o \in Made : Does(o)
  BY <1>1 DEF update, update_values, _guard_declared_limits
<1>4. PICK x \in Records : x = os[o]
  BY <1>1, <1>2 DEF Made, ObjectsType
<1>5. PICK v \in Records : v = PreSave(x)
  BY PreSaveIs
<1>6. v.id = x.id /\ v.born = x.born
  BY <1>5, PreSaveIs
<1>7. PICK pre : pre = [os EXCEPT ![o] = v]
  OBVIOUS
<1>8. o \in Objects /\ pre[o] = v /\ pre = [os EXCEPT ![o] = PreSave(@)]
  BY <1>2, <1>4, <1>5, <1>7 DEF ObjectsType, Made
<1>9. ASSUME NEW N, Stands(os) \subseteq N
      PROVE  pre \in ObjectsType /\ Stands(pre) \subseteq N
  <2>1. NamesIts(N, v)
    BY <1>4, <1>6, <1>8, <1>9, RecordsAre DEF NamesIts, Stands
  <2>2. [os EXCEPT ![o] = v] \in ObjectsType /\ Stands([os EXCEPT ![o] = v]) \subseteq N
    BY <1>2, <1>8, <1>9, <2>1, StandsOfOne
  <2> QED BY <1>7, <2>2
<1>10. Stands(os) \subseteq NamesOf(committed, mine, os)
  BY DEF NamesOf
<1>11. pre \in ObjectsType /\ Stands(pre) \subseteq NamesOf(committed, mine, os)
  BY <1>9, <1>10
<1>12. PICK out : out = emit_update(x.id, x)
  OBVIOUS
<1>13. Same
  BY DEF update
<1>14. CASE x.val = TooLong \/ PreRaises \/ out.refused
  <2>1. objs' \in {os, pre} /\ NoStatement /\ strayed' = strayed /\ Ends(TRUE, "update", {})
    BY <1>3, <1>4, <1>8, <1>12, <1>14
  <2>2. PendingInv' /\ last'.wrote = {}
    BY <2>1, EndsIs
  <2>3. objs' \in ObjectsType /\ Stands(objs') \subseteq NamesOf(committed, mine, objs)
    BY <1>1, <1>2, <1>10, <1>11, <2>1
  <2> QED BY <1>13, <2>1, <2>2, <2>3, NothingWritten
<1>15. CASE ~(x.val = TooLong \/ PreRaises \/ out.refused)
  <2>1. /\ objs' = pre /\ Statement(out) /\ Ends(PostRaises, "update", {o})
        /\ strayed' = (strayed \/ Reaches(o, os[o].id))
    BY <1>3, <1>4, <1>8, <1>12, <1>15
  <2>2. OwnRow'
    BY <1>1, <1>2, <2>1, NoStray DEF OwnRow, WritesInv
  <2>3. PendingInv' /\ last'.wrote \subseteq {o} /\ (last'.wrote # {} => last'.call = "update")
    BY <2>1, EndsIs DEF PostRaises
  <2>4. (last.wrote = {})' => ObjectsAreTheirRows'
    BY WroteNothing, PTL
  <2>5. CASE x.id \in DOMAIN View
    <3>1. PICK i \in DOMAIN View : i = x.id
      BY <2>5
    <3>2. PICK old \in RowSet : old = View[i]
      BY <1>2, ViewIs
    <3>3. PICK r : r = [old EXCEPT !.key = x.key, !.val = x.val,
                                   !.def = IF x.def = MISSING THEN @ ELSE x.def]
      OBVIOUS
    <3>4. /\ r \in RowSet /\ r.born = View[i].born /\ r.val # TooLong
          /\ r.key = x.key /\ r.val = x.val /\ r.def = (IF x.def = MISSING THEN old.def ELSE x.def)
      BY <1>15, <3>2, <3>3, RecordsAre DEF RowSet
    <3>5. PICK m : m = Put(mine, i, r)
      OBVIOUS
    <3>6. out.mine = m /\ out.counter = counter /\ out.births = births
      BY <1>12, <1>15, <2>5, <3>1, <3>2, <3>3, <3>5 DEF emit_update, Untouched, Outcome
    <3>7. /\ m \in Tables /\ i \in Live(m) /\ m[i] = r
          /\ Good(engine, committed, m, counter, births, os)
      BY <1>1, <1>2, <3>4, <3>5, PutKeeps
    <3>8. Stands(pre) \subseteq NamesOf(committed, m, os)
      BY <1>9 DEF NamesOf
    <3>9. Good(engine, committed, m, counter, births, pre)
      BY <1>11, <3>7, <3>8, GoodWith
    <3>10. NowGood'
      BY <1>13, <2>1, <3>6, <3>9 DEF NowGood, Same, Statement
    <3>11. ObjectsAreTheirRows'
      <4>1. CASE handler \in {"trims", "lengthens"} /\ last'.wrote # {}
        BY <1>13, <2>3, <4>1 DEF ObjectsAreTheirRows, Same
      <4>2. CASE handler \notin {"trims", "lengthens"}
        <5>1. v = x
          BY <1>5, <4>2, PreSaveIs
        <5>2. SaysOfIts(v, m)
          BY <3>1, <3>4, <3>7, <5>1 DEF SaysOfIts, Says
        <5>3. WroteSay'
          BY <1>8, <2>1, <2>3, <3>6, <5>2 DEF WroteSay, Statement
        <5> QED BY <3>10, <5>3, AgreeIf, PTL
      <4>3. CASE last'.wrote = {}
        BY <2>4, <4>3
      <4> QED BY <4>1, <4>2, <4>3
    <3> QED BY <2>2, <2>3, <3>10, <3>11 DEF WritesInv
  <2>6. CASE x.id \notin DOMAIN View
    <3>1. out = Untouched
      <4>1. x.id # NoId
        BY <1>12, <1>15 DEF emit_update, Untouched, Outcome
      <4> QED BY <1>12, <2>6, <4>1 DEF emit_update
    <3>2. mine' = mine /\ counter' = counter /\ births' = births
      BY <2>1, <3>1 DEF Statement, Untouched, Outcome
    <3>3. NowGood'
      <4>1. Good(engine, committed, mine, counter, births, pre)
        BY <1>2, <1>11, GoodWith
      <4> QED BY <1>13, <2>1, <3>2, <4>1 DEF NowGood, Same
    <3>4. View' = View
      BY <1>13, <3>2, SameView DEF Same
    <3>5. ObjectsAreTheirRows'
      BY <1>6, <1>8, <2>1, <2>3, <2>6, <3>4 DEF ObjectsAreTheirRows, Agree
    <3> QED BY <2>2, <2>3, <3>3, <3>5 DEF WritesInv
  <2> QED BY <2>5, <2>6
<1> QED BY <1>14, <1>15

LEMMA GoneKeeps ==
  ASSUME NowGood, NEW m \in Tables, \A i \in Live(m) : i \in Live(mine) /\ m[i] = mine[i]
  PROVE  Good(engine, committed, m, counter, births, objs)
<1>1. Births(m) \subseteq NamesOf(committed, mine, objs)
  BY DEF Births, NamesOf
<1>2. Short(m)
  BY DEF NowGood, Good, Short
<1>3. Good(engine, committed, mine, counter, births, objs)
  BY DEF NowGood
<1> QED BY <1>1, <1>2, <1>3, GoodAfter

LEMMA deleteInv == WritesInv /\ delete => WritesInv'
<1> SUFFICES ASSUME WritesInv, delete PROVE WritesInv'
  OBVIOUS
<1>1. NowGood /\ Same /\ objs' = objs /\ objs \in ObjectsType
  BY DEF WritesInv, delete, NowGood, Good, Typed
<1>2. PICK o \in Made :
        LET out == emit_delete(objs[o].id) IN
         IF PreRaises \/ out.refused
         THEN NoStatement /\ strayed' = strayed /\ Ends(TRUE, "delete", {})
         ELSE /\ Statement(out)
              /\ strayed' = (strayed \/ Reaches(o, objs[o].id))
              /\ Ends(PostRaises, "delete", {})
  BY DEF delete
<1>3. PICK id : id = objs[o].id
  OBVIOUS
<1>4. PICK out : out = emit_delete(id)
  OBVIOUS
<1>5. Stands(objs) \subseteq NamesOf(committed, mine, objs)
  BY DEF NamesOf
<1>6. CASE PreRaises \/ out.refused
  <2>1. NoStatement /\ strayed' = strayed /\ Ends(TRUE, "delete", {})
    BY <1>2, <1>3, <1>4, <1>6
  <2>2. PendingInv' /\ last'.wrote = {}
    BY <2>1, EndsIs
  <2>3. objs' \in ObjectsType /\ Stands(objs') \subseteq NamesOf(committed, mine, objs)
    BY <1>1, <1>5
  <2> QED BY <1>1, <2>1, <2>2, <2>3, NothingWritten
<1>7. CASE ~(PreRaises \/ out.refused)
  <2>1. Statement(out) /\ strayed' = (strayed \/ Reaches(o, objs[o].id)) /\ Ends(PostRaises, "delete", {})
    BY <1>2, <1>3, <1>4, <1>7
  <2>2. OwnRow'
    BY <1>1, <2>1, NoStray DEF OwnRow, WritesInv
  <2>3. PendingInv' /\ last'.wrote = {}
    BY <2>1 DEF Ends, Returned, PendingInv
  <2>4. ObjectsAreTheirRows'
    <3>1. (last.wrote = {})'
      BY <2>3
    <3> QED BY <3>1, WroteNothing, PTL
  <2>5. PICK m : m = out.mine
    OBVIOUS
  <2>6. /\ out.counter = counter /\ out.births = births
        /\ \/ m = mine
           \/ id \in DOMAIN View /\ m = Put(mine, id, Gone)
    BY <1>4, <1>7, <2>5 DEF emit_delete, Untouched, Outcome
  <2>7. m \in Tables /\ \A i \in Live(m) : i \in Live(mine) /\ m[i] = mine[i]
    <3>1. mine \in Tables
      BY <1>1 DEF NowGood, Good, Typed
    <3>2. CASE m = mine
      BY <3>1, <3>2
    <3>3. CASE id \in DOMAIN View /\ m = Put(mine, id, Gone)
      <4>1. id \in Nat /\ Gone \in RowSet \cup {Gone}
        BY <1>1, <3>3, ViewIs
      <4>2. /\ m \in Tables /\ DOMAIN m = {id} \cup DOMAIN mine /\ m[id] = Gone
            /\ \A j \in DOMAIN mine : j # id => m[j] = mine[j]
        <5>1. HasPut(Put(mine, id, Gone), mine, id, Gone)
          BY <3>1, <4>1, PutFacts
        <5> QED BY <3>3, <5>1 DEF HasPut
      <4> QED BY <4>2 DEF Live
    <3> QED BY <2>6, <3>2, <3>3
  <2>8. Good(engine, committed, m, counter, births, objs)
    BY <1>1, <2>7, GoneKeeps
  <2>9. NowGood'
    BY <1>1, <2>1, <2>5, <2>6, <2>8 DEF NowGood, Same, Statement
  <2> QED BY <2>2, <2>3, <2>4, <2>9 DEF WritesInv
<1> QED BY <1>6, <1>7

(* An object is given what a row of the view says.                          *)
LEMMA ReadInv ==
  ASSUME WritesInv, Same, NoStatement, strayed' = strayed, NEW o \in Objects, NEW i \in DOMAIN View,
         objs' = [objs EXCEPT ![o] = Answer(i, View[i])], NEW call, Ends(FALSE, call, {o})
  PROVE  WritesInv'
<1>1. PICK os : os = objs
  OBVIOUS
<1>2. os \in ObjectsType /\ Good(engine, committed, mine, counter, births, os) /\ NowGood
  BY <1>1 DEF WritesInv, NowGood, Good, Typed
<1>3. PICK row \in RowSet : row = View[i]
  BY <1>2, ViewIs
<1>4. PICK y \in Records : y = Answer(i, row)
  <2>1. i \in Nat
    BY <1>2, ViewIs
  <2> QED BY <2>1, RowsAreThere
<1>5. /\ y.id = i /\ y.key = row.key /\ y.val = row.val /\ y.def = row.def /\ y.born = row.born
  BY <1>4 DEF Answer
<1>6. PICK N : N = NamesOf(committed, mine, os)
  OBVIOUS
<1>7. Stands(os) \subseteq N /\ NamesIts(N, y)
  BY <1>2, <1>3, <1>5, <1>6, ViewIs DEF NamesOf, NamesIts
<1>8. PICK new : new = [os EXCEPT ![o] = y]
  OBVIOUS
<1>9. new \in ObjectsType /\ Stands(new) \subseteq N /\ new[o] = y
  <2>1. [os EXCEPT ![o] = y] \in ObjectsType /\ Stands([os EXCEPT ![o] = y]) \subseteq N
    BY <1>2, <1>7, StandsOfOne
  <2> QED BY <1>2, <1>8, <2>1 DEF ObjectsType
<1>10. Good(engine, committed, mine, counter, births, new)
  BY <1>2, <1>6, <1>9, GoodWith
<1>11. objs' = new
  BY <1>1, <1>3, <1>4, <1>8
<1>12. NowGood' /\ OwnRow'
  BY <1>10, <1>11 DEF NowGood, Same, NoStatement, OwnRow, WritesInv
<1>13. PendingInv' /\ last'.wrote \subseteq {o}
  BY EndsIs
<1>14. View' = View
  BY SameView DEF Same, NoStatement
<1>15. ObjectsAreTheirRows'
  <2>1. \A c \in {"key", "val", "def"} : y[c] = View[i][c]
    BY <1>3, <1>5
  <2>2. ASSUME NEW p \in last'.wrote, objs'[p].id \in DOMAIN View'
        PROVE  \A c \in {"key", "val", "def"} : objs'[p][c] \in {MISSING, View'[objs'[p].id][c]}
    BY <1>5, <1>9, <1>11, <1>13, <1>14, <2>1, <2>2
  <2> QED BY <2>2 DEF ObjectsAreTheirRows, Agree, Agrees
<1> QED BY <1>12, <1>13, <1>15 DEF WritesInv

LEMMA refreshInv == WritesInv /\ refresh => WritesInv'
<1> SUFFICES ASSUME WritesInv, refresh PROVE WritesInv'
  OBVIOUS
<1>1. NoStatement /\ Same /\ strayed' = strayed
  BY DEF refresh
<1>2. PICK o \in Made :
        IF objs[o].id \notin DOMAIN View THEN objs' = objs /\ Ends(TRUE, "refresh", {})
        ELSE /\ objs' = [objs EXCEPT ![o] =
                  StandsFor(apply_returned(@, Answer(@.id, View[@.id])), View[@.id])]
             /\ Ends(FALSE, "refresh", {o})
  BY DEF refresh
<1>3. objs \in ObjectsType /\ Stands(objs) \subseteq NamesOf(committed, mine, objs) /\ o \in Objects
  BY DEF WritesInv, NowGood, Good, Typed, NamesOf, Made
<1>4. CASE objs[o].id \notin DOMAIN View
  <2>1. objs' = objs /\ Ends(TRUE, "refresh", {})
    BY <1>2, <1>4
  <2>2. PendingInv' /\ last'.wrote = {}
    BY <2>1, EndsIs
  <2> QED BY <1>1, <1>3, <2>1, <2>2, NothingWritten
<1>5. CASE objs[o].id \in DOMAIN View
  <2>1. PICK i \in DOMAIN View : i = objs[o].id
    BY <1>5
  <2>2. PICK row : row = View[i]
    OBVIOUS
  <2>3. StandsFor(apply_returned(objs[o], Answer(i, row)), row) = Answer(i, row)
    BY DEF StandsFor, apply_returned, Answer, Object
  <2>4. objs' = [objs EXCEPT ![o] = Answer(i, View[i])] /\ Ends(FALSE, "refresh", {o})
    <3>1. objs' = [objs EXCEPT ![o] =
              StandsFor(apply_returned(objs[o], Answer(i, row)), row)]
      BY <1>2, <1>3, <1>5, <2>1, <2>2 DEF ObjectsType
    <3> QED BY <1>2, <1>5, <2>2, <2>3, <3>1
  <2> QED BY <1>1, <1>3, <2>4, ReadInv
<1> QED BY <1>4, <1>5

LEMMA get_or_createInv == WritesInv /\ get_or_create => WritesInv'
<1> SUFFICES ASSUME WritesInv, get_or_create PROVE WritesInv'
  OBVIOUS
<1>1. NoStatement /\ Same /\ strayed' = strayed
  BY DEF get_or_create
<1>2. PICK o \in Objects, k \in Keys :
        IF HasKey(mine, k) # {}
        THEN LET id == CHOOSE i \in HasKey(mine, k) : TRUE IN
               /\ objs' = [objs EXCEPT ![o] =
                    Object(id, k, View[id].val, View[id].def, View[id].born)]
               /\ Ends(FALSE, "get_or_create", {o})
        ELSE /\ pending' = [call |-> "create", all |-> <<o>>, left |-> <<k>>]
             /\ last' = Returned("none", {}) /\ objs' = objs
  BY DEF get_or_create
<1>3. objs \in ObjectsType /\ Stands(objs) \subseteq NamesOf(committed, mine, objs)
  BY DEF WritesInv, NowGood, Good, Typed, NamesOf
<1>4. CASE HasKey(mine, k) # {}
  <2>1. PICK i : i = CHOOSE j \in HasKey(mine, k) : TRUE
    OBVIOUS
  <2>2. i \in HasKey(mine, k)
    BY <1>4, <2>1
  <2>3. i \in DOMAIN View /\ View[i].key = k
    BY <2>2 DEF HasKey, View
  <2>4. Object(i, k, View[i].val, View[i].def, View[i].born) = Answer(i, View[i])
    BY <2>3 DEF Object, Answer
  <2>5. objs' = [objs EXCEPT ![o] = Answer(i, View[i])] /\ Ends(FALSE, "get_or_create", {o})
    BY <1>2, <1>4, <2>1, <2>4
  <2> QED BY <1>1, <2>3, <2>5, ReadInv
<1>5. CASE HasKey(mine, k) = {}
  <2>1. InCreate(o, k)' /\ last'.wrote = {} /\ objs' = objs
    BY <1>2, <1>5 DEF InCreate, Returned
  <2>2. PendingInv'
    BY <2>1 DEF PendingInv
  <2> QED BY <1>1, <1>3, <2>1, <2>2, NothingWritten
<1> QED BY <1>4, <1>5

(* In bulk.                                                                *)
LEMMA OverKeeps ==
  ASSUME NowGood, NEW f \in Tables,
         \A i \in Live(f) : /\ i \in DOMAIN View /\ f[i].born = View[i].born /\ f[i].val # TooLong
  PROVE  Good(engine, committed, Over(f, mine), counter, births, objs)
<1>1. mine \in Tables /\ Short(mine) /\ Good(engine, committed, mine, counter, births, objs)
  BY DEF NowGood, Good, Typed
<1>2. PICK m : m = Over(f, mine)
  OBVIOUS
<1>3. /\ m \in Tables /\ DOMAIN m = DOMAIN f \cup DOMAIN mine
      /\ \A i \in DOMAIN f : m[i] = f[i]
      /\ \A i \in DOMAIN mine \ DOMAIN f : m[i] = mine[i]
  BY <1>1, <1>2, OverFacts
<1>4. ASSUME NEW i \in Live(m) PROVE <<i, m[i].born>> \in NamesOf(committed, mine, objs) /\ m[i].val # TooLong
  <2>1. CASE i \in DOMAIN f
    <3>1. i \in Live(f) /\ m[i] = f[i]
      BY <1>3, <2>1 DEF Live
    <3> QED BY <3>1, ViewIs DEF NamesOf
  <2>2. CASE i \notin DOMAIN f
    <3>1. i \in Live(mine) /\ m[i] = mine[i]
      BY <1>3, <2>2 DEF Live
    <3> QED BY <1>1, <3>1 DEF NamesOf, Births, Short
  <2> QED BY <2>1, <2>2
<1>5. Births(m) \subseteq NamesOf(committed, mine, objs) /\ Short(m)
  BY <1>4 DEF Births, Short
<1> QED BY <1>1, <1>2, <1>3, <1>5, GoodAfter

LEMMA BulkInv ==
  ASSUME WritesInv, Same, objs' = objs, strayed' = strayed, counter' = counter, births' = births,
         NEW call, Ends(FALSE, call, {}), NEW f \in Tables, mine' = Over(f, mine),
         \A i \in Live(f) : /\ i \in DOMAIN View /\ f[i].born = View[i].born /\ f[i].val # TooLong
  PROVE  WritesInv'
<1>1. NowGood
  BY DEF WritesInv
<1>2. Good(engine, committed, Over(f, mine), counter, births, objs)
  BY <1>1, OverKeeps
<1>3. NowGood' /\ OwnRow'
  BY <1>2 DEF NowGood, Same, OwnRow, WritesInv
<1>4. PendingInv' /\ last'.wrote = {}
  BY DEF Ends, Returned, PendingInv
<1>5. ObjectsAreTheirRows'
  <2>1. (last.wrote = {})'
    BY <1>4
  <2> QED BY <2>1, WroteNothing, PTL
<1> QED BY <1>3, <1>4, <1>5 DEF WritesInv

LEMMA KeysAreInTheView ==
  ASSUME NowGood, NEW k
  PROVE  /\ HasKey(mine, k) \subseteq DOMAIN View /\ HasKey(mine, k) \in SUBSET Nat
         /\ Small(HasKey(mine, k))
<1>1. HasKey(mine, k) \subseteq DOMAIN View
  BY DEF HasKey, View
<1>2. View \in Tables
  BY ViewIs
<1>3. DOMAIN View \in SUBSET Nat /\ Small(DOMAIN View)
  BY <1>2, TableFacts
<1> QED BY <1>1, <1>3 DEF Small

LEMMA update_whereInv == WritesInv /\ update_where => WritesInv'
<1> SUFFICES ASSUME WritesInv, update_where PROVE WritesInv'
  OBVIOUS
<1>1. Same /\ objs' = objs /\ strayed' = strayed /\ NowGood
  BY DEF update_where, WritesInv
<1>2. PICK k \in Keys, v \in Givens :
        IF v = TooLong THEN NoStatement /\ Ends(TRUE, "update_where", {})
        ELSE /\ mine' = SetVal(k, v)
             /\ counter' = counter /\ births' = births /\ Ends(FALSE, "update_where", {})
  BY DEF update_where, _guard_declared_limits
<1>3. CASE v = TooLong
  <2>1. NoStatement /\ Ends(TRUE, "update_where", {})
    BY <1>2, <1>3
  <2>2. PendingInv' /\ last'.wrote = {}
    BY <2>1, EndsIs
  <2>3. objs' \in ObjectsType /\ Stands(objs') \subseteq NamesOf(committed, mine, objs)
    BY <1>1 DEF NowGood, Good, Typed, NamesOf
  <2> QED BY <1>1, <2>1, <2>2, <2>3, NothingWritten
<1>4. CASE v # TooLong
  <2>1. PICK w : w = View
    OBVIOUS
  <2>2. PICK H : H = HasKey(mine, k)
    OBVIOUS
  <2>3. H \subseteq DOMAIN w /\ H \in SUBSET Nat /\ Small(H) /\ \A i \in DOMAIN w : w[i] \in RowSet
    BY <1>1, <2>1, <2>2, KeysAreInTheView, ViewIs
  <2>4. PICK f : f = [i \in H |-> [w[i] EXCEPT !.val = v]]
    OBVIOUS
  <2>5. v \in Vals
    BY DEF Givens, Vals
  <2>6. \A i \in H : [w[i] EXCEPT !.val = v] \in RowSet /\ f[i].born = w[i].born /\ f[i].val = v
    BY <2>3, <2>4, <2>5 DEF RowSet
  <2>7. f \in [H -> RowSet \cup {Gone}] /\ DOMAIN f = H
    BY <2>4, <2>6
  <2>8. f \in Tables
    BY <2>3, <2>7, IsTable
  <2>9. \A i \in Live(f) : i \in DOMAIN View /\ f[i].born = View[i].born /\ f[i].val # TooLong
    BY <1>4, <2>1, <2>3, <2>6, <2>7 DEF Live
  <2>10. mine' = Over(f, mine)
    BY <1>2, <1>4, <2>1, <2>2, <2>4 DEF SetVal
  <2> QED BY <1>1, <1>2, <1>4, <2>8, <2>9, <2>10, BulkInv
<1> QED BY <1>3, <1>4

LEMMA delete_whereInv == WritesInv /\ delete_where => WritesInv'
<1> SUFFICES ASSUME WritesInv, delete_where PROVE WritesInv'
  OBVIOUS
<1>1. /\ Same /\ objs' = objs /\ strayed' = strayed /\ NowGood
      /\ counter' = counter /\ births' = births /\ Ends(FALSE, "delete_where", {})
  BY DEF delete_where, WritesInv
<1>2. PICK k \in Keys : mine' = Over([i \in HasKey(mine, k) |-> Gone], mine)
  BY DEF delete_where
<1>3. PICK H : H = HasKey(mine, k)
  OBVIOUS
<1>4. H \in SUBSET Nat /\ Small(H)
  BY <1>1, <1>3, KeysAreInTheView
<1>5. PICK f : f = [i \in H |-> Gone]
  OBVIOUS
<1>6. f \in [H -> RowSet \cup {Gone}] /\ \A i \in DOMAIN f : f[i] = Gone
  BY <1>5
<1>7. f \in Tables
  BY <1>4, <1>6, IsTable
<1>8. \A i \in Live(f) : i \in DOMAIN View /\ f[i].born = View[i].born /\ f[i].val # TooLong
  BY <1>6 DEF Live
<1>9. mine' = Over(f, mine)
  BY <1>2, <1>3, <1>5
<1> QED BY <1>1, <1>7, <1>8, <1>9, BulkInv

(* The ends of a transaction, and another one.                              *)
LEMMA EmptyTable == <<>> \in Tables /\ Live(<<>>) = {} /\ Births(<<>>) = {}
<1>1. DOMAIN <<>> = {} /\ <<>> \in [{} -> RowSet \cup {Gone}]
  OBVIOUS
<1>2. Small({})
  BY DEF Small
<1> QED BY <1>1, <1>2, IsTable DEF Live, Births

LEMMA commitInv == WritesInv /\ commit => WritesInv'
<1> SUFFICES ASSUME WritesInv, commit PROVE WritesInv'
  OBVIOUS
<1>1. /\ committed' = View /\ mine' = <<>> /\ last' = Returned("none", {})
      /\ engine' = engine /\ counter' = counter /\ births' = births /\ objs' = objs
      /\ pending' = Idle /\ strayed' = strayed
  BY DEF commit
<1>2. PICK v : v = View
  OBVIOUS
<1>3. /\ v \in Tables
      /\ \A i \in DOMAIN v : /\ v[i] \in RowSet /\ v[i].val # TooLong
                             /\ <<i, v[i].born>> \in Births(mine) \cup Births(committed)
  BY <1>2, ViewIs DEF WritesInv
<1>4. Live(v) = DOMAIN v
  BY <1>3, RowsAreThere DEF Live
<1>5. PICK e \in Tables : e = <<>> /\ Live(e) = {} /\ Births(e) = {}
  BY EmptyTable
<1>6. Births(v) \subseteq Births(mine) \cup Births(committed)
  BY <1>3, <1>4 DEF Births
<1>7. Coherent(engine, NamesOf(v, e, objs), counter, births)
  <2>1. PICK N : N = NamesOf(committed, mine, objs)
    OBVIOUS
  <2>2. Coherent(engine, N, counter, births)
    BY <2>1 DEF WritesInv, NowGood, Good
  <2>3. NamesOf(v, e, objs) \in SUBSET N
    BY <1>5, <1>6, <2>1 DEF NamesOf
  <2> QED BY <2>2, <2>3, CoherentLess
<1>8. Typed(engine, v, e, counter, births, objs) /\ Short(v) /\ Short(e)
  BY <1>3, <1>4, <1>5 DEF WritesInv, NowGood, Good, Typed, Short
<1>9. Good(engine, v, e, counter, births, objs)
  BY <1>7, <1>8 DEF Good
<1>10. NowGood'
  BY <1>1, <1>2, <1>5, <1>9 DEF NowGood
<1>11. PendingInv' /\ OwnRow'
  BY <1>1 DEF PendingInv, OwnRow, WritesInv
<1>12. ObjectsAreTheirRows'
  <2>1. (last.wrote = {})'
    BY <1>1 DEF Returned
  <2> QED BY <2>1, WroteNothing, PTL
<1> QED BY <1>10, <1>11, <1>12 DEF WritesInv

LEMMA rollbackInv == WritesInv /\ rollback => WritesInv'
<1> SUFFICES ASSUME WritesInv, rollback PROVE WritesInv'
  OBVIOUS
<1>1. /\ committed' = committed /\ mine' = <<>> /\ last' = Returned("none", {})
      /\ engine' = engine /\ counter' = counter /\ births' = births /\ objs' = objs
      /\ pending' = Idle /\ strayed' = strayed
  BY DEF rollback
<1>2. PICK e \in Tables : e = <<>> /\ Live(e) = {} /\ Births(e) = {}
  BY EmptyTable
<1>3. Good(engine, committed, e, counter, births, objs)
  BY <1>2, GoneKeeps DEF WritesInv
<1>4. NowGood'
  BY <1>1, <1>2, <1>3 DEF NowGood
<1>5. PendingInv' /\ OwnRow'
  BY <1>1 DEF PendingInv, OwnRow, WritesInv
<1>6. ObjectsAreTheirRows'
  <2>1. (last.wrote = {})'
    BY <1>1 DEF Returned
  <2> QED BY <2>1, WroteNothing, PTL
<1> QED BY <1>4, <1>5, <1>6 DEF WritesInv

(* What others do to the committed rows.                                    *)
OthersDo(c, cnt, b) ==
  \/ \E k \in Keys :
       /\ c = Put(committed, NextId(mine, counter),
                  [key |-> k, val |-> "short", def |-> "server", born |-> births + 1])
       /\ cnt = counter + 1 /\ b = births + 1
  \/ \E i \in DOMAIN committed :
       c = [committed EXCEPT ![i].val = "other"] /\ cnt = counter /\ b = births
  \/ \E i \in DOMAIN committed :
       c = Restrict(committed, DOMAIN committed \ {i}) /\ cnt = counter /\ b = births

LEMMA OthersAreGood ==
  ASSUME NowGood, NEW c, NEW cnt, NEW b, OthersDo(c, cnt, b)
  PROVE  Good(engine, c, mine, cnt, b, objs)
<1>1. /\ committed \in Tables /\ mine \in Tables /\ Live(committed) = DOMAIN committed
      /\ counter \in Nat /\ births \in Nat /\ Short(committed) /\ Short(mine)
      /\ engine \in Engines /\ objs \in ObjectsType
  BY DEF NowGood, Good, Typed
<1>2. PICK N : N = NamesOf(committed, mine, objs)
  OBVIOUS
<1>3. Coherent(engine, N, counter, births)
  BY <1>2 DEF NowGood, Good
<1>4. \A i \in DOMAIN committed : committed[i] \in RowSet /\ committed[i].val # TooLong
  BY <1>1, TableFacts DEF Short
<1>5. CASE \E k \in Keys :
             /\ c = Put(committed, NextId(mine, counter),
                        [key |-> k, val |-> "short", def |-> "server", born |-> births + 1])
             /\ cnt = counter + 1 /\ b = births + 1
  <2>1. PICK k \in Keys, r \in RowSet :
          /\ c = Put(committed, NextId(mine, counter), r) /\ r.born = births + 1 /\ r.val = "short"
          /\ cnt = counter + 1 /\ b = births + 1
    <3>1. \A k \in Keys : [key |-> k, val |-> "short", def |-> "server", born |-> births + 1] \in RowSet
      BY <1>1 DEF RowSet, Vals, Defs
    <3> QED BY <1>5, <3>1
  <2>2. PICK i \in Nat \ {0} : i = NextId(mine, counter) /\ (engine # "sqlite" => i = counter + 1)
    BY <1>1, NextIdIs
  <2>3. i \in Nat /\ r \in RowSet \cup {Gone} /\ r # Gone
    BY RowsAreThere
  <2>4. /\ c \in Tables /\ DOMAIN c = {i} \cup DOMAIN committed /\ c[i] = r
        /\ \A j \in DOMAIN committed : j # i => c[j] = committed[j]
    <3>1. HasPut(Put(committed, i, r), committed, i, r)
      BY <1>1, <2>3, PutFacts
    <3> QED BY <2>1, <2>2, <3>1 DEF HasPut
  <2>5. Births(c) \subseteq Births(committed) \cup {<<i, births + 1>>}
    <3>1. Births(Put(committed, i, r)) \subseteq Births(committed) \cup {<<i, r.born>>}
      BY <1>1, <2>3, BirthsOfPut
    <3> QED BY <2>1, <2>2, <3>1
  <2>6. Coherent(engine, N \cup {<<i, births + 1>>}, counter + 1, births + 1)
    BY <1>1, <1>3, <2>2, CoherentNew
  <2>7. NamesOf(c, mine, objs) \in SUBSET (N \cup {<<i, births + 1>>})
    BY <1>2, <2>5 DEF NamesOf
  <2>8. Coherent(engine, NamesOf(c, mine, objs), counter + 1, births + 1)
    BY <2>6, <2>7, CoherentLess
  <2>9. Live(c) = DOMAIN c /\ Short(c)
    <3>1. \A j \in DOMAIN c : c[j] # Gone /\ c[j].val # TooLong
      BY <1>1, <1>4, <2>1, <2>3, <2>4, RowsAreThere DEF TooLong
    <3> QED BY <3>1 DEF Live, Short
  <2>10. counter + 1 \in Nat /\ births + 1 \in Nat
    BY <1>1
  <2>11. Good(engine, c, mine, counter + 1, births + 1, objs)
    BY <1>1, <2>4, <2>8, <2>9, <2>10 DEF Good, Typed
  <2> QED BY <2>1, <2>11
<1>6. CASE \/ \E i \in DOMAIN committed :
                c = [committed EXCEPT ![i].val = "other"] /\ cnt = counter /\ b = births
           \/ \E i \in DOMAIN committed :
                c = Restrict(committed, DOMAIN committed \ {i}) /\ cnt = counter /\ b = births
  <2>1. /\ DOMAIN c \subseteq DOMAIN committed /\ c = [j \in DOMAIN c |-> c[j]]
        /\ \A j \in DOMAIN c : /\ c[j] \in RowSet /\ c[j].born = committed[j].born
                               /\ c[j].val # TooLong
    <3>1. CASE \E i \in DOMAIN committed : c = [committed EXCEPT ![i].val = "other"]
      <4>1. PICK i \in DOMAIN committed : c = [committed EXCEPT ![i].val = "other"]
        BY <3>1
      <4>2. PICK r : r = [committed[i] EXCEPT !.val = "other"]
        OBVIOUS
      <4>3. r \in RowSet /\ r.born = committed[i].born /\ r.val = "other"
        BY <1>4, <4>2 DEF RowSet, Vals
      <4>4. c = [committed EXCEPT ![i] = r]
        BY <4>1, <4>2
      <4>5. DOMAIN c = DOMAIN committed /\ c[i] = r /\ \A j \in DOMAIN committed : j # i => c[j] = committed[j]
        BY <1>1, <4>4, TableFacts
      <4>6. c = [j \in DOMAIN c |-> c[j]]
        BY <1>1, <4>4, TableFacts
      <4> QED BY <1>4, <4>3, <4>5, <4>6 DEF TooLong
    <3>2. CASE \E i \in DOMAIN committed : c = Restrict(committed, DOMAIN committed \ {i})
      BY <1>4, <3>2 DEF Restrict
    <3> QED BY <1>6, <3>1, <3>2
  <2>2. cnt = counter /\ b = births
    BY <1>6
  <2>3. c \in Tables
    <3>1. DOMAIN c \in SUBSET Nat /\ Small(DOMAIN c)
      BY <1>1, <2>1, TableFacts DEF Small
    <3>2. c \in [DOMAIN c -> RowSet \cup {Gone}]
      BY <2>1
    <3> QED BY <3>1, <3>2, IsTable
  <2>4. Live(c) = DOMAIN c /\ Short(c)
    BY <2>1, RowsAreThere DEF Live, Short
  <2>5. Births(c) \subseteq Births(committed)
    BY <1>1, <2>1, <2>4 DEF Births
  <2>6. NamesOf(c, mine, objs) \in SUBSET N
    BY <1>2, <2>5 DEF NamesOf
  <2>7. Coherent(engine, NamesOf(c, mine, objs), counter, births)
    BY <1>3, <2>6, CoherentLess
  <2> QED BY <1>1, <2>2, <2>3, <2>4, <2>7 DEF Good, Typed
<1> QED BY <1>5, <1>6 DEF OthersDo

LEMMA OtherInv == WritesInv /\ Other => WritesInv'
<1> SUFFICES ASSUME WritesInv, Other PROVE WritesInv'
  OBVIOUS
<1>1. PICK c, cnt, b : c = committed' /\ cnt = counter' /\ b = births'
  OBVIOUS
<1>2. /\ engine' = engine /\ mine' = mine /\ objs' = objs /\ pending' = pending
      /\ strayed' = strayed /\ last' = Returned("none", {})
  BY DEF Other
<1>3. OthersDo(c, cnt, b)
  BY <1>1 DEF Other, OthersDo
<1>4. Good(engine, c, mine, cnt, b, objs)
  BY <1>3, OthersAreGood DEF WritesInv
<1>5. NowGood'
  BY <1>1, <1>2, <1>4 DEF NowGood
<1>6. last'.wrote = {}
  BY <1>2 DEF Returned
<1>7. PendingInv'
  BY <1>2, <1>6 DEF PendingInv, InCreate, InBatch, WritesInv
<1>8. ObjectsAreTheirRows'
  <2>1. (last.wrote = {})'
    BY <1>6
  <2> QED BY <2>1, WroteNothing, PTL
<1> QED BY <1>2, <1>5, <1>7, <1>8 DEF WritesInv, OwnRow

-----------------------------------------------------------------------------
LEMMA WritesInvHolds == WritesInv /\ [WritesNext]_writeVars => WritesInv'
<1> SUFFICES ASSUME WritesInv, [WritesNext]_writeVars PROVE WritesInv'
  OBVIOUS
<1>1. CASE UNCHANGED writeVars
  <2>1. View' = View
    BY <1>1, SameView DEF writeVars
  <2> QED BY <1>1, <2>1 DEF writeVars, WritesInv, NowGood, PendingInv, InCreate, InBatch, OwnRow,
             ObjectsAreTheirRows, Agree, Agrees
<1> QED BY <1>1, MakeInv, AssignInv, addInv, add_allInv, ChunkInv, upsertInv, updateInv, deleteInv,
           refreshInv, get_or_createInv, CreateInv, update_whereInv, delete_whereInv,
           commitInv, rollbackInv, OtherInv DEF WritesNext

(* A write through an object reaches the row the object stands for, for any  *)
(* objects, keys, chunks and handlers.                                      *)
THEOREM WritesReachTheirRows == WritesSpec => []OwnRow
<1>1. WritesInv => OwnRow
  BY DEF WritesInv
<1> QED BY <1>1, WritesInvInit, WritesInvHolds, PTL DEF WritesSpec

(* When a call returns, its objects say what their rows say.                *)
THEOREM CallsLeaveTheRows == WritesSpec => []ObjectsAreTheirRows
<1>1. WritesInv => ObjectsAreTheirRows
  BY DEF WritesInv
<1> QED BY <1>1, WritesInvInit, WritesInvHolds, PTL DEF WritesSpec

(* No row is outside a declared limit, by any path.                         *)
THEOREM RowsFit == WritesSpec => []LimitsHold
<1>1. WritesInv => LimitsHold
  BY ViewIs DEF WritesInv, LimitsHold
<1> QED BY <1>1, WritesInvInit, WritesInvHolds, PTL DEF WritesSpec

-----------------------------------------------------------------------------
(* What a request reports.                                                  *)

(* Who serves what: a request that has begun and not ended has one worker,   *)
(* and before the middleware is built there is none.                        *)
Early == {"new", "app", "reporting", "storing"}
Holds == {"trimming", "popping"}
Running == {"app", "reporting", "storing", "trimming", "popping", "responding", "streaming"}
Phases == Running \cup {"new", "done", "raised"}
Sent == {"timing", "sidecar", "envelope", "ssr"}
ReportTypes ==
  /\ serves \in [Tasks -> Requests \cup {NoOne}]
  /\ phase \in [Requests -> Phases]
  /\ response \in [Requests -> SUBSET Sent]
OneServer ==
  \A w \in Workers : serves[w] # NoOne =>
    /\ phase[serves[w]] \in Running
    /\ \A v \in Workers : serves[v] = serves[w] => v = w
NotYet == channels = Refused => \A r \in Requests : phase[r] = "new" /\ response[r] = {}
ServeInv == ReportTypes /\ OneServer /\ NotYet

LEMMA ServeInit == ReportsInit => ServeInv
  BY NamesAssumption DEF ReportsInit, ServeInv, ReportTypes, OneServer, NotYet, Phases, Tasks

(* A step of a worker changes where its own request is, and no other's.      *)
MovesOn(w, from, to) ==
  /\ serves[w] # NoOne /\ phase[serves[w]] \in from
  /\ \E there \in to :
       /\ phase' = [phase EXCEPT ![serves[w]] = there]
       /\ \/ there \in Running /\ serves' = serves
          \/ serves' = [serves EXCEPT ![w] = NoOne]

Moving(w) ==
  /\ serves[w] # NoOne
  /\ \E there \in Phases :
       /\ phase' = [phase EXCEPT ![serves[w]] = there]
       /\ \/ there \in Running /\ serves' = serves
          \/ serves' = [serves EXCEPT ![w] = NoOne]

LEMMA ServeMoves ==
  ASSUME ServeInv, NEW w \in Workers, Moving(w),
         UNCHANGED channels, response' \in [Requests -> SUBSET Sent]
  PROVE  ServeInv'
<1>1. w \in Tasks /\ serves[w] \in Requests
  BY DEF ServeInv, ReportTypes, Moving, Tasks
<1>2. PICK there \in Phases :
       /\ phase' = [phase EXCEPT ![serves[w]] = there]
       /\ \/ there \in Running /\ serves' = serves
          \/ serves' = [serves EXCEPT ![w] = NoOne]
  BY DEF Moving
<1>3. ReportTypes'
  BY <1>1, <1>2 DEF ServeInv, ReportTypes
<1>4. OneServer'
  <2>1. ASSUME NEW v \in Workers, serves'[v] # NoOne
        PROVE  phase'[serves'[v]] \in Running /\ serves'[v] = serves[v]
    <3>1. v \in Tasks /\ serves'[v] = serves[v] /\ serves[v] \in Requests
      BY <1>1, <1>2, <2>1 DEF ServeInv, ReportTypes, Tasks
    <3>2. CASE v = w
      BY <1>1, <1>2, <2>1, <3>1, <3>2 DEF ServeInv, ReportTypes
    <3>3. CASE v # w
      BY <1>1, <1>2, <2>1, <3>1, <3>3 DEF ServeInv, ReportTypes, OneServer
    <3> QED BY <3>2, <3>3
  <2> QED BY <2>1 DEF ServeInv, OneServer
<1>5. channels # Refused
  BY <1>1 DEF ServeInv, OneServer, NotYet, Running, Refused, Moving
<1> QED BY <1>3, <1>4, <1>5 DEF ServeInv, NotYet

LEMMA HandlesMove ==
  ASSUME ServeInv, NEW w \in Workers
  PROVE  /\ Return(w) => MovesOn(w, {"app"}, {"done", "reporting"})
         /\ Raise(w) => MovesOn(w, {"app"}, {"raised"})
         /\ Reports(w) => MovesOn(w, {"reporting"}, {"storing", "responding"})
         /\ StoreLast(w) => MovesOn(w, {"storing"}, {"trimming"})
         /\ TooMany(w) => MovesOn(w, {"trimming"}, {"popping"})
         /\ Pop(w) => MovesOn(w, {"popping"}, {"trimming"})
         /\ Trimmed(w) => MovesOn(w, {"trimming"}, {"responding"})
         /\ Respond(w) => MovesOn(w, {"responding"}, {"streaming", "done"})
         /\ Streamed(w) => MovesOn(w, {"streaming"}, {"done"})
<1> USE DEF At, Moves, MovesOn, Running, scopes
<1>1. Return(w) => MovesOn(w, {"app"}, {"done", "reporting"})
  BY DEF Return, Free
<1>2. Raise(w) => MovesOn(w, {"app"}, {"raised"})
  BY DEF Raise, Free
<1>3. Reports(w) => MovesOn(w, {"reporting"}, {"storing", "responding"})
  BY DEF Reports
<1>4. StoreLast(w) => MovesOn(w, {"storing"}, {"trimming"})
  BY DEF StoreLast
<1>5. TooMany(w) => MovesOn(w, {"trimming"}, {"popping"})
  BY DEF TooMany
<1>6. Pop(w) => MovesOn(w, {"popping"}, {"trimming"})
  BY DEF Pop
<1>7. Trimmed(w) => MovesOn(w, {"trimming"}, {"responding"})
  BY DEF Trimmed
<1>8. Respond(w) => MovesOn(w, {"responding"}, {"streaming", "done"})
  BY DEF Respond, Free
<1>9. Streamed(w) => MovesOn(w, {"streaming"}, {"done"})
  BY DEF Streamed, Free
<1> QED BY <1>1, <1>2, <1>3, <1>4, <1>5, <1>6, <1>7, <1>8, <1>9

Settles(w) == Finishes(w) \/ Sidecar(w)

LEMMA ServeSettles ==
  ASSUME ServeInv, NEW w \in Workers, Settles(w)
  PROVE  ServeInv'
<1>1. UNCHANGED channels /\ response' \in [Requests -> SUBSET Sent]
  BY DEF Settles, Finishes, Sidecar, Return, Raise, Reports, Respond, Streamed, StoreLast, TooMany, Pop,
         Trimmed, plan_delivery, started, ServeInv, ReportTypes, Sent
<1>2. Moving(w)
  BY HandlesMove DEF MovesOn, Moving, Settles, Finishes, Sidecar, Phases, Running
<1> QED BY <1>1, <1>2, ServeMoves

LEMMA ServeNext == ServeInv /\ [ReportsNext]_reportVars => ServeInv'
<1> SUFFICES ASSUME ServeInv, [ReportsNext]_reportVars PROVE ServeInv'
  OBVIOUS
<1>1. CASE Start
  BY <1>1 DEF Start, scopes, delivered, ServeInv, ReportTypes, OneServer, NotYet
<1>2. ASSUME NEW w \in Workers, NEW r \in Requests, Serve(w, r) PROVE ServeInv'
  <2>1. /\ serves[w] = NoOne /\ phase[r] = "new" /\ channels # Refused
        /\ serves' = [serves EXCEPT ![w] = r] /\ phase' = [phase EXCEPT ![r] = "app"]
        /\ UNCHANGED <<channels, response>>
    BY <1>2 DEF Serve, started
  <2>2. ReportTypes' /\ NotYet'
    BY <2>1 DEF ServeInv, ReportTypes, NotYet, Phases, Running
  <2>3. OneServer'
    BY <2>1, NamesAssumption DEF ServeInv, ReportTypes, OneServer, Phases, Running, Tasks
  <2> QED BY <2>2, <2>3 DEF ServeInv
<1>3. ASSUME NEW w \in Workers, NEW h \in Helpers, Spawn(w, h) PROVE ServeInv'
  BY <1>3, TasksAssumption DEF Spawn, InApp, started, delivered, ServeInv, ReportTypes, OneServer, NotYet, Tasks
<1>4. ASSUME NEW h \in Helpers, HelperEnds(h) PROVE ServeInv'
  BY <1>4, TasksAssumption DEF HelperEnds, started, delivered, ServeInv, ReportTypes, OneServer, NotYet, Tasks
<1>5. ASSUME UNCHANGED <<channels, serves, phase, response>> PROVE ServeInv'
  BY <1>5 DEF ServeInv, ReportTypes, OneServer, NotYet
<1>6. ASSUME NEW w \in Workers, OpenBlock(w) \/ CloseBlock(w) PROVE UNCHANGED <<channels, serves, phase, response>>
  BY <1>6 DEF OpenBlock, CloseBlock, started, delivered
<1>7. ASSUME NEW t \in Tasks, Works(t) PROVE UNCHANGED <<channels, serves, phase, response>>
  BY <1>7 DEF Works, Execute, OpenStream, CloseStream, AppendsRecord, started, scopes, delivered
<1>8. UNCHANGED reportVars => UNCHANGED <<channels, serves, phase, response>>
  BY DEF reportVars, started, scopes, delivered
<1>9. ASSUME NEW w \in Workers, Settles(w) PROVE ServeInv'
  BY <1>9, ServeSettles
<1> QED
  BY <1>1, <1>2, <1>3, <1>4, <1>5, <1>6, <1>7, <1>8, <1>9 DEF ReportsNext, Handles, Settles
-----------------------------------------------------------------------------
(* The buffer holds the last of the tokens that were ever stored, each once; *)
(* it has lost none while it held less than it may, and who trims it holds   *)
(* its lock.                                                               *)
BufferTypes == store \in Seq(Requests) /\ stores \in Seq(Requests) /\ Len(store) <= Len(stores)
LastStored ==
  \A i \in 1..Len(store) : store[i] = stores[Len(stores) - Len(store) + i]
StoredOnce == \A i, j \in 1..Len(stores) : stores[i] = stores[j] => i = j
StoredLate == \A i \in 1..Len(stores) : phase[stores[i]] \notin Early
WasStored(r) == \E i \in 1..Len(stores) : stores[i] = r
Deserves(r) ==
  \/ "sidecar" \in response[r] \/ phase[r] \in Holds
  \/ phase[r] = "responding" /\ "sidecar" \in channels
TokensWereStored == \A r \in Requests : Deserves(r) => WasStored(r)
LosesOnlyWhenFull == Len(store) < Capacity => Len(store) = Len(stores)
Trims(w) == serves[w] # NoOne /\ phase[serves[w]] \in Holds
TrimsUnderLock == \A w \in Workers : Trims(w) => lock = w
PopsTooMany ==
  \A w \in Workers : Trims(w) /\ phase[serves[w]] = "popping" => Len(store) > Capacity
FitsUnlocked == lock = NoOne => Len(store) <= Capacity
BufferInv ==
  /\ BufferTypes /\ LastStored /\ StoredOnce /\ StoredLate /\ TokensWereStored
  /\ LosesOnlyWhenFull /\ TrimsUnderLock /\ PopsTooMany /\ FitsUnlocked

LEMMA BufferInit == ReportsInit => BufferInv
<1> SUFFICES ASSUME ReportsInit PROVE BufferInv
  OBVIOUS
<1>1. /\ store = <<>> /\ stores = <<>> /\ Len(store) = 0 /\ Len(stores) = 0
      /\ \A t \in Tasks : serves[t] = NoOne
      /\ \A r \in Requests : phase[r] = "new" /\ response[r] = {}
  BY DEF ReportsInit
<1> QED
  BY <1>1, CapacityAssumption DEF BufferInv, BufferTypes, LastStored, StoredOnce, StoredLate, TokensWereStored,
     Deserves, Holds, LosesOnlyWhenFull, Trims, TrimsUnderLock, PopsTooMany, FitsUnlocked, Tasks

(* A step that leaves the buffer alone, takes no request out of what comes   *)
(* before it and none into its critical section.                            *)
LEMMA BufferStays ==
  ASSUME BufferInv, UNCHANGED <<lock, store, stores>>,
         \A r \in Requests : phase'[r] \in Early => phase[r] \in Early,
         \A r \in Requests : Deserves(r)' => Deserves(r),
         \A w \in Workers : Trims(w)' => Trims(w) /\ phase'[serves'[w]] = phase[serves[w]]
  PROVE  BufferInv'
<1>1. BufferTypes' /\ LastStored' /\ StoredOnce' /\ LosesOnlyWhenFull' /\ FitsUnlocked'
  BY DEF BufferInv, BufferTypes, LastStored, StoredOnce, LosesOnlyWhenFull, FitsUnlocked
<1>2. StoredLate' /\ TokensWereStored'
  BY DEF BufferInv, BufferTypes, StoredLate, TokensWereStored, WasStored
<1>3. TrimsUnderLock' /\ PopsTooMany'
  BY DEF BufferInv, TrimsUnderLock, PopsTooMany
<1> QED BY <1>1, <1>2, <1>3 DEF BufferInv

LEMMA ServedIs ==
  ASSUME ServeInv, NEW w \in Workers, serves[w] # NoOne
  PROVE  /\ serves[w] \in Requests /\ w \in Tasks /\ channels # Refused
         /\ \A v \in Workers \ {w} : serves[v] # serves[w]
  BY DEF ServeInv, ReportTypes, OneServer, NotYet, Running, Tasks

(* A worker that does not go into the critical section, and one that is in   *)
(* it and leaves the buffer alone.                                         *)
LEMMA BufferWhileMoving ==
  ASSUME ServeInv, BufferInv, NEW w \in Workers, UNCHANGED <<lock, store, stores, channels>>,
         NEW r, r = serves[w], r # NoOne, NEW there \in Phases \ Holds,
         phase' = [phase EXCEPT ![r] = there], serves' = serves \/ serves' = [serves EXCEPT ![w] = NoOne],
         there \in Early => phase[r] \in Early,
         \A q \in Requests \ {r} : response'[q] = response[q],
         Deserves(r)' => Deserves(r)
  PROVE  BufferInv'
<1>1. /\ r \in Requests /\ w \in Tasks
      /\ \A v \in Workers \ {w} : serves[v] # r
  BY ServedIs
<1>2. phase'[r] = there /\ \A q \in Requests \ {r} : phase'[q] = phase[q]
  BY <1>1 DEF ServeInv, ReportTypes
<1>3. \A q \in Requests : phase'[q] \in Early => phase[q] \in Early
  BY <1>2
<1>4. \A q \in Requests : Deserves(q)' => Deserves(q)
  BY <1>2 DEF Deserves
<1>5. ASSUME NEW v \in Workers, Trims(v)' PROVE Trims(v) /\ phase'[serves'[v]] = phase[serves[v]]
  <2>1. v \in Tasks /\ serves'[v] # NoOne /\ serves'[v] = serves[v] /\ serves[v] \in Requests
    BY <1>1, <1>5 DEF Trims, ServeInv, ReportTypes, Tasks
  <2>2. serves[v] # r
    BY <1>2, <1>5, <2>1 DEF Trims
  <2> QED BY <1>2, <1>5, <2>1, <2>2 DEF Trims
<1> QED BY <1>3, <1>4, <1>5, BufferStays

LEMMA BufferFinishes ==
  ASSUME ServeInv, BufferInv, NEW w \in Workers, Finishes(w)
  PROVE  BufferInv'
<1>1. UNCHANGED <<lock, store, stores, channels>>
  BY DEF Finishes, Return, Raise, Reports, Respond, Streamed, sidecar, started
<1>2. PICK r \in Requests : r = serves[w] /\ r # NoOne
  BY ServedIs DEF Finishes, Return, Raise, Reports, Respond, Streamed, At
<1>3. CASE Return(w) \/ Raise(w) \/ Streamed(w)
  <2>1. PICK there \in {"done", "reporting", "raised"} :
          /\ phase' = [phase EXCEPT ![r] = there]
          /\ serves' = serves \/ serves' = [serves EXCEPT ![w] = NoOne]
          /\ there \in Early => phase[r] \in Early
    BY <1>2, <1>3 DEF Return, Raise, Streamed, Free, Moves, At, Early
  <2>2. UNCHANGED response
    BY <1>3 DEF Return, Raise, Streamed
  <2>3. phase'[r] = there
    BY <1>2, <2>1 DEF ServeInv, ReportTypes
  <2>4. Deserves(r)' => Deserves(r)
    BY <2>1, <2>2, <2>3 DEF Deserves, Holds
  <2> QED BY <1>1, <1>2, <2>1, <2>2, <2>4, BufferWhileMoving DEF Phases, Running, Holds
<1>4. CASE Reports(w)
  <2>1. PICK there \in {"storing", "responding"} :
          /\ phase' = [phase EXCEPT ![r] = there] /\ phase[r] = "reporting"
          /\ there = "responding" => "sidecar" \notin channels
    BY <1>2, <1>4 DEF Reports, Moves, At
  <2>2. UNCHANGED <<response, serves>>
    BY <1>4 DEF Reports, scopes
  <2>3. phase'[r] = there
    BY <1>2, <2>1 DEF ServeInv, ReportTypes
  <2>4. Deserves(r)' => Deserves(r)
    BY <1>1, <2>1, <2>2, <2>3 DEF Deserves, Holds
  <2> QED BY <1>1, <1>2, <2>1, <2>2, <2>4, BufferWhileMoving DEF Phases, Running, Holds, Early
<1>5. CASE Respond(w)
  <2>1. PICK there \in {"streaming", "done"}, content \in Contents :
          /\ phase' = [phase EXCEPT ![r] = there] /\ phase[r] = "responding"
          /\ serves' = serves \/ serves' = [serves EXCEPT ![w] = NoOne]
          /\ response' = [response EXCEPT ![r] = plan_delivery(content)]
    BY <1>2, <1>5 DEF Respond, Free, Moves, At
  <2>2. /\ phase'[r] = there /\ response'[r] = plan_delivery(content)
        /\ \A q \in Requests \ {r} : response'[q] = response[q]
    BY <1>2, <2>1 DEF ServeInv, ReportTypes
  <2>3. Deserves(r)' => Deserves(r)
    BY <2>1, <2>2 DEF Deserves, Holds, plan_delivery
  <2> QED BY <1>1, <1>2, <2>1, <2>2, <2>3, BufferWhileMoving DEF Phases, Running, Holds, Early
<1> QED BY <1>3, <1>4, <1>5 DEF Finishes

(* In the critical section.                                                 *)
LEMMA InSection ==
  ASSUME ServeInv, BufferInv, NEW w \in Workers, serves[w] # NoOne, phase[serves[w]] \in Holds
  PROVE  /\ lock = w /\ lock # NoOne
         /\ \A v \in Workers \ {w} : ~Trims(v)
<1>1. lock = w /\ w # NoOne
  BY NamesAssumption DEF BufferInv, TrimsUnderLock, Trims, Tasks
<1> QED BY <1>1 DEF BufferInv, TrimsUnderLock

LEMMA BufferStore ==
  ASSUME ServeInv, BufferInv, NEW w \in Workers, StoreLast(w)
  PROVE  BufferInv'
<1>1. PICK r \in Requests : r = serves[w] /\ r # NoOne
  BY ServedIs DEF StoreLast, At
<1>2. /\ phase[r] = "storing" /\ phase' = [phase EXCEPT ![r] = "trimming"]
      /\ lock = NoOne /\ lock' = w /\ store' = Append(store, r) /\ stores' = Append(stores, r)
      /\ UNCHANGED <<serves, channels, response>>
  BY <1>1 DEF StoreLast, At, Moves, MayLock, scopes, started
<1>3. /\ phase'[r] = "trimming" /\ \A q \in Requests \ {r} : phase'[q] = phase[q]
      /\ \A v \in Workers \ {w} : serves[v] # r
  BY <1>1, <1>2, ServedIs DEF ServeInv, ReportTypes
<1> DEFINE n == Len(stores)
           m == Len(store)
<1>4. /\ store \in Seq(Requests) /\ stores \in Seq(Requests) /\ n \in Nat /\ m \in Nat /\ m <= n
      /\ \A i \in 1..n : stores[i] \in Requests
  BY DEF BufferInv, BufferTypes
<1>5. /\ store' \in Seq(Requests) /\ stores' \in Seq(Requests)
      /\ Len(store') = m + 1 /\ Len(stores') = n + 1
      /\ store'[m + 1] = r /\ \A i \in 1..m : store'[i] = store[i]
      /\ stores'[n + 1] = r /\ \A i \in 1..n : stores'[i] = stores[i]
  BY <1>2, <1>4
<1> HIDE DEF n, m
<1>6. BufferTypes'
  BY <1>4, <1>5 DEF BufferTypes
<1>7. LastStored'
  <2>1. ASSUME NEW i \in 1..m PROVE store'[i] = stores'[(n + 1) - (m + 1) + i]
    <3>1. store[i] = stores[n - m + i] /\ n - m + i \in 1..n /\ (n + 1) - (m + 1) + i = n - m + i
      BY <1>4 DEF BufferInv, LastStored, n, m
    <3> QED BY <1>5, <3>1
  <2>2. (n + 1) - (m + 1) + (m + 1) = n + 1 /\ \A i \in 1..(m + 1) : i = m + 1 \/ i \in 1..m
    BY <1>4
  <2>3. \A i \in 1..(m + 1) : store'[i] = stores'[(n + 1) - (m + 1) + i]
    BY <1>5, <2>1, <2>2
  <2> QED BY <1>5, <2>3 DEF LastStored
<1>8. \A i \in 1..n : stores[i] # r
  BY <1>2 DEF BufferInv, StoredLate, Early, n
<1>9. StoredOnce'
  <2>1. \A i \in 1..(n + 1) : i = n + 1 \/ i \in 1..n
    BY <1>4
  <2>2. ASSUME NEW i \in 1..n PROVE stores'[i] # stores'[n + 1]
    BY <1>5, <1>8
  <2>3. ASSUME NEW i \in 1..n, NEW j \in 1..n, stores'[i] = stores'[j] PROVE i = j
    BY <1>5, <2>3 DEF BufferInv, StoredOnce, n
  <2>4. \A i, j \in 1..(n + 1) : stores'[i] = stores'[j] => i = j
    BY <2>1, <2>2, <2>3
  <2> QED BY <1>5, <2>4 DEF StoredOnce
<1>10. StoredLate'
  <2>1. ASSUME NEW i \in 1..(n + 1) PROVE phase'[stores'[i]] \notin Early
    <3>1. CASE i = n + 1
      BY <1>3, <1>5, <3>1 DEF Early
    <3>2. CASE i \in 1..n
      BY <1>3, <1>4, <1>5, <1>8, <3>2 DEF BufferInv, StoredLate, n
    <3> QED BY <1>4, <3>1, <3>2
  <2> QED BY <1>5, <2>1 DEF StoredLate
<1>11. TokensWereStored'
  <2>1. ASSUME NEW q \in Requests, Deserves(q)' PROVE \E i \in 1..(n + 1) : stores'[i] = q
    <3>1. CASE q = r
      <4>1. n + 1 \in 1..(n + 1) /\ stores'[n + 1] = q
        BY <1>4, <1>5, <3>1
      <4> QED BY <4>1
    <3>2. CASE q # r
      <4>1. Deserves(q)
        BY <1>2, <1>3, <2>1, <3>2 DEF Deserves
      <4>2. PICK i \in 1..n : stores[i] = q
        BY <4>1 DEF BufferInv, TokensWereStored, WasStored, n
      <4> QED BY <1>4, <1>5, <4>2
    <3> QED BY <3>1, <3>2
  <2> QED BY <1>5, <2>1 DEF TokensWereStored, WasStored
<1>12. LosesOnlyWhenFull'
  BY <1>4, <1>5, CapacityAssumption DEF BufferInv, LosesOnlyWhenFull, n, m
<1>13. \A v \in Workers : ~Trims(v)
  BY <1>2, NamesAssumption DEF BufferInv, TrimsUnderLock, Tasks
<1>14. \A v \in Workers \ {w} : ~Trims(v)'
  <2> SUFFICES ASSUME NEW v \in Workers \ {w}, Trims(v)' PROVE FALSE
    OBVIOUS
  <2>1. serves[v] \in Requests /\ serves[v] # r
    BY <1>2, <1>3, ServedIs DEF Trims
  <2> QED BY <1>2, <1>3, <1>13, <2>1 DEF Trims
<1>15. TrimsUnderLock' /\ PopsTooMany' /\ FitsUnlocked'
  BY <1>1, <1>2, <1>3, <1>14, NamesAssumption DEF TrimsUnderLock, PopsTooMany, FitsUnlocked, Trims, Tasks
<1> QED BY <1>6, <1>7, <1>9, <1>10, <1>11, <1>12, <1>15 DEF BufferInv

LEMMA BufferTooMany ==
  ASSUME ServeInv, BufferInv, NEW w \in Workers, TooMany(w) \/ Trimmed(w)
  PROVE  BufferInv'
<1>1. PICK r \in Requests : r = serves[w] /\ r # NoOne
  BY ServedIs DEF TooMany, Trimmed, At
<1>2. PICK there \in {"popping", "responding"} :
        /\ phase[r] = "trimming" /\ phase' = [phase EXCEPT ![r] = there]
        /\ there = "popping" => Len(store) > Capacity /\ lock' = lock
        /\ there = "responding" => Len(store) <= Capacity
        /\ UNCHANGED <<serves, channels, response, store, stores>>
  BY <1>1 DEF TooMany, Trimmed, At, Moves, scopes, sidecar, started
<1>3. /\ phase'[r] = there /\ \A q \in Requests \ {r} : phase'[q] = phase[q]
      /\ \A v \in Workers \ {w} : serves[v] # r
      /\ lock = w /\ lock # NoOne /\ \A v \in Workers \ {w} : ~Trims(v)
  BY <1>1, <1>2, ServedIs, InSection DEF ServeInv, ReportTypes, Holds
<1>4. BufferTypes' /\ LastStored' /\ StoredOnce' /\ LosesOnlyWhenFull'
  BY <1>2 DEF BufferInv, BufferTypes, LastStored, StoredOnce, LosesOnlyWhenFull
<1>5. StoredLate'
  BY <1>2, <1>3 DEF BufferInv, BufferTypes, StoredLate, Early
<1>6. \A q \in Requests : Deserves(q)' => Deserves(q)
  BY <1>2, <1>3 DEF Deserves, Holds
<1>7. TokensWereStored'
  BY <1>2, <1>6 DEF BufferInv, TokensWereStored, WasStored
<1>8. \A v \in Workers \ {w} : ~Trims(v)'
  <2> SUFFICES ASSUME NEW v \in Workers \ {w}, Trims(v)' PROVE FALSE
    OBVIOUS
  <2>1. serves[v] \in Requests /\ serves[v] # r
    BY <1>2, <1>3, ServedIs DEF Trims
  <2> QED BY <1>2, <1>3, <2>1 DEF Trims
<1>9. CASE there = "popping"
  BY <1>1, <1>2, <1>3, <1>4, <1>5, <1>7, <1>8, <1>9
     DEF BufferInv, TrimsUnderLock, PopsTooMany, FitsUnlocked, Trims
<1>10. CASE there = "responding"
  BY <1>1, <1>2, <1>3, <1>4, <1>5, <1>7, <1>8, <1>10
     DEF BufferInv, TrimsUnderLock, PopsTooMany, FitsUnlocked, Trims, Holds
<1> QED BY <1>9, <1>10

LEMMA BufferPop ==
  ASSUME ServeInv, BufferInv, NEW w \in Workers, Pop(w)
  PROVE  BufferInv'
<1>1. PICK r \in Requests : r = serves[w] /\ r # NoOne
  BY ServedIs DEF Pop, At
<1>2. /\ phase[r] = "popping" /\ phase' = [phase EXCEPT ![r] = "trimming"]
      /\ store # <<>> /\ store' = Tail(store)
      /\ UNCHANGED <<serves, channels, response, lock, stores>>
  BY <1>1 DEF Pop, At, Moves, scopes, started
<1>3. /\ phase'[r] = "trimming" /\ \A q \in Requests \ {r} : phase'[q] = phase[q]
      /\ \A v \in Workers \ {w} : serves[v] # r
      /\ lock = w /\ lock # NoOne /\ \A v \in Workers \ {w} : ~Trims(v)
      /\ Len(store) > Capacity
  BY <1>1, <1>2, ServedIs, InSection DEF ServeInv, ReportTypes, Holds, BufferInv, PopsTooMany, Trims
<1> DEFINE n == Len(stores)
           m == Len(store)
<1>4. /\ store \in Seq(Requests) /\ stores \in Seq(Requests) /\ n \in Nat /\ m \in Nat /\ 1 <= m /\ m <= n
  BY <1>2 DEF BufferInv, BufferTypes
<1>5. /\ store' \in Seq(Requests) /\ Len(store') = m - 1
      /\ \A i \in 1..(m - 1) : store'[i] = store[i + 1]
  BY <1>2, <1>4
<1> HIDE DEF n, m
<1>6. BufferTypes'
  BY <1>2, <1>4, <1>5 DEF BufferTypes, n
<1>7. LastStored'
  <2>1. ASSUME NEW i \in 1..(m - 1) PROVE store'[i] = stores[n - (m - 1) + i]
    <3>1. i + 1 \in 1..m /\ n - m + (i + 1) = n - (m - 1) + i
      BY <1>4
    <3>2. store[i + 1] = stores[n - m + (i + 1)]
      BY <3>1 DEF BufferInv, LastStored, n, m
    <3> QED BY <1>5, <3>1, <3>2
  <2> QED BY <1>2, <1>5, <2>1 DEF LastStored, n
<1>8. StoredOnce' /\ LosesOnlyWhenFull'
  BY <1>2, <1>3, <1>4, <1>5, CapacityAssumption DEF BufferInv, StoredOnce, LosesOnlyWhenFull, m, n
<1>9. StoredLate'
  BY <1>2, <1>3 DEF BufferInv, BufferTypes, StoredLate, Early
<1>10. \A q \in Requests : Deserves(q)' => Deserves(q)
  BY <1>2, <1>3 DEF Deserves, Holds
<1>11. TokensWereStored'
  BY <1>2, <1>10 DEF BufferInv, TokensWereStored, WasStored
<1>12. \A v \in Workers \ {w} : ~Trims(v)'
  <2> SUFFICES ASSUME NEW v \in Workers \ {w}, Trims(v)' PROVE FALSE
    OBVIOUS
  <2>1. serves[v] \in Requests /\ serves[v] # r
    BY <1>2, <1>3, ServedIs DEF Trims
  <2> QED BY <1>2, <1>3, <2>1 DEF Trims
<1>13. TrimsUnderLock' /\ PopsTooMany' /\ FitsUnlocked'
  BY <1>1, <1>2, <1>3, <1>12 DEF TrimsUnderLock, PopsTooMany, FitsUnlocked, Trims
<1> QED BY <1>6, <1>7, <1>8, <1>9, <1>11, <1>13 DEF BufferInv

LEMMA BufferNext == ServeInv /\ BufferInv /\ [ReportsNext]_reportVars => BufferInv'
<1> SUFFICES ASSUME ServeInv, BufferInv, [ReportsNext]_reportVars PROVE BufferInv'
  OBVIOUS
<1> USE DEF started, scopes, captured, sidecar, delivered
<1>1. CASE Start
  <2>1. \A r \in Requests : phase[r] = "new" /\ response[r] = {} /\ phase'[r] = "new" /\ response'[r] = {}
    BY <1>1 DEF Start, ServeInv, NotYet
  <2> QED BY <1>1, <2>1, BufferStays DEF Start, Deserves, Holds, Trims
<1>2. ASSUME NEW w \in Workers, NEW r \in Requests, Serve(w, r) PROVE BufferInv'
  <2>1. /\ serves[w] = NoOne /\ phase[r] = "new"
        /\ serves' = [serves EXCEPT ![w] = r] /\ phase' = [phase EXCEPT ![r] = "app"]
        /\ UNCHANGED <<channels, response, lock, store, stores>>
    BY <1>2 DEF Serve
  <2>2. phase'[r] = "app" /\ \A q \in Requests \ {r} : phase'[q] = phase[q]
    BY <2>1 DEF ServeInv, ReportTypes
  <2>3. /\ \A q \in Requests : phase'[q] \in Early => phase[q] \in Early
        /\ \A q \in Requests : Deserves(q)' => Deserves(q)
    BY <2>1, <2>2 DEF Deserves, Early, Holds
  <2>4. ASSUME NEW v \in Workers, Trims(v)' PROVE Trims(v) /\ phase'[serves'[v]] = phase[serves[v]]
    <3>1. v \in Tasks /\ w \in Tasks /\ v # w
      BY <2>1, <2>2, <2>4 DEF Trims, Holds, Tasks, ServeInv, ReportTypes
    <3>2. serves'[v] = serves[v] /\ serves[v] \in Requests /\ serves[v] # r
      BY <2>1, <2>2, <2>4, <3>1 DEF Trims, Holds, ServeInv, ReportTypes
    <3> QED BY <2>2, <2>4, <3>2 DEF Trims
  <2> QED BY <2>1, <2>3, <2>4, BufferStays
<1>3. ASSUME NEW h \in Helpers, (\E w \in Workers : Spawn(w, h)) \/ HelperEnds(h) PROVE BufferInv'
  <2>1. UNCHANGED <<channels, phase, response, lock, store, stores>>
    BY <1>3 DEF Spawn, HelperEnds
  <2>2. \A v \in Workers : serves'[v] = serves[v]
    BY <1>3, TasksAssumption DEF Spawn, HelperEnds, ServeInv, ReportTypes, Tasks
  <2> QED BY <2>1, <2>2, BufferStays DEF Deserves, Trims
<1>4. ASSUME UNCHANGED <<channels, serves, phase, response, lock, store, stores>> PROVE BufferInv'
  BY <1>4, BufferStays DEF Deserves, Trims
<1>5. ASSUME NEW w \in Workers, OpenBlock(w) \/ CloseBlock(w)
      PROVE  UNCHANGED <<channels, serves, phase, response, lock, store, stores>>
  BY <1>5 DEF OpenBlock, CloseBlock
<1>6. ASSUME NEW t \in Tasks, Works(t)
      PROVE  UNCHANGED <<channels, serves, phase, response, lock, store, stores>>
  BY <1>6 DEF Works, Execute, OpenStream, CloseStream, AppendsRecord
<1>7. UNCHANGED reportVars => UNCHANGED <<channels, serves, phase, response, lock, store, stores>>
  BY DEF reportVars
<1>8. ASSUME NEW w \in Workers, Finishes(w) \/ Sidecar(w) PROVE BufferInv'
  BY <1>8, BufferFinishes, BufferStore, BufferTooMany, BufferPop DEF Sidecar
<1> QED
  BY <1>1, <1>2, <1>3, <1>4, <1>5, <1>6, <1>7, <1>8 DEF ReportsNext, Handles

(* A token that was stored and is gone was pushed out by those after it.     *)
LEMMA GoneIsOld ==
  ASSUME BufferInv, NEW r \in Requests, WasStored(r), r \notin ToSet(store)
  PROVE  Later(r) >= Capacity
<1> DEFINE n == Len(stores)
           m == Len(store)
<1>1. /\ store \in Seq(Requests) /\ stores \in Seq(Requests) /\ n \in Nat /\ m \in Nat /\ m <= n
      /\ DOMAIN stores = 1..n
  BY DEF BufferInv, BufferTypes
<1>2. PICK i \in 1..n : i = CHOOSE j \in DOMAIN stores : stores[j] = r
  BY <1>1 DEF WasStored
<1>3. stores[i] = r
  BY <1>1, <1>2 DEF WasStored
<1>4. \A j \in 1..m : store[j] # r
  BY <1>1 DEF ToSet
<1>5. i <= n - m
  <2> SUFFICES ASSUME i > n - m PROVE FALSE
    BY <1>1
  <2>1. i - (n - m) \in 1..m /\ n - m + (i - (n - m)) = i
    BY <1>1
  <2> QED BY <1>3, <1>4, <2>1 DEF BufferInv, LastStored
<1>6. m >= Capacity
  BY <1>1, <1>5, CapacityAssumption DEF BufferInv, LosesOnlyWhenFull
<1>7. Later(r) = n - i
  BY <1>2 DEF Later
<1> QED BY <1>1, <1>5, <1>6, <1>7, CapacityAssumption

LEMMA TokensShow == BufferInv => TokenShowsItsReport
<1> SUFFICES ASSUME BufferInv, NEW r \in Requests, lock = NoOne, "sidecar" \in response[r]
             PROVE  \/ get(r) = {report[r]} /\ Len(store) <= Capacity
                    \/ get(r) = {} /\ Later(r) >= Capacity
  BY DEF TokenShowsItsReport
<1>1. CASE r \in ToSet(store)
  BY <1>1 DEF get, BufferInv, FitsUnlocked
<1>2. CASE r \notin ToSet(store)
  <2>1. WasStored(r)
    BY DEF BufferInv, TokensWereStored, Deserves
  <2> QED BY <1>2, <2>1, GoneIsOld DEF get
<1> QED BY <1>1, <1>2

(* A token a client holds shows the report of its own request, or so many    *)
(* were stored after it that it is gone, however the workers interleave,     *)
(* for any number of requests and any capacity.                             *)
THEOREM TokensAnswer == ReportsSpec => []TokenShowsItsReport
<1>1. BufferInv => TokenShowsItsReport
  BY TokensShow
<1> QED BY <1>1, ServeInit, ServeNext, BufferInit, BufferNext, PTL DEF ReportsSpec
-----------------------------------------------------------------------------
(* The ContextVar says in every task what the program's text says, and the   *)
(* tokens of a worker lead back out of the blocks it is in.                  *)
InScope(w) == serves[w] # NoOne /\ phase[serves[w]] = "app"
ScopeOrNone == Scopes \cup {NoScope}
ActiveIsInside ==
  active \in [Tasks -> ScopeOrNone] /\ inside = active /\ saved \in [Tasks -> Seq(ScopeOrNone)]
Outside(w) == saved[w] = <<>> /\ active[w] = NoScope
InRequest(w) == channels # {} /\ saved[w] = <<NoScope>> /\ active[w] = serves[w]
InBlock(w) ==
  channels # {} /\ saved[w] = <<NoScope, serves[w]>> /\ active[w] = <<serves[w], "block">>
BlocksNest ==
  \A w \in Workers :
    /\ ~InScope(w) => Outside(w)
    /\ InScope(w) => (channels = {} /\ Outside(w)) \/ InRequest(w) \/ InBlock(w)
ScopeInv == ActiveIsInside /\ BlocksNest

LEMMA ScopeInit == ReportsInit => ScopeInv
  BY DEF ReportsInit, ScopeInv, ActiveIsInside, BlocksNest, ScopeOrNone, Outside, InScope, Tasks

(* What a step does to the scopes of one worker says nothing of the others.  *)
OnlyHere(w) ==
  \A v \in Workers \ {w} : active'[v] = active[v] /\ saved'[v] = saved[v] /\ serves'[v] = serves[v]
Elsewhere(w) ==
  \A v \in Workers \ {w} : serves[v] # NoOne => phase'[serves[v]] = phase[serves[v]]

LEMMA NestsElsewhere ==
  ASSUME BlocksNest, NEW w \in Workers, OnlyHere(w), Elsewhere(w), UNCHANGED channels,
         ~InScope(w)' => Outside(w)',
         InScope(w)' => (channels = {} /\ Outside(w)') \/ InRequest(w)' \/ InBlock(w)'
  PROVE  BlocksNest'
<1>1. ASSUME NEW v \in Workers \ {w}
      PROVE  /\ ~InScope(v)' => Outside(v)'
             /\ InScope(v)' => (channels = {} /\ Outside(v))' \/ InRequest(v)' \/ InBlock(v)'
  BY DEF BlocksNest, OnlyHere, Elsewhere, InScope, Outside, InRequest, InBlock
<1> QED BY <1>1 DEF BlocksNest

LEMMA NestsStill ==
  ASSUME BlocksNest, UNCHANGED <<channels, saved>>,
         \A v \in Workers : serves'[v] = serves[v] /\ active'[v] = active[v],
         \A v \in Workers : serves[v] # NoOne => (phase'[serves[v]] = "app" <=> phase[serves[v]] = "app")
  PROVE  BlocksNest'
  BY DEF BlocksNest, InScope, Outside, InRequest, InBlock

(* Where the tokens lead.                                                   *)
LEMMA TokensLead ==
  ASSUME NEW a, NEW b
  PROVE  /\ Append(<<>>, a) = <<a>> /\ Append(<<a>>, b) = <<a, b>>
         /\ Last(<<a>>) = a /\ Front(<<a>>) = <<>>
         /\ Last(<<a, b>>) = b /\ Front(<<a, b>>) = <<a>>
         /\ Len(<<>>) = 0 /\ Len(<<a>>) = 1 /\ Len(<<a, b>>) = 2
         /\ <<a>>[1] = a /\ <<a, b>>[1] = a /\ <<a>> # <<>> /\ <<a, b>> # <<>>
<1>1. Front(<<a>>) = <<>>
  BY DEF Front
<1>2. Front(<<a, b>>) = <<a>>
  <2> DEFINE s == <<a, b>>
  <2>1. s \in Seq({a, b}) /\ <<a>> \in Seq({a, b}) /\ Len(s) = 2 /\ Len(<<a>>) = 1 /\ s[1] = a /\ <<a>>[1] = a
    OBVIOUS
  <2> HIDE DEF s
  <2>2. /\ SubSeq(s, 1, 1) \in Seq({a, b}) /\ Len(SubSeq(s, 1, 1)) = 1
        /\ SubSeq(s, 1, 1)[1] = a
    <3>1. \A i \in 1..1 : s[i] \in {a, b}
      BY <2>1
    <3>2. /\ SubSeq(s, 1, 1) \in Seq({a, b})
          /\ Len(SubSeq(s, 1, 1)) = (IF 1 <= 1 THEN 1 - 1 + 1 ELSE 0)
          /\ \A i \in 1..1 - 1 + 1 : SubSeq(s, 1, 1)[i] = s[1 + i - 1]
      BY <3>1, SubSeqProperties
    <3> QED BY <2>1, <3>2
  <2>3. SubSeq(s, 1, 1) = <<a>>
    <3>1. \A i \in 1..Len(SubSeq(s, 1, 1)) : SubSeq(s, 1, 1)[i] = <<a>>[i]
      BY <2>1, <2>2
    <3> QED BY <2>1, <2>2, <3>1, SeqEqual
  <2>4. Len(s) - 1 = 1
    BY <2>1
  <2>5. SubSeq(s, 1, Len(s) - 1) = <<a>>
    BY <2>3, <2>4
  <2>6. Front(s) = <<a>>
    BY <2>5 DEF Front
  <2> QED BY <2>6 DEF s
<1>3. Append(<<>>, a) = <<a>>
  OBVIOUS
<1>4. Append(<<a>>, b) = <<a, b>>
  <2>1. /\ <<a>> \in Seq({a, b}) /\ Len(<<a>>) = 1 /\ <<a>>[1] = a
        /\ <<a, b>> \in Seq({a, b}) /\ Len(<<a, b>>) = 2 /\ <<a, b>>[1] = a /\ <<a, b>>[2] = b
    OBVIOUS
  <2>2. /\ Append(<<a>>, b) \in Seq({a, b}) /\ Len(Append(<<a>>, b)) = Len(<<a>>) + 1
        /\ \A i \in 1..Len(<<a>>) : Append(<<a>>, b)[i] = <<a>>[i]
        /\ Append(<<a>>, b)[Len(<<a>>) + 1] = b
    BY <2>1, AppendProperties
  <2>3. \A i \in 1..2 : i = 1 \/ i = 2
    OBVIOUS
  <2>4. \A i \in 1..2 : Append(<<a>>, b)[i] = <<a, b>>[i]
    BY <2>1, <2>2, <2>3
  <2>5. Len(Append(<<a>>, b)) = 2
    BY <2>1, <2>2
  <2> DEFINE u == Append(<<a>>, b)
             v == <<a, b>>
  <2>6. /\ u \in Seq({a, b}) /\ v \in Seq({a, b}) /\ Len(u) = 2 /\ Len(v) = 2
        /\ \A i \in 1..2 : u[i] = v[i]
    BY <2>1, <2>2, <2>4, <2>5
  <2> HIDE DEF u, v
  <2>7. u = v
    BY <2>6, SeqEqual
  <2> QED BY <2>7 DEF u, v
<1>5. /\ Len(<<>>) = 0 /\ Len(<<a>>) = 1 /\ Len(<<a, b>>) = 2
      /\ <<a>>[1] = a /\ <<a, b>>[1] = a /\ <<a, b>>[2] = b
  OBVIOUS
<1>6. <<a>> # <<>> /\ <<a, b>> # <<>>
  OBVIOUS
<1>7. Last(<<a>>) = a /\ Last(<<a, b>>) = b
  BY <1>5 DEF Last
<1> QED BY <1>1, <1>2, <1>3, <1>5, <1>6, <1>7, <1>4

LEMMA ScopeServe ==
  ASSUME ServeInv, ScopeInv, NEW w \in Workers, NEW r \in Requests, Serve(w, r)
  PROVE  ScopeInv'
<1>1. w \in Tasks /\ serves[w] = NoOne /\ r # NoOne /\ r \in Scopes
  BY NamesAssumption DEF Serve, Tasks, Scopes
<1>2. Outside(w)
  BY <1>1 DEF ScopeInv, BlocksNest, InScope
<1>3. /\ serves' = [serves EXCEPT ![w] = r] /\ phase' = [phase EXCEPT ![r] = "app"] /\ phase[r] = "new"
      /\ UNCHANGED channels
  BY DEF Serve, started
<1>4. serves'[w] = r /\ phase'[r] = "app"
  BY <1>1, <1>3 DEF ServeInv, ReportTypes
<1>5. Elsewhere(w)
  BY <1>3 DEF Elsewhere, ServeInv, ReportTypes, OneServer, Running
<1>6. CASE channels = {}
  <2>1. inside' = [inside EXCEPT ![w] = NoScope] /\ UNCHANGED <<active, saved>>
    BY <1>6 DEF Serve
  <2>2. ActiveIsInside'
    BY <1>1, <1>2, <2>1 DEF ScopeInv, ActiveIsInside, Outside
  <2>3. OnlyHere(w) /\ Outside(w)'
    BY <1>2, <1>3, <2>1 DEF OnlyHere, Outside, ServeInv, ReportTypes
  <2> QED BY <1>3, <1>5, <1>6, <2>2, <2>3, NestsElsewhere DEF ScopeInv
<1>7. CASE channels # {}
  <2>1. /\ inside' = [inside EXCEPT ![w] = r]
        /\ saved' = [saved EXCEPT ![w] = <<NoScope>>] /\ active' = [active EXCEPT ![w] = r]
    <3>1. Append(<<>>, NoScope) = <<NoScope>>
      BY TokensLead, Zenon
    <3> QED BY <1>1, <1>2, <1>7, <3>1 DEF Serve, Enters, Context, Outside
  <2>2. ActiveIsInside'
    BY <1>1, <2>1 DEF ScopeInv, ActiveIsInside, ScopeOrNone
  <2>3. OnlyHere(w) /\ InRequest(w)' /\ InScope(w)'
    BY <1>1, <1>3, <1>4, <1>7, <2>1 DEF OnlyHere, InRequest, InScope, ScopeInv, ActiveIsInside, ServeInv, ReportTypes
  <2> QED BY <1>3, <1>5, <2>2, <2>3, NestsElsewhere DEF ScopeInv
<1> QED BY <1>6, <1>7

LEMMA ScopeBlocks ==
  ASSUME ServeInv, ScopeInv, NEW w \in Workers, OpenBlock(w) \/ CloseBlock(w)
  PROVE  ScopeInv'
<1>1. w \in Tasks /\ InScope(w) /\ serves[w] \in Requests /\ UNCHANGED <<serves, phase, channels>>
  BY ServedIs DEF OpenBlock, CloseBlock, InApp, InScope, delivered, started
<1>2. serves[w] \in Scopes /\ <<serves[w], "block">> \in Scopes
  BY <1>1 DEF Scopes
<1>3. Elsewhere(w)
  BY <1>1 DEF Elsewhere
<1>4. CASE OpenBlock(w)
  <2>1. InRequest(w)
    <3>1. Len(<<>>) = 0 /\ Len(<<NoScope, serves[w]>>) = 2
      OBVIOUS
    <3> QED BY <1>1, <1>4, <3>1 DEF OpenBlock, ScopeInv, BlocksNest, Outside, InBlock
  <2>2. /\ inside' = [inside EXCEPT ![w] = <<serves[w], "block">>]
        /\ active' = [active EXCEPT ![w] = <<serves[w], "block">>]
        /\ saved' = [saved EXCEPT ![w] = <<NoScope, serves[w]>>]
    <3>1. Append(<<NoScope>>, serves[w]) = <<NoScope, serves[w]>>
      BY TokensLead, Zenon
    <3> QED BY <1>4, <2>1, <3>1 DEF OpenBlock, Enters, Context, InRequest
  <2>3. <<NoScope, serves[w]>> \in Seq(ScopeOrNone)
    BY <1>2 DEF ScopeOrNone
  <2>4. ActiveIsInside'
    BY <1>2, <2>2, <2>3 DEF ScopeInv, ActiveIsInside, ScopeOrNone
  <2>5. OnlyHere(w) /\ InBlock(w)' /\ InScope(w)'
    BY <1>1, <2>1, <2>2 DEF OnlyHere, InBlock, InRequest, InScope, ScopeInv, ActiveIsInside
  <2> QED BY <1>1, <1>3, <2>4, <2>5, NestsElsewhere DEF ScopeInv
<1>5. CASE CloseBlock(w)
  <2>1. InBlock(w)
    <3>1. Len(<<>>) = 0 /\ Len(<<NoScope>>) = 1
      OBVIOUS
    <3> QED BY <1>1, <1>5, <3>1 DEF CloseBlock, ScopeInv, BlocksNest, Outside, InRequest
  <2>2. /\ inside' = [inside EXCEPT ![w] = serves[w]] /\ active' = [active EXCEPT ![w] = serves[w]]
        /\ saved' = [saved EXCEPT ![w] = <<NoScope>>]
    <3>1. ASSUME NEW a, NEW b PROVE Last(<<a, b>>) = b /\ Front(<<a, b>>) = <<a>>
      BY TokensLead
    <3>2. Last(<<NoScope, serves[w]>>) = serves[w]
      BY <3>1, Zenon
    <3>3. Front(<<NoScope, serves[w]>>) = <<NoScope>>
      BY <3>1, Zenon
    <3> QED BY <1>5, <2>1, <3>2, <3>3 DEF CloseBlock, Leaves, Context, InBlock
  <2>3. <<NoScope>> \in Seq(ScopeOrNone)
    BY DEF ScopeOrNone
  <2>4. ActiveIsInside'
    BY <1>2, <2>2, <2>3 DEF ScopeInv, ActiveIsInside, ScopeOrNone
  <2>5. OnlyHere(w) /\ InRequest(w)' /\ InScope(w)'
    BY <1>1, <2>1, <2>2 DEF OnlyHere, InBlock, InRequest, InScope, ScopeInv, ActiveIsInside
  <2> QED BY <1>1, <1>3, <2>4, <2>5, NestsElsewhere DEF ScopeInv
<1> QED BY <1>4, <1>5

LEMMA ScopeLeft ==
  ASSUME ServeInv, ScopeInv, NEW w \in Workers, Return(w) \/ Raise(w)
  PROVE  ScopeInv'
<1>1. /\ w \in Tasks /\ InScope(w) /\ serves[w] \in Requests /\ UNCHANGED channels
      /\ \A v \in Workers \ {w} : serves[v] # serves[w]
  BY ServedIs DEF Return, Raise, At, InScope, started
<1>2. PICK there \in {"done", "reporting", "raised"} :
        /\ phase' = [phase EXCEPT ![serves[w]] = there]
        /\ serves' = serves \/ serves' = [serves EXCEPT ![w] = NoOne]
  BY DEF Return, Raise, Free, Moves
<1>3. inside' = [inside EXCEPT ![w] = NoScope]
  BY DEF Return, Raise, Free
<1>4. /\ active' = [active EXCEPT ![w] = NoScope] \/ (active' = active /\ active[w] = NoScope)
      /\ saved' = [saved EXCEPT ![w] = <<>>] \/ (saved' = saved /\ saved[w] = <<>>)
  <2>1. CASE channels = {} /\ Outside(w)
    BY <2>1 DEF Return, Raise, Outside
  <2>2. CASE InRequest(w)
    <3>1. Last(<<NoScope>>) = NoScope /\ Front(<<NoScope>>) = <<>> /\ <<NoScope>>[1] = NoScope /\ <<NoScope>> # <<>>
      BY TokensLead, Zenon
    <3> QED BY <2>2, <3>1 DEF Return, Raise, Leaves, Unwinds, Context, InRequest
  <2>3. CASE InBlock(w)
    <3>1. /\ Len(<<NoScope, serves[w]>>) = 2 /\ <<NoScope, serves[w]>>[1] = NoScope
          /\ <<NoScope, serves[w]>> # <<>>
      BY TokensLead, Zenon
    <3> QED BY <2>3, <3>1 DEF Return, Raise, Unwinds, Context, InBlock
  <2> QED BY <1>1, <2>1, <2>2, <2>3 DEF ScopeInv, BlocksNest
<1>5. ActiveIsInside'
  <2>1. saved' \in [Tasks -> Seq(ScopeOrNone)]
    <3>1. <<>> \in Seq(ScopeOrNone)
      OBVIOUS
    <3> QED BY <1>1, <1>4, <3>1 DEF ScopeInv, ActiveIsInside
  <2>2. active' \in [Tasks -> ScopeOrNone] /\ inside' = active'
    BY <1>1, <1>3, <1>4 DEF ScopeInv, ActiveIsInside, ScopeOrNone
  <2> QED BY <2>1, <2>2 DEF ActiveIsInside
<1>6. Outside(w)' /\ OnlyHere(w)
  <2>1. /\ Outside(w)'
        /\ \A v \in Workers \ {w} : active'[v] = active[v] /\ saved'[v] = saved[v]
    BY <1>1, <1>4 DEF Outside, ScopeInv, ActiveIsInside, Tasks
  <2>2. \A v \in Workers \ {w} : serves'[v] = serves[v]
    BY <1>1, <1>2 DEF ServeInv, ReportTypes, Tasks
  <2> QED BY <2>1, <2>2 DEF OnlyHere
<1>7. ~InScope(w)' /\ Elsewhere(w)
  BY <1>1, <1>2, NamesAssumption DEF InScope, Elsewhere, ServeInv, ReportTypes
<1> QED BY <1>1, <1>5, <1>6, <1>7, NestsElsewhere DEF ScopeInv

LEMMA ScopeAfter ==
  ASSUME ServeInv, ScopeInv, NEW w \in Workers, Reports(w) \/ Respond(w) \/ Streamed(w) \/ Sidecar(w)
  PROVE  ScopeInv'
<1>1. /\ w \in Tasks /\ ~InScope(w) /\ serves[w] \in Requests /\ UNCHANGED <<channels, active, saved>>
      /\ \A v \in Workers \ {w} : serves[v] # serves[w]
  BY ServedIs DEF Reports, Respond, Streamed, Sidecar, StoreLast, TooMany, Pop, Trimmed, At, InScope, started, scopes
<1>2. PICK there \in Phases \ {"app"} :
        /\ phase' = [phase EXCEPT ![serves[w]] = there]
        /\ serves' = serves \/ serves' = [serves EXCEPT ![w] = NoOne]
        /\ inside' = inside \/ inside' = [inside EXCEPT ![w] = NoScope]
  BY DEF Reports, Respond, Streamed, Sidecar, StoreLast, TooMany, Pop, Trimmed, Free, Moves, scopes, Phases, Running
<1>3. Outside(w)
  BY <1>1 DEF ScopeInv, BlocksNest
<1>4. ActiveIsInside'
  BY <1>1, <1>2, <1>3 DEF ScopeInv, ActiveIsInside, Outside
<1>5. Outside(w)' /\ OnlyHere(w)
  <2>1. \A v \in Workers \ {w} : serves'[v] = serves[v]
    BY <1>1, <1>2 DEF ServeInv, ReportTypes, Tasks
  <2> QED BY <1>1, <1>3, <2>1 DEF Outside, OnlyHere
<1>6. ~InScope(w)' /\ Elsewhere(w)
  BY <1>1, <1>2, NamesAssumption DEF InScope, Elsewhere, ServeInv, ReportTypes
<1> QED BY <1>1, <1>4, <1>5, <1>6, NestsElsewhere DEF ScopeInv

LEMMA ScopeNext == ServeInv /\ ScopeInv /\ [ReportsNext]_reportVars => ScopeInv'
<1> SUFFICES ASSUME ServeInv, ScopeInv, [ReportsNext]_reportVars PROVE ScopeInv'
  OBVIOUS
<1> USE DEF started, captured, sidecar, delivered
<1>1. CASE Start
  <2>1. \A w \in Workers : ~InScope(w) /\ ~InScope(w)'
    BY <1>1 DEF Start, scopes, InScope, ServeInv, ReportTypes, NotYet, Tasks
  <2> QED BY <1>1, <2>1 DEF Start, scopes, ScopeInv, ActiveIsInside, BlocksNest, Outside
<1>2. ASSUME NEW h \in Helpers, NEW w \in Workers, Spawn(w, h) PROVE ScopeInv'
  <2>1. /\ h \in Tasks /\ w \in Tasks /\ UNCHANGED <<channels, saved, phase>>
        /\ inside' = [inside EXCEPT ![h] = inside[w]] /\ active' = [active EXCEPT ![h] = active[w]]
        /\ serves' = [serves EXCEPT ![h] = serves[w]]
    BY <1>2 DEF Spawn, Context, Tasks
  <2>2. ActiveIsInside'
    BY <2>1 DEF ScopeInv, ActiveIsInside
  <2>3. \A v \in Workers : serves'[v] = serves[v] /\ active'[v] = active[v]
    BY <2>1, TasksAssumption DEF ScopeInv, ActiveIsInside, ServeInv, ReportTypes, Tasks
  <2> QED BY <2>1, <2>2, <2>3, NestsStill DEF ScopeInv
<1>3. ASSUME NEW h \in Helpers, HelperEnds(h) PROVE ScopeInv'
  <2>1. /\ h \in Tasks /\ UNCHANGED <<channels, saved, phase>>
        /\ inside' = [inside EXCEPT ![h] = NoScope] /\ active' = [active EXCEPT ![h] = NoScope]
        /\ serves' = [serves EXCEPT ![h] = NoOne]
    BY <1>3 DEF HelperEnds, Context, Tasks
  <2>2. ActiveIsInside'
    BY <2>1 DEF ScopeInv, ActiveIsInside, ScopeOrNone
  <2>3. \A v \in Workers : serves'[v] = serves[v] /\ active'[v] = active[v]
    BY <2>1, TasksAssumption DEF ScopeInv, ActiveIsInside, ServeInv, ReportTypes, Tasks
  <2> QED BY <2>1, <2>2, <2>3, NestsStill DEF ScopeInv
<1>4. ASSUME UNCHANGED <<channels, scopes, phase>> PROVE ScopeInv'
  BY <1>4, NestsStill DEF scopes, ScopeInv, ActiveIsInside
<1>5. ASSUME NEW t \in Tasks, Works(t) PROVE UNCHANGED <<channels, scopes, phase>>
  BY <1>5 DEF Works, Execute, OpenStream, CloseStream, AppendsRecord
<1>6. UNCHANGED reportVars => UNCHANGED <<channels, scopes, phase>>
  BY DEF reportVars
<1> QED
  BY <1>1, <1>2, <1>3, <1>4, <1>5, <1>6, ScopeServe, ScopeBlocks, ScopeLeft, ScopeAfter
     DEF ReportsNext, Handles, Finishes
-----------------------------------------------------------------------------
(* What a scope's collector has is what has ended in that scope: a record    *)
(* goes where its statement ran, in the order the statements end.           *)
Issues == [of : Requests \cup {NoOne}, k : Nat]
Entries == [n : Nat, s : Issues]
Tale(rs) == [i \in DOMAIN rs |-> rs[i].s]
Collected ==
  /\ records \in [Scopes -> Seq(Entries)] /\ ended \in [Scopes -> Seq(Issues)]
  /\ \A s \in Scopes : ended[s] = Tale(records[s])
Open(it, S) == it.scope \in S /\ it.in = it.scope /\ it.s \in Issues
KnowsItsScope ==
  /\ numbered = [t \in Tasks |-> numbered[t]] /\ stream = [t \in Tasks |-> stream[t]]
  /\ \A t \in Tasks :
       /\ numbered[t] # NoneOpen => Open(numbered[t], Scopes) /\ numbered[t].n \in Nat
       /\ stream[t] # NoneOpen => Open(stream[t], ScopeOrNone)
CaptureInv == Collected /\ KnowsItsScope /\ statements \in Nat /\ report = [r \in Requests |-> report[r]]

LEMMA CaptureInit == ReportsInit => CaptureInv
<1> SUFFICES ASSUME ReportsInit PROVE CaptureInv
  OBVIOUS
<1>1. Collected
  <2>1. /\ records = [s \in Scopes |-> <<>>] /\ ended = [s \in Scopes |-> <<>>]
        /\ <<>> \in Seq(Entries) /\ <<>> \in Seq(Issues) /\ Tale(<<>>) = <<>>
    BY DEF ReportsInit, Tale
  <2> QED BY <2>1 DEF Collected
<1>2. KnowsItsScope
  BY DEF ReportsInit, KnowsItsScope
<1> QED BY <1>1, <1>2 DEF ReportsInit, CaptureInv

LEMMA TaleIs ==
  ASSUME NEW rs \in Seq(Entries)
  PROVE  /\ Tale(rs) \in Seq(Issues) /\ Len(Tale(rs)) = Len(rs)
         /\ \A i \in 1..Len(rs) : Tale(rs)[i] = rs[i].s
<1>1. \A i \in 1..Len(rs) : rs[i].s \in Issues
  <2>1. \A i \in 1..Len(rs) : rs[i] \in Entries
    OBVIOUS
  <2>2. \A e \in Entries : e.s \in Issues
    BY DEF Entries
  <2> QED BY <2>1, <2>2
<1>2. Tale(rs) = [i \in 1..Len(rs) |-> rs[i].s] /\ Len(rs) \in Nat
  BY DEF Tale
<1> QED BY <1>1, <1>2

LEMMA TaleGrows ==
  ASSUME NEW rs \in Seq(Entries), NEW e \in Entries
  PROVE  /\ Append(rs, e) \in Seq(Entries) /\ Append(Tale(rs), e.s) \in Seq(Issues)
         /\ Tale(Append(rs, e)) = Append(Tale(rs), e.s)
<1>1. /\ Tale(rs) \in Seq(Issues) /\ Len(Tale(rs)) = Len(rs) /\ e.s \in Issues
      /\ \A i \in 1..Len(rs) : Tale(rs)[i] = rs[i].s
  <2>1. e.s \in Issues
    BY DEF Entries
  <2> QED BY <2>1, TaleIs
<1>2. /\ Append(rs, e) \in Seq(Entries) /\ Len(Append(rs, e)) = Len(rs) + 1
      /\ Append(rs, e)[Len(rs) + 1] = e /\ \A i \in 1..Len(rs) : Append(rs, e)[i] = rs[i]
  BY AppendProperties
<1>3. /\ Append(Tale(rs), e.s) \in Seq(Issues) /\ Len(Append(Tale(rs), e.s)) = Len(rs) + 1
      /\ Append(Tale(rs), e.s)[Len(rs) + 1] = e.s
      /\ \A i \in 1..Len(rs) : Append(Tale(rs), e.s)[i] = rs[i].s
  BY <1>1, AppendProperties
<1>4. /\ Tale(Append(rs, e)) \in Seq(Issues) /\ Len(Tale(Append(rs, e))) = Len(rs) + 1
      /\ \A i \in 1..(Len(rs) + 1) : Tale(Append(rs, e))[i] = Append(rs, e)[i].s
  BY <1>2, TaleIs
<1>5. \A i \in 1..(Len(rs) + 1) : i \in 1..Len(rs) \/ i = Len(rs) + 1
  OBVIOUS
<1>6. \A i \in 1..(Len(rs) + 1) : Tale(Append(rs, e))[i] = Append(Tale(rs), e.s)[i]
  BY <1>2, <1>3, <1>4, <1>5
<1>7. Tale(Append(rs, e)) = Append(Tale(rs), e.s)
  BY <1>3, <1>4, <1>6, SeqEqual
<1> QED BY <1>2, <1>3, <1>7

LEMMA CollectsWell ==
  ASSUME CaptureInv, NEW t \in Tasks, NEW s \in Issues, NEW into \in ScopeOrNone, Collects(t, s, into, into),
         stream' = stream \/ stream' = [stream EXCEPT ![t] = NoneOpen], statements' \in Nat, UNCHANGED report
  PROVE  CaptureInv'
<1>1. CASE into = NoScope
  BY <1>1 DEF Collects, Noted, CaptureInv, Collected, KnowsItsScope, Open, ScopeOrNone
<1>2. CASE into # NoScope
  <2>1. into \in Scopes /\ UNCHANGED <<records, ended>>
    BY <1>2 DEF ScopeOrNone, Collects
  <2> DEFINE it == [scope |-> into, in |-> into, n |-> Len(records[into]) + 1, s |-> s]
  <2>2. /\ numbered' = [numbered EXCEPT ![t] = it]
        /\ it.scope = into /\ it.in = into /\ it.s = s /\ it.n = Len(records[into]) + 1
    BY <1>2 DEF Collects
  <2> HIDE DEF it
  <2>3. it.n \in Nat
    BY <2>1, <2>2 DEF CaptureInv, Collected
  <2>4. KnowsItsScope'
    BY <2>1, <2>2, <2>3 DEF CaptureInv, KnowsItsScope, Open
  <2> QED BY <2>1, <2>4 DEF CaptureInv, Collected
<1> QED BY <1>1, <1>2

LEMMA CaptureAppends ==
  ASSUME CaptureInv, NEW t \in Tasks, AppendsRecord(t)
  PROVE  CaptureInv'
<1> DEFINE it == numbered[t]
<1>1. PICK sc \in Scopes : sc = it.scope /\ it.in = sc /\ sc # NoScope /\ it.n \in Nat /\ it.s \in Issues
  BY NamesAssumption DEF AppendsRecord, CaptureInv, KnowsItsScope, Open
<1> DEFINE e == [n |-> it.n, s |-> it.s]
<1>2. e \in Entries /\ e.s = it.s
  BY <1>1 DEF Entries
<1>3. /\ records' = [records EXCEPT ![sc] = Append(@, e)] /\ ended' = [ended EXCEPT ![sc] = Append(@, e.s)]
      /\ numbered' = [numbered EXCEPT ![t] = NoneOpen] /\ UNCHANGED <<stream, statements, report>>
  BY <1>1, <1>2 DEF AppendsRecord, Record, Noted, delivered
<1> HIDE DEF it, e
<1>4. records[sc] \in Seq(Entries) /\ ended[sc] = Tale(records[sc])
  BY DEF CaptureInv, Collected
<1>5. /\ Append(records[sc], e) \in Seq(Entries) /\ Append(ended[sc], e.s) \in Seq(Issues)
      /\ Append(ended[sc], e.s) = Tale(Append(records[sc], e))
  BY <1>2, <1>4, TaleGrows
<1>6. Collected'
  BY <1>3, <1>5 DEF CaptureInv, Collected
<1>7. KnowsItsScope'
  BY <1>3 DEF CaptureInv, KnowsItsScope
<1> QED BY <1>3, <1>6, <1>7 DEF CaptureInv

LEMMA CaptureWorks ==
  ASSUME ServeInv, ScopeInv, CaptureInv, NEW t \in Tasks, Works(t)
  PROVE  CaptureInv'
<1>1. Issued(t) \in Issues /\ active[t] \in ScopeOrNone /\ inside[t] = active[t]
  BY DEF Issued, Issues, CaptureInv, ScopeInv, ActiveIsInside, ServeInv, ReportTypes
<1>2. CASE Execute(t)
  BY <1>1, <1>2, CollectsWell DEF Execute, Context, delivered, CaptureInv
<1>3. CASE OpenStream(t)
  <2> DEFINE it == [scope |-> active[t], in |-> active[t], s |-> Issued(t)]
  <2>1. /\ stream' = [stream EXCEPT ![t] = it]
        /\ it.scope = active[t] /\ it.in = active[t] /\ it.s = Issued(t)
    BY <1>1, <1>3 DEF OpenStream, Context
  <2> HIDE DEF it
  <2>2. KnowsItsScope'
    BY <1>1, <1>3, <2>1 DEF OpenStream, CaptureInv, KnowsItsScope, Open
  <2> QED BY <1>3, <2>2 DEF OpenStream, delivered, CaptureInv, Collected
<1>4. CASE CloseStream(t)
  <2>1. /\ stream[t].s \in Issues /\ stream[t].scope \in ScopeOrNone /\ stream[t].in = stream[t].scope
        /\ stream' = [stream EXCEPT ![t] = NoneOpen] /\ UNCHANGED <<statements, report>>
        /\ Collects(t, stream[t].s, stream[t].scope, stream[t].in)
    BY <1>4 DEF CloseStream, delivered, CaptureInv, KnowsItsScope, Open
  <2> QED BY <2>1, CollectsWell DEF CaptureInv
<1> QED BY <1>2, <1>3, <1>4, CaptureAppends DEF Works

LEMMA CaptureNext == ServeInv /\ ScopeInv /\ CaptureInv /\ [ReportsNext]_reportVars => CaptureInv'
<1> SUFFICES ASSUME ServeInv, ScopeInv, CaptureInv, [ReportsNext]_reportVars PROVE CaptureInv'
  OBVIOUS
<1>1. ASSUME UNCHANGED captured, report' = [r \in Requests |-> report'[r]] PROVE CaptureInv'
  BY <1>1 DEF captured, CaptureInv, Collected, KnowsItsScope
<1>2. ASSUME NEW w \in Workers, Handles(w) PROVE CaptureInv'
  <2>1. UNCHANGED captured
    BY <1>2 DEF Handles, Serve, OpenBlock, CloseBlock, Spawn, Sidecar, StoreLast, TooMany, Pop, Trimmed,
                Finishes, Return, Raise, Reports, Respond, Streamed
  <2>2. report' = report \/ \E r, rs : report' = [report EXCEPT ![r] = rs]
    BY <1>2 DEF Handles, Serve, OpenBlock, CloseBlock, Spawn, Sidecar, StoreLast, TooMany, Pop, Trimmed,
                Finishes, Return, Raise, Reports, Respond, Streamed, delivered
  <2> QED BY <1>1, <2>1, <2>2 DEF CaptureInv
<1>3. ASSUME \/ Start \/ UNCHANGED reportVars
             \/ \E h \in Helpers : HelperEnds(h)
      PROVE  CaptureInv'
  BY <1>1, <1>3 DEF Start, HelperEnds, reportVars, delivered, CaptureInv
<1> QED BY <1>2, <1>3, CaptureWorks DEF ReportsNext

LEMMA TakesItsOwn ==
  ASSUME ServeInv, CaptureInv, [ReportsNext]_reportVars,
         NEW r \in Requests, phase[r] = "reporting", phase'[r] # "reporting"
  PROVE  Told(r)' = ended[r]
<1>1. PICK w \in Workers : Reports(w) /\ serves[w] = r
  <2>1. ASSUME NEW w \in Workers, NEW q \in Requests, Serve(w, q) PROVE FALSE
    BY <2>1 DEF Serve, ServeInv, ReportTypes
  <2>2. ASSUME NEW w \in Workers, Settles(w) PROVE Reports(w) /\ serves[w] = r
    <3>1. serves[w] # r => phase'[r] = phase[r]
      BY <2>2, HandlesMove DEF MovesOn, Settles, Finishes, Sidecar, ServeInv, ReportTypes
    <3>2. serves[w] = r
      BY <3>1
    <3> QED BY <2>2, <3>2 DEF Settles, Finishes, Sidecar, Return, Raise, Respond, Streamed, StoreLast, TooMany, Pop,
                Trimmed, At
  <2>3. ASSUME NEW w \in Workers, OpenBlock(w) \/ CloseBlock(w) \/ \E h \in Helpers : Spawn(w, h) PROVE FALSE
    BY <2>3 DEF OpenBlock, CloseBlock, Spawn, delivered
  <2>4. ASSUME \/ Start \/ UNCHANGED reportVars \/ (\E h \in Helpers : HelperEnds(h))
               \/ \E t \in Tasks : Works(t)
        PROVE  FALSE
    BY <2>4 DEF Start, HelperEnds, Works, Execute, OpenStream, CloseStream, AppendsRecord, reportVars, delivered
  <2> QED BY <2>1, <2>2, <2>3, <2>4 DEF ReportsNext, Handles, Settles
<1>2. report'[r] = records[r]
  BY <1>1 DEF Reports, CaptureInv
<1>3. r \in Scopes
  BY DEF Scopes
<1> QED BY <1>2, <1>3 DEF Told, Tale, CaptureInv, Collected

(* What is reported of a request is what has ended in its own scope, in that *)
(* order, whatever the other workers, its helpers and its blocks do.        *)
THEOREM ReportsAreTheirOwn == ReportsSpec => ReportIsItsOwn
<1>1. ServeInv /\ CaptureInv /\ [ReportsNext]_reportVars
        => [\A r \in Requests : phase[r] = "reporting" /\ phase'[r] # "reporting" =>
              Told(r)' = ended[r]]_reportVars
  BY TakesItsOwn
<1> QED
  BY <1>1, ServeInit, ServeNext, ScopeInit, ScopeNext, CaptureInit, CaptureNext, PTL DEF ReportsSpec, ReportIsItsOwn

-----------------------------------------------------------------------------
(* Every instance has a place: the chain and the level that loaded it, and   *)
(* the roots none.                                                          *)
NoPlace == <<0, 0>>
Above(n, l) == IF l = 1 THEN NoPlace ELSE <<n, l - 1>>
Done(n, l) == n < at.chain \/ (n = at.chain /\ l < at.level)
Here == <<at.chain, at.level>>
ARoot(i) == i <= Cardinality(Roots)
LoadedAt(p, i, c, rel) ==
  \E n \in DOMAIN Chains : \E l \in DOMAIN Chains[n] :
    p[c] = <<n, l>> /\ Chains[n][l].rel = rel /\ p[i] = Above(n, l)

Instance(o) == o = [id |-> o.id, fk |-> o.fk, has |-> o.has] /\ o.id # None
Heap == /\ Len(heap) \in Nat /\ heap = [i \in 1..Len(heap) |-> heap[i]]
        /\ \A i \in 1..Len(heap) : Instance(heap[i])
        /\ IF at.chain = 0 THEN heap = <<>> ELSE Cardinality(Roots) <= Len(heap)
Asking == todo \in Seq(Nat) /\ next \in Seq(Nat) /\ writes \in Nat /\ (at.chain = 0 => next = <<>>)

(* The tables are as they began, but for the values of foreign keys and for  *)
(* what a bridge has lost.                                                  *)
Stored ==
  \A n \in DOMAIN Chains : \A l \in DOMAIN Chains[n] : LET hop == Chains[n][l] IN
    /\ hop.kind = "to_many" =>
         /\ hop.rel \in DOMAIN fk
         /\ IsFiniteSet(DOMAIN fk[hop.rel]) /\ None \notin DOMAIN fk[hop.rel]
    /\ hop.kind = "to_many_through" =>
         /\ hop.rel \in DOMAIN bridge /\ IsFiniteSet(bridge[hop.rel])
         /\ \A p \in bridge[hop.rel] : p = <<p[1], p[2]>> /\ p[2] # None /\ p[2] \in hop.filter

(* Who is loaded where, and with what.                                      *)
Places(p) ==
  /\ \A i \in 1..Len(heap) :
       IF ARoot(i) THEN p[i] = NoPlace
       ELSE \E n \in DOMAIN Chains : \E l \in DOMAIN Chains[n] :
              p[i] = <<n, l>> /\ (Done(n, l) \/ p[i] = Here)
  /\ \A i \in 1..Len(heap) : \A rel \in DOMAIN heap[i].has : \A c \in heap[i].has[rel] :
       c \in 1..Len(heap) /\ LoadedAt(p, i, c, rel)
Answers(p) ==
  /\ \A n \in DOMAIN Chains : \A l \in DOMAIN Chains[n] : Done(n, l) =>
       \A i \in 1..Len(heap) : p[i] = Above(n, l) => Answered(i, Chains[n][l])
  /\ Loading => \A i \in 1..Len(heap) :
       p[i] = Above(at.chain, at.level) => i \in ToSet(todo) \/ Answered(i, Hop)
Queues(p) ==
  Loading =>
    /\ ToSet(todo) \subseteq {i \in 1..Len(heap) : p[i] = Above(at.chain, at.level)}
    /\ ToSet(next) = {i \in 1..Len(heap) : p[i] = Here}
Sited(p) == p \in [1..Len(heap) -> Nat \X Nat] /\ Places(p) /\ Answers(p) /\ Queues(p)

LoadInv == InAChain /\ Heap /\ Asking /\ Stored /\ \E p : Sited(p)

(***************************************************************************)
(* Sequences and sets.                                                      *)
(***************************************************************************)
LEMMA InOneSequence ==
  ASSUME NEW S, IsFiniteSet(S)
  PROVE  /\ Cardinality(S) \in Nat
         /\ SetToSeq(S) \in [1..Cardinality(S) -> S]
         /\ \A i, j \in 1..Cardinality(S) : SetToSeq(S)[i] = SetToSeq(S)[j] => i = j
         /\ \A x \in S : \E i \in 1..Cardinality(S) : SetToSeq(S)[i] = x
<1> DEFINE n == Cardinality(S)
           f == SetToSeq(S)
<1>1. n \in Nat /\ ExistsBijection(1..n, S)
  BY FS_CardinalityType
<1>2. \E g \in [1..n -> S] : IsInjective(g)
  <2>1. PICK g \in Bijection(1..n, S) : TRUE
    BY <1>1 DEF ExistsBijection
  <2>2. g \in [1..n -> S] /\ \A a, b \in 1..n : g[a] = g[b] => a = b
    BY <2>1 DEF Bijection, Injection, Surjection, IsInjective
  <2> QED BY <2>2 DEF IsInjective
<1>3. f \in [1..n -> S] /\ IsInjective(f)
  BY <1>2 DEF SetToSeq
<1> HIDE DEF n, f
<1>4. \A a, b \in 1..n : f[a] = f[b] => a = b
  BY <1>3 DEF IsInjective
<1>5. f \in Injection(1..n, S)
  BY <1>3, <1>4 DEF Injection, IsInjective
<1>6. IsFiniteSet(1..n) /\ Cardinality(1..n) = n
  BY <1>1, FS_Interval
<1>7. f \in Surjection(1..n, S)
  BY <1>5, <1>6, FS_Injection DEF n
<1> QED BY <1>1, <1>3, <1>4, <1>7 DEF Surjection, n, f

LEMMA ImageIsFinite ==
  ASSUME NEW S, IsFiniteSet(S), NEW f
  PROVE  IsFiniteSet({f[x] : x \in S})
<1> DEFINE T == {f[x] : x \in S}
           g == [x \in S |-> f[x]]
<1>1. g \in Surjection(S, T)
  BY DEF Surjection
<1> HIDE DEF T, g
<1> QED BY <1>1, FS_Surjection DEF T

LEMMA Numbers ==
  ASSUME NEW n \in Nat, NEW m \in Nat, n <= m
  PROVE  Indices(n, m) \in Seq(Nat) /\ ToSet(Indices(n, m)) = (n + 1)..m
<1>1. Indices(n, m) \in [1..(m - n) -> Nat] /\ m - n \in Nat
  BY DEF Indices
<1>2. Indices(n, m) \in Seq(Nat)
  BY <1>1
<1>3. ASSUME NEW x \in (n + 1)..m PROVE x \in ToSet(Indices(n, m))
  <2>1. x - n \in 1..(m - n) /\ n + (x - n) = x
    OBVIOUS
  <2>2. x - n \in DOMAIN Indices(n, m) /\ Indices(n, m)[x - n] = x
    BY <2>1 DEF Indices
  <2> QED BY <2>2 DEF ToSet
<1>4. ASSUME NEW x \in ToSet(Indices(n, m)) PROVE x \in (n + 1)..m
  <2>1. PICK k \in 1..(m - n) : x = n + k
    BY DEF ToSet, Indices
  <2> QED BY <2>1
<1> QED BY <1>2, <1>3, <1>4

LEMMA Joined ==
  ASSUME NEW m \in Nat, NEW k \in Nat, NEW f, NEW g, f = [i \in 1..m |-> f[i]], g = [i \in 1..k |-> g[i]]
  PROVE  /\ f \o g = [i \in 1..(m + k) |-> IF i <= m THEN f[i] ELSE g[i - m]]
         /\ Len(f \o g) = m + k
<1> DEFINE S == {f[i] : i \in 1..m} \cup {g[i] : i \in 1..k}
<1>1. f \in [1..m -> S] /\ g \in [1..k -> S]
  <2>1. \A i \in 1..m : f[i] \in S
    OBVIOUS
  <2>2. \A i \in 1..k : g[i] \in S
    OBVIOUS
  <2> HIDE DEF S
  <2> QED BY <2>1, <2>2
<1> HIDE DEF S
<1>2. f \in Seq(S) /\ g \in Seq(S) /\ Len(f) = m /\ Len(g) = k
  BY <1>1
<1>3. /\ f \o g \in Seq(S) /\ Len(f \o g) = m + k
      /\ \A i \in 1..(m + k) : (f \o g)[i] = IF i <= m THEN f[i] ELSE g[i - m]
  <2>1. \A F, G \in Seq(S) :
          /\ F \o G \in Seq(S) /\ Len(F \o G) = Len(F) + Len(G)
          /\ \A i \in 1..(Len(F) + Len(G)) :
               (F \o G)[i] = IF i <= Len(F) THEN F[i] ELSE G[i - Len(F)]
    BY ConcatProperties
  <2>2. /\ f \o g \in Seq(S) /\ Len(f \o g) = Len(f) + Len(g)
        /\ \A i \in 1..(Len(f) + Len(g)) :
             (f \o g)[i] = IF i <= Len(f) THEN f[i] ELSE g[i - Len(f)]
    BY <1>2, <2>1, Zenon
  <2> QED BY <1>2, <2>2, Zenon
<1>4. PICK h, n : h = f \o g /\ n = m + k
  OBVIOUS
<1>5. n \in Nat /\ h \in Seq(S) /\ Len(h) = n
  BY <1>3, <1>4
<1>6. h = [i \in 1..n |-> h[i]]
  BY <1>5
<1>7. \A i \in 1..n : h[i] = IF i <= m THEN f[i] ELSE g[i - m]
  BY <1>3, <1>4
<1>8. h = [i \in 1..n |-> IF i <= m THEN f[i] ELSE g[i - m]]
  BY <1>6, <1>7
<1> QED BY <1>3, <1>4, <1>8

LEMMA JoinedSets ==
  ASSUME NEW f \in Seq(Nat), NEW g \in Seq(Nat)
  PROVE  f \o g \in Seq(Nat) /\ ToSet(f \o g) = ToSet(f) \cup ToSet(g)
<1>1. /\ f \o g \in Seq(Nat) /\ Len(f \o g) = Len(f) + Len(g) /\ Len(f) \in Nat /\ Len(g) \in Nat
      /\ \A i \in 1..(Len(f) + Len(g)) : (f \o g)[i] = IF i <= Len(f) THEN f[i] ELSE g[i - Len(f)]
  BY ConcatProperties
<1>2. DOMAIN f = 1..Len(f) /\ DOMAIN g = 1..Len(g) /\ DOMAIN (f \o g) = 1..(Len(f) + Len(g))
  BY <1>1
<1>3. ASSUME NEW x \in ToSet(f \o g) PROVE x \in ToSet(f) \cup ToSet(g)
  <2>1. PICK i \in 1..(Len(f) + Len(g)) : x = (f \o g)[i]
    BY <1>2 DEF ToSet
  <2>2. CASE i <= Len(f)
    <3>1. x = f[i] /\ i \in 1..Len(f)
      BY <1>1, <2>1, <2>2
    <3> QED BY <1>2, <3>1 DEF ToSet
  <2>3. CASE ~(i <= Len(f))
    <3>1. x = g[i - Len(f)] /\ i - Len(f) \in 1..Len(g)
      BY <1>1, <2>1, <2>3
    <3> QED BY <1>2, <3>1 DEF ToSet
  <2> QED BY <2>2, <2>3
<1>4. ASSUME NEW x \in ToSet(f) PROVE x \in ToSet(f \o g)
  <2>1. PICK i \in 1..Len(f) : x = f[i]
    BY <1>2 DEF ToSet
  <2>2. i \in 1..(Len(f) + Len(g)) /\ (f \o g)[i] = x
    BY <1>1, <2>1
  <2> QED BY <1>2, <2>2 DEF ToSet
<1>5. ASSUME NEW x \in ToSet(g) PROVE x \in ToSet(f \o g)
  <2>1. PICK i \in 1..Len(g) : x = g[i]
    BY <1>2 DEF ToSet
  <2>2. Len(f) + i \in 1..(Len(f) + Len(g)) /\ ~(Len(f) + i <= Len(f)) /\ (Len(f) + i) - Len(f) = i
    BY <1>1
  <2>3. (f \o g)[Len(f) + i] = x
    BY <1>1, <2>1, <2>2
  <2> QED BY <1>2, <2>2, <2>3 DEF ToSet
<1> QED BY <1>1, <1>3, <1>4, <1>5

(* A batch and what it leaves.                                              *)
LEMMA BatchAndRest ==
  ASSUME NEW s \in Seq(Nat), NEW n \in Nat
  PROVE  LET rest == SubSeq(s, n + 1, Len(s))
             batch == {s[i] : i \in {j \in 1..n : j \in DOMAIN s}} IN
           /\ rest \in Seq(Nat) /\ ToSet(rest) \subseteq ToSet(s) /\ batch \subseteq ToSet(s)
           /\ ToSet(s) \subseteq batch \cup ToSet(rest)
<1> DEFINE rest == SubSeq(s, n + 1, Len(s))
           batch == {s[i] : i \in {j \in 1..n : j \in DOMAIN s}}
<1>1. DOMAIN s = 1..Len(s) /\ Len(s) \in Nat /\ \A i \in 1..Len(s) : s[i] \in Nat
  OBVIOUS
<1>2. rest = [i \in 1..(Len(s) - n) |-> s[n + i]]
  <2>1. rest = [i \in 1..((Len(s) - (n + 1)) + 1) |-> s[((n + 1) + i) - 1]]
    BY <1>1
  <2>2. (Len(s) - (n + 1)) + 1 = Len(s) - n
    BY <1>1
  <2>3. \A i \in 1..(Len(s) - n) : ((n + 1) + i) - 1 = n + i
    OBVIOUS
  <2> QED BY <2>1, <2>2, <2>3
<1> HIDE DEF rest
<1>3. rest \in Seq(Nat)
  <2>1. \A i \in 1..(Len(s) - n) : n + i \in 1..Len(s)
    BY <1>1
  <2>2. CASE n <= Len(s)
    <3>0. Len(s) \in Nat
      BY <1>1
    <3>1. PICK m \in Nat : m = Len(s) - n
      <4>1. Len(s) - n \in Nat
        BY <3>0, <2>2
      <4> QED BY <4>1
    <3>2. rest \in [1..m -> Nat]
      BY <1>1, <1>2, <2>1, <3>1
    <3> QED BY <3>2
  <2>3. CASE ~(n <= Len(s))
    <3>1. 1..(Len(s) - n) = 1..0
      BY <1>1, <2>3
    <3>2. rest \in [1..0 -> Nat]
      BY <1>2, <3>1
    <3> QED BY <3>2
  <2> QED BY <2>2, <2>3
<1>4. ASSUME NEW x \in ToSet(rest) PROVE x \in ToSet(s)
  <2>1. PICK i \in 1..(Len(s) - n) : x = s[n + i]
    BY <1>2 DEF ToSet
  <2>2. n + i \in DOMAIN s
    BY <1>1
  <2> QED BY <2>1, <2>2 DEF ToSet
<1>5. batch \subseteq ToSet(s)
  BY DEF ToSet
<1>6. ASSUME NEW x \in ToSet(s), x \notin batch PROVE x \in ToSet(rest)
  <2>1. PICK i \in 1..Len(s) : x = s[i]
    BY <1>1 DEF ToSet
  <2>2. i \notin 1..n
    BY <1>1, <1>6, <2>1
  <2>3. i - n \in 1..(Len(s) - n) /\ n + (i - n) = i
    BY <1>1, <2>2
  <2>4. i - n \in DOMAIN rest /\ rest[i - n] = x
    BY <1>2, <2>1, <2>3
  <2> QED BY <2>4 DEF ToSet
<1> QED BY <1>3, <1>4, <1>5, <1>6 DEF rest

(***************************************************************************)
(* One batch.                                                              *)
(***************************************************************************)
Batch(hop, k, rows, P, keys) ==
  /\ hop = Hop /\ k \in Nat /\ rows \in [1..k -> emit_select(keys, hop)]
  /\ \A i, j \in 1..k : rows[i] = rows[j] => i = j
  /\ \A e \in emit_select(keys, hop) : \E i \in 1..k : rows[i] = e
  /\ keys = {KeyOf(i, hop) : i \in P} \ {None} /\ P \subseteq ToSet(todo)
  /\ Len(heap') = Len(heap) + k /\ heap' = [i \in 1..Len(heap') |-> heap'[i]]
  /\ \A i \in 1..Len(heap) : heap'[i] =
       IF i \in P
       THEN Given(heap[i], hop.rel, {Len(heap) + j : j \in {j \in 1..k : rows[j][1] = KeyOf(i, hop)}})
       ELSE heap[i]
  /\ \A j \in 1..k : heap'[Len(heap) + j] = Row(rows[j][2])
  /\ todo' \in Seq(Nat) /\ ToSet(todo') \subseteq ToSet(todo) /\ ToSet(todo) \subseteq P \cup ToSet(todo')
  /\ next' \in Seq(Nat) /\ ToSet(next') = ToSet(next) \cup ((Len(heap) + 1)..(Len(heap) + k))
  /\ at' = at /\ fk' = fk /\ bridge' = bridge /\ writes' = writes

LEMMA HopIs ==
  ASSUME InAChain, Loading
  PROVE  Hop = Chains[at.chain][at.level] /\ at.chain \in DOMAIN Chains /\ at.level \in DOMAIN Chains[at.chain]
BY DEF InAChain, Loading, Hop, Chain

(* What comes back are finitely many pairs, of a key that was asked for.    *)
LEMMA AnswerIsFinite ==
  ASSUME Stored, NEW n \in DOMAIN Chains, NEW l \in DOMAIN Chains[n], NEW keys, IsFiniteSet(keys)
  PROVE  LET hop == Chains[n][l] IN
         /\ IsFiniteSet(emit_select(keys, hop))
         /\ \A e \in emit_select(keys, hop) : e = <<e[1], e[2]>> /\ e[2] # None
<1> DEFINE hop == Chains[n][l]
           E == emit_select(keys, hop)
<1>1. /\ hop.kind = "to_many" =>
           /\ hop.rel \in DOMAIN fk
           /\ IsFiniteSet(DOMAIN fk[hop.rel]) /\ None \notin DOMAIN fk[hop.rel]
      /\ hop.kind = "to_many_through" =>
           /\ hop.rel \in DOMAIN bridge /\ IsFiniteSet(bridge[hop.rel])
           /\ \A p \in bridge[hop.rel] : p = <<p[1], p[2]>> /\ p[2] # None
      /\ None \notin hop.rows /\ hop.kind \in {"to_many", "to_one", "to_many_through"}
  BY RowsAssumption DEF Stored
<1> SUFFICES IsFiniteSet(E) /\ \A e \in E : e = <<e[1], e[2]>> /\ e[2] # None
  OBVIOUS
<1> HIDE DEF hop
<1>2. CASE hop.kind = "to_many"
  <2> DEFINE f == [c \in DOMAIN fk[hop.rel] |-> <<fk[hop.rel][c], c>>]
             D == {c \in DOMAIN fk[hop.rel] : fk[hop.rel][c] \in keys /\ c \in hop.filter}
  <2>1. E = {f[c] : c \in D}
    BY <1>2 DEF emit_select
  <2>2. IsFiniteSet(D)
    BY <1>1, <1>2, FS_Subset
  <2>3. ASSUME NEW e \in E PROVE e = <<e[1], e[2]>> /\ e[2] # None
    <3>1. PICK c \in D : e = f[c]
      BY <2>1
    <3>2. e = <<fk[hop.rel][c], c>> /\ c # None
      BY <1>1, <1>2, <3>1
    <3> QED BY <3>2
  <2> HIDE DEF D, f
  <2>4. IsFiniteSet({f[c] : c \in D})
    BY <2>2, ImageIsFinite
  <2> HIDE DEF E
  <2> QED BY <2>1, <2>3, <2>4
<1>3. CASE hop.kind = "to_one"
  <2> DEFINE f == [c \in keys |-> <<c, c>>]
             D == keys \cap hop.filter \cap hop.rows
  <2>1. E = {f[c] : c \in D}
    BY <1>3 DEF emit_select
  <2>2. IsFiniteSet(D)
    BY FS_Subset
  <2>3. ASSUME NEW e \in E PROVE e = <<e[1], e[2]>> /\ e[2] # None
    <3>1. PICK c \in D : e = f[c]
      BY <2>1
    <3>2. e = <<c, c>> /\ c # None
      BY <1>1, <3>1
    <3> QED BY <3>2
  <2> HIDE DEF D, f
  <2>4. IsFiniteSet({f[c] : c \in D})
    BY <2>2, ImageIsFinite
  <2> HIDE DEF E
  <2> QED BY <2>1, <2>3, <2>4
<1>4. CASE hop.kind = "to_many_through"
  <2>1. E = {p \in bridge[hop.rel] : p[1] \in keys}
    BY <1>4 DEF emit_select
  <2>2. IsFiniteSet(E)
    BY <1>1, <1>4, <2>1, FS_Subset
  <2> QED BY <1>1, <1>4, <2>1, <2>2
<1> QED BY <1>1, <1>2, <1>3, <1>4

LEMMA AnswersHaveKeys ==
  ASSUME Stored, NEW n \in DOMAIN Chains, NEW l \in DOMAIN Chains[n], NEW keys,
         NEW e \in emit_select(keys, Chains[n][l])
  PROVE  e = <<e[1], e[2]>> /\ e[2] # None
<1> DEFINE hop == Chains[n][l]
<1>1. hop.kind \in {"to_many", "to_one", "to_many_through"}
  BY RowsAssumption
<1> PICK few : few = {e[1]} \cap keys
  OBVIOUS
<1>2. IsFiniteSet(few)
  <2>1. few \subseteq {e[1]} /\ IsFiniteSet({e[1]})
    BY FS_Singleton
  <2> HIDE DEF hop
  <2> QED BY <2>1, FS_Subset
<1>3. e \in emit_select(few, hop)
  <2>1. CASE hop.kind = "to_many"
    <3>1. PICK c \in DOMAIN fk[hop.rel] :
             fk[hop.rel][c] \in keys /\ c \in hop.filter /\ e = <<fk[hop.rel][c], c>>
      BY <2>1 DEF emit_select
    <3>2. fk[hop.rel][c] \in few
      BY <3>1
    <3> QED BY <2>1, <3>1, <3>2 DEF emit_select
  <2>2. CASE hop.kind = "to_one"
    <3>1. PICK c \in keys \cap hop.filter \cap hop.rows : e = <<c, c>>
      BY <2>2 DEF emit_select
    <3>2. c \in few
      BY <3>1
    <3> QED BY <2>2, <3>1, <3>2 DEF emit_select
  <2>3. CASE hop.kind = "to_many_through"
    BY <2>3 DEF emit_select
  <2> QED BY <1>1, <2>1, <2>2, <2>3
<1> QED BY <1>2, <1>3, AnswerIsFinite

LEMMA BatchIs ==
  ASSUME LoadInv, LoadBatch
  PROVE  \E hop, k, rows, P, keys : Batch(hop, k, rows, P, keys)
<1> PICK hop : hop = Hop
  OBVIOUS
<1> DEFINE size == parents_per_batch(hop)
           parents == {i \in 1..size : i \in DOMAIN todo}
           keys == parent_keys(parents, hop)
           E == emit_select(keys, hop)
           rows == SetToSeq(E)
           m == Len(heap)
           children == {[key |-> rows[i][1], at |-> m + i] : i \in DOMAIN rows}
           P == {todo[i] : i \in parents}
           made == [i \in DOMAIN rows |-> Row(rows[i][2])]
           k == Cardinality(E)
<1>1. /\ Loading /\ heap' = Attached(P, children, hop) \o made
      /\ todo' = SubSeq(todo, size + 1, Len(todo)) /\ next' = next \o Indices(m, m + Len(rows))
      /\ at' = at /\ fk' = fk /\ bridge' = bridge /\ writes' = writes
  BY DEF LoadBatch, database
<1>2. hop = Chains[at.chain][at.level] /\ at.chain \in DOMAIN Chains /\ at.level \in DOMAIN Chains[at.chain]
  BY <1>1, HopIs DEF LoadInv
<1>3. size \in Nat
  <2>1. hop.width \in Nat \ {0} /\ hop.binds \in Nat
    BY <1>2, RoomAssumption
  <2> QED BY <2>1, SizeIsPositive
<1>4. m \in Nat /\ heap = [i \in 1..m |-> heap[i]]
  BY DEF LoadInv, Heap
<1>5. IsFiniteSet(parents) /\ IsFiniteSet(keys)
  <2>1. IsFiniteSet(parents)
    <3> HIDE DEF size
    <3>1. IsFiniteSet(1..size)
      BY <1>3, FS_Interval
    <3> QED BY <3>1, FS_Subset
  <2> DEFINE f == [i \in parents |-> KeyOf(todo[i], hop)]
  <2>2. keys = {f[i] : i \in parents} \ {None}
    BY DEF parent_keys
  <2> HIDE DEF f, parents, keys
  <2>3. IsFiniteSet({f[i] : i \in parents})
    BY <2>1, ImageIsFinite
  <2> QED BY <2>1, <2>2, <2>3, FS_Subset
<1>6. keys = {KeyOf(i, hop) : i \in P} \ {None}
  BY DEF parent_keys
<1> HIDE DEF keys
<1>7. IsFiniteSet(E)
  BY <1>2, <1>5, AnswerIsFinite DEF LoadInv
<1> HIDE DEF E
<1>8. /\ k \in Nat /\ rows \in [1..k -> E] /\ \A i, j \in 1..k : rows[i] = rows[j] => i = j
      /\ \A e \in E : \E i \in 1..k : rows[i] = e
  BY <1>7, InOneSequence
<1> HIDE DEF rows, k
<1>9. DOMAIN rows = 1..k /\ Len(rows) = k
  BY <1>8
<1>10. \A i \in 1..m : Of(children, KeyOf(i, hop)) = {m + j : j \in {j \in 1..k : rows[j][1] = KeyOf(i, hop)}}
  <2> TAKE i \in 1..m
  <2> DEFINE key == KeyOf(i, hop)
  <2> HIDE DEF key
  <2>1. ASSUME NEW c \in Of(children, key) PROVE c \in {m + j : j \in {j \in 1..k : rows[j][1] = key}}
    <3>1. PICK d \in children : d.key = key /\ c = d.at
      BY DEF Of
    <3>2. PICK j \in 1..k : d = [key |-> rows[j][1], at |-> m + j]
      BY <1>9
    <3> QED BY <3>1, <3>2
  <2>2. ASSUME NEW j \in 1..k, rows[j][1] = key PROVE m + j \in Of(children, key)
    <3> DEFINE d == [key |-> rows[j][1], at |-> m + j]
    <3>1. d \in children /\ d.key = key /\ d.at = m + j
      BY <1>9, <2>2
    <3> HIDE DEF d, children
    <3> QED BY <3>1 DEF Of
  <2> QED BY <2>1, <2>2 DEF key
<1>11. /\ Len(heap') = m + k /\ heap' = [i \in 1..Len(heap') |-> heap'[i]]
       /\ \A i \in 1..m : heap'[i] =
            IF i \in P
            THEN Given(heap[i], hop.rel, {m + j : j \in {j \in 1..k : rows[j][1] = KeyOf(i, hop)}})
            ELSE heap[i]
       /\ \A j \in 1..k : heap'[m + j] = Row(rows[j][2])
  <2> DEFINE f == Attached(P, children, hop)
  <2>1. f = [i \in 1..m |-> f[i]] /\ made = [i \in 1..k |-> made[i]]
    BY <1>4, <1>9 DEF Attached
  <2>2. \A i \in 1..m : f[i] =
            IF i \in P
            THEN Given(heap[i], hop.rel, {m + j : j \in {j \in 1..k : rows[j][1] = KeyOf(i, hop)}})
            ELSE heap[i]
    BY <1>4, <1>10 DEF Attached
  <2>3. \A j \in 1..k : made[j] = Row(rows[j][2])
    BY <1>9
  <2>4. heap' = f \o made
    BY <1>1
  <2> HIDE DEF f, made, m, P, children
  <2>5. Len(heap') = m + k /\ heap' = [i \in 1..(m + k) |-> IF i <= m THEN f[i] ELSE made[i - m]]
    BY <1>4, <1>8, <2>1, <2>4, Joined
  <2>6. \A i \in 1..m : i \in 1..(m + k) /\ i <= m
    BY <1>4, <1>8
  <2>7. \A j \in 1..k : m + j \in 1..(m + k) /\ ~(m + j <= m) /\ (m + j) - m = j
    BY <1>4, <1>8
  <2>8. \A i \in 1..m : heap'[i] = f[i]
    BY <2>5, <2>6
  <2>9. \A j \in 1..k : heap'[m + j] = made[j]
    BY <2>5, <2>7
  <2> QED BY <2>2, <2>3, <2>5, <2>8, <2>9
<1>12. todo' \in Seq(Nat) /\ ToSet(todo') \subseteq ToSet(todo) /\ P \subseteq ToSet(todo)
       /\ ToSet(todo) \subseteq P \cup ToSet(todo')
  <2> HIDE DEF size
  <2> QED BY <1>1, <1>3, BatchAndRest DEF LoadInv, Asking
<1>13. next' \in Seq(Nat) /\ ToSet(next') = ToSet(next) \cup ((m + 1)..(m + k))
  <2>1. m + k \in Nat /\ m <= m + k
    BY <1>4, <1>8
  <2>2. Indices(m, m + k) \in Seq(Nat) /\ ToSet(Indices(m, m + k)) = (m + 1)..(m + k)
    BY <1>4, <2>1, Numbers
  <2>3. next' = next \o Indices(m, m + k)
    BY <1>1, <1>9
  <2>4. next \in Seq(Nat)
    BY DEF LoadInv, Asking
  <2> QED BY <2>2, <2>3, <2>4, JoinedSets
<1>14. Batch(hop, k, rows, P, keys)
  <2> HIDE DEF children, P, made
  <2> QED BY <1>1, <1>6, <1>8, <1>11, <1>12, <1>13 DEF Batch, E
<1> QED BY <1>14

(* A batch gives each of its parents one relation and changes no instance   *)
(* otherwise.                                                              *)
LEMMA InstancesStay ==
  ASSUME LoadInv, NEW hop, NEW k, NEW rows, NEW P, NEW keys, Batch(hop, k, rows, P, keys),
         NEW i \in 1..Len(heap)
  PROVE  /\ heap'[i].id = heap[i].id /\ heap'[i].fk = heap[i].fk /\ Instance(heap'[i])
         /\ \A h : KeyOf(i, h)' = KeyOf(i, h)
         /\ i \notin P => heap'[i] = heap[i]
         /\ i \in P =>
              /\ DOMAIN heap'[i].has = DOMAIN heap[i].has \cup {hop.rel}
              /\ heap'[i].has[hop.rel] = {Len(heap) + j : j \in {j \in 1..k : rows[j][1] = KeyOf(i, hop)}}
              /\ \A q \in DOMAIN heap[i].has \ {hop.rel} : heap'[i].has[q] = heap[i].has[q]
<1> DEFINE o == heap[i]
           found == {Len(heap) + j : j \in {j \in 1..k : rows[j][1] = KeyOf(i, hop)}}
<1>1. Instance(o)
  BY DEF LoadInv, Heap
<1>2. heap'[i] = IF i \in P THEN Given(o, hop.rel, found) ELSE o
  BY DEF Batch
<1> HIDE DEF found, o
<1> DEFINE g == Given(o, hop.rel, found)
<1>3. /\ g.id = o.id /\ g.fk = o.fk /\ g = [id |-> g.id, fk |-> g.fk, has |-> g.has]
      /\ g.has = [q \in DOMAIN o.has \cup {hop.rel} |-> IF q = hop.rel THEN found ELSE o.has[q]]
  BY <1>1 DEF Given, Instance
<1> HIDE DEF g
<1>4. /\ DOMAIN g.has = DOMAIN o.has \cup {hop.rel} /\ g.has[hop.rel] = found
      /\ \A q \in DOMAIN o.has \ {hop.rel} : g.has[q] = o.has[q]
  BY <1>3
<1>5. heap'[i] = IF i \in P THEN g ELSE o
  BY <1>2 DEF g
<1>6. heap'[i].id = heap[i].id /\ heap'[i].fk = heap[i].fk /\ Instance(heap'[i])
  <2>1. Instance(g)
    BY <1>1, <1>3 DEF Instance
  <2> QED BY <1>1, <1>3, <1>5, <2>1 DEF o
<1>7. \A h : KeyOf(i, h)' = KeyOf(i, h)
  BY <1>6 DEF KeyOf
<1> QED BY <1>4, <1>5, <1>6, <1>7 DEF o, found

(* Who has been answered stays so, unless it is asked the same again.        *)
LEMMA StaysAnswered ==
  ASSUME LoadInv, NEW hop, NEW k, NEW rows, NEW P, NEW keys, Batch(hop, k, rows, P, keys),
         NEW i \in 1..Len(heap), NEW h, Answered(i, h), i \in P => h.rel # hop.rel,
         \A c \in heap[i].has[h.rel] : c \in 1..Len(heap)
  PROVE  Answered(i, h)'
<1> DEFINE found == heap[i].has[h.rel]
<1>1. h.rel \in DOMAIN heap'[i].has /\ heap'[i].has[h.rel] = found
  <2>1. h.rel \in DOMAIN heap[i].has
    BY DEF Answered
  <2> QED BY <2>1, InstancesStay
<1>2. \A c \in found : heap'[c].id = heap[c].id /\ heap'[c].fk = heap[c].fk
  BY InstancesStay
<1>3. KeyOf(i, h)' = KeyOf(i, h)
  BY InstancesStay
<1>4. fk' = fk /\ bridge' = bridge /\ writes' = writes
  BY DEF Batch
<1>5. /\ \A c \in found : NamesItsParent(c, i, h)
      /\ \A c, d \in found : heap[c].id = heap[d].id => c = d
      /\ writes = 0 => {heap[c].id : c \in found} = ChildrenOf(i, h)
  BY DEF Answered
<1> HIDE DEF found
<1>6. \A c \in found : NamesItsParent(c, i, h)'
  BY <1>2, <1>3, <1>5 DEF NamesItsParent
<1>7. \A c, d \in found : heap'[c].id = heap'[d].id => c = d
  BY <1>2, <1>5
<1>8. ChildrenOf(i, h)' = ChildrenOf(i, h)
  BY <1>3, <1>4 DEF ChildrenOf
<1>9. {heap'[c].id : c \in found} = {heap[c].id : c \in found}
  BY <1>2
<1>10. writes' = 0 => {heap'[c].id : c \in found} = ChildrenOf(i, h)'
  BY <1>4, <1>5, <1>8, <1>9
<1> QED BY <1>1, <1>6, <1>7, <1>10 DEF Answered

(* And who is in the batch is answered by it.                                *)
LEMMA BatchAnswers ==
  ASSUME LoadInv, Loading, NEW hop, NEW k, NEW rows, NEW P, NEW keys, Batch(hop, k, rows, P, keys),
         NEW i \in 1..Len(heap), i \in P
  PROVE  Answered(i, hop)'
<1> DEFINE key == KeyOf(i, hop)
           E == emit_select(keys, hop)
           m == Len(heap)
           found == {m + j : j \in {j \in 1..k : rows[j][1] = key}}
<1>1. hop = Chains[at.chain][at.level] /\ at.chain \in DOMAIN Chains /\ at.level \in DOMAIN Chains[at.chain]
  BY HopIs DEF LoadInv, Batch
<1>2. /\ hop.kind \in {"to_many", "to_one", "to_many_through"} /\ None \notin hop.rows
      /\ hop.kind = "to_many" => hop.rel \in DOMAIN fk
      /\ hop.kind = "to_many_through" =>
           \A p \in bridge[hop.rel] : p = <<p[1], p[2]>> /\ p[2] \in hop.filter
  BY <1>1, RowsAssumption DEF LoadInv, Stored
<1>3. /\ k \in Nat /\ m \in Nat /\ rows \in [1..k -> E] /\ \A j, q \in 1..k : rows[j] = rows[q] => j = q
      /\ \A e \in E : \E j \in 1..k : rows[j] = e
      /\ \A j \in 1..k : heap'[m + j] = Row(rows[j][2])
      /\ fk' = fk /\ bridge' = bridge
  BY DEF LoadInv, Heap, Batch
<1>4. key # None => key \in keys
  BY DEF Batch
<1>5. hop.kind # "to_one" => key # None
  BY DEF KeyOf, LoadInv, Heap, Instance
<1>6. hop.rel \in DOMAIN heap'[i].has /\ heap'[i].has[hop.rel] = found
  BY InstancesStay
<1>7. KeyOf(i, hop)' = key
  BY InstancesStay
<1>8. \A e \in E : e = <<e[1], e[2]>>
  <2>1. CASE hop.kind = "to_many"
    BY <2>1 DEF emit_select
  <2>2. CASE hop.kind = "to_one"
    BY <2>2 DEF emit_select
  <2>3. CASE hop.kind = "to_many_through"
    BY <1>2, <2>3 DEF emit_select
  <2> QED BY <1>2, <2>1, <2>2, <2>3
<1> HIDE DEF key
<1>9. ASSUME NEW j \in 1..k, rows[j][1] = key
      PROVE  /\ heap'[m + j].id = rows[j][2] /\ heap'[m + j].fk = Row(rows[j][2]).fk
             /\ rows[j] \in E /\ rows[j] = <<key, rows[j][2]>>
  <2>1. heap'[m + j] = Row(rows[j][2]) /\ rows[j] \in E /\ rows[j] = <<key, rows[j][2]>>
    BY <1>3, <1>8, <1>9
  <2> QED BY <2>1 DEF Row
<1> HIDE DEF m
<1>10. ASSUME NEW c \in found PROVE NamesItsParent(c, i, hop)'
  <2>1. PICK j \in 1..k : c = m + j /\ rows[j][1] = key
    OBVIOUS
  <2>2. PICK x : x = rows[j][2]
    OBVIOUS
  <2>3. heap'[c].id = x /\ heap'[c].fk = Row(x).fk /\ <<key, x>> \in E
    BY <1>9, <2>1, <2>2
  <2>4. heap'[c].fk = [r \in {q \in DOMAIN fk : x \in DOMAIN fk[q]} |-> fk[r][x]]
    BY <2>3 DEF Row
  <2>5. CASE hop.kind = "to_many"
    <3>1. x \in DOMAIN fk[hop.rel] /\ fk[hop.rel][x] = key
      BY <2>3, <2>5 DEF emit_select
    <3>2. heap'[c].fk[hop.rel] = key
      BY <1>2, <2>4, <2>5, <3>1
    <3> QED BY <1>7, <2>5, <3>2 DEF NamesItsParent
  <2>6. CASE hop.kind = "to_one"
    <3>1. x = key
      BY <2>3, <2>6 DEF emit_select
    <3> QED BY <1>7, <2>3, <2>6, <3>1 DEF NamesItsParent
  <2>7. CASE hop.kind = "to_many_through"
    BY <2>7 DEF NamesItsParent
  <2> QED BY <1>2, <2>5, <2>6, <2>7
<1> HIDE DEF E
<1>11. ASSUME NEW c \in found, NEW d \in found, heap'[c].id = heap'[d].id PROVE c = d
  <2>1. PICK j \in 1..k : c = m + j /\ rows[j][1] = key
    OBVIOUS
  <2>2. PICK q \in 1..k : d = m + q /\ rows[q][1] = key
    OBVIOUS
  <2>3. rows[j][2] = rows[q][2]
    BY <1>9, <1>11, <2>1, <2>2
  <2>4. rows[j] = rows[q]
    BY <1>9, <2>1, <2>2, <2>3
  <2> QED BY <1>3, <2>1, <2>2, <2>4
<1>12. {heap'[c].id : c \in found} = {e[2] : e \in {e \in E : e[1] = key}}
  <2>1. ASSUME NEW c \in found PROVE heap'[c].id \in {e[2] : e \in {e \in E : e[1] = key}}
    <3>1. PICK j \in 1..k : c = m + j /\ rows[j][1] = key
      OBVIOUS
    <3> QED BY <1>9, <3>1
  <2>2. ASSUME NEW e \in E, e[1] = key PROVE \E c \in found : heap'[c].id = e[2]
    <3>1. PICK j \in 1..k : rows[j] = e
      BY <1>3
    <3>2. m + j \in found /\ heap'[m + j].id = e[2]
      BY <1>9, <2>2, <3>1
    <3> QED BY <3>2
  <2> HIDE DEF found
  <2> QED BY <2>1, <2>2
<1>13. {e[2] : e \in {e \in E : e[1] = key}} = ChildrenOf(i, hop)'
  <2> DEFINE A == {e[2] : e \in {e \in E : e[1] = key}}
  <2>0. \A x : x \in A <=> <<key, x>> \in E
    <3>1. ASSUME NEW x, <<key, x>> \in E PROVE x \in A
      <4>1. <<key, x>>[1] = key /\ <<key, x>>[2] = x
        OBVIOUS
      <4> QED BY <3>1, <4>1
    <3>2. ASSUME NEW x \in A PROVE <<key, x>> \in E
      <4>1. PICK e \in E : e[1] = key /\ x = e[2]
        OBVIOUS
      <4> QED BY <1>8, <4>1
    <3> QED BY <3>1, <3>2
  <2> HIDE DEF A
  <2> SUFFICES \A x : <<key, x>> \in E <=> x \in ChildrenOf(i, hop)'
    BY <2>0 DEF A
  <2> TAKE x
  <2>1. CASE hop.kind = "to_many"
    <3>1. ChildrenOf(i, hop)' = {c \in hop.filter \cap DOMAIN fk[hop.rel] : fk[hop.rel][c] = key}
      BY <1>3, <1>7, <2>1 DEF ChildrenOf
    <3>2. E = {<<fk[hop.rel][c], c>> : c \in {c \in DOMAIN fk[hop.rel] :
                 fk[hop.rel][c] \in keys /\ c \in hop.filter}}
      BY <2>1 DEF emit_select, E
    <3>3. key \in keys
      BY <1>4, <1>5, <2>1
    <3> QED BY <3>1, <3>2, <3>3
  <2>2. CASE hop.kind = "to_one"
    <3>1. ChildrenOf(i, hop)' = {key} \cap hop.filter \cap hop.rows
      BY <1>7, <2>2 DEF ChildrenOf
    <3>2. E = {<<c, c>> : c \in keys \cap hop.filter \cap hop.rows}
      BY <2>2 DEF emit_select, E
    <3> QED BY <1>2, <1>4, <3>1, <3>2
  <2>3. CASE hop.kind = "to_many_through"
    <3>1. ChildrenOf(i, hop)' = {c \in hop.filter : <<key, c>> \in bridge[hop.rel]}
      BY <1>3, <1>7, <2>3 DEF ChildrenOf
    <3>2. E = {p \in bridge[hop.rel] : p[1] \in keys}
      BY <2>3 DEF emit_select, E
    <3>3. key \in keys
      BY <1>4, <1>5, <2>3
    <3>4. \A p \in bridge[hop.rel] : p[2] \in hop.filter
      BY <1>2, <2>3
    <3>5. <<key, x>>[1] = key /\ <<key, x>>[2] = x
      OBVIOUS
    <3> QED BY <3>1, <3>2, <3>3, <3>4, <3>5
  <2> QED BY <1>2, <2>1, <2>2, <2>3
<1> HIDE DEF found
<1> QED BY <1>6, <1>10, <1>11, <1>12, <1>13 DEF Answered

(***************************************************************************)
(* What is reached along a chain: the function that defines it exists.      *)
(***************************************************************************)
LEMMA ReachedByLevel ==
  ASSUME NEW chain, Len(chain) \in Nat
  PROVE  /\ Reached(chain)[0] = ToSet(RootsRead)
         /\ \A l \in 1..Len(chain) :
              Reached(chain)[l] = UNION {Has(i, chain[l].rel) : i \in Reached(chain)[l - 1]}
<1> DEFINE N == Len(chain)
           R == ToSet(RootsRead)
           Step(S, l) == UNION {Has(i, chain[l].rel) : i \in S}
           Upto(r, m) == r = [l \in 0..m |-> IF l = 0 THEN R ELSE Step(r[l - 1], l)]
           B == {m \in 0..N : \E r : Upto(r, m)}
<1>1. Reached(chain) = CHOOSE r : Upto(r, N)
  BY Zenon DEF Reached
<1> HIDE DEF R, Step
<1>2. 0 \in B
  <2>1. \A l \in 0..0 : l = 0
    OBVIOUS
  <2> DEFINE r == [l \in 0..0 |-> R]
  <2>2. r = [l \in 0..0 |-> IF l = 0 THEN R ELSE Step(r[l - 1], l)]
    BY <2>1
  <2> HIDE DEF r
  <2>3. \E x : x = [l \in 0..0 |-> IF l = 0 THEN R ELSE Step(x[l - 1], l)]
    BY <2>2
  <2> QED BY <2>3
<1>3. ASSUME NEW m \in 1..N, m - 1 \in B PROVE m \in B
  <2>1. PICK r : Upto(r, m - 1)
    BY <1>3
  <2> DEFINE q == [l \in 0..m |-> IF l = m THEN Step(r[m - 1], m) ELSE r[l]]
  <2>2. \A l \in 0..(m - 1) : q[l] = r[l] /\ l # m
    BY <1>3
  <2>3. \A l \in 0..m : q[l] = IF l = 0 THEN R ELSE Step(q[l - 1], l)
    <3> TAKE l \in 0..m
    <3>1. CASE l = m
      <4>1. m - 1 \in 0..(m - 1) /\ m # 0
        OBVIOUS
      <4> QED BY <2>2, <3>1, <4>1
    <3>2. CASE l # m
      <4>1. l \in 0..(m - 1) /\ (l # 0 => l - 1 \in 0..(m - 1))
        BY <3>2
      <4>2. q[l] = r[l] /\ (l # 0 => q[l - 1] = r[l - 1])
        BY <2>2, <4>1
      <4>3. r[l] = IF l = 0 THEN R ELSE Step(r[l - 1], l)
        BY <2>1, <4>1
      <4> QED BY <4>2, <4>3
    <3> QED BY <3>1, <3>2
  <2>4. Upto(q, m)
    <3>1. q = [l \in 0..m |-> q[l]]
      OBVIOUS
    <3> HIDE DEF q
    <3> QED BY <2>3, <3>1
  <2> HIDE DEF q, Upto
  <2>5. \E x : Upto(x, m)
    BY <2>4
  <2> QED BY <2>5
<1>4. N \in B
  <2> HIDE DEF B
  <2>1. N \in 0..N
    OBVIOUS
  <2> QED BY <1>2, <1>3, <2>1, Climb
<1>5. Upto(Reached(chain), N)
  <2> HIDE DEF Upto
  <2>1. \E r : Upto(r, N)
    BY <1>4
  <2> QED BY <1>1, <2>1
<1>6. /\ Reached(chain)[0] = R
      /\ \A l \in 1..N : Reached(chain)[l] = Step(Reached(chain)[l - 1], l)
  <2> DEFINE r == Reached(chain)
  <2> HIDE DEF r
  <2>1. Upto(r, N)
    BY <1>5 DEF r
  <2> QED BY <2>1 DEF r
<1> QED BY <1>6 DEF R, Step

(***************************************************************************)
(* Where instances are.                                                     *)
(***************************************************************************)
LEMMA ChainsAre ==
  /\ DOMAIN Chains = 1..Len(Chains) /\ Len(Chains) \in Nat
  /\ \A n \in DOMAIN Chains : DOMAIN Chains[n] = 1..Len(Chains[n]) /\ Len(Chains[n]) \in Nat \ {0}
<1>1. DOMAIN Chains = 1..Len(Chains) /\ Len(Chains) \in Nat
  BY ChainsAssumption
<1>2. ASSUME NEW n \in DOMAIN Chains
      PROVE DOMAIN Chains[n] = 1..Len(Chains[n]) /\ Len(Chains[n]) \in Nat \ {0}
  <2> DEFINE S == Range(Chains[n])
  <2>1. Chains[n] \in Seq(S) /\ Chains[n] # <<>>
    BY ChainsAssumption
  <2> HIDE DEF S
  <2> QED BY <2>1
<1> QED BY <1>1, <1>2

LEMMA AboveIs ==
  ASSUME NEW n \in DOMAIN Chains, NEW l \in DOMAIN Chains[n], NEW m \in DOMAIN Chains, NEW k \in DOMAIN Chains[m]
  PROVE  /\ n \in Nat \ {0} /\ l \in Nat \ {0} /\ m \in Nat \ {0} /\ k \in Nat \ {0}
         /\ Above(n, l) = Above(m, k) => l = k /\ (l # 1 => n = m)
         /\ Above(n, l) = <<m, k>> => n = m /\ l = k + 1
         /\ <<n, l>> # NoPlace
<1>1. n \in Nat \ {0} /\ l \in Nat \ {0} /\ m \in Nat \ {0} /\ k \in Nat \ {0}
  BY ChainsAre
<1>2. l - 1 = k - 1 => l = k
  BY <1>1
<1>3. l - 1 = k => l = k + 1
  BY <1>1
<1>4. \A a, b, c, d : <<a, b>> = <<c, d>> => a = c /\ b = d
  OBVIOUS
<1>5. <<n, l>> # NoPlace /\ <<m, k>> # NoPlace /\ <<n, l - 1>> # NoPlace /\ <<m, k - 1>> # NoPlace
  BY <1>1, <1>4 DEF NoPlace
<1> QED BY <1>1, <1>2, <1>3, <1>4, <1>5 DEF Above

(* A relation is loaded into a root by one chain, into another instance by   *)
(* one level.                                                              *)
LEMMA OneLevelLoads ==
  ASSUME AskedOnce,
         NEW n \in DOMAIN Chains, NEW l \in DOMAIN Chains[n], NEW m \in DOMAIN Chains, NEW k \in DOMAIN Chains[m],
         Above(n, l) = Above(m, k), Chains[n][l].rel = Chains[m][k].rel
  PROVE  n = m /\ l = k
BY AboveIs DEF AskedOnce

LEMMA BatchKeepsItsPlaces ==
  ASSUME AskedOnce, LoadInv, LoadBatch, InAChain' PROVE LoadInv'
<1>1. PICK p : Sited(p)
  BY DEF LoadInv
<1>2. PICK hop, k, rows, P, keys : Batch(hop, k, rows, P, keys)
  BY BatchIs
<1>3. PICK m, a, b : m = Len(heap) /\ a = at.chain /\ b = at.level
  OBVIOUS
<1>4. PICK q : q = [i \in 1..(m + k) |-> IF i <= m THEN p[i] ELSE <<a, b>>]
  OBVIOUS
<1>5. /\ Loading /\ a \in DOMAIN Chains /\ b \in DOMAIN Chains[a] /\ hop = Chains[a][b] /\ Hop = hop
      /\ at' = at /\ Here = <<a, b>> /\ Here' = <<a, b>>
  BY <1>2, <1>3, HopIs DEF LoadInv, LoadBatch, Batch, Here
<1>6. /\ m \in Nat /\ k \in Nat /\ Len(heap') = m + k /\ heap' = [i \in 1..(m + k) |-> heap'[i]]
      /\ fk' = fk /\ bridge' = bridge /\ writes' = writes
      /\ \A j \in 1..k : heap'[m + j] = Row(rows[j][2])
  BY <1>2, <1>3 DEF LoadInv, Heap, Batch
<1>7. a \in Nat \ {0} /\ b \in Nat \ {0} /\ Cardinality(Roots) \in Nat /\ Cardinality(Roots) <= m
  <2>1. a \in Nat \ {0} /\ b \in Nat \ {0}
    BY <1>5, AboveIs
  <2>2. Cardinality(Roots) \in Nat
    BY RowsAssumption, FS_CardinalityType
  <2> QED BY <1>3, <2>1, <2>2 DEF LoadInv, Heap
<1>8. /\ \A i \in 1..m : q[i] = p[i] /\ i \in 1..(m + k)
      /\ \A i \in 1..(m + k) : i \notin 1..m => q[i] = <<a, b>> /\ ~ARoot(i) /\ i - m \in 1..k /\ m + (i - m) = i
  BY <1>4, <1>6, <1>7 DEF ARoot
<1>9. /\ \A i \in 1..m : i \in P => p[i] = Above(a, b)
      /\ P \subseteq ToSet(todo)
  BY <1>1, <1>2, <1>3, <1>5 DEF Sited, Queues, Batch
<1>10. Heap'
  <2>1. \A i \in 1..m : Instance(heap'[i])
    BY <1>2, <1>3, InstancesStay
  <2>2. ASSUME NEW i \in 1..(m + k), i \notin 1..m PROVE Instance(heap'[i])
    <3>1. PICK j \in 1..k : heap'[i] = Row(rows[j][2])
      BY <1>6, <1>8, <2>2
    <3>2. rows[j][2] # None
      <4>1. rows[j] \in emit_select(keys, hop)
        BY <1>2 DEF Batch
      <4> QED BY <1>5, <4>1, AnswersHaveKeys DEF LoadInv
    <3> QED BY <3>1, <3>2 DEF Row, Instance
  <2>3. at'.chain # 0 /\ Cardinality(Roots) <= m + k /\ m + k \in Nat
    BY <1>3, <1>5, <1>6, <1>7
  <2>4. \A i \in 1..(m + k) : Instance(heap'[i])
    BY <2>1, <2>2
  <2> QED BY <1>6, <2>3, <2>4 DEF Heap
<1>11. Asking'
  <2>1. at'.chain # 0
    BY <1>3, <1>5, <1>7
  <2> QED BY <1>2, <2>1 DEF LoadInv, Asking, Batch
<1>12. Stored'
  BY <1>6 DEF LoadInv, Stored
<1>13. q \in [1..Len(heap') -> Nat \X Nat]
  <2>1. p \in [1..m -> Nat \X Nat]
    BY <1>1, <1>3 DEF Sited
  <2> QED BY <1>4, <1>6, <1>7, <1>8, <2>1
<1>14. Places(q)'
  <2>1. ASSUME NEW i \in 1..(m + k)
        PROVE IF ARoot(i) THEN q[i] = NoPlace
              ELSE \E n \in DOMAIN Chains : \E l \in DOMAIN Chains[n] :
                     q[i] = <<n, l>> /\ (Done(n, l)' \/ q[i] = Here')
    <3>1. CASE i \in 1..m
      <4>1. IF ARoot(i) THEN p[i] = NoPlace
            ELSE \E n \in DOMAIN Chains : \E l \in DOMAIN Chains[n] :
                   p[i] = <<n, l>> /\ (Done(n, l) \/ p[i] = Here)
        BY <1>1, <1>3, <3>1 DEF Sited, Places
      <4>2. \A n, l : Done(n, l)' = Done(n, l)
        BY <1>5 DEF Done
      <4> QED BY <1>5, <1>8, <3>1, <4>1, <4>2
    <3>2. CASE i \notin 1..m
      BY <1>5, <1>8, <3>2
    <3> QED BY <3>1, <3>2
  <2>2. ASSUME NEW i \in 1..(m + k), NEW rel \in DOMAIN heap'[i].has, NEW c \in heap'[i].has[rel]
        PROVE c \in 1..(m + k) /\ LoadedAt(q, i, c, rel)
    <3>1. CASE i \in 1..m /\ ~(i \in P /\ rel = hop.rel)
      <4>1. rel \in DOMAIN heap[i].has /\ c \in heap[i].has[rel]
        BY <1>2, <1>3, <2>2, <3>1, InstancesStay
      <4>2. c \in 1..m /\ LoadedAt(p, i, c, rel)
        BY <1>1, <1>3, <3>1, <4>1 DEF Sited, Places
      <4> QED BY <1>8, <3>1, <4>2 DEF LoadedAt
    <3>2. CASE i \in 1..m /\ i \in P /\ rel = hop.rel
      <4>1. PICK j \in 1..k : c = m + j
        BY <1>2, <1>3, <2>2, <3>2, InstancesStay
      <4>2. c \in 1..(m + k) /\ c \notin 1..m
        BY <1>6, <4>1
      <4>3. q[c] = <<a, b>> /\ q[i] = Above(a, b)
        BY <1>8, <1>9, <3>2, <4>2
      <4> QED BY <1>5, <3>2, <4>2, <4>3 DEF LoadedAt
    <3>3. CASE i \notin 1..m
      <4>1. \E x : heap'[i] = Row(x)
        BY <1>6, <1>8, <3>3
      <4>2. DOMAIN heap'[i].has = {}
        BY <4>1 DEF Row
      <4> QED BY <4>2
    <3> QED BY <3>1, <3>2, <3>3
  <2> QED BY <1>6, <2>1, <2>2 DEF Places
<1>15. \A i \in 1..m : \A h : Answered(i, h) => \A c \in heap[i].has[h.rel] : c \in 1..m
  BY <1>1, <1>3 DEF Answered, Sited, Places
<1>16. Answers(q)'
  <2>1. ASSUME NEW n \in DOMAIN Chains, NEW l \in DOMAIN Chains[n], Done(n, l),
               NEW i \in 1..(m + k), q[i] = Above(n, l)
        PROVE Answered(i, Chains[n][l])'
    <3>1. n < a \/ (n = a /\ l < b)
      BY <1>3, <2>1 DEF Done
    <3>2. i \in 1..m
      <4>1. ASSUME i \notin 1..m PROVE FALSE
        <5>1. n = a /\ l = b + 1
          BY <1>5, <1>8, <2>1, <4>1, AboveIs
        <5> QED BY <1>7, <3>1, <5>1
      <4> QED BY <4>1
    <3>3. Answered(i, Chains[n][l])
      BY <1>1, <1>3, <1>8, <2>1, <3>2 DEF Sited, Answers
    <3>4. i \in P => Chains[n][l].rel # hop.rel
      <4>1. ASSUME i \in P, Chains[n][l].rel = hop.rel PROVE FALSE
        <5>1. Above(n, l) = Above(a, b)
          BY <1>8, <1>9, <2>1, <3>2, <4>1
        <5>2. n = a /\ l = b
          BY <1>5, <4>1, <5>1, OneLevelLoads
        <5> QED BY <1>7, <3>1, <5>2
      <4> QED BY <4>1
    <3>5. \A c \in heap[i].has[Chains[n][l].rel] : c \in 1..m
      BY <1>15, <3>2, <3>3
    <3> PICK h : h = Chains[n][l]
      OBVIOUS
    <3>6. Answered(i, h)'
      BY <1>2, <1>3, <3>2, <3>3, <3>4, <3>5, StaysAnswered
    <3> QED BY <3>6
  <2>2. ASSUME NEW i \in 1..(m + k), q[i] = Above(a, b)
        PROVE i \in ToSet(todo') \/ Answered(i, hop)'
    <3>1. i \in 1..m
      <4>1. ASSUME i \notin 1..m PROVE FALSE
        <5>1. b = b + 1
          BY <1>5, <1>8, <2>2, <4>1, AboveIs
        <5> QED BY <1>7, <5>1
      <4> QED BY <4>1
    <3>2. i \in ToSet(todo) \/ Answered(i, hop)
      BY <1>1, <1>3, <1>5, <1>8, <2>2, <3>1 DEF Sited, Answers
    <3>3. CASE i \in P
      BY <1>2, <1>3, <1>5, <3>1, <3>3, BatchAnswers
    <3>4. CASE i \notin P /\ i \in ToSet(todo)
      BY <1>2, <3>4 DEF Batch
    <3>5. CASE i \notin P /\ Answered(i, hop)
      BY <1>2, <1>3, <1>15, <3>1, <3>5, StaysAnswered
    <3> QED BY <3>2, <3>3, <3>4, <3>5
  <2>3. \A n, l : Done(n, l)' = Done(n, l)
    BY <1>5 DEF Done
  <2>4. Hop' = hop /\ Above(at.chain, at.level)' = Above(a, b)
    BY <1>3, <1>5 DEF Hop, Chain
  <2> QED BY <1>6, <2>1, <2>2, <2>3, <2>4 DEF Answers
<1>17. Queues(q)'
  <2>1. /\ ToSet(todo) \subseteq {i \in 1..m : p[i] = Above(a, b)}
        /\ ToSet(next) = {i \in 1..m : p[i] = <<a, b>>}
    BY <1>1, <1>3, <1>5 DEF Sited, Queues
  <2>2. ToSet(todo') \subseteq ToSet(todo) /\ ToSet(next') = ToSet(next) \cup ((m + 1)..(m + k))
    BY <1>2, <1>3 DEF Batch
  <2>3. ToSet(todo') \subseteq {i \in 1..(m + k) : q[i] = Above(a, b)}
    BY <1>8, <2>1, <2>2
  <2>4. ToSet(next') = {i \in 1..(m + k) : q[i] = <<a, b>>}
    <3>1. ASSUME NEW i \in 1..(m + k), q[i] = <<a, b>> PROVE i \in ToSet(next')
      <4>1. CASE i \in 1..m
        BY <1>8, <2>1, <2>2, <3>1, <4>1
      <4>2. CASE i \notin 1..m
        BY <1>6, <2>2, <4>2
      <4> QED BY <4>1, <4>2
    <3>2. ASSUME NEW i \in ToSet(next') PROVE i \in 1..(m + k) /\ q[i] = <<a, b>>
      <4>1. CASE i \in ToSet(next)
        BY <1>8, <2>1, <4>1
      <4>2. CASE i \in (m + 1)..(m + k)
        <5>1. i \in 1..(m + k) /\ i \notin 1..m
          BY <1>6, <4>2
        <5> QED BY <1>8, <5>1
      <4> QED BY <2>2, <3>2, <4>1, <4>2
    <3> QED BY <3>1, <3>2
  <2>5. Above(at.chain, at.level)' = Above(a, b)
    BY <1>3, <1>5
  <2> QED BY <1>5, <1>6, <2>3, <2>4, <2>5 DEF Queues
<1>18. Sited(q)'
  BY <1>13, <1>14, <1>16, <1>17 DEF Sited
<1> QED BY <1>10, <1>11, <1>12, <1>18 DEF LoadInv

(***************************************************************************)
(* The other steps.                                                         *)
(***************************************************************************)
LEMMA ToSetOfNone == ToSet(<<>>) = {}
BY DEF ToSet

LEMMA RootsAre ==
  /\ Cardinality(Roots) \in Nat
  /\ RootsRead \in Seq(Nat) /\ ToSet(RootsRead) = 1..Cardinality(Roots)
<1>1. Cardinality(Roots) \in Nat
  BY RowsAssumption, FS_CardinalityType
<1> PICK n : n = Cardinality(Roots)
  OBVIOUS
<1>2. 0 <= n /\ 0 + 1 = 1 /\ n \in Nat
  BY <1>1
<1>3. Indices(0, n) \in Seq(Nat) /\ ToSet(Indices(0, n)) = (0 + 1)..n
  BY <1>2, Numbers
<1> QED BY <1>1, <1>2, <1>3 DEF RootsRead

LEMMA InitPlaces ==
  ASSUME BridgesAreWhole, Init PROVE LoadInv
<1>1. InAChain
  BY InitInv DEF Inv
<1>2. heap = <<>> /\ todo = <<>> /\ next = <<>> /\ at.chain = 0 /\ writes = 0 /\ Len(heap) = 0
  BY DEF Init
<1>3. ~Loading /\ \A n \in DOMAIN Chains : \A l : ~Done(n, l)
  BY <1>2, ChainsAre DEF Loading, Done
<1>4. Heap /\ Asking
  <2>1. 1..0 = {}
    OBVIOUS
  <2>2. heap = [i \in 1..Len(heap) |-> heap[i]]
    BY <1>2
  <2> QED BY <1>2, <2>1, <2>2 DEF Heap, Asking
<1>5. Stored
  <2>1. PICK d \in Databases : fk = d.fk /\ bridge = d.bridge
    BY DEF Init
  <2>2. ASSUME NEW n \in DOMAIN Chains, NEW l \in DOMAIN Chains[n], NEW hop, hop = Chains[n][l]
        PROVE  /\ hop.kind = "to_many" =>
                    /\ hop.rel \in DOMAIN d.fk
                    /\ IsFiniteSet(DOMAIN d.fk[hop.rel]) /\ None \notin DOMAIN d.fk[hop.rel]
               /\ hop.kind = "to_many_through" =>
                    /\ hop.rel \in DOMAIN d.bridge /\ IsFiniteSet(d.bridge[hop.rel])
                    /\ \A p \in d.bridge[hop.rel] : p = <<p[1], p[2]>> /\ p[2] # None /\ p[2] \in hop.filter
    BY <2>2, RowsAssumption DEF BridgesAreWhole
  <2> QED BY <2>1, <2>2 DEF Stored
<1>6. PICK p : p = [i \in 1..Len(heap) |-> NoPlace]
  OBVIOUS
<1>7. Sited(p)
  <2>1. 1..Len(heap) = {}
    BY <1>2
  <2> QED BY <1>3, <1>6, <2>1 DEF Sited, Places, Answers, Queues
<1> QED BY <1>1, <1>4, <1>5, <1>7 DEF LoadInv

LEMMA RowIs ==
  ASSUME NEW x
  PROVE  /\ Row(x).id = x /\ DOMAIN Row(x).has = {}
         /\ Row(x) = [id |-> Row(x).id, fk |-> Row(x).fk, has |-> Row(x).has]
BY DEF Row

LEMMA RootsHaveNoPlace ==
  ASSUME LoadInv, LoadRoots, InAChain' PROVE LoadInv'
<1> PICK N : N = Cardinality(Roots)
  OBVIOUS
<1>1. /\ heap' = [i \in 1..N |-> Row(SetToSeq(Roots)[i])] /\ todo' = RootsRead /\ next' = <<>>
      /\ at'.chain = 1 /\ at'.level = 1 /\ fk' = fk /\ bridge' = bridge /\ writes' = writes
  BY DEF LoadRoots, database, LoadInv, Asking
<1>2. N \in Nat /\ RootsRead \in Seq(Nat) /\ ToSet(RootsRead) = 1..N
  BY RootsAre
<1>3. Len(heap') = N /\ heap' = [i \in 1..N |-> heap'[i]]
  BY <1>1, <1>2
<1>4. \A i \in 1..N : heap'[i] = Row(SetToSeq(Roots)[i]) /\ SetToSeq(Roots)[i] # None
  BY <1>1, InOneSequence, RowsAssumption
<1>5. Heap'
  <2>1. \A i \in 1..N : Instance(heap'[i])
    BY <1>4, RowIs DEF Instance
  <2> QED BY <1>1, <1>2, <1>3, <2>1 DEF Heap
<1>6. Asking' /\ Stored'
  BY <1>1, <1>2 DEF LoadInv, Asking, Stored
<1>7. PICK p : p = [i \in 1..N |-> NoPlace]
  OBVIOUS
<1>8. \A i \in 1..N : p[i] = NoPlace /\ ARoot(i) /\ DOMAIN heap'[i].has = {}
  BY <1>2, <1>4, <1>7, RowIs DEF ARoot
<1>9. \A n \in DOMAIN Chains : \A l \in DOMAIN Chains[n] : ~Done(n, l)'
  BY <1>1, ChainsAre DEF Done
<1>10. NoPlace \in Nat \X Nat /\ NoPlace # <<1, 1>>
  BY DEF NoPlace
<1>11. Above(1, 1) = NoPlace
  BY DEF Above
<1>12. p \in [1..Len(heap') -> Nat \X Nat]
  BY <1>3, <1>7, <1>10
<1>13. Places(p)'
  BY <1>3, <1>8 DEF Places
<1>14. Answers(p)'
  BY <1>1, <1>2, <1>3, <1>9 DEF Answers
<1>15. Queues(p)'
  <2>1. ToSet(next') = {}
    BY <1>1, ToSetOfNone
  <2>2. {i \in 1..Len(heap') : p[i] = <<1, 1>>} = {}
    BY <1>3, <1>8, <1>10
  <2>3. Here' = <<1, 1>> /\ Above(at.chain, at.level)' = NoPlace
    BY <1>1, <1>11 DEF Here
  <2>4. ToSet(todo') \subseteq {i \in 1..Len(heap') : p[i] = NoPlace}
    BY <1>1, <1>2, <1>3, <1>8
  <2> QED BY <2>1, <2>2, <2>3, <2>4 DEF Queues
<1> QED BY <1>5, <1>6, <1>12, <1>13, <1>14, <1>15 DEF LoadInv, Sited

(* Steps that change neither the instances nor the database.                *)
LEMMA AnsweredStays ==
  ASSUME UNCHANGED <<heap, fk, bridge, writes>>, NEW i, NEW h, Answered(i, h)
  PROVE  Answered(i, h)'
<1>1. KeyOf(i, h)' = KeyOf(i, h)
  BY DEF KeyOf
<1>2. ASSUME NEW c PROVE NamesItsParent(c, i, h)' <=> NamesItsParent(c, i, h)
  BY <1>1 DEF NamesItsParent
<1>3. ChildrenOf(i, h)' = ChildrenOf(i, h)
  BY <1>1 DEF ChildrenOf
<1> QED BY <1>2, <1>3 DEF Answered

LEMMA LevelKeepsPlaces ==
  ASSUME LoadInv, NextLevel, InAChain' PROVE LoadInv'
<1>1. PICK p : Sited(p)
  BY DEF LoadInv
<1>2. PICK a, b : a = at.chain /\ b = at.level
  OBVIOUS
<1>3. /\ Loading /\ todo = <<>> /\ todo' = next /\ next' = <<>> /\ heap' = heap
      /\ fk' = fk /\ bridge' = bridge /\ writes' = writes /\ at'.chain = a /\ at'.level = b + 1
  BY <1>2 DEF NextLevel, database, LoadInv, InAChain
<1>4. /\ a \in DOMAIN Chains /\ b \in DOMAIN Chains[a] /\ Hop = Chains[a][b]
      /\ Here = <<a, b>> /\ Here' = <<a, b + 1>>
  BY <1>2, <1>3, HopIs DEF LoadInv, Here
<1>5. b + 1 \in DOMAIN Chains[a] /\ Above(a, b + 1) = <<a, b>> /\ a \in Nat \ {0} /\ b \in Nat \ {0}
  <2>1. Loading'
    BY <1>3, <1>4 DEF Loading
  <2>2. a \in Nat \ {0} /\ b \in Nat \ {0}
    BY <1>4, AboveIs
  <2>3. b + 1 # 1 /\ (b + 1) - 1 = b
    BY <2>2
  <2> QED BY <1>3, <2>1, <2>2, <2>3 DEF InAChain, Above
<1>6. \A n \in DOMAIN Chains : \A l \in DOMAIN Chains[n] :
        Done(n, l)' <=> (Done(n, l) \/ (n = a /\ l = b))
  <2> TAKE n \in DOMAIN Chains
  <2> TAKE l \in DOMAIN Chains[n]
  <2>1. n \in Nat /\ l \in Nat
    BY ChainsAre
  <2> QED BY <1>2, <1>3, <1>5, <2>1 DEF Done
<1>7. Heap' /\ Asking' /\ Stored'
  <2>1. a # 0
    BY <1>5
  <2> QED BY <1>2, <1>3, <2>1 DEF LoadInv, Heap, Asking, Stored
<1>8. p \in [1..Len(heap') -> Nat \X Nat]
  BY <1>1, <1>3 DEF Sited
<1>9. Places(p)'
  <2>1. \A i \in 1..Len(heap) :
          IF ARoot(i) THEN p[i] = NoPlace
          ELSE \E n \in DOMAIN Chains : \E l \in DOMAIN Chains[n] :
                 p[i] = <<n, l>> /\ (Done(n, l)' \/ p[i] = Here')
    <3> TAKE i \in 1..Len(heap)
    <3>1. IF ARoot(i) THEN p[i] = NoPlace
          ELSE \E n \in DOMAIN Chains : \E l \in DOMAIN Chains[n] :
                 p[i] = <<n, l>> /\ (Done(n, l) \/ p[i] = Here)
      BY <1>1 DEF Sited, Places
    <3> QED BY <1>4, <1>6, <3>1
  <2>2. \A i \in 1..Len(heap) : \A rel \in DOMAIN heap[i].has : \A c \in heap[i].has[rel] :
          c \in 1..Len(heap) /\ LoadedAt(p, i, c, rel)
    BY <1>1 DEF Sited, Places
  <2> QED BY <1>3, <2>1, <2>2 DEF Places
<1>10. Answers(p)'
  <2>1. ASSUME NEW n \in DOMAIN Chains, NEW l \in DOMAIN Chains[n], Done(n, l)',
               NEW i \in 1..Len(heap), p[i] = Above(n, l)
        PROVE Answered(i, Chains[n][l])'
    <3> PICK h : h = Chains[n][l]
      OBVIOUS
    <3>1. Answered(i, h)
      <4>1. CASE Done(n, l)
        BY <1>1, <2>1, <4>1 DEF Sited, Answers
      <4>2. CASE n = a /\ l = b
        BY <1>1, <1>2, <1>3, <1>4, <2>1, <4>2, ToSetOfNone DEF Sited, Answers
      <4> QED BY <1>6, <2>1, <4>1, <4>2
    <3>2. Answered(i, h)'
      BY <1>3, <3>1, AnsweredStays
    <3> QED BY <3>2
  <2>2. \A i \in 1..Len(heap) : p[i] = <<a, b>> => i \in ToSet(next)
    BY <1>1, <1>3, <1>4 DEF Sited, Queues
  <2>3. Above(at.chain, at.level)' = <<a, b>>
    BY <1>3, <1>5
  <2> QED BY <1>3, <2>1, <2>2, <2>3 DEF Answers
<1>11. Queues(p)'
  <2>1. ToSet(next) = {i \in 1..Len(heap) : p[i] = <<a, b>>}
    BY <1>1, <1>3, <1>4 DEF Sited, Queues
  <2>2. {i \in 1..Len(heap) : p[i] = <<a, b + 1>>} = {}
    <3>1. ASSUME NEW i \in 1..Len(heap), p[i] = <<a, b + 1>> PROVE FALSE
      <4>1. IF ARoot(i) THEN p[i] = NoPlace
            ELSE \E n \in DOMAIN Chains : \E l \in DOMAIN Chains[n] :
                   p[i] = <<n, l>> /\ (Done(n, l) \/ p[i] = Here)
        BY <1>1 DEF Sited, Places
      <4>2. ~Done(a, b + 1)
        BY <1>2, <1>5 DEF Done
      <4>3. <<a, b + 1>> # <<a, b>> /\ <<a, b + 1>> # NoPlace
        BY <1>5 DEF NoPlace
      <4>4. PICK n, l : p[i] = <<n, l>> /\ (Done(n, l) \/ p[i] = Here)
        BY <3>1, <4>1, <4>3
      <4>5. n = a /\ l = b + 1
        BY <3>1, <4>4
      <4> QED BY <1>4, <3>1, <4>2, <4>3, <4>4, <4>5
    <3> QED BY <3>1
  <2>3. Above(at.chain, at.level)' = <<a, b>>
    BY <1>3, <1>5
  <2>4. ToSet(next') = {}
    BY <1>3, ToSetOfNone
  <2> QED BY <1>3, <1>4, <2>1, <2>2, <2>3, <2>4 DEF Queues
<1> QED BY <1>1, <1>7, <1>8, <1>9, <1>10, <1>11 DEF LoadInv, Sited

LEMMA ChainKeepsPlaces ==
  ASSUME LoadInv, NextChain, InAChain' PROVE LoadInv'
<1>1. PICK p : Sited(p)
  BY DEF LoadInv
<1>2. PICK a, b, N : a = at.chain /\ b = at.level /\ N = Cardinality(Roots)
  OBVIOUS
<1>3. /\ Loading /\ todo = <<>> /\ todo' = RootsRead /\ next' = <<>> /\ heap' = heap
      /\ next = <<>> \/ b = Len(Chain)
      /\ fk' = fk /\ bridge' = bridge /\ writes' = writes /\ at'.chain = a + 1 /\ at'.level = 1
  BY <1>2 DEF NextChain, database
<1>4. /\ a \in DOMAIN Chains /\ b \in DOMAIN Chains[a] /\ Hop = Chains[a][b] /\ Chain = Chains[a]
      /\ Here = <<a, b>> /\ Here' = <<a + 1, 1>> /\ a \in Nat \ {0} /\ b \in Nat \ {0}
  BY <1>2, <1>3, HopIs, AboveIs DEF LoadInv, Here, Chain
<1>5. N \in Nat /\ RootsRead \in Seq(Nat) /\ ToSet(RootsRead) = 1..N /\ N <= Len(heap)
  BY <1>2, <1>4, RootsAre DEF LoadInv, Heap
<1>6. \A n \in DOMAIN Chains : \A l \in DOMAIN Chains[n] : Done(n, l)' <=> n <= a
  BY <1>3, <1>4, ChainsAre DEF Done
<1>7. Heap' /\ Asking' /\ Stored'
  BY <1>2, <1>3, <1>4, <1>5 DEF LoadInv, Heap, Asking, Stored
<1>8. p \in [1..Len(heap') -> Nat \X Nat]
  BY <1>1, <1>3 DEF Sited
<1>9. \A i \in 1..Len(heap) :
        IF ARoot(i) THEN p[i] = NoPlace
        ELSE \E n \in DOMAIN Chains : \E l \in DOMAIN Chains[n] :
               p[i] = <<n, l>> /\ (Done(n, l) \/ p[i] = Here)
  BY <1>1 DEF Sited, Places
<1>10. ASSUME NEW i \in 1..Len(heap), NEW n \in DOMAIN Chains, NEW l, p[i] = <<n, l>>
       PROVE  l \in DOMAIN Chains[n] /\ (n < a \/ (n = a /\ l <= b))
  <2>1. <<n, l>> # NoPlace
    BY ChainsAre DEF NoPlace
  <2>2. PICK m \in DOMAIN Chains : \E k \in DOMAIN Chains[m] : p[i] = <<m, k>> /\ (Done(m, k) \/ p[i] = Here)
    BY <1>9, <1>10, <2>1
  <2>3. PICK k \in DOMAIN Chains[m] : p[i] = <<m, k>> /\ (Done(m, k) \/ p[i] = Here)
    BY <2>2
  <2>4. m = n /\ k = l
    BY <1>10, <2>3
  <2>5. n \in Nat /\ l \in Nat
    BY <2>4, ChainsAre
  <2>6. CASE Done(n, l)
    BY <1>2, <1>4, <2>4, <2>5, <2>6 DEF Done
  <2>7. CASE p[i] = Here
    BY <1>4, <1>10, <2>4, <2>5, <2>7
  <2> QED BY <2>3, <2>4, <2>6, <2>7
<1>11. Places(p)'
  <2>1. \A i \in 1..Len(heap) :
          IF ARoot(i) THEN p[i] = NoPlace
          ELSE \E n \in DOMAIN Chains : \E l \in DOMAIN Chains[n] :
                 p[i] = <<n, l>> /\ (Done(n, l)' \/ p[i] = Here')
    <3> SUFFICES ASSUME NEW i \in 1..Len(heap), ~ARoot(i)
                 PROVE  \E n \in DOMAIN Chains : \E l \in DOMAIN Chains[n] : p[i] = <<n, l>> /\ Done(n, l)'
      BY <1>9
    <3>1. PICK n \in DOMAIN Chains : \E l \in DOMAIN Chains[n] : p[i] = <<n, l>>
      BY <1>9
    <3>2. PICK l \in DOMAIN Chains[n] : p[i] = <<n, l>>
      BY <3>1
    <3>3. n <= a
      <4>1. n \in Nat
        BY ChainsAre
      <4> QED BY <1>4, <1>10, <3>2, <4>1
    <3> QED BY <1>6, <3>2, <3>3
  <2>2. \A i \in 1..Len(heap) : \A rel \in DOMAIN heap[i].has : \A c \in heap[i].has[rel] :
          c \in 1..Len(heap) /\ LoadedAt(p, i, c, rel)
    BY <1>1 DEF Sited, Places
  <2> QED BY <1>3, <2>1, <2>2 DEF Places
<1>12. {i \in 1..Len(heap) : p[i] = <<a, b>>} = ToSet(next)
  BY <1>1, <1>3, <1>4 DEF Sited, Queues
<1>13. Answers(p)'
  <2>1. ASSUME NEW n \in DOMAIN Chains, NEW l \in DOMAIN Chains[n], n <= a,
               NEW i \in 1..Len(heap), p[i] = Above(n, l)
        PROVE Answered(i, Chains[n][l])'
    <3> PICK h : h = Chains[n][l]
      OBVIOUS
    <3>1. n \in Nat \ {0} /\ l \in Nat \ {0} /\ l <= Len(Chains[n]) /\ Len(Chains[n]) \in Nat
      BY ChainsAre
    <3>2. Answered(i, h)
      <4>1. CASE Done(n, l)
        BY <1>1, <2>1, <4>1 DEF Sited, Answers
      <4>2. CASE n = a /\ l = b
        BY <1>1, <1>2, <1>3, <1>4, <2>1, <4>2, ToSetOfNone DEF Sited, Answers
      <4>3. CASE n = a /\ l > b
        <5>1. next = <<>>
          BY <1>3, <1>4, <3>1, <4>3
        <5>2. p[i] = <<a, l - 1>>
          BY <1>4, <2>1, <3>1, <4>3 DEF Above
        <5>3. l - 1 <= b /\ l - 1 = b
          BY <1>4, <1>10, <3>1, <4>3, <5>2
        <5> QED BY <1>12, <5>1, <5>2, <5>3, ToSetOfNone
      <4> QED BY <1>2, <1>4, <2>1, <3>1, <4>1, <4>2, <4>3 DEF Done
    <3>3. Answered(i, h)'
      BY <1>3, <3>2, AnsweredStays
    <3> QED BY <3>3
  <2>2. Loading' => Above(at.chain, at.level)' = NoPlace
    BY <1>3 DEF Above
  <2>3. \A i \in 1..Len(heap) : p[i] = NoPlace => i \in ToSet(RootsRead)
    <3> SUFFICES ASSUME NEW i \in 1..Len(heap), p[i] = NoPlace PROVE i \in 1..N
      BY <1>5
    <3>1. ARoot(i)
      <4>1. \A n \in DOMAIN Chains : \A l : <<n, l>> # NoPlace
        BY ChainsAre DEF NoPlace
      <4> QED BY <1>9, <4>1
    <3> QED BY <1>2, <1>5, <3>1 DEF ARoot
  <2> QED BY <1>3, <1>6, <2>1, <2>2, <2>3 DEF Answers
<1>14. Queues(p)'
  <2>1. \A i \in 1..N : i \in 1..Len(heap) /\ p[i] = NoPlace
    BY <1>2, <1>5, <1>9 DEF ARoot
  <2>2. ASSUME Loading' PROVE {i \in 1..Len(heap) : p[i] = <<a + 1, 1>>} = {}
    <3>1. a + 1 \in DOMAIN Chains /\ ~(a + 1 <= a)
      BY <1>3, <1>4, <2>2 DEF Loading
    <3> QED BY <1>4, <1>10, <3>1
  <2>3. Above(at.chain, at.level)' = NoPlace
    BY <1>3 DEF Above
  <2>4. ToSet(next') = {}
    BY <1>3, ToSetOfNone
  <2> QED BY <1>3, <1>4, <1>5, <2>1, <2>2, <2>3, <2>4 DEF Queues
<1> QED BY <1>1, <1>7, <1>8, <1>11, <1>13, <1>14 DEF LoadInv, Sited

LEMMA WriteKeepsPlaces ==
  ASSUME LoadInv, Write, InAChain' PROVE LoadInv'
<1>1. PICK p : Sited(p)
  BY DEF LoadInv
<1>2. heap' = heap /\ at' = at /\ todo' = todo /\ next' = next /\ writes' = writes + 1
  BY DEF Write
<1>3. writes' \in Nat /\ writes' # 0
  BY <1>2 DEF LoadInv, Asking
<1>4. Heap' /\ Asking'
  BY <1>2, <1>3 DEF LoadInv, Heap, Asking
<1>5. Stored'
  <2>1. ASSUME NEW r PROVE r \in DOMAIN fk => r \in DOMAIN fk' /\ DOMAIN fk'[r] = DOMAIN fk[r]
    <3>1. CASE MovesRow
      <4>1. PICK s, i, to : fk' = [fk EXCEPT ![s][i] = to]
        BY <3>1 DEF MovesRow
      <4>2. r \in DOMAIN fk => fk'[r] = IF r = s THEN [fk[s] EXCEPT ![i] = to] ELSE fk[r]
        BY <4>1
      <4> QED BY <4>1, <4>2
    <3>2. CASE ChangesBridge
      BY <3>2 DEF ChangesBridge
    <3> QED BY <3>1, <3>2 DEF Write
  <2>2. ASSUME NEW r PROVE r \in DOMAIN bridge => r \in DOMAIN bridge' /\ bridge'[r] \subseteq bridge[r]
    <3>1. CASE MovesRow
      BY <3>1 DEF MovesRow
    <3>2. CASE ChangesBridge
      <4>1. PICK s, x : bridge' = [bridge EXCEPT ![s] = @ \ {x}]
        BY <3>2 DEF ChangesBridge
      <4>2. r \in DOMAIN bridge => bridge'[r] = IF r = s THEN bridge[s] \ {x} ELSE bridge[r]
        BY <4>1
      <4> QED BY <4>1, <4>2
    <3> QED BY <3>1, <3>2 DEF Write
  <2>3. \A S : \A T \in SUBSET S : IsFiniteSet(S) => IsFiniteSet(T)
    BY FS_Subset
  <2>4. ASSUME NEW n \in DOMAIN Chains, NEW l \in DOMAIN Chains[n], NEW hop, hop = Chains[n][l]
        PROVE  /\ hop.kind = "to_many" =>
                    /\ hop.rel \in DOMAIN fk'
                    /\ IsFiniteSet(DOMAIN fk'[hop.rel]) /\ None \notin DOMAIN fk'[hop.rel]
               /\ hop.kind = "to_many_through" =>
                    /\ hop.rel \in DOMAIN bridge' /\ IsFiniteSet(bridge'[hop.rel])
                    /\ \A e \in bridge'[hop.rel] : e = <<e[1], e[2]>> /\ e[2] # None /\ e[2] \in hop.filter
    <3>1. /\ hop.kind = "to_many" =>
               /\ hop.rel \in DOMAIN fk
               /\ IsFiniteSet(DOMAIN fk[hop.rel]) /\ None \notin DOMAIN fk[hop.rel]
          /\ hop.kind = "to_many_through" =>
               /\ hop.rel \in DOMAIN bridge /\ IsFiniteSet(bridge[hop.rel])
               /\ \A e \in bridge[hop.rel] : e = <<e[1], e[2]>> /\ e[2] # None /\ e[2] \in hop.filter
      BY <2>4 DEF LoadInv, Stored
    <3> QED BY <2>1, <2>2, <2>3, <3>1
  <2> QED BY <2>4 DEF Stored
<1>6. ASSUME NEW i, NEW h, Answered(i, h) PROVE Answered(i, h)'
  <2>1. KeyOf(i, h)' = KeyOf(i, h)
    BY <1>2 DEF KeyOf
  <2>2. ASSUME NEW c PROVE NamesItsParent(c, i, h)' <=> NamesItsParent(c, i, h)
    BY <1>2, <2>1 DEF NamesItsParent
  <2> QED BY <1>2, <1>3, <1>6, <2>2 DEF Answered
<1>7. Places(p)'
  <2>1. \A n, l : Done(n, l)' = Done(n, l)
    BY <1>2 DEF Done
  <2>2. Here' = Here
    BY <1>2 DEF Here
  <2> QED BY <1>1, <1>2, <2>1, <2>2 DEF Sited, Places
<1>8. Answers(p)'
  <2>1. \A n, l : Done(n, l)' = Done(n, l)
    BY <1>2 DEF Done
  <2>2. Loading' = Loading /\ Hop' = Hop /\ Above(at.chain, at.level)' = Above(at.chain, at.level)
    BY <1>2 DEF Loading, Hop, Chain, Above
  <2>3. ASSUME NEW n \in DOMAIN Chains, NEW l \in DOMAIN Chains[n], Done(n, l),
               NEW i \in 1..Len(heap), p[i] = Above(n, l)
        PROVE  Answered(i, Chains[n][l])'
    <3> PICK h : h = Chains[n][l]
      OBVIOUS
    <3>1. Answered(i, h)
      BY <1>1, <2>3 DEF Sited, Answers
    <3>2. Answered(i, h)'
      BY <1>6, <3>1
    <3> QED BY <3>2
  <2>4. ASSUME Loading, NEW i \in 1..Len(heap), p[i] = Above(at.chain, at.level)
        PROVE  i \in ToSet(todo) \/ Answered(i, Hop)'
    <3> PICK h : h = Hop
      OBVIOUS
    <3>1. i \in ToSet(todo) \/ Answered(i, h)
      BY <1>1, <2>4 DEF Sited, Answers
    <3>2. Answered(i, h) => Answered(i, h)'
      BY <1>6
    <3>3. Hop' = h
      BY <2>2
    <3> QED BY <3>1, <3>2, <3>3
  <2> QED BY <1>2, <2>1, <2>2, <2>3, <2>4 DEF Answers
<1>9. Queues(p)'
  <2>1. Loading' = Loading /\ Here' = Here /\ Above(at.chain, at.level)' = Above(at.chain, at.level)
    BY <1>2 DEF Loading, Here, Above
  <2> QED BY <1>1, <1>2, <2>1 DEF Sited, Queues
<1> QED BY <1>1, <1>2, <1>4, <1>5, <1>7, <1>8, <1>9 DEF LoadInv, Sited

LEMMA StutterKeepsPlaces ==
  ASSUME LoadInv, UNCHANGED vars PROVE LoadInv'
<1>1. PICK p : Sited(p)
  BY DEF LoadInv
<1>2. UNCHANGED <<heap, at, todo, next, fk, bridge, writes>>
  BY DEF vars, database
<1>3. ASSUME NEW i, NEW h PROVE Answered(i, h)' <=> Answered(i, h)
  <2>1. KeyOf(i, h)' = KeyOf(i, h)
    BY <1>2 DEF KeyOf
  <2>2. ASSUME NEW c PROVE NamesItsParent(c, i, h)' <=> NamesItsParent(c, i, h)
    BY <1>2, <2>1 DEF NamesItsParent
  <2>3. ChildrenOf(i, h)' = ChildrenOf(i, h)
    BY <1>2, <2>1 DEF ChildrenOf
  <2> QED BY <1>2, <2>2, <2>3 DEF Answered
<1>4. Loading' = Loading /\ Here' = Here /\ Hop' = Hop /\ Above(at.chain, at.level)' = Above(at.chain, at.level)
  BY <1>2 DEF Loading, Here, Hop, Chain, Above
<1>5. ASSUME NEW n, NEW l PROVE Done(n, l)' <=> Done(n, l)
  BY <1>2 DEF Done
<1>6. Places(p)' /\ Queues(p)'
  BY <1>1, <1>2, <1>4, <1>5 DEF Sited, Places, Queues
<1>7. Answers(p)'
  <2>1. ASSUME NEW n \in DOMAIN Chains, NEW l \in DOMAIN Chains[n], Done(n, l),
               NEW i \in 1..Len(heap), p[i] = Above(n, l)
        PROVE  Answered(i, Chains[n][l])'
    <3> PICK h : h = Chains[n][l]
      OBVIOUS
    <3>1. Answered(i, h)
      BY <1>1, <2>1 DEF Sited, Answers
    <3>2. Answered(i, h)'
      BY <1>3, <3>1
    <3> QED BY <3>2
  <2>2. ASSUME Loading, NEW i \in 1..Len(heap), p[i] = Above(at.chain, at.level)
        PROVE  i \in ToSet(todo) \/ Answered(i, Hop)'
    <3> PICK h : h = Hop
      OBVIOUS
    <3>1. i \in ToSet(todo) \/ Answered(i, h)
      BY <1>1, <2>2 DEF Sited, Answers
    <3>2. Answered(i, h) => Answered(i, h)'
      BY <1>3
    <3>3. Hop' = h
      BY <1>4
    <3> QED BY <3>1, <3>2, <3>3
  <2> QED BY <1>2, <1>4, <1>5, <2>1, <2>2 DEF Answers
<1>8. Sited(p)'
  BY <1>1, <1>2, <1>6, <1>7 DEF Sited
<1> QED BY <1>2, <1>8 DEF LoadInv, InAChain, Heap, Asking, Stored, Loading

(* When all is loaded, what is reached along a chain is what its levels      *)
(* loaded, and each level is answered.                                      *)
LEMMA LoadedIsAnswered ==
  ASSUME AskedOnce, LoadInv PROVE EveryParentIsAnswered
<1> SUFFICES ASSUME Loaded, NEW n \in DOMAIN Chains
             PROVE  \A l \in DOMAIN Chains[n] : \A i \in Reached(Chains[n])[l - 1] : Answered(i, Chains[n][l])
  BY DEF EveryParentIsAnswered
<1>1. PICK p : Sited(p)
  BY DEF LoadInv
<1> PICK chain : chain = Chains[n]
  OBVIOUS
<1> DEFINE N == Len(chain)
           r == Reached(chain)
           InPlace(i, l) == i \in 1..Len(heap) /\ p[i] = IF l = 0 THEN NoPlace ELSE <<n, l>>
           B == {l \in 0..N : \A i \in r[l] : InPlace(i, l)}
<1>2. N \in Nat /\ DOMAIN chain = 1..N /\ at.chain > Len(Chains) /\ Len(Chains) \in Nat /\ at.chain \in Nat
      /\ DOMAIN Chains = 1..Len(Chains) /\ n \in Nat
  BY ChainsAre DEF Loaded, LoadInv, InAChain
<1>3. \A l \in 1..N : Done(n, l)
  BY <1>2 DEF Done
<1>4. r[0] = ToSet(RootsRead) /\ \A l \in 1..N : r[l] = UNION {Has(i, chain[l].rel) : i \in r[l - 1]}
  BY <1>2, ReachedByLevel
<1> HIDE DEF r
<1>5. 0 \in B
  <2>1. \A i \in r[0] : i \in 1..Cardinality(Roots)
    BY <1>4, RootsAre
  <2>2. Cardinality(Roots) <= Len(heap) /\ Len(heap) \in Nat /\ Cardinality(Roots) \in Nat
    BY <1>2, RootsAre DEF LoadInv, Heap
  <2>3. \A i \in r[0] : i \in 1..Len(heap) /\ ARoot(i)
    BY <2>1, <2>2 DEF ARoot
  <2>4. \A i \in r[0] : p[i] = NoPlace
    BY <1>1, <2>3 DEF Sited, Places
  <2> QED BY <1>2, <2>3, <2>4
<1>6. \A l \in 1..N : \A i : InPlace(i, l - 1) => i \in 1..Len(heap) /\ p[i] = Above(n, l)
  BY <1>2 DEF Above, NoPlace
<1>7. ASSUME NEW l \in 1..N, l - 1 \in B PROVE l \in B
  <2> SUFFICES ASSUME NEW i \in r[l] PROVE InPlace(i, l)
    OBVIOUS
  <2>1. PICK j \in r[l - 1] : i \in Has(j, chain[l].rel)
    BY <1>4
  <2>2. InPlace(j, l - 1)
    BY <1>7
  <2>3. j \in 1..Len(heap) /\ p[j] = Above(n, l)
    BY <1>6, <2>2
  <2>4. chain[l].rel \in DOMAIN heap[j].has /\ i \in heap[j].has[chain[l].rel]
    BY <2>1 DEF Has
  <2>5. i \in 1..Len(heap) /\ LoadedAt(p, j, i, chain[l].rel)
    BY <1>1, <2>3, <2>4 DEF Sited, Places
  <2>6. PICK m \in DOMAIN Chains : \E k \in DOMAIN Chains[m] :
          p[i] = <<m, k>> /\ Chains[m][k].rel = chain[l].rel /\ p[j] = Above(m, k)
    BY <2>5 DEF LoadedAt
  <2>7. PICK k \in DOMAIN Chains[m] :
          p[i] = <<m, k>> /\ Chains[m][k].rel = chain[l].rel /\ p[j] = Above(m, k)
    BY <2>6
  <2>8. l \in DOMAIN Chains[n] /\ l # 0
    BY <1>2
  <2>9. m = n /\ k = l
    <3>1. Above(n, l) = Above(m, k) /\ Chains[n][l].rel = Chains[m][k].rel
      BY <2>3, <2>7
    <3> HIDE DEF B, N, InPlace
    <3> QED BY <2>8, <3>1, OneLevelLoads
  <2>10. p[i] = <<n, l>>
    BY <2>7, <2>9
  <2> QED BY <2>5, <2>8, <2>10
<1>8. \A l \in 0..N : l \in B
  <2> HIDE DEF B
  <2> QED BY <1>2, <1>5, <1>7, Climb
<1>9. ASSUME NEW l \in 1..N, NEW i \in r[l - 1] PROVE Answered(i, chain[l])
  <2>1. l - 1 \in 0..N
    BY <1>2
  <2>2. InPlace(i, l - 1)
    BY <1>8, <2>1
  <2>3. i \in 1..Len(heap) /\ p[i] = Above(n, l)
    BY <1>6, <2>2
  <2> QED BY <1>1, <1>2, <1>3, <2>3 DEF Sited, Answers
<1> QED BY <1>2, <1>9 DEF r

(* "Every parent falls in exactly one batch, so attach assigns it its list   *)
(* exactly once" (session.py:379): when no two chains begin with the same    *)
(* relation and no filter is put on a bridge, every object reached along a   *)
(* chain has that relationship loaded, with objects that name it, each row   *)
(* once; and with all of those rows when nobody wrote meanwhile.             *)
THEOREM ParentsAreAnswered ==
  ASSUME AskedOnce, BridgesAreWhole PROVE Spec => []EveryParentIsAnswered
<1>1. Init => LoadInv
  BY InitPlaces
<1>2. LoadInv /\ Inv' /\ [Next]_vars => LoadInv'
  <2> SUFFICES ASSUME LoadInv, InAChain', [Next]_vars PROVE LoadInv'
    BY DEF Inv
  <2>1. CASE LoadRoots
    BY <2>1, RootsHaveNoPlace
  <2>2. CASE LoadBatch
    BY <2>2, BatchKeepsItsPlaces
  <2>3. CASE NextLevel
    BY <2>3, LevelKeepsPlaces
  <2>4. CASE NextChain
    BY <2>4, ChainKeepsPlaces
  <2>5. CASE Write
    BY <2>5, WriteKeepsPlaces
  <2>6. CASE UNCHANGED vars
    BY <2>6, StutterKeepsPlaces
  <2> QED BY <2>1, <2>2, <2>3, <2>4, <2>5, <2>6 DEF Next
<1>3. LoadInv => EveryParentIsAnswered
  BY LoadedIsAnswered
<1> QED BY <1>1, <1>2, <1>3, InitInv, NextInv, PTL DEF Spec
=============================================================================
