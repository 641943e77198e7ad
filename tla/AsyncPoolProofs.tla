--------------------------- MODULE AsyncPoolProofs ---------------------------
(***************************************************************************)
(* The asynchronous pool lends clean connections to one task at a time, its *)
(* store counts them, and an age is the connection's own, for any number of *)
(* tasks and addresses and any choice of the knobs.                        *)
(***************************************************************************)
EXTENDS AsyncPool, SequenceTheorems, FiniteSetTheorems, TLAPS

(* A task has a connection: in its hands, or on the way out of the pool.     *)
Has(t) == at[t] \in {"pinging", "throwing", "lent", "rolling"}

Typed ==
  /\ free \in Seq(Addresses) /\ live \in Nat
  /\ conn \in [Addresses -> {"none", "open", "broken"}]
  /\ work \subseteq Addresses /\ overdue \subseteq Addresses
  /\ born \in [Addresses -> {"none", "young", "old"}]
  /\ at \in [Tasks -> Places] /\ hand \in [Tasks -> Addresses \cup {None}]
FreeOnce == \A i, j \in 1..Len(free) : i # j => free[i] # free[j]
FreeIsOpen == \A i \in 1..Len(free) : conn[free[i]] # "none"
HandIsOpen == \A t \in Tasks : Has(t) => hand[t] \in Addresses /\ conn[hand[t]] # "none"
HandNotFree == \A t \in Tasks : Has(t) => \A i \in 1..Len(free) : free[i] # hand[t]
HeldOnce == \A t, u \in Tasks : Has(t) /\ Has(u) /\ hand[t] = hand[u] => t = u

(* Each connection is free once, or had by one task, or neither.             *)
PlaceInv == Typed /\ FreeOnce /\ FreeIsOpen /\ HandIsOpen /\ HandNotFree /\ HeldOnce

LEMMA InitPlace == Init => PlaceInv
  BY DEF Init, PlaceInv, Typed, FreeOnce, FreeIsOpen, HandIsOpen, HandNotFree, HeldOnce, Has, Places

-----------------------------------------------------------------------------
LEMMA FrontFacts ==
  ASSUME NEW S, NEW s \in Seq(S), s # <<>>
  PROVE  /\ Front(s) \in Seq(S) /\ Len(s) \in Nat \ {0} /\ Len(Front(s)) = Len(s) - 1
         /\ \A i \in 1..(Len(s) - 1) : Front(s)[i] = s[i]
         /\ Last(s) = s[Len(s)] /\ Last(s) \in S
<1>1. Len(s) \in Nat \ {0}
  BY EmptySeq, LenProperties
<1>2. Last(s) = s[Len(s)] /\ Last(s) \in S
  BY <1>1 DEF Last
<1>3. /\ SubSeq(s, 1, Len(s) - 1) \in Seq(S)
      /\ Len(SubSeq(s, 1, Len(s) - 1)) = Len(s) - 1
      /\ \A i \in 1..(Len(s) - 1) : SubSeq(s, 1, Len(s) - 1)[i] = s[i]
  <2> DEFINE n == Len(s) - 1
  <2>1. n \in Int /\ 1 \in Int /\ n >= 0
    BY <1>1
  <2>2. \A i \in 1..n : s[i] \in S
    BY <1>1
  <2> HIDE DEF n
  <2>3. /\ SubSeq(s, 1, n) \in Seq(S)
        /\ Len(SubSeq(s, 1, n)) = IF 1 <= n THEN n - 1 + 1 ELSE 0
        /\ \A i \in 1..(n - 1 + 1) : SubSeq(s, 1, n)[i] = s[1 + i - 1]
    BY <2>1, <2>2, SubSeqProperties
  <2>4. Len(SubSeq(s, 1, n)) = n /\ \A i \in 1..n : SubSeq(s, 1, n)[i] = s[i]
    BY <2>1, <2>3
  <2> QED BY <2>3, <2>4 DEF n
<1> QED BY <1>1, <1>2, <1>3 DEF Front

LEMMA AppendFacts ==
  ASSUME NEW S, NEW s \in Seq(S), NEW e \in S
  PROVE  /\ Append(s, e) \in Seq(S) /\ Len(s) \in Nat /\ Len(Append(s, e)) = Len(s) + 1
         /\ \A i \in 1..Len(s) : Append(s, e)[i] = s[i]
         /\ Append(s, e)[Len(s) + 1] = e
  OBVIOUS

(* What the conjuncts of PlaceInv need of a step that leaves the types right. *)
TypedAfter ==
  /\ live' \in Nat /\ work' \subseteq Addresses /\ overdue' \subseteq Addresses
  /\ born' \in [Addresses -> {"none", "young", "old"}] /\ at' \in [Tasks -> Places]

(* A step that gives no task a connection and takes none away.               *)
LEMMA QuietStep ==
  ASSUME PlaceInv, TypedAfter, UNCHANGED free,
         hand' \in [Tasks -> Addresses \cup {None}],
         conn' \in [Addresses -> {"none", "open", "broken"}],
         \A a \in Addresses : conn[a] # "none" => conn'[a] # "none",
         \A t \in Tasks : Has(t)' => Has(t) /\ hand'[t] = hand[t]
  PROVE  PlaceInv'
<1>1. Typed'
  BY DEF PlaceInv, Typed, TypedAfter
<1>2. FreeOnce' /\ FreeIsOpen'
  BY DEF PlaceInv, Typed, FreeOnce, FreeIsOpen
<1>3. HandIsOpen' /\ HandNotFree' /\ HeldOnce'
  BY DEF PlaceInv, HandIsOpen, HandNotFree, HeldOnce
<1> QED BY <1>1, <1>2, <1>3 DEF PlaceInv

(* A task takes a connection nobody has.                                     *)
LEMMA GetStep ==
  ASSUME PlaceInv, TypedAfter, NEW t \in Tasks, NEW a \in Addresses,
         hand' = [hand EXCEPT ![t] = a],
         \A u \in Tasks \ {t} : at'[u] = at[u],
         \A u \in Tasks : Has(u) => hand[u] # a,
         free' \in Seq(Addresses), FreeOnce',
         \A i \in 1..Len(free') : free'[i] # a /\ \E j \in 1..Len(free) : free'[i] = free[j],
         conn' \in [Addresses -> {"none", "open", "broken"}], conn'[a] # "none",
         \A b \in Addresses \ {a} : conn'[b] = conn[b]
  PROVE  PlaceInv'
<1>1. Typed'
  BY DEF PlaceInv, Typed, TypedAfter
<1>2. /\ hand'[t] = a
      /\ \A u \in Tasks \ {t} : hand'[u] = hand[u] /\ (Has(u)' <=> Has(u))
  BY DEF PlaceInv, Typed, Has
<1>3. FreeIsOpen'
  <2> SUFFICES ASSUME NEW i \in 1..Len(free') PROVE conn'[free'[i]] # "none"
    BY DEF FreeIsOpen
  <2>1. PICK j \in 1..Len(free) : free'[i] = free[j]
    OBVIOUS
  <2> QED BY <2>1 DEF PlaceInv, Typed, FreeIsOpen
<1>4. HandIsOpen'
  <2> SUFFICES ASSUME NEW u \in Tasks, Has(u)'
               PROVE  hand'[u] \in Addresses /\ conn'[hand'[u]] # "none"
    BY DEF HandIsOpen
  <2>1. CASE u = t
    BY <1>2, <2>1
  <2>2. CASE u # t
    BY <1>2, <2>2 DEF PlaceInv, HandIsOpen
  <2> QED BY <2>1, <2>2
<1>5. HandNotFree'
  <2> SUFFICES ASSUME NEW u \in Tasks, Has(u)', NEW i \in 1..Len(free')
               PROVE  free'[i] # hand'[u]
    BY DEF HandNotFree
  <2>1. PICK j \in 1..Len(free) : free'[i] = free[j]
    OBVIOUS
  <2>2. CASE u = t
    BY <1>2, <2>2
  <2>3. CASE u # t
    BY <1>2, <2>1, <2>3 DEF PlaceInv, HandNotFree
  <2> QED BY <2>2, <2>3
<1>6. HeldOnce'
  BY <1>2 DEF PlaceInv, HeldOnce
<1> QED BY <1>1, <1>3, <1>4, <1>5, <1>6, FreeOnce' DEF PlaceInv

(* A task lets go of its connection: it is gone, or free.                    *)
LEMMA DropStep ==
  ASSUME PlaceInv, TypedAfter, NEW t \in Tasks, Has(t), Drop(t), ~Has(t)', UNCHANGED free,
         \A u \in Tasks \ {t} : at'[u] = at[u]
  PROVE  PlaceInv'
<1>1. /\ hand[t] \in Addresses /\ conn' = [conn EXCEPT ![hand[t]] = "none"]
      /\ hand' = [hand EXCEPT ![t] = None]
  BY DEF Drop, PlaceInv, HandIsOpen
<1>2. Typed'
  BY <1>1 DEF PlaceInv, Typed, TypedAfter
<1>3. FreeOnce' /\ FreeIsOpen'
  BY <1>1 DEF PlaceInv, Typed, FreeOnce, FreeIsOpen, HandNotFree
<1>4. \A u \in Tasks : Has(u)' => Has(u) /\ u # t /\ hand'[u] = hand[u]
  BY <1>1 DEF PlaceInv, Typed, Has
<1>5. HandIsOpen'
  BY <1>1, <1>4 DEF PlaceInv, Typed, HandIsOpen, HeldOnce
<1>6. HandNotFree' /\ HeldOnce'
  BY <1>4 DEF PlaceInv, HandNotFree, HeldOnce
<1> QED BY <1>2, <1>3, <1>5, <1>6 DEF PlaceInv

LEMMA GiveBackStep ==
  ASSUME PlaceInv, TypedAfter, NEW t \in Tasks, Has(t), GiveBack(t), UNCHANGED <<hand, conn>>
  PROVE  PlaceInv'
<1>1. /\ hand[t] \in Addresses /\ conn[hand[t]] # "none"
      /\ free \in Seq(Addresses) /\ free' = Append(free, hand[t])
      /\ at' = [at EXCEPT ![t] = "returned"]
  BY DEF GiveBack, GoTo, PlaceInv, Typed, HandIsOpen
<1>2. /\ free' \in Seq(Addresses) /\ Len(free) \in Nat /\ Len(free') = Len(free) + 1
      /\ \A i \in 1..Len(free) : free'[i] = free[i]
      /\ free'[Len(free) + 1] = hand[t]
  BY <1>1, AppendFacts
<1>3. Typed'
  BY <1>2 DEF PlaceInv, Typed, TypedAfter
<1>4. FreeOnce' /\ FreeIsOpen'
  BY <1>1, <1>2 DEF PlaceInv, FreeOnce, FreeIsOpen, HandNotFree
<1>5. \A u \in Tasks : Has(u)' => Has(u) /\ u # t /\ hand'[u] = hand[u]
  BY <1>1 DEF PlaceInv, Typed, Has
<1>6. HandIsOpen' /\ HeldOnce'
  BY <1>5 DEF PlaceInv, HandIsOpen, HeldOnce
<1>7. HandNotFree'
  BY <1>2, <1>5 DEF PlaceInv, HandNotFree, HeldOnce
<1> QED BY <1>3, <1>4, <1>6, <1>7 DEF PlaceInv

-----------------------------------------------------------------------------
(* What Take and ThrowAway leave, whichever way they go.                     *)
LEMMA TakeFacts ==
  ASSUME Typed, NEW t \in Tasks, NEW a \in Addresses, NEW n \in Nat, Take(t, a, n)
  PROVE  /\ TypedAfter /\ hand' = [hand EXCEPT ![t] = a]
         /\ \A u \in Tasks \ {t} : at'[u] = at[u]
         /\ UNCHANGED <<work, overdue>>
         /\ \/ /\ TooOld(a) /\ at' = [at EXCEPT ![t] = "throwing"]
               /\ born' = [born EXCEPT ![a] = "none"]
               /\ live' = IF n > 0 THEN n - 1 ELSE 0
            \/ /\ ~TooOld(a) /\ at' = [at EXCEPT ![t] = "pinging"] /\ live' = n /\ UNCHANGED born
            \/ /\ ~TooOld(a) /\ at' = [at EXCEPT ![t] = "lent"] /\ live' = n /\ born' = Stamp(a)
<1>1. Stamp(a) \in [Addresses -> {"none", "young", "old"}]
  BY DEF Typed, Stamp
<1>2. /\ hand' = [hand EXCEPT ![t] = a] /\ UNCHANGED <<work, overdue>>
      /\ \/ /\ TooOld(a) /\ at' = [at EXCEPT ![t] = "throwing"]
            /\ born' = [born EXCEPT ![a] = "none"]
            /\ live' = IF n > 0 THEN n - 1 ELSE 0
         \/ /\ ~TooOld(a) /\ at' = [at EXCEPT ![t] = "pinging"] /\ live' = n /\ UNCHANGED born
         \/ /\ ~TooOld(a) /\ at' = [at EXCEPT ![t] = "lent"] /\ live' = n /\ born' = Stamp(a)
  BY DEF Take, ThrowAway, GoTo
<1>3. TypedAfter
  BY <1>1, <1>2 DEF TypedAfter, Typed, Places
<1>4. \A u \in Tasks \ {t} : at'[u] = at[u]
  BY <1>2 DEF Typed
<1> QED BY <1>2, <1>3, <1>4

LEMMA BorrowFreeStep ==
  ASSUME PlaceInv, NEW t \in Tasks, BorrowFree(t)
  PROVE  PlaceInv'
<1> DEFINE a == Last(free)
<1>1. /\ free \in Seq(Addresses) /\ free # <<>> /\ at[t] = "asking" /\ Take(t, a, live)
      /\ free' = Front(free) /\ UNCHANGED conn /\ live \in Nat /\ Typed
  BY DEF BorrowFree, PlaceInv, Typed
<1>2. /\ Len(free) \in Nat \ {0} /\ a \in Addresses /\ a = free[Len(free)]
      /\ free' \in Seq(Addresses) /\ Len(free') = Len(free) - 1
      /\ \A i \in 1..(Len(free) - 1) : free'[i] = free[i]
  BY <1>1, FrontFacts
<1> HIDE DEF a
<1>3. FreeOnce' /\ \A i \in 1..Len(free') : free'[i] # a /\ \E j \in 1..Len(free) : free'[i] = free[j]
  BY <1>2 DEF PlaceInv, FreeOnce
<1>4. /\ conn'[a] # "none" /\ conn' \in [Addresses -> {"none", "open", "broken"}]
      /\ \A u \in Tasks : Has(u) => hand[u] # a
  BY <1>1, <1>2 DEF PlaceInv, Typed, FreeIsOpen, HandNotFree
<1> QED BY <1>1, <1>2, <1>3, <1>4, TakeFacts, GetStep

LEMMA ConnectedStep ==
  ASSUME PlaceInv, NEW t \in Tasks, Connected(t)
  PROVE  PlaceInv'
<1>1. PICK a \in Addresses : /\ conn[a] = "none" /\ conn' = [conn EXCEPT ![a] = "open"]
                             /\ Take(t, a, live + 1)
  BY DEF Connected
<1>2. UNCHANGED free /\ Typed /\ live + 1 \in Nat
  BY DEF Connected, PlaceInv, Typed
<1>3. /\ free' \in Seq(Addresses) /\ FreeOnce'
      /\ \A i \in 1..Len(free') : free'[i] # a /\ \E j \in 1..Len(free) : free'[i] = free[j]
  BY <1>1, <1>2 DEF PlaceInv, Typed, FreeOnce, FreeIsOpen
<1>4. /\ conn'[a] # "none" /\ conn' \in [Addresses -> {"none", "open", "broken"}]
      /\ \A u \in Tasks : Has(u) => hand[u] # a
      /\ \A b \in Addresses \ {a} : conn'[b] = conn[b]
  BY <1>1, <1>2 DEF PlaceInv, Typed, HandIsOpen
<1> QED BY <1>1, <1>2, <1>3, <1>4, TakeFacts, GetStep

LEMMA PlaceNext == PlaceInv /\ [Next]_vars => PlaceInv'
<1> SUFFICES ASSUME PlaceInv, [Next]_vars PROVE PlaceInv'
  OBVIOUS
<1> USE DEF storeVars, ageVars
<1>1. ASSUME NEW t \in Tasks,
             \/ Acquire(t) \/ Connect(t) \/ BorrowFails(t) \/ GetLate(t) \/ Lend(t) \/ PingFails(t)
             \/ Work(t) \/ Commit(t) \/ Close(t) \/ Forget(t)
      PROVE  PlaceInv'
  <2>1. UNCHANGED <<free, conn>>
    BY <1>1 DEF Acquire, Connect, BorrowFails, GetLate, Lend, PingFails, Work, Commit, Close, Forget
  <2>2. \A u \in Tasks : Has(u)' => Has(u) /\ hand'[u] = hand[u]
    BY <1>1 DEF Acquire, Connect, BorrowFails, GetLate, Lend, PingFails, ThrowAway, Work, Commit, Close,
                Forget, Returned, GoTo, Has, PlaceInv, Typed
  <2>3. hand' \in [Tasks -> Addresses \cup {None}]
    BY <1>1 DEF Acquire, Connect, BorrowFails, GetLate, Lend, PingFails, Work, Commit, Close, Forget,
                PlaceInv, Typed
  <2>4. TypedAfter
    <3>1. live' \in Nat /\ at' \in [Tasks -> Places] /\ overdue' \subseteq Addresses
      BY <1>1 DEF Acquire, Connect, BorrowFails, GetLate, Lend, PingFails, ThrowAway, Work, Commit,
                  Close, Forget, GoTo, PlaceInv, Typed, Places
    <3>2. born' \in [Addresses -> {"none", "young", "old"}]
      BY <1>1 DEF Acquire, Connect, BorrowFails, GetLate, Lend, Stamp, PingFails, ThrowAway, Work,
                  Commit, Close, Forget, PlaceInv, Typed
    <3>3. work' \subseteq Addresses
      BY <1>1 DEF Acquire, Connect, BorrowFails, GetLate, Lend, PingFails, Work, Commit, Close, Forget,
                  PlaceInv, Typed, HandIsOpen, Has
    <3> QED BY <3>1, <3>2, <3>3 DEF TypedAfter
  <2> QED BY <2>1, <2>2, <2>3, <2>4, QuietStep DEF PlaceInv, Typed
<1>2. ASSUME NEW a \in Addresses, Break(a) \/ GrowOld(a) PROVE PlaceInv'
  BY <1>2, QuietStep DEF Break, GrowOld, PlaceInv, Typed, TypedAfter, Has
<1>3. CASE UNCHANGED vars
  BY <1>3, QuietStep DEF vars, PlaceInv, Typed, TypedAfter, Has
<1>4. ASSUME NEW t \in Tasks, Thrown(t) PROVE PlaceInv'
  <2>1. Has(t) /\ ~Has(t)' /\ TypedAfter /\ \A u \in Tasks \ {t} : at'[u] = at[u]
    BY <1>4 DEF Thrown, Drop, GoTo, Has, TypedAfter, PlaceInv, Typed, Places
  <2> QED BY <1>4, <2>1, DropStep DEF Thrown
<1>5. ASSUME NEW t \in Tasks, Rolled(t) PROVE PlaceInv'
  <2>1. Has(t) /\ TypedAfter
    BY <1>5 DEF Rolled, GiveBack, GoTo, Has, TypedAfter, PlaceInv, Typed, Places
  <2> QED BY <1>5, <2>1, GiveBackStep DEF Rolled
<1>6. ASSUME NEW t \in Tasks, Cancel(t) PROVE PlaceInv'
  <2>1. CASE at[t] = "rolling"
    <3>1. Has(t) /\ TypedAfter /\ GiveBack(t) /\ UNCHANGED <<hand, conn>>
      BY <1>6, <2>1 DEF Cancel, GiveBack, GoTo, Has, TypedAfter, PlaceInv, Typed, Places
    <3> QED BY <3>1, GiveBackStep
  <2>2. CASE at[t] \in {"pinging", "throwing"}
    <3>1. Has(t) /\ ~Has(t)' /\ TypedAfter /\ \A u \in Tasks \ {t} : at'[u] = at[u]
      BY <1>6, <2>2 DEF Cancel, Drop, GoTo, Has, TypedAfter, PlaceInv, Typed, Places
    <3> QED BY <1>6, <2>2, <3>1, DropStep DEF Cancel
  <2>3. CASE at[t] \notin {"rolling", "pinging", "throwing"}
    <3>1. UNCHANGED <<free, live, conn, work, overdue, hand, born>> /\ at' = [at EXCEPT ![t] = "out"]
      BY <1>6, <2>3 DEF Cancel, GoTo
    <3> QED BY <3>1, QuietStep DEF Has, TypedAfter, PlaceInv, Typed, Places
  <2> QED BY <2>1, <2>2, <2>3
<1> QED
  BY <1>1, <1>2, <1>3, <1>4, <1>5, <1>6, BorrowFreeStep, ConnectedStep DEF Next, Try

-----------------------------------------------------------------------------
(* The count of the store.                                                  *)
CountInv == LiveCountsTheOpen

LEMMA HeldFinite ==
  ASSUME PlaceInv
  PROVE  HeldConnections \subseteq Addresses /\ IsFiniteSet(HeldConnections)
         /\ Cardinality(HeldConnections) \in Nat
<1>1. HeldConnections \subseteq Addresses
  BY DEF HeldConnections, Holding, PlaceInv, HandIsOpen, Has
<1> QED BY <1>1, AddressesAssumption, FS_Subset, FS_CardinalityType

(* Nobody takes and nobody leaves; one task takes; one task leaves.          *)
LEMMA HeldStays ==
  ASSUME \A u \in Tasks : at'[u] \in Holding <=> at[u] \in Holding,
         \A u \in Tasks : at[u] \in Holding => hand'[u] = hand[u]
  PROVE  HeldConnections' = HeldConnections
  BY DEF HeldConnections

LEMMA HeldGrows ==
  ASSUME PlaceInv, NEW t \in Tasks, NEW a \in Addresses,
         at[t] \notin Holding, at'[t] \in Holding, hand'[t] = a,
         \A u \in Tasks \ {t} : at'[u] = at[u] /\ hand'[u] = hand[u],
         \A u \in Tasks : Has(u) => hand[u] # a
  PROVE  Cardinality(HeldConnections') = Cardinality(HeldConnections) + 1
<1>1. HeldConnections' = HeldConnections \cup {a}
  BY DEF HeldConnections
<1>2. a \notin HeldConnections
  BY DEF HeldConnections, Holding, Has
<1> QED BY <1>1, <1>2, HeldFinite, FS_AddElement

LEMMA HeldShrinks ==
  ASSUME PlaceInv, NEW t \in Tasks, at[t] \in Holding, at'[t] \notin Holding,
         \A u \in Tasks \ {t} : at'[u] = at[u] /\ hand'[u] = hand[u]
  PROVE  /\ Cardinality(HeldConnections) \in Nat \ {0}
         /\ Cardinality(HeldConnections') = Cardinality(HeldConnections) - 1
<1>1. hand[t] \in HeldConnections
  BY DEF HeldConnections
<1>2. \A u \in Tasks \ {t} : at[u] \in Holding => hand[u] # hand[t]
  BY DEF PlaceInv, HeldOnce, Has, Holding
<1>3. HeldConnections' = HeldConnections \ {hand[t]}
  BY <1>2 DEF HeldConnections
<1>4. Cardinality(HeldConnections') = Cardinality(HeldConnections) - 1
  BY <1>1, <1>3, HeldFinite, FS_RemoveElement
<1>5. Cardinality(HeldConnections) # 0
  BY <1>1, HeldFinite, FS_EmptySet
<1> QED BY <1>4, <1>5, HeldFinite

LEMMA TakeCounts ==
  ASSUME PlaceInv, NEW t \in Tasks, NEW a \in Addresses, NEW n \in Nat, Take(t, a, n),
         at[t] \notin Holding, \A u \in Tasks : Has(u) => hand[u] # a,
         n > 0, Len(free') + Cardinality(HeldConnections) + 1 = n, Len(free') \in Nat
  PROVE  CountInv'
<1>1. /\ hand' = [hand EXCEPT ![t] = a] /\ Typed
      /\ \A u \in Tasks \ {t} : at'[u] = at[u]
      /\ \/ at' = [at EXCEPT ![t] = "throwing"] /\ live' = n - 1
         \/ at' = [at EXCEPT ![t] = "pinging"] /\ live' = n
         \/ at' = [at EXCEPT ![t] = "lent"] /\ live' = n
  BY TakeFacts DEF PlaceInv
<1>2. hand'[t] = a /\ \A u \in Tasks \ {t} : at'[u] = at[u] /\ hand'[u] = hand[u]
  BY <1>1 DEF Typed
<1>3. CASE at' = [at EXCEPT ![t] = "throwing"] /\ live' = n - 1
  <2>1. at'[t] = "throwing"
    BY <1>1, <1>3 DEF Typed
  <2>2. HeldConnections' = HeldConnections
    BY <1>2, <2>1, HeldStays DEF Holding
  <2> QED BY <1>3, <2>2, HeldFinite DEF CountInv, LiveCountsTheOpen
<1>4. CASE at'[t] \in {"pinging", "lent"} /\ live' = n
  <2>1. Cardinality(HeldConnections') = Cardinality(HeldConnections) + 1
    BY <1>2, <1>4, HeldGrows DEF Holding
  <2> QED BY <1>4, <2>1, HeldFinite DEF CountInv, LiveCountsTheOpen
<1> QED BY <1>1, <1>3, <1>4 DEF Typed

LEMMA InitCount == Init => CountInv
<1> SUFFICES ASSUME Init PROVE CountInv
  OBVIOUS
<1>1. HeldConnections = {}
  BY DEF Init, HeldConnections, Holding
<1> QED BY <1>1, FS_EmptySet DEF Init, CountInv, LiveCountsTheOpen

LEMMA CountNext ==
  ASSUME "pinging" \notin Cancels
  PROVE  PlaceInv /\ CountInv /\ [Next]_vars => CountInv'
<1> SUFFICES ASSUME PlaceInv, CountInv, [Next]_vars PROVE CountInv'
  OBVIOUS
<1> USE DEF storeVars, ageVars
<1>0. /\ live = Len(free) + Cardinality(HeldConnections) /\ live \in Nat
      /\ free \in Seq(Addresses) /\ Len(free) \in Nat /\ Cardinality(HeldConnections) \in Nat
  BY HeldFinite DEF CountInv, LiveCountsTheOpen, PlaceInv, Typed
<1>1. ASSUME NEW t \in Tasks,
             \/ Acquire(t) \/ Connect(t) \/ BorrowFails(t) \/ GetLate(t) \/ Lend(t)
             \/ Work(t) \/ Commit(t) \/ Close(t) \/ Forget(t) \/ Thrown(t)
             \/ Cancel(t) /\ at[t] # "rolling"
      PROVE  CountInv'
  <2>1. UNCHANGED <<free, live>>
    BY <1>1 DEF Acquire, Connect, BorrowFails, GetLate, Lend, Work, Commit, Close, Forget, Thrown, Cancel
  <2>2. \A u \in Tasks : at'[u] \in Holding <=> at[u] \in Holding
    BY <1>1, "pinging" \notin Cancels, CancelsAssumption
       DEF Acquire, Connect, BorrowFails, GetLate, Lend, Work, Commit, Close, Forget, Thrown, Cancel,
           Returned, Refused, GoTo, Holding, Awaits, Acquiring, PlaceInv, Typed
  <2>3. \A u \in Tasks : at[u] \in Holding => hand'[u] = hand[u]
    BY <1>1, "pinging" \notin Cancels
       DEF Acquire, Connect, BorrowFails, GetLate, Lend, Work, Commit, Close, Forget, Thrown, Cancel,
           Drop, Holding, PlaceInv, Typed
  <2> QED BY <2>1, <2>2, <2>3, HeldStays DEF CountInv, LiveCountsTheOpen
<1>2. ASSUME NEW a \in Addresses, Break(a) \/ GrowOld(a) PROVE CountInv'
  BY <1>2, HeldStays DEF Break, GrowOld, CountInv, LiveCountsTheOpen
<1>3. CASE UNCHANGED vars
  BY <1>3, HeldStays DEF vars, CountInv, LiveCountsTheOpen
<1>4. ASSUME NEW t \in Tasks, BorrowFree(t) PROVE CountInv'
  <2> DEFINE a == Last(free)
  <2>1. at[t] = "asking" /\ free # <<>> /\ Take(t, a, live) /\ free' = Front(free)
    BY <1>4 DEF BorrowFree
  <2>2. /\ a \in Addresses /\ a = free[Len(free)] /\ Len(free) > 0
        /\ Len(free') = Len(free) - 1 /\ Len(free') \in Nat
    BY <1>0, <2>1, FrontFacts
  <2>3. \A u \in Tasks : Has(u) => hand[u] # a
    BY <1>0, <2>2 DEF PlaceInv, HandNotFree
  <2> HIDE DEF a
  <2>4. live > 0 /\ Len(free') + Cardinality(HeldConnections) + 1 = live /\ at[t] \notin Holding
    BY <1>0, <2>1, <2>2 DEF Holding
  <2> QED BY <1>0, <2>1, <2>2, <2>3, <2>4, TakeCounts
<1>5. ASSUME NEW t \in Tasks, Connected(t) PROVE CountInv'
  <2>1. PICK a \in Addresses : conn[a] = "none" /\ Take(t, a, live + 1)
    BY <1>5 DEF Connected
  <2>2. /\ UNCHANGED free /\ at[t] \notin Holding
        /\ \A u \in Tasks : Has(u) => hand[u] # a
    BY <1>5, <2>1 DEF Connected, Holding, PlaceInv, HandIsOpen
  <2>3. live + 1 \in Nat /\ live + 1 > 0 /\ Len(free') + Cardinality(HeldConnections) + 1 = live + 1
    BY <1>0, <2>2
  <2> QED BY <1>0, <2>1, <2>2, <2>3, TakeCounts
<1>6. ASSUME NEW t \in Tasks, PingFails(t) PROVE CountInv'
  <2>1. /\ at[t] = "pinging" /\ at' = [at EXCEPT ![t] = "throwing"] /\ UNCHANGED <<free, hand>>
        /\ live' = IF live > 0 THEN live - 1 ELSE 0
    BY <1>6 DEF PingFails, ThrowAway, GoTo
  <2>2. /\ Cardinality(HeldConnections) \in Nat \ {0}
        /\ Cardinality(HeldConnections') = Cardinality(HeldConnections) - 1
    BY <2>1, HeldShrinks DEF Holding, PlaceInv, Typed
  <2> QED BY <1>0, <2>1, <2>2 DEF CountInv, LiveCountsTheOpen
<1>7. ASSUME NEW t \in Tasks, at[t] = "rolling", GiveBack(t), UNCHANGED hand PROVE CountInv'
  <2>1. /\ at' = [at EXCEPT ![t] = "returned"] /\ UNCHANGED live
        /\ free' = Append(free, hand[t]) /\ hand[t] \in Addresses
    BY <1>7 DEF GiveBack, GoTo, PlaceInv, HandIsOpen, Has
  <2>2. /\ Cardinality(HeldConnections) \in Nat \ {0}
        /\ Cardinality(HeldConnections') = Cardinality(HeldConnections) - 1
    BY <1>7, <2>1, HeldShrinks DEF Holding, PlaceInv, Typed
  <2>3. Len(free') = Len(free) + 1
    BY <1>0, <2>1, AppendFacts
  <2> QED BY <1>0, <2>1, <2>2, <2>3 DEF CountInv, LiveCountsTheOpen
<1>8. ASSUME NEW t \in Tasks, Rolled(t) \/ (Cancel(t) /\ at[t] = "rolling") PROVE CountInv'
  BY <1>7, <1>8 DEF Rolled, Cancel
<1>9. ASSUME NEW t \in Tasks, Cancel(t) PROVE CountInv'
  BY <1>1, <1>8, <1>9
<1>10. ASSUME NEW t \in Tasks, Try(t) PROVE CountInv'
  BY <1>1, <1>4, <1>5, <1>6, <1>10 DEF Try
<1>11. ASSUME NEW t \in Tasks,
              \/ Acquire(t) \/ Try(t) \/ GetLate(t)
              \/ Work(t) \/ Commit(t) \/ Close(t) \/ Rolled(t) \/ Forget(t) \/ Cancel(t)
       PROVE  CountInv'
  <2>1. CASE Try(t) \/ Cancel(t) \/ Rolled(t)
    BY <1>8, <1>9, <1>10, <2>1
  <2>2. CASE Acquire(t) \/ GetLate(t) \/ Work(t) \/ Commit(t) \/ Close(t) \/ Forget(t)
    BY <1>1, <2>2
  <2> QED BY <1>11, <2>1, <2>2
<1> QED BY <1>2, <1>3, <1>11 DEF Next

(* close() "must not cost the pool a connection for ever": unless a task can *)
(* be cancelled in its ping, the count of the store is the connections that  *)
(* are free or in use, at any number of tasks, sockets that die included.    *)
THEOREM TheCountIsExact ==
  ASSUME "pinging" \notin Cancels
  PROVE  Spec => []LiveCountsTheOpen
<1>1. CountInv => LiveCountsTheOpen
  BY DEF CountInv
<1>2. PlaceInv /\ CountInv /\ [Next]_vars => CountInv'
  BY CountNext
<1> QED BY <1>1, <1>2, InitPlace, PlaceNext, InitCount, PTL DEF Spec

-----------------------------------------------------------------------------
(* The ages. A connection that is overdue is stamped so, until it is thrown  *)
(* away; and an address with nobody at it has no stamp.                      *)
Thrower(a) == \E t \in Tasks : at[t] = "throwing" /\ hand[t] = a
StampsOfTheLiving == \A a \in Addresses : conn[a] = "none" => born[a] = "none" /\ a \notin overdue
ThrownUnstamped == \A t \in Tasks : at[t] = "throwing" => born[hand[t]] = "none"
OldIsOverdue == \A a \in Addresses : born[a] = "old" => a \in overdue
OverdueIsOld == \A a \in overdue : born[a] = "old" \/ Thrower(a)
AgeInv == StampsOfTheLiving /\ ThrownUnstamped /\ OldIsOverdue /\ OverdueIsOld

LEMMA InitAge == Init => AgeInv
  BY DEF Init, AgeInv, StampsOfTheLiving, ThrownUnstamped, OldIsOverdue, OverdueIsOld

(* No task comes to throw a connection away or ends doing it, and no stamp   *)
(* moves, but for a first one.                                              *)
LEMMA AgesStay ==
  ASSUME PlaceInv, AgeInv, overdue' = overdue,
         \A t \in Tasks : at'[t] = "throwing" <=> at[t] = "throwing",
         \A t \in Tasks : at[t] = "throwing" => hand'[t] = hand[t],
         \A a \in Addresses : conn'[a] = "none" <=> conn[a] = "none",
         \/ born' = born
         \/ \E a \in Addresses :
              conn[a] # "none" /\ ~Thrower(a) /\ born' = Stamp(a)
  PROVE  AgeInv'
<1>1. CASE born' = born
  BY <1>1 DEF AgeInv, StampsOfTheLiving, ThrownUnstamped, OldIsOverdue, OverdueIsOld, Thrower
<1>2. ASSUME NEW a \in Addresses, conn[a] # "none", ~Thrower(a), born' = Stamp(a)
      PROVE  AgeInv'
  <2>1. CASE born[a] # "none"
    BY <1>1, <1>2, <2>1 DEF Stamp
  <2>2. CASE born[a] = "none"
    <3>1. born' = [born EXCEPT ![a] = "young"] /\ born \in [Addresses -> {"none", "young", "old"}]
      BY <1>2, <2>2 DEF Stamp, PlaceInv, Typed
    <3>2. a \notin overdue
      BY <1>2, <2>2 DEF AgeInv, OverdueIsOld
    <3>3. StampsOfTheLiving' /\ OldIsOverdue'
      BY <1>2, <3>1 DEF AgeInv, StampsOfTheLiving, OldIsOverdue
    <3>4. OverdueIsOld'
      BY <3>1, <3>2 DEF AgeInv, OverdueIsOld, Thrower, PlaceInv, Typed
    <3>5. ThrownUnstamped'
      BY <1>2, <3>1 DEF AgeInv, ThrownUnstamped, Thrower, PlaceInv, HandIsOpen, Has
    <3> QED BY <3>3, <3>4, <3>5 DEF AgeInv
  <2> QED BY <2>1, <2>2
<1> QED BY <1>1, <1>2

(* A task comes to throw the connection of its hands away.                   *)
LEMMA AgeEnds ==
  ASSUME PlaceInv, AgeInv, NEW t \in Tasks, NEW a \in Addresses, overdue' = overdue,
         at' = [at EXCEPT ![t] = "throwing"], hand' = [hand EXCEPT ![t] = a],
         at[t] # "throwing", born' = [born EXCEPT ![a] = "none"],
         \A u \in Tasks \ {t} : Has(u) => hand[u] # a,
         conn'[a] # "none", \A b \in Addresses \ {a} : conn'[b] = conn[b]
  PROVE  AgeInv'
<1> USE DEF PlaceInv, Typed
<1>1. at'[t] = "throwing" /\ hand'[t] = a /\ born'[a] = "none"
  OBVIOUS
<1>2. StampsOfTheLiving' /\ OldIsOverdue'
  BY DEF AgeInv, StampsOfTheLiving, OldIsOverdue
<1>3. ThrownUnstamped'
  BY <1>1 DEF AgeInv, ThrownUnstamped, HandIsOpen, Has
<1>4. OverdueIsOld'
  <2> SUFFICES ASSUME NEW b \in overdue PROVE born'[b] = "old" \/ Thrower(b)'
    BY DEF OverdueIsOld
  <2>1. CASE b = a
    BY <1>1, <2>1 DEF Thrower
  <2>2. CASE b # a
    BY <2>2 DEF AgeInv, OverdueIsOld, Thrower
  <2> QED BY <2>1, <2>2
<1> QED BY <1>2, <1>3, <1>4 DEF AgeInv

LEMMA TakeAges ==
  ASSUME PlaceInv, AgeInv, NEW t \in Tasks, NEW a \in Addresses, NEW n \in Nat, Take(t, a, n),
         at[t] \in {"asking", "connecting"}, \A u \in Tasks : Has(u) => hand[u] # a,
         conn'[a] # "none", \A b \in Addresses \ {a} : conn'[b] = conn[b],
         conn[a] # "none" \/ ~TooOld(a)
  PROVE  AgeInv'
<1> USE DEF PlaceInv
<1>1. ~Thrower(a)
  BY DEF Thrower, Has
<1>2. CASE TooOld(a)
  <2>1. /\ at' = [at EXCEPT ![t] = "throwing"] /\ hand' = [hand EXCEPT ![t] = a]
        /\ born' = [born EXCEPT ![a] = "none"] /\ overdue' = overdue
    BY <1>2, TakeFacts
  <2> QED BY <2>1, AgeEnds
<1>3. CASE ~TooOld(a)
  <2>1. /\ \/ at' = [at EXCEPT ![t] = "pinging"] /\ born' = born
           \/ at' = [at EXCEPT ![t] = "lent"] /\ born' = Stamp(a)
        /\ hand' = [hand EXCEPT ![t] = a] /\ overdue' = overdue
    BY <1>3, TakeFacts
  <2>2. /\ \A u \in Tasks : at'[u] = "throwing" <=> at[u] = "throwing"
        /\ \A u \in Tasks : at[u] = "throwing" => hand'[u] = hand[u]
    BY <2>1 DEF Typed
  <2>3. OverdueIsOld' /\ OldIsOverdue' /\ StampsOfTheLiving' /\ ThrownUnstamped'
    <3>1. CASE born' = born
      BY <2>1, <2>2, <3>1 DEF AgeInv, StampsOfTheLiving, ThrownUnstamped, OldIsOverdue, OverdueIsOld,
                              Thrower
    <3>2. CASE born[a] = "none" /\ born' = [born EXCEPT ![a] = "young"]
      <4>1. a \notin overdue
        BY <1>1, <3>2 DEF AgeInv, OverdueIsOld
      <4>2. StampsOfTheLiving' /\ OldIsOverdue'
        BY <2>1, <3>2 DEF AgeInv, StampsOfTheLiving, OldIsOverdue, Typed
      <4>3. OverdueIsOld'
        BY <2>1, <2>2, <3>2, <4>1 DEF AgeInv, OverdueIsOld, Thrower, Typed
      <4>4. ThrownUnstamped'
        BY <1>1, <2>2, <3>2 DEF AgeInv, ThrownUnstamped, Thrower, Typed, HandIsOpen, Has
      <4> QED BY <4>2, <4>3, <4>4
    <3> QED BY <2>1, <3>1, <3>2 DEF Stamp
  <2> QED BY <2>3 DEF AgeInv
<1> QED BY <1>2, <1>3

(* A connection that is thrown away leaves no stamp behind.                   *)
LEMMA DropAges ==
  ASSUME PlaceInv, AgeInv, NEW t \in Tasks, at[t] = "throwing", Drop(t), at'[t] # "throwing",
         \A u \in Tasks \ {t} : at'[u] = at[u], UNCHANGED born
  PROVE  AgeInv'
<1>1. /\ hand[t] \in Addresses /\ born[hand[t]] = "none"
      /\ conn' = [conn EXCEPT ![hand[t]] = "none"] /\ overdue' = overdue \ {hand[t]}
      /\ hand' = [hand EXCEPT ![t] = None]
  BY DEF Drop, PlaceInv, HandIsOpen, Has, AgeInv, ThrownUnstamped
<1>2. \A u \in Tasks \ {t} : hand'[u] = hand[u]
  BY <1>1 DEF PlaceInv, Typed
<1>3. StampsOfTheLiving' /\ OldIsOverdue'
  BY <1>1 DEF AgeInv, StampsOfTheLiving, OldIsOverdue, PlaceInv, Typed
<1>4. ThrownUnstamped'
  BY <1>2 DEF AgeInv, ThrownUnstamped
<1>5. OverdueIsOld'
  <2> SUFFICES ASSUME NEW b \in overdue, b # hand[t] PROVE born[b] = "old" \/ Thrower(b)'
    BY <1>1 DEF OverdueIsOld
  <2>1. CASE Thrower(b)
    <3>1. PICK u \in Tasks : at[u] = "throwing" /\ hand[u] = b
      BY <2>1 DEF Thrower
    <3> QED BY <1>2, <3>1 DEF Thrower
  <2> QED BY <2>1 DEF AgeInv, OverdueIsOld
<1> QED BY <1>3, <1>4, <1>5 DEF AgeInv

LEMMA AgeNext ==
  ASSUME "pinging" \notin Cancels
  PROVE  PlaceInv /\ AgeInv /\ [Next]_vars => AgeInv'
<1> SUFFICES ASSUME PlaceInv, AgeInv, [Next]_vars PROVE AgeInv'
  OBVIOUS
<1> USE DEF storeVars, ageVars
<1>1. ASSUME NEW t \in Tasks,
             \/ Acquire(t) \/ Connect(t) \/ BorrowFails(t) \/ GetLate(t) \/ Lend(t)
             \/ Work(t) \/ Commit(t) \/ Close(t) \/ Forget(t) \/ Rolled(t)
             \/ Cancel(t) /\ at[t] # "throwing"
      PROVE  AgeInv'
  <2>1. overdue' = overdue /\ conn' = conn
    BY <1>1, "pinging" \notin Cancels
       DEF Acquire, Connect, BorrowFails, GetLate, Lend, Work, Commit, Close, Forget, Rolled, Cancel
  <2>2. \A u \in Tasks : at'[u] = "throwing" <=> at[u] = "throwing"
    BY <1>1 DEF Acquire, Connect, BorrowFails, Refused, GetLate, Lend, Work, Commit, Close, Forget, Rolled,
                Cancel, GiveBack, GoTo, PlaceInv, Typed
  <2>3. \A u \in Tasks : at[u] = "throwing" => hand'[u] = hand[u]
    BY <1>1, "pinging" \notin Cancels
       DEF Acquire, Connect, BorrowFails, GetLate, Lend, Work, Commit, Close, Forget, Rolled, Cancel,
           PlaceInv, Typed
  <2>4. CASE born' = born
    BY <2>1, <2>2, <2>3, <2>4, AgesStay
  <2>5. CASE Lend(t)
    <3>1. at[t] = "pinging" /\ born' = Stamp(hand[t]) /\ hand[t] \in Addresses /\ conn[hand[t]] # "none"
      BY <2>5 DEF Lend, PlaceInv, HandIsOpen, Has
    <3>2. ~Thrower(hand[t])
      BY <3>1 DEF Thrower, PlaceInv, HeldOnce, Has
    <3> QED BY <2>1, <2>2, <2>3, <3>1, <3>2, AgesStay
  <2> QED BY <1>1, <2>4, <2>5
          DEF Acquire, Connect, BorrowFails, GetLate, Work, Commit, Close, Forget, Rolled, Cancel
<1>2. ASSUME NEW a \in Addresses, Break(a) PROVE AgeInv'
  BY <1>2, AgesStay DEF Break, PlaceInv, Typed
<1>3. CASE UNCHANGED vars
  BY <1>3, AgesStay DEF vars
<1>4. ASSUME NEW a \in Addresses, GrowOld(a) PROVE AgeInv'
  <2>1. /\ born[a] # "none" /\ conn[a] # "none" /\ born' = [born EXCEPT ![a] = "old"]
        /\ overdue' = overdue \cup {a} /\ UNCHANGED <<conn, at, hand>>
    BY <1>4 DEF GrowOld, AgeInv, StampsOfTheLiving
  <2>2. ~Thrower(a)
    BY <2>1 DEF Thrower, AgeInv, ThrownUnstamped
  <2>3. ThrownUnstamped'
    BY <2>1, <2>2 DEF AgeInv, ThrownUnstamped, Thrower, PlaceInv, Typed, HandIsOpen, Has
  <2> QED BY <2>1, <2>3
          DEF AgeInv, StampsOfTheLiving, OldIsOverdue, OverdueIsOld, Thrower, PlaceInv, Typed
<1>5. ASSUME NEW t \in Tasks, BorrowFree(t) PROVE AgeInv'
  <2> DEFINE a == Last(free)
  <2>1. /\ at[t] = "asking" /\ free # <<>> /\ Take(t, a, live) /\ UNCHANGED conn
        /\ free \in Seq(Addresses) /\ live \in Nat
    BY <1>5 DEF BorrowFree, PlaceInv, Typed
  <2>2. a \in Addresses /\ a = free[Len(free)] /\ Len(free) \in Nat \ {0}
    BY <2>1, FrontFacts
  <2>3. conn[a] # "none" /\ \A u \in Tasks : Has(u) => hand[u] # a
    BY <2>2 DEF PlaceInv, FreeIsOpen, HandNotFree
  <2> HIDE DEF a
  <2> QED BY <2>1, <2>2, <2>3, TakeAges
<1>6. ASSUME NEW t \in Tasks, Connected(t) PROVE AgeInv'
  <2>1. PICK a \in Addresses : /\ conn[a] = "none" /\ conn' = [conn EXCEPT ![a] = "open"]
                               /\ Take(t, a, live + 1)
    BY <1>6 DEF Connected
  <2>2. /\ at[t] = "connecting" /\ live + 1 \in Nat /\ ~TooOld(a)
        /\ \A u \in Tasks : Has(u) => hand[u] # a
    BY <1>6, <2>1 DEF Connected, TooOld, AgeInv, StampsOfTheLiving, PlaceInv, Typed, HandIsOpen
  <2>3. conn'[a] # "none" /\ \A b \in Addresses \ {a} : conn'[b] = conn[b]
    BY <2>1 DEF PlaceInv, Typed
  <2> QED BY <2>1, <2>2, <2>3, TakeAges
<1>7. ASSUME NEW t \in Tasks, PingFails(t) PROVE AgeInv'
  <2>1. /\ at[t] = "pinging" /\ at' = [at EXCEPT ![t] = "throwing"]
        /\ born' = [born EXCEPT ![hand[t]] = "none"] /\ UNCHANGED <<conn, overdue, hand>>
    BY <1>7 DEF PingFails, ThrowAway, GoTo
  <2>2. /\ hand[t] \in Addresses /\ conn[hand[t]] # "none"
        /\ \A u \in Tasks \ {t} : Has(u) => hand[u] # hand[t]
    BY <2>1 DEF PlaceInv, HandIsOpen, HeldOnce, Has
  <2>3. hand' = [hand EXCEPT ![t] = hand[t]]
    BY <2>1 DEF PlaceInv, Typed
  <2> QED BY <2>1, <2>2, <2>3, AgeEnds
<1>8. ASSUME NEW t \in Tasks, Thrown(t) \/ (Cancel(t) /\ at[t] = "throwing") PROVE AgeInv'
  <2>1. /\ at[t] = "throwing" /\ Drop(t) /\ at'[t] # "throwing" /\ UNCHANGED born
        /\ \A u \in Tasks \ {t} : at'[u] = at[u]
    BY <1>8 DEF Thrown, Cancel, GoTo, PlaceInv, Typed
  <2> QED BY <2>1, DropAges
<1>9. ASSUME NEW t \in Tasks, Cancel(t) PROVE AgeInv'
  BY <1>1, <1>8, <1>9
<1>10. ASSUME NEW t \in Tasks, Try(t) PROVE AgeInv'
  <2>1. CASE Connect(t) \/ BorrowFails(t) \/ Lend(t)
    BY <1>1, <2>1
  <2>2. CASE BorrowFree(t) \/ Connected(t)
    BY <1>5, <1>6, <2>2
  <2>3. CASE PingFails(t) \/ Thrown(t)
    BY <1>7, <1>8, <2>3
  <2> QED BY <1>10, <2>1, <2>2, <2>3 DEF Try
<1>11. ASSUME NEW t \in Tasks,
              \/ Acquire(t) \/ Try(t) \/ GetLate(t)
              \/ Work(t) \/ Commit(t) \/ Close(t) \/ Rolled(t) \/ Forget(t) \/ Cancel(t)
       PROVE  AgeInv'
  <2>1. CASE Try(t) \/ Cancel(t)
    BY <1>9, <1>10, <2>1
  <2>2. CASE \/ Acquire(t) \/ GetLate(t) \/ Work(t) \/ Commit(t) \/ Close(t) \/ Rolled(t)
             \/ Forget(t)
    BY <1>1, <2>2
  <2> QED BY <1>11, <2>1, <2>2
<1> QED BY <1>2, <1>3, <1>4, <1>11 DEF Next

(* A task that borrows decides by an age that is the connection's own.       *)
LEMMA DecidesByTheAge ==
  ASSUME PlaceInv, AgeInv, NEW t \in Tasks, BorrowFree(t) \/ Connected(t), Recycle
  PROVE  at'[t] = "throwing" <=> hand'[t] \in overdue
<1>1. PICK a \in Addresses, n \in Nat :
        /\ Take(t, a, n) /\ (TooOld(a) <=> a \in overdue)
  <2>1. CASE BorrowFree(t)
    <3> DEFINE a == Last(free)
    <3>1. Take(t, a, live) /\ free # <<>> /\ free \in Seq(Addresses) /\ live \in Nat
      BY <2>1 DEF BorrowFree, PlaceInv, Typed
    <3>2. a \in Addresses /\ a = free[Len(free)] /\ Len(free) \in Nat \ {0}
      BY <3>1, FrontFacts
    <3>3. ~Thrower(a)
      BY <3>2 DEF PlaceInv, HandNotFree, Thrower, Has
    <3>4. TooOld(a) <=> a \in overdue
      BY <3>2, <3>3, Recycle DEF TooOld, AgeInv, OldIsOverdue, OverdueIsOld
    <3> HIDE DEF a
    <3> QED BY <3>1, <3>2, <3>4
  <2>2. CASE Connected(t)
    <3>1. PICK a \in Addresses : conn[a] = "none" /\ Take(t, a, live + 1)
      BY <2>2 DEF Connected
    <3>2. a \notin overdue /\ born[a] = "none" /\ live + 1 \in Nat
      BY <3>1 DEF AgeInv, StampsOfTheLiving, PlaceInv, Typed
    <3> QED BY <3>1, <3>2 DEF TooOld
  <2> QED BY <2>1, <2>2
<1>2. Typed /\ hand'[t] = a
  BY <1>1, TakeFacts DEF PlaceInv, Typed
<1>3. at'[t] = "throwing" <=> TooOld(a)
  BY <1>1, <1>2, TakeFacts DEF Typed
<1> QED BY <1>1, <1>2, <1>3

(* "The pool would end up measuring the neighbour's age": it does not, unless *)
(* a task can be cancelled in its ping, though addresses are used again.      *)
THEOREM AgesAreTheirOwn ==
  ASSUME "pinging" \notin Cancels
  PROVE  Spec => AgeIsItsOwn
<1>1. PlaceInv /\ AgeInv /\ [Next]_vars => AgeInv'
  BY AgeNext
<1>2. PlaceInv /\ AgeInv =>
        \A t \in Tasks : BorrowFree(t) \/ Connected(t) =>
          (Recycle => (at'[t] = "throwing" <=> hand'[t] \in overdue))
  BY DecidesByTheAge
<1> QED BY <1>1, <1>2, InitPlace, PlaceNext, InitAge, PTL DEF Spec, AgeIsItsOwn

-----------------------------------------------------------------------------
(* The refinement. Uncommitted work is on a connection that is lent, or that *)
(* is being rolled back.                                                   *)
Uses(t) == at[t] \in {"lent", "rolling"}
CleanInv == \A a \in work : \E t \in Tasks : Uses(t) /\ hand[t] = a
LentTo(t) == IF at[t] = "lent" THEN hand[t] ELSE None

LEMMA InitClean == Init => CleanInv
  BY DEF Init, CleanInv

(* Nobody who uses a connection leaves it, and no work begins.               *)
LEMMA CleanStays ==
  ASSUME CleanInv, work' \subseteq work,
         \A t \in Tasks : Uses(t) => (Uses(t)' /\ hand'[t] = hand[t]) \/ hand[t] \notin work'
  PROVE  CleanInv'
<1> SUFFICES ASSUME NEW a \in work' PROVE \E t \in Tasks : Uses(t)' /\ hand'[t] = a
  BY DEF CleanInv
<1>1. PICK t \in Tasks : Uses(t) /\ hand[t] = a
  BY DEF CleanInv
<1> QED BY <1>1

LEMMA TakeUses ==
  ASSUME PlaceInv, NEW t \in Tasks, BorrowFree(t) \/ Connected(t)
  PROVE  \E a \in Addresses :
           /\ ~Uses(t) /\ UNCHANGED work /\ \A u \in Tasks : Has(u) => hand[u] # a
           /\ hand' = [hand EXCEPT ![t] = a]
           /\ \/ at' = [at EXCEPT ![t] = "lent"]
              \/ at' = [at EXCEPT ![t] = "throwing"]
              \/ at' = [at EXCEPT ![t] = "pinging"]
<1>1. Typed
  BY DEF PlaceInv
<1>2. CASE BorrowFree(t)
  <2> DEFINE a == Last(free)
  <2>1. /\ at[t] = "asking" /\ free # <<>> /\ Take(t, a, live)
        /\ free \in Seq(Addresses) /\ live \in Nat
    BY <1>1, <1>2 DEF BorrowFree, Typed
  <2>2. a \in Addresses /\ a = free[Len(free)] /\ Len(free) \in Nat \ {0}
    BY <2>1, FrontFacts
  <2>3. \A u \in Tasks : Has(u) => hand[u] # a
    BY <2>2 DEF PlaceInv, HandNotFree
  <2> HIDE DEF a
  <2> QED BY <1>1, <2>1, <2>2, <2>3, TakeFacts DEF Uses
<1>3. CASE Connected(t)
  <2>1. PICK a \in Addresses : conn[a] = "none" /\ Take(t, a, live + 1)
    BY <1>3 DEF Connected
  <2>2. at[t] = "connecting" /\ live + 1 \in Nat /\ \A u \in Tasks : Has(u) => hand[u] # a
    BY <1>3, <2>1 DEF Connected, PlaceInv, Typed, HandIsOpen
  <2> QED BY <1>1, <2>1, <2>2, TakeFacts DEF Uses
<1> QED BY <1>2, <1>3

LEMMA CleanNext ==
  ASSUME "rolling" \notin Cancels
  PROVE  PlaceInv /\ CleanInv /\ [Next]_vars => CleanInv'
<1> SUFFICES ASSUME PlaceInv, CleanInv, [Next]_vars PROVE CleanInv'
  OBVIOUS
<1> USE DEF storeVars, ageVars
<1>1. ASSUME NEW t \in Tasks,
             \/ Acquire(t) \/ Connect(t) \/ BorrowFails(t) \/ GetLate(t) \/ Lend(t) \/ PingFails(t)
             \/ Thrown(t) \/ Commit(t) \/ Close(t) \/ Forget(t) \/ Cancel(t)
      PROVE  CleanInv'
  <2>1. work' \subseteq work
    BY <1>1 DEF Acquire, Connect, BorrowFails, GetLate, Lend, PingFails, Thrown, Commit, Close, Forget,
                Cancel, Drop
  <2>2. \A u \in Tasks : Uses(u) => Uses(u)' /\ hand'[u] = hand[u]
    BY <1>1, "rolling" \notin Cancels, CancelsAssumption
       DEF Acquire, Connect, BorrowFails, Refused, GetLate, Lend, PingFails, ThrowAway, Thrown, Commit,
           Close, Returned, Forget, Cancel, Drop, GoTo, Uses, Awaits, Acquiring, PlaceInv, Typed
  <2> QED BY <2>1, <2>2, CleanStays
<1>2. ASSUME NEW a \in Addresses, Break(a) \/ GrowOld(a) PROVE CleanInv'
  BY <1>2, CleanStays DEF Break, GrowOld, Uses
<1>3. CASE UNCHANGED vars
  BY <1>3, CleanStays DEF vars, Uses
<1>4. ASSUME NEW t \in Tasks, BorrowFree(t) \/ Connected(t) PROVE CleanInv'
  <2>1. work' = work /\ \A u \in Tasks : Uses(u) => Uses(u)' /\ hand'[u] = hand[u]
    BY <1>4, TakeUses DEF Uses, PlaceInv, Typed
  <2> QED BY <2>1, CleanStays
<1>5. ASSUME NEW t \in Tasks, Work(t) PROVE CleanInv'
  BY <1>5 DEF Work, CleanInv, Uses
<1>6. ASSUME NEW t \in Tasks, Rolled(t) PROVE CleanInv'
  <2>1. work' = work \ {hand[t]} /\ \A u \in Tasks \ {t} : at'[u] = at[u] /\ hand'[u] = hand[u]
    BY <1>6 DEF Rolled, GiveBack, GoTo, PlaceInv, Typed
  <2> QED BY <2>1, CleanStays DEF Uses
<1> QED BY <1>1, <1>2, <1>3, <1>4, <1>5, <1>6 DEF Next, Try

LEMMA LenderNext ==
  ASSUME "rolling" \notin Cancels
  PROVE  PlaceInv /\ CleanInv /\ [Next]_vars
           => [Lender!Next]_<<[t \in Tasks |-> IF at[t] = "lent" THEN hand[t] ELSE None], work>>
<1> DEFINE lent == [t \in Tasks |-> LentTo(t)]
<1> SUFFICES ASSUME PlaceInv, CleanInv, [Next]_vars PROVE [Lender!Next]_<<lent, work>>
  BY DEF LentTo
<1> USE DEF storeVars, ageVars
<1>1. ASSUME NEW t \in Tasks,
             \/ Acquire(t) \/ Connect(t) \/ BorrowFails(t) \/ GetLate(t) \/ PingFails(t)
             \/ Thrown(t) \/ Commit(t) \/ Rolled(t) \/ Forget(t) \/ Cancel(t)
      PROVE  Lender!EndWork
  <2>1. work' \subseteq work
    BY <1>1 DEF Acquire, Connect, BorrowFails, GetLate, PingFails, Thrown, Commit, Rolled, Forget,
                Cancel, Drop
  <2>2. \A u \in Tasks : at'[u] = "lent" <=> at[u] = "lent"
    BY <1>1, CancelsAssumption
       DEF Acquire, Connect, BorrowFails, Refused, GetLate, PingFails, ThrowAway, Thrown, Commit,
           Rolled, GiveBack, Forget, Cancel, GoTo, Awaits, Acquiring, PlaceInv, Typed
  <2>3. \A u \in Tasks : at[u] = "lent" => hand'[u] = hand[u]
    BY <1>1, CancelsAssumption
       DEF Acquire, Connect, BorrowFails, GetLate, PingFails, Thrown, Commit, Rolled, Forget, Cancel,
           Drop, Awaits, Acquiring, PlaceInv, Typed
  <2> QED BY <2>1, <2>2, <2>3 DEF Lender!EndWork
<1>2. ASSUME NEW a \in Addresses, Break(a) \/ GrowOld(a) PROVE Lender!EndWork
  BY <1>2 DEF Break, GrowOld, Lender!EndWork
<1>3. CASE UNCHANGED vars
  BY <1>3 DEF vars, LentTo
<1>4. ASSUME NEW t \in Tasks, NEW a \in Addresses, at[t] # "lent", a \notin work,
             \A u \in Tasks \ {t} : Uses(u) => hand[u] # a,
             hand' = [hand EXCEPT ![t] = a], at' = [at EXCEPT ![t] = "lent"], UNCHANGED work
      PROVE  Lender!Lend(t, a)
  <2>1. lent[t] = None /\ a # None
    BY <1>4, AddressesAssumption DEF LentTo
  <2>2. \A u \in Tasks : lent[u] # a
    BY <1>4, <2>1 DEF LentTo, Uses
  <2>3. lent' = [lent EXCEPT ![t] = a]
    BY <1>4 DEF LentTo, PlaceInv, Typed
  <2> QED BY <1>4, <2>1, <2>2, <2>3 DEF Lender!Lend, LentTo
<1>5. ASSUME NEW t \in Tasks, BorrowFree(t) \/ Connected(t)
      PROVE  Lender!EndWork \/ \E a \in Addresses : Lender!Lend(t, a)
  <2>1. PICK a \in Addresses :
          /\ ~Uses(t) /\ UNCHANGED work /\ \A u \in Tasks : Has(u) => hand[u] # a
          /\ hand' = [hand EXCEPT ![t] = a]
          /\ \/ at' = [at EXCEPT ![t] = "lent"]
             \/ at' = [at EXCEPT ![t] = "throwing"]
             \/ at' = [at EXCEPT ![t] = "pinging"]
    BY <1>5, TakeUses
  <2>2. CASE at' = [at EXCEPT ![t] = "lent"]
    BY <1>4, <2>1, <2>2 DEF CleanInv, Uses, Has
  <2>3. CASE at' = [at EXCEPT ![t] = "throwing"] \/ at' = [at EXCEPT ![t] = "pinging"]
    BY <2>1, <2>3 DEF Lender!EndWork, LentTo, Uses, PlaceInv, Typed
  <2> QED BY <2>1, <2>2, <2>3
<1>6. ASSUME NEW t \in Tasks, Lend(t) PROVE \E a \in Addresses : Lender!Lend(t, a)
  <2>1. /\ at[t] = "pinging" /\ at' = [at EXCEPT ![t] = "lent"] /\ UNCHANGED <<hand, work>>
        /\ hand[t] \in Addresses /\ hand' = [hand EXCEPT ![t] = hand[t]]
    BY <1>6 DEF Lend, GoTo, PlaceInv, Typed, HandIsOpen, Has
  <2>2. \A u \in Tasks \ {t} : Uses(u) => hand[u] # hand[t]
    BY <2>1 DEF PlaceInv, HeldOnce, Has, Uses
  <2>3. hand[t] \notin work
    BY <2>1, <2>2 DEF CleanInv, Uses
  <2> QED BY <1>4, <2>1, <2>2, <2>3
<1>7. ASSUME NEW t \in Tasks, Work(t) PROVE Lender!Work(t)
  <2>1. lent[t] = hand[t] /\ hand[t] # None
    BY <1>7, AddressesAssumption DEF Work, LentTo, PlaceInv, HandIsOpen, Has
  <2> QED BY <1>7, <2>1 DEF Work, LentTo, Lender!Work
<1>8. ASSUME NEW t \in Tasks, Close(t) PROVE Lender!TakeBack(t)
  <2>1. /\ at[t] = "lent" /\ at' = [at EXCEPT ![t] = "rolling"] /\ UNCHANGED <<hand, work>>
    BY <1>8 DEF Close, Returned, GoTo
  <2>2. lent[t] # None
    BY <2>1, AddressesAssumption DEF LentTo, PlaceInv, HandIsOpen, Has
  <2>3. lent' = [lent EXCEPT ![t] = None]
    BY <2>1 DEF LentTo, PlaceInv, Typed
  <2> QED BY <2>1, <2>2, <2>3 DEF LentTo, Lender!TakeBack
<1> QED
  BY <1>1, <1>2, <1>3, <1>5, <1>6, <1>7, <1>8 DEF Next, Try, Lender!Next

(* Connections are lent to one task at a time, "ROLLED BACK": every behaviour *)
(* of the pool is one of the lender, unless a task can be cancelled in its   *)
(* rollback.                                                               *)
THEOREM LoansAreClean ==
  ASSUME "rolling" \notin Cancels
  PROVE  Spec => LendsCleanConnections
<1>1. Init => Lender!Init
  BY DEF Init, Lender!Init
<1>2. PlaceInv /\ CleanInv /\ [Next]_vars => CleanInv'
  BY CleanNext
<1>3. PlaceInv /\ CleanInv /\ [Next]_vars
        => [Lender!Next]_<<[t \in Tasks |-> IF at[t] = "lent" THEN hand[t] ELSE None], work>>
  BY LenderNext
<1> QED BY <1>1, <1>2, <1>3, InitPlace, PlaceNext, InitClean, PTL
        DEF Spec, LendsCleanConnections, Lender!Spec
=============================================================================
