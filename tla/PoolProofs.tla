----------------------------- MODULE PoolProofs -----------------------------
(***************************************************************************)
(* No connection is lent twice and none is lost, for any number of threads, *)
(* any pool and any choice of its knobs.                                   *)
(***************************************************************************)
EXTENDS Pool, SequenceTheorems, TLAPS

(* Where each connection is: free once, or counted as lent, or neither.      *)
Free == {idle[i] : i \in 1..Len(idle)}
Typed ==
  /\ idle \in Seq(Conns) /\ used \subseteq Conns
  /\ conn \in [Conns -> {"fresh", "open", "broken", "closed"}]
  /\ at \in [Threads -> Places] /\ hand \in [Threads -> Conns \cup {None}]
  /\ shut \in BOOLEAN
OnceFree == \A i, j \in 1..Len(idle) : i # j => idle[i] # idle[j]
FreeNotUsed == Free \cap used = {}
FreshNowhere == \A c \in Conns : conn[c] = "fresh" => c \notin used /\ c \notin Free
HeldUsed == \A t \in Threads : at[t] \in Holding => hand[t] \in used
HeldOnce == \A t, u \in Threads : at[t] \in Holding /\ at[u] \in Holding /\ hand[t] = hand[u] => t = u

Inv == /\ Typed /\ OnceFree /\ FreeNotUsed /\ FreshNowhere /\ HeldUsed /\ HeldOnce
       /\ NothingLeaks

LEMMA InitInv == Init => Inv
<1> SUFFICES ASSUME Init PROVE Inv
  OBVIOUS
<1>1. PICK open \in kSubset(MinConn, Conns) :
        /\ idle \in SetToSeqs(open)
        /\ conn = [c \in Conns |-> IF c \in open THEN "open" ELSE "fresh"]
  BY DEF Init
<1>2. open \subseteq Conns /\ Cardinality(open) = MinConn
  BY <1>1 DEF kSubset
<1>3. /\ idle \in [1..MinConn -> open]
      /\ \A i, j \in 1..MinConn : i # j => idle[i] # idle[j]
  BY <1>1, <1>2 DEF SetToSeqs
<1>4. idle \in Seq(Conns) /\ Len(idle) = MinConn
  BY <1>2, <1>3, SizeAssumption
<1>5. OnceFree /\ FreshNowhere /\ FreeNotUsed
  BY <1>1, <1>3, <1>4 DEF OnceFree, FreshNowhere, FreeNotUsed, Free, Init
<1>6. Typed /\ HeldUsed /\ HeldOnce /\ NothingLeaks
  BY <1>1, <1>4 DEF Typed, HeldUsed, HeldOnce, NothingLeaks, Init, Places, Holding
<1> QED BY <1>5, <1>6 DEF Inv

-----------------------------------------------------------------------------
(* A step that moves no connection between the free, the lent and the hands. *)
LEMMA QuietStep ==
  ASSUME Inv, UNCHANGED <<idle, used, hand, shut>>, at' \in [Threads -> Places],
         conn' \in [Conns -> {"fresh", "open", "broken", "closed"}],
         \A c \in Conns : conn'[c] = "fresh" => conn[c] = "fresh",
         \A t \in Threads : at'[t] \in Holding <=> at[t] \in Holding
  PROVE  Inv'
  BY DEF Inv, Typed, OnceFree, FreeNotUsed, FreshNowhere, HeldUsed, HeldOnce, NothingLeaks, Free

(* A thread takes in hand a connection that is neither free any more nor    *)
(* counted as lent.                                                        *)
LEMMA HoldStep ==
  ASSUME Inv, NEW t \in Threads, NEW c \in Conns, c \notin used,
         at[t] = "borrowing", Hold(t, c), ~shut, UNCHANGED shut, Free' = Free \ {c},
         idle' \in Seq(Conns), OnceFree',
         conn' \in [Conns -> {"fresh", "open", "broken", "closed"}],
         \A d \in Conns : conn'[d] = "fresh" => conn[d] = "fresh" /\ d # c
  PROVE  Inv'
<1> USE DEF Inv
<1>1. /\ at' = [at EXCEPT ![t] = "checking"] /\ hand' = [hand EXCEPT ![t] = c]
      /\ used' = used \cup {c}
  BY DEF Hold, GoTo
<1>2. Typed'
  BY <1>1 DEF Typed, Places
<1>3. FreeNotUsed' /\ FreshNowhere'
  BY <1>1 DEF FreeNotUsed, FreshNowhere
<1>4. /\ hand'[t] = c
      /\ \A u \in Threads \ {t} : at'[u] = at[u] /\ hand'[u] = hand[u]
  BY <1>1 DEF Typed
<1>5. HeldUsed'
  <2>1. ASSUME NEW u \in Threads, at'[u] \in Holding PROVE hand'[u] \in used'
    <3>1. CASE u = t
      BY <1>1, <1>4, <3>1
    <3>2. CASE u # t
      BY <1>1, <1>4, <2>1, <3>2 DEF HeldUsed
    <3> QED BY <3>1, <3>2
  <2> QED BY <2>1 DEF HeldUsed
<1>6. HeldOnce'
  <2>1. ASSUME NEW u \in Threads \ {t}, at'[u] \in Holding PROVE hand'[u] # c
    <3>1. at[u] \in Holding /\ hand[u] = hand'[u]
      BY <1>4, <2>1
    <3> QED BY <3>1 DEF HeldUsed
  <2> QED BY <1>4, <2>1 DEF HeldOnce
<1>7. NothingLeaks'
  <2>1. at[t] \notin Holding
    BY DEF Holding
  <2>2. ASSUME NEW d \in used' PROVE \E u \in Threads : at'[u] \in Holding /\ hand'[u] = d
    <3>1. CASE d = c
      BY <1>1, <3>1 DEF Typed, Holding
    <3>2. CASE d # c
      <4>1. PICK u \in Threads : at[u] \in Holding /\ hand[u] = d
        BY <1>1, <3>2 DEF NothingLeaks
      <4> QED BY <1>1, <2>1, <4>1 DEF Typed
    <3> QED BY <3>1, <3>2
  <2> QED BY <2>2 DEF NothingLeaks
<1> QED BY <1>2, <1>3, <1>5, <1>6, <1>7

LEMMA FrontFacts ==
  ASSUME NEW S, NEW s \in Seq(S), s # <<>>
  PROVE  /\ Front(s) \in Seq(S) /\ Len(s) \in Nat \ {0} /\ Len(Front(s)) = Len(s) - 1
         /\ \A i \in 1..(Len(s) - 1) : Front(s)[i] = s[i]
<1>1. Len(s) \in Nat \ {0}
  BY EmptySeq, LenProperties
<1>2. \A i \in 1..(Len(s) - 1) : s[i] \in S
  BY <1>1
<1>3. /\ SubSeq(s, 1, Len(s) - 1) \in Seq(S)
      /\ Len(SubSeq(s, 1, Len(s) - 1)) = Len(s) - 1
      /\ \A i \in 1..(Len(s) - 1) : SubSeq(s, 1, Len(s) - 1)[i] = s[i]
  <2> DEFINE n == Len(s) - 1
  <2>1. n \in Int /\ 1 \in Int /\ n >= 0
    BY <1>1
  <2>2. \A i \in 1..n : s[i] \in S
    BY <1>2
  <2> HIDE DEF n
  <2>3. /\ SubSeq(s, 1, n) \in Seq(S)
        /\ Len(SubSeq(s, 1, n)) = IF 1 <= n THEN n - 1 + 1 ELSE 0
        /\ \A i \in 1..(n - 1 + 1) : SubSeq(s, 1, n)[i] = s[1 + i - 1]
    BY <2>1, <2>2, SubSeqProperties
  <2>4. Len(SubSeq(s, 1, n)) = n /\ \A i \in 1..n : SubSeq(s, 1, n)[i] = s[i]
    BY <2>1, <2>3
  <2> QED BY <2>3, <2>4 DEF n
<1> QED BY <1>1, <1>3 DEF Front

LEMMA BorrowIdleStep ==
  ASSUME Inv, NEW t \in Threads, BorrowIdle(t)
  PROVE  Inv'
<1> DEFINE c == Last(idle)
<1>1. /\ idle \in Seq(Conns) /\ idle # <<>> /\ at[t] = "borrowing" /\ ~shut
      /\ Hold(t, c) /\ idle' = Front(idle) /\ UNCHANGED <<conn, shut>>
  BY DEF BorrowIdle, Inv, Typed
<1>2. /\ Len(idle) \in Nat \ {0} /\ c \in Conns /\ c \in Free /\ c = idle[Len(idle)]
  BY <1>1 DEF Last, Free
<1>3. /\ idle' \in Seq(Conns) /\ Len(idle') = Len(idle) - 1
      /\ \A i \in 1..(Len(idle) - 1) : idle'[i] = idle[i]
  BY <1>1, FrontFacts
<1>4. \A i \in 1..(Len(idle) - 1) : idle[i] # c
  BY <1>2 DEF OnceFree, Inv
<1>5. OnceFree' /\ Free' = Free \ {c}
  <2>1. OnceFree'
    BY <1>2, <1>3 DEF OnceFree, Inv
  <2>2. Free' \subseteq Free \ {c}
    BY <1>2, <1>3, <1>4 DEF Free
  <2>3. ASSUME NEW d \in Free, d # c PROVE d \in Free'
    <3>1. PICK i \in 1..Len(idle) : d = idle[i]
      BY DEF Free
    <3>2. i \in 1..(Len(idle) - 1)
      BY <1>2, <2>3, <3>1
    <3> QED BY <1>2, <1>3, <3>1, <3>2 DEF Free
  <2> QED BY <2>1, <2>2, <2>3
<1>6. c \notin used /\ conn[c] # "fresh"
  BY <1>2 DEF Inv, FreeNotUsed, FreshNowhere
<1> HIDE DEF c
<1> QED BY <1>1, <1>2, <1>3, <1>5, <1>6, HoldStep DEF Inv, Typed

LEMMA BorrowNewStep ==
  ASSUME Inv, NEW t \in Threads, BorrowNew(t)
  PROVE  Inv'
<1>1. PICK c \in Conns : conn[c] = "fresh" /\ Hold(t, c) /\ conn' = [conn EXCEPT ![c] = "open"]
  BY DEF BorrowNew
<1>2. at[t] = "borrowing" /\ ~shut /\ UNCHANGED <<idle, shut>>
  BY DEF BorrowNew
<1>3. c \notin used /\ c \notin Free
  BY <1>1 DEF Inv, FreshNowhere
<1>4. Free' = Free \ {c} /\ OnceFree' /\ idle' \in Seq(Conns)
  BY <1>2, <1>3 DEF Free, OnceFree, Inv, Typed
<1>5. /\ conn' \in [Conns -> {"fresh", "open", "broken", "closed"}]
      /\ \A d \in Conns : conn'[d] = "fresh" => conn[d] = "fresh" /\ d # c
  BY <1>1 DEF Inv, Typed
<1> QED BY <1>1, <1>2, <1>3, <1>4, <1>5, HoldStep

(* A thread lets go of its connection: it is no longer counted as lent, or   *)
(* the pool is shut.                                                       *)
LEMMA LetGoStep ==
  ASSUME Inv, NEW t \in Threads, at[t] \in Holding, UNCHANGED shut,
         at' \in [Threads -> Places], hand' \in [Threads -> Conns \cup {None}],
         at'[t] \notin Holding,
         \A u \in Threads \ {t} : at'[u] = at[u] /\ hand'[u] = hand[u],
         used' = IF shut THEN used ELSE used \ {hand[t]},
         idle' \in Seq(Conns), OnceFree', Free' \subseteq Free \cup {hand[t]},
         shut => Free' = Free,
         conn' \in [Conns -> {"fresh", "open", "broken", "closed"}],
         \A c \in Conns : conn'[c] = "fresh" =>
            conn[c] = "fresh" \/ (c = hand[t] /\ ~shut /\ Free' = Free)
  PROVE  Inv'
<1> USE DEF Inv
<1>1. hand[t] \in used /\ hand[t] \in Conns
  BY DEF HeldUsed, Typed
<1>2. Typed'
  BY DEF Typed
<1>3. FreeNotUsed' /\ FreshNowhere'
  BY <1>1 DEF FreeNotUsed, FreshNowhere
<1>4. HeldUsed' /\ HeldOnce'
  BY DEF HeldUsed, HeldOnce
<1>5. NothingLeaks'
  BY DEF NothingLeaks, HeldOnce
<1> QED BY <1>2, <1>3, <1>4, <1>5

LEMMA ThrowAwayStep ==
  ASSUME Inv, NEW t \in Threads, ThrowAway(t)
  PROVE  Inv'
<1>1. /\ at[t] = "discarding" /\ at[t] \in Holding /\ UNCHANGED <<idle, shut>>
      /\ \/ at' = [at EXCEPT ![t] = "out"]
         \/ at' = [at EXCEPT ![t] = "borrowing"]
      /\ hand' = [hand EXCEPT ![t] = None]
      /\ used' = IF shut THEN used ELSE used \ {hand[t]}
      /\ conn' = [conn EXCEPT ![hand[t]] = IF shut THEN "closed" ELSE "fresh"]
  BY DEF ThrowAway, GoTo, Holding
<1>2. hand[t] \in Conns /\ hand[t] \in used
  BY <1>1 DEF Inv, HeldUsed, Typed
<1>3. /\ at' \in [Threads -> Places] /\ hand' \in [Threads -> Conns \cup {None}]
      /\ at'[t] \notin Holding
      /\ \A u \in Threads \ {t} : at'[u] = at[u] /\ hand'[u] = hand[u]
  BY <1>1 DEF Inv, Typed, Places, Holding
<1>4. /\ conn' \in [Conns -> {"fresh", "open", "broken", "closed"}]
      /\ \A c \in Conns : conn'[c] = "fresh" => conn[c] = "fresh" \/ (c = hand[t] /\ ~shut)
  BY <1>1, <1>2 DEF Inv, Typed
<1>5. idle' \in Seq(Conns) /\ OnceFree' /\ Free' = Free
  BY <1>1 DEF Inv, Typed, OnceFree, Free
<1> QED BY <1>1, <1>3, <1>4, <1>5, LetGoStep

LEMMA GiveBackStep ==
  ASSUME Inv, NEW t \in Threads, GiveBack(t)
  PROVE  Inv'
<1>1. /\ at[t] = "returning" /\ at[t] \in Holding /\ UNCHANGED <<hand, shut>>
      /\ at' = [at EXCEPT ![t] = "returned"]
      /\ used' = IF shut THEN used ELSE used \ {hand[t]}
  BY DEF GiveBack, GoTo, Holding
<1>2. hand[t] \in Conns /\ hand[t] \in used /\ hand[t] \notin Free
  BY <1>1 DEF Inv, HeldUsed, Typed, FreeNotUsed
<1>3. /\ at' \in [Threads -> Places] /\ hand' \in [Threads -> Conns \cup {None}]
      /\ at'[t] \notin Holding
      /\ \A u \in Threads \ {t} : at'[u] = at[u] /\ hand'[u] = hand[u]
  BY <1>1 DEF Inv, Typed, Places, Holding
<1>4. CASE shut \/ ~Keeps(hand[t])
  <2>1. /\ UNCHANGED idle
        /\ conn' = conn \/ conn' = [conn EXCEPT ![hand[t]] = "closed"]
    BY <1>4 DEF GiveBack, Close
  <2>2. /\ conn' \in [Conns -> {"fresh", "open", "broken", "closed"}]
        /\ \A c \in Conns : conn'[c] = "fresh" => conn[c] = "fresh"
    BY <1>2, <2>1 DEF Inv, Typed
  <2>3. idle' \in Seq(Conns) /\ OnceFree' /\ Free' = Free
    BY <2>1 DEF Inv, Typed, OnceFree, Free
  <2> QED BY <1>1, <1>3, <2>2, <2>3, LetGoStep
<1>5. CASE ~shut /\ Keeps(hand[t])
  <2>1. idle' = Append(idle, hand[t]) /\ UNCHANGED conn
    BY <1>5 DEF GiveBack
  <2>2. /\ idle \in Seq(Conns) /\ idle' \in Seq(Conns) /\ Len(idle) \in Nat
        /\ Len(idle') = Len(idle) + 1 /\ idle'[Len(idle) + 1] = hand[t]
        /\ \A i \in 1..Len(idle) : idle'[i] = idle[i]
    BY <1>2, <2>1 DEF Inv, Typed
  <2>3. OnceFree' /\ Free' = Free \cup {hand[t]}
    BY <1>2, <2>2 DEF OnceFree, Free, Inv
  <2>4. conn' \in [Conns -> {"fresh", "open", "broken", "closed"}]
    BY <2>1 DEF Inv, Typed
  <2> QED BY <1>1, <1>3, <1>5, <2>1, <2>2, <2>3, <2>4, LetGoStep
<1> QED BY <1>4, <1>5

LEMMA ForgetStep ==
  ASSUME Inv, NEW t \in Threads, Forget(t)
  PROVE  Inv'
<1>1. /\ at[t] = "returned" /\ at' = [at EXCEPT ![t] = "out"] /\ hand' = [hand EXCEPT ![t] = None]
      /\ UNCHANGED <<idle, used, conn, shut>>
  BY DEF Forget, GoTo, backendVars
<1>2. /\ at[t] \notin Holding /\ at'[t] \notin Holding
      /\ \A u \in Threads \ {t} : at'[u] = at[u] /\ hand'[u] = hand[u]
  BY <1>1 DEF Inv, Typed, Holding
<1>3. Typed'
  BY <1>1 DEF Inv, Typed, Places
<1>4. OnceFree' /\ FreeNotUsed' /\ FreshNowhere'
  BY <1>1 DEF Inv, OnceFree, FreeNotUsed, FreshNowhere, Free
<1>5. HeldUsed' /\ HeldOnce'
  BY <1>1, <1>2 DEF Inv, HeldUsed, HeldOnce
<1>6. NothingLeaks'
  <2>1. ASSUME ~shut, NEW c \in used PROVE \E u \in Threads : at'[u] \in Holding /\ hand'[u] = c
    <3>1. PICK u \in Threads : at[u] \in Holding /\ hand[u] = c
      BY <2>1 DEF Inv, NothingLeaks
    <3> QED BY <1>2, <3>1
  <2> QED BY <1>1, <2>1 DEF NothingLeaks
<1> QED BY <1>3, <1>4, <1>5, <1>6 DEF Inv

LEMMA CloseAllStep == Inv /\ CloseAll => Inv'
<1> SUFFICES ASSUME Inv, CloseAll PROVE Inv'
  OBVIOUS
<1>1. /\ shut' /\ UNCHANGED <<idle, used, at, hand>> /\ shut' \in BOOLEAN
      /\ conn' = [c \in Conns |-> IF c \in used \cup Range(idle) THEN "closed" ELSE conn[c]]
  BY DEF CloseAll, threadVars
<1>2. /\ \A c \in Conns : conn'[c] = "fresh" => conn[c] = "fresh"
      /\ conn' \in [Conns -> {"fresh", "open", "broken", "closed"}]
  BY <1>1 DEF Inv, Typed
<1>3. Typed' /\ FreshNowhere'
  BY <1>1, <1>2 DEF Inv, Typed, FreshNowhere, Free
<1>4. NothingLeaks'
  BY <1>1 DEF NothingLeaks
<1> QED BY <1>1, <1>3, <1>4 DEF Inv, OnceFree, FreeNotUsed, HeldUsed, HeldOnce, Free

LEMMA NextInv == Inv /\ [Next]_vars => Inv'
<1> SUFFICES ASSUME Inv, [Next]_vars PROVE Inv'
  OBVIOUS
<1> USE DEF backendVars, ageVars, threadVars
<1>1. ASSUME NEW t \in Threads,
             \/ Acquire(t) \/ BorrowFails(t) \/ GetLate(t) \/ CheckAge(t) \/ Lend(t) \/ PingFails(t)
             \/ Work(t) \/ CommitWork(t) \/ CloseLoan(t)
             \/ RollsBack(t) \/ RollbackFails(t) \/ RollbackUnneeded(t)
      PROVE  Inv'
  <2>1. UNCHANGED <<idle, used, hand, shut>>
    BY <1>1 DEF Acquire, BorrowFails, GetLate, CheckAge, Lend, PingFails, Work, CommitWork,
                CloseLoan, RollsBack, RollbackFails, RollbackUnneeded
  <2>2. /\ at' \in [Threads -> Places]
        /\ \A u \in Threads : at'[u] \in Holding <=> at[u] \in Holding
    BY <1>1 DEF Acquire, BorrowFails, GetLate, CheckAge, Lend, PingFails, Work, CommitWork, CloseLoan,
                Returned, RollsBack, RollbackFails, RollbackUnneeded, GoTo, Places, Holding, Inv, Typed
  <2>3. conn' = conn \/ conn' = [conn EXCEPT ![hand[t]] = "closed"]
    BY <1>1 DEF Acquire, BorrowFails, GetLate, CheckAge, Lend, PingFails, Work, CommitWork, CloseLoan,
                RollsBack, RollbackFails, RollbackUnneeded, Close
  <2>4. /\ conn' \in [Conns -> {"fresh", "open", "broken", "closed"}]
        /\ \A c \in Conns : conn'[c] = "fresh" => conn[c] = "fresh"
    BY <2>3 DEF Inv, Typed
  <2> QED BY <2>1, <2>2, <2>4, QuietStep
<1>2. ASSUME NEW c \in Conns, Break(c) \/ GrowOld(c) PROVE Inv'
  <2>1. /\ UNCHANGED <<idle, used, hand, shut, at>>
        /\ conn' = conn \/ conn' = [conn EXCEPT ![c] = "broken"]
    BY <1>2 DEF Break, GrowOld
  <2> QED BY <2>1, QuietStep DEF Inv, Typed
<1>3. CASE UNCHANGED vars
  BY <1>3, QuietStep DEF vars, Inv, Typed
<1> QED
  BY <1>1, <1>2, <1>3, BorrowIdleStep, BorrowNewStep, ThrowAwayStep, GiveBackStep, ForgetStep,
     CloseAllStep DEF Next, Try, Borrow, Return

-----------------------------------------------------------------------------
LEMMA InvImpliesExclusive == Inv => Exclusive
  BY DEF Inv, Exclusive, HeldOnce, HeldUsed, FreeNotUsed, Free, Range, Typed

(* A connection is never in two hands, nor free while somebody holds it,     *)
(* whatever closes twice, breaks, or is thrown away.                        *)
THEOREM LoansAreExclusive == Spec => []Exclusive
<1>1. Inv => Exclusive
  BY InvImpliesExclusive
<1> QED BY <1>1, InitInv, NextInv, PTL DEF Spec

(* A connection the backend counts as lent is always in the hands of a       *)
(* thread on its way to give it back, however rollbacks and pings fail.     *)
THEOREM LoansComeBack == Spec => []NothingLeaks
<1>1. Inv => NothingLeaks
  BY DEF Inv
<1> QED BY <1>1, InitInv, NextInv, PTL DEF Spec
-----------------------------------------------------------------------------
(* The refinement. Uncommitted work is on an open connection that a thread   *)
(* uses or is rolling back: what follows the rollback finds none.           *)
Uses(t) == at[t] \in {"lent", "rolling"}
WorkIsUsed == \A c \in work : conn[c] = "open" /\ \E t \in Threads : Uses(t) /\ hand[t] = c
WorkInv == work \subseteq Conns /\ WorkIsUsed
LentTo(t) == IF at[t] = "lent" THEN hand[t] ELSE None

LEMMA InitWork == Init => WorkInv
  BY DEF Init, WorkInv, WorkIsUsed

(* No work begins; a thread that leaves its connection, and a connection     *)
(* that is no longer open, has none.                                       *)
LEMMA WorkStays ==
  ASSUME WorkInv, work' \subseteq work, \A c \in work' : conn'[c] = "open",
         \A t \in Threads : Uses(t) => (Uses(t)' /\ hand'[t] = hand[t]) \/ hand[t] \notin work'
  PROVE  WorkInv'
<1> SUFFICES ASSUME NEW c \in work' PROVE \E t \in Threads : Uses(t)' /\ hand'[t] = c
  BY DEF WorkInv, WorkIsUsed
<1>1. PICK t \in Threads : Uses(t) /\ hand[t] = c
  BY DEF WorkInv, WorkIsUsed
<1> QED BY <1>1

(* Who holds a connection without using it holds no work.                   *)
LEMMA HeldWithoutWork ==
  ASSUME Inv, WorkInv, NEW t \in Threads, at[t] \in Holding, ~Uses(t)
  PROVE  hand[t] \notin work
  BY DEF Inv, HeldOnce, WorkInv, WorkIsUsed, Uses, Holding

LEMMA HandIsConn ==
  ASSUME Inv, NEW t \in Threads, at[t] \in Holding
  PROVE  hand[t] \in Conns /\ hand[t] # None
  BY ConnsAssumption DEF Inv, HeldUsed, Typed

LEMMA WorkNext == Inv /\ WorkInv /\ [Next]_vars => WorkInv'
<1> SUFFICES ASSUME Inv, WorkInv, [Next]_vars PROVE WorkInv'
  OBVIOUS
<1> USE DEF backendVars, ageVars, threadVars
<1>1. ASSUME NEW t \in Threads,
             \/ Acquire(t) \/ BorrowFails(t) \/ GetLate(t) \/ CheckAge(t) \/ Lend(t) \/ CommitWork(t)
             \/ CloseLoan(t) \/ RollbackUnneeded(t) \/ Forget(t)
      PROVE  WorkInv'
  <2>1. work' \subseteq work /\ conn' = conn
    BY <1>1 DEF Acquire, BorrowFails, GetLate, CheckAge, Lend, CommitWork, CloseLoan, RollbackUnneeded,
                Forget
  <2>2. ASSUME NEW u \in Threads, Uses(u)
        PROVE  (Uses(u)' /\ hand'[u] = hand[u]) \/ hand[u] \notin work'
    <3>1. CASE RollbackUnneeded(t) /\ u = t
      BY <2>1, <3>1 DEF RollbackUnneeded, WorkInv, WorkIsUsed
    <3>2. CASE ~(RollbackUnneeded(t) /\ u = t)
      BY <1>1, <2>2, <3>2 DEF Acquire, BorrowFails, GetLate, CheckAge, Lend, CommitWork, CloseLoan, Returned,
         RollbackUnneeded, Forget, GoTo, Uses, Inv, Typed
    <3> QED BY <3>1, <3>2
  <2> QED BY <2>1, <2>2, WorkStays DEF WorkInv, WorkIsUsed
<1>2. ASSUME NEW t \in Threads, PingFails(t) PROVE WorkInv'
  <2>1. /\ at[t] = "pinging" /\ hand[t] \notin work /\ UNCHANGED <<work, hand>>
        /\ conn' = [conn EXCEPT ![hand[t]] = "closed"] /\ at' = [at EXCEPT ![t] = "discarding"]
    BY <1>2, HeldWithoutWork DEF PingFails, Close, GoTo, Holding, Uses
  <2> QED BY <2>1, WorkStays DEF WorkInv, WorkIsUsed, Uses, Inv, Typed
<1>3. ASSUME NEW t \in Threads, Work(t) PROVE WorkInv'
  <2>1. hand[t] \in Conns
    BY <1>3, HandIsConn DEF Work, Holding
  <2> QED BY <1>3, <2>1 DEF Work, WorkInv, WorkIsUsed, Uses
<1>4. ASSUME NEW t \in Threads, RollsBack(t) \/ RollbackFails(t) PROVE WorkInv'
  <2>1. /\ at' = [at EXCEPT ![t] = "returning"] /\ work' = work \ {hand[t]} /\ UNCHANGED hand
        /\ conn' = conn \/ conn' = [conn EXCEPT ![hand[t]] = "closed"]
    BY <1>4 DEF RollsBack, RollbackFails, Close, GoTo
  <2>2. \A u \in Threads \ {t} : at'[u] = at[u]
    BY <2>1 DEF Inv, Typed
  <2> QED BY <2>1, <2>2, WorkStays DEF WorkInv, WorkIsUsed, Uses, Inv, Typed
<1>5. ASSUME NEW t \in Threads, BorrowIdle(t) \/ BorrowNew(t) PROVE WorkInv'
  <2>1. PICK c \in Conns : /\ hand' = [hand EXCEPT ![t] = c]
                           /\ conn' = conn \/ conn' = [conn EXCEPT ![c] = "open"]
    <3>1. CASE BorrowIdle(t)
      <4>1. Last(idle) \in Conns
        BY <3>1 DEF BorrowIdle, Last, Inv, Typed
      <4> QED BY <3>1, <4>1 DEF BorrowIdle, Hold
    <3>2. CASE BorrowNew(t)
      BY <3>2 DEF BorrowNew, Hold
    <3> QED BY <1>5, <3>1, <3>2
  <2>2. at[t] = "borrowing" /\ at' = [at EXCEPT ![t] = "checking"] /\ UNCHANGED work
    BY <1>5 DEF BorrowIdle, BorrowNew, Hold, GoTo
  <2>3. \A u \in Threads : Uses(u) => Uses(u)' /\ hand'[u] = hand[u]
    BY <2>1, <2>2 DEF Uses, Inv, Typed
  <2> QED BY <2>1, <2>2, <2>3, WorkStays DEF WorkInv, WorkIsUsed, Inv, Typed
<1>6. ASSUME NEW t \in Threads, ThrowAway(t) \/ GiveBack(t) PROVE WorkInv'
  <2>1. at[t] \in {"discarding", "returning"} /\ hand[t] \notin work
    BY <1>6, HeldWithoutWork DEF ThrowAway, GiveBack, Holding, Uses
  <2>2. /\ work' \subseteq work
        /\ \A u \in Threads \ {t} : at'[u] = at[u] /\ hand'[u] = hand[u]
        /\ \A c \in Conns \ {hand[t]} : conn'[c] = conn[c]
    BY <1>6 DEF ThrowAway, GiveBack, Close, GoTo, Inv, Typed
  <2> QED BY <2>1, <2>2, WorkStays DEF WorkInv, WorkIsUsed, Uses
<1>7. ASSUME NEW c \in Conns, Break(c) \/ GrowOld(c) PROVE WorkInv'
  BY <1>7, WorkStays DEF Break, GrowOld, WorkInv, WorkIsUsed, Uses, Inv, Typed
<1>8. CASE CloseAll
  BY <1>8 DEF CloseAll, WorkInv, WorkIsUsed
<1>9. CASE UNCHANGED vars
  BY <1>9, WorkStays DEF vars, WorkInv, WorkIsUsed, Uses
<1> QED
  BY <1>1, <1>2, <1>3, <1>4, <1>5, <1>6, <1>7, <1>8, <1>9 DEF Next, Try, Borrow, Return

LEMMA LenderNext ==
  Inv /\ WorkInv /\ [Next]_vars
    => [Lender!Next]_<<[t \in Threads |-> IF at[t] = "lent" THEN hand[t] ELSE None], work>>
<1> DEFINE lent == [t \in Threads |-> LentTo(t)]
<1> SUFFICES ASSUME Inv, WorkInv, [Next]_vars PROVE [Lender!Next]_<<lent, work>>
  BY DEF LentTo
<1> USE DEF backendVars, ageVars, threadVars
<1>1. ASSUME NEW t \in Threads,
             \/ Acquire(t) \/ BorrowIdle(t) \/ BorrowNew(t) \/ BorrowFails(t) \/ GetLate(t)
             \/ CheckAge(t) \/ PingFails(t) \/ ThrowAway(t) \/ CommitWork(t) \/ RollsBack(t)
             \/ RollbackFails(t) \/ RollbackUnneeded(t) \/ GiveBack(t) \/ Forget(t)
      PROVE  Lender!EndWork
  <2>1. work' \subseteq work
    BY <1>1 DEF Acquire, BorrowIdle, BorrowNew, BorrowFails, GetLate, CheckAge, PingFails, ThrowAway,
                CommitWork, RollsBack, RollbackFails, RollbackUnneeded, GiveBack, Forget
  <2>2. \A u \in Threads : at'[u] = "lent" <=> at[u] = "lent"
    BY <1>1 DEF Acquire, BorrowIdle, BorrowNew, Hold, BorrowFails, GetLate, CheckAge, PingFails, ThrowAway,
                CommitWork, RollsBack, RollbackFails, RollbackUnneeded, GiveBack, Forget, GoTo, Inv, Typed
  <2>3. \A u \in Threads : at[u] = "lent" => hand'[u] = hand[u]
    BY <1>1 DEF Acquire, BorrowIdle, BorrowNew, Hold, BorrowFails, GetLate, CheckAge, PingFails, ThrowAway,
                CommitWork, RollsBack, RollbackFails, RollbackUnneeded, GiveBack, Forget, Inv, Typed
  <2> QED BY <2>1, <2>2, <2>3 DEF Lender!EndWork
<1>2. ASSUME NEW t \in Threads, Lend(t) PROVE \E c \in Conns : Lender!Lend(t, c)
  <2>1. /\ at[t] = "pinging" /\ at' = [at EXCEPT ![t] = "lent"] /\ UNCHANGED <<hand, work>>
        /\ hand[t] \in Conns /\ hand[t] # None /\ hand[t] \notin work
    BY <1>2, HandIsConn, HeldWithoutWork DEF Lend, GoTo, Holding, Uses
  <2>2. \A u \in Threads : lent[u] # hand[t]
    BY <2>1 DEF LentTo, Inv, HeldOnce, Holding
  <2>3. lent[t] = None /\ lent' = [lent EXCEPT ![t] = hand[t]]
    BY <2>1 DEF LentTo, Inv, Typed
  <2> QED BY <2>1, <2>2, <2>3 DEF Lender!Lend, LentTo
<1>3. ASSUME NEW t \in Threads, Work(t) PROVE Lender!Work(t)
  <2>1. lent[t] = hand[t] /\ hand[t] # None
    BY <1>3, HandIsConn DEF Work, LentTo, Holding
  <2> QED BY <1>3, <2>1 DEF Work, LentTo, Lender!Work
<1>4. ASSUME NEW t \in Threads, CloseLoan(t) PROVE Lender!TakeBack(t)
  <2>1. at[t] = "lent" /\ at' = [at EXCEPT ![t] = "rolling"] /\ UNCHANGED <<hand, work>>
    BY <1>4 DEF CloseLoan, Returned, GoTo
  <2>2. lent[t] # None
    BY <2>1, HandIsConn DEF LentTo, Holding
  <2>3. lent' = [lent EXCEPT ![t] = None]
    BY <2>1 DEF LentTo, Inv, Typed
  <2> QED BY <2>1, <2>2, <2>3 DEF LentTo, Lender!TakeBack
<1>5. ASSUME NEW c \in Conns, Break(c) \/ GrowOld(c) PROVE Lender!EndWork
  BY <1>5 DEF Break, GrowOld, Lender!EndWork
<1>6. CASE CloseAll
  BY <1>6 DEF CloseAll, Lender!EndWork, Lender!Next
<1>7. CASE UNCHANGED vars
  BY <1>7 DEF vars, LentTo
<1> QED
  BY <1>1, <1>2, <1>3, <1>4, <1>5, <1>6, <1>7 DEF Next, Try, Borrow, Return, Lender!Next

(* What the pool promises: every behaviour of it, with broken connections,   *)
(* failed rollbacks and a pool that is closed under its borrowers, is one    *)
(* of the lender.                                                          *)
THEOREM LoansAreClean == Spec => LendsCleanConnections
<1>1. Init => Lender!Init
  BY DEF Init, Lender!Init
<1>2. Inv /\ WorkInv /\ [Next]_vars => WorkInv'
  BY WorkNext
<1>3. Inv /\ WorkInv /\ [Next]_vars
        => [Lender!Next]_<<[t \in Threads |-> IF at[t] = "lent" THEN hand[t] ELSE None], work>>
  BY LenderNext
<1> QED BY <1>1, <1>2, <1>3, InitInv, NextInv, InitWork, PTL
        DEF Spec, LendsCleanConnections, Lender!Spec
-----------------------------------------------------------------------------
(* The age of a connection. One that was first lent a lifetime ago is known  *)
(* to be old until it is thrown away, and where no lifetime is set nothing   *)
(* has an age.                                                             *)
OverdueIsOld == \A c \in overdue : c \in Conns /\ born[c] = "old"
NothingAges == ~Recycle => overdue = {} /\ \A c \in Conns : born[c] = "none"
AgeInv == born \in [Conns -> {"none", "young", "old"}] /\ OverdueIsOld /\ NothingAges

LEMMA InitAge == Init => AgeInv
  BY DEF Init, AgeInv, OverdueIsOld, NothingAges

LEMMA AgeNext == AgeInv /\ [Next]_vars => AgeInv'
<1> SUFFICES ASSUME AgeInv, [Next]_vars PROVE AgeInv'
  OBVIOUS
<1> USE DEF backendVars, ageVars, threadVars
<1>1. ASSUME NEW t \in Threads, Lend(t) PROVE AgeInv'
  <2>1. UNCHANGED overdue /\ (born' = born \/ (Stamps(hand[t]) /\ born' = [born EXCEPT ![hand[t]] = "young"]))
    BY <1>1 DEF Lend
  <2>2. CASE UNCHANGED born
    BY <2>1, <2>2 DEF AgeInv, OverdueIsOld, NothingAges
  <2>3. CASE Stamps(hand[t]) /\ born' = [born EXCEPT ![hand[t]] = "young"]
    BY <2>1, <2>3 DEF Stamps, AgeInv, OverdueIsOld, NothingAges
  <2> QED BY <2>1, <2>2, <2>3
<1>2. ASSUME NEW t \in Threads, ThrowAway(t) PROVE AgeInv'
  BY <1>2 DEF ThrowAway, AgeInv, OverdueIsOld, NothingAges
<1>3. ASSUME NEW c \in Conns, GrowOld(c) PROVE AgeInv'
  BY <1>3 DEF GrowOld, AgeInv, OverdueIsOld, NothingAges
<1>4. CASE UNCHANGED ageVars
  BY <1>4 DEF AgeInv, OverdueIsOld, NothingAges
<1>5. ASSUME NEW t \in Threads,
             \/ Acquire(t) \/ BorrowIdle(t) \/ BorrowNew(t) \/ BorrowFails(t) \/ GetLate(t)
             \/ CheckAge(t) \/ PingFails(t) \/ Work(t) \/ CommitWork(t) \/ CloseLoan(t)
             \/ RollsBack(t) \/ RollbackFails(t) \/ RollbackUnneeded(t) \/ GiveBack(t) \/ Forget(t)
      PROVE  UNCHANGED ageVars
  BY <1>5 DEF Acquire, BorrowIdle, BorrowNew, BorrowFails, GetLate, CheckAge, PingFails, Work, CommitWork,
              CloseLoan, RollsBack, RollbackFails, RollbackUnneeded, GiveBack, Forget
<1>6. ASSUME NEW c \in Conns, Break(c) PROVE UNCHANGED ageVars
  BY <1>6 DEF Break
<1>7. CloseAll \/ UNCHANGED vars => UNCHANGED ageVars
  BY DEF CloseAll, vars
<1> QED BY <1>1, <1>2, <1>3, <1>4, <1>5, <1>6, <1>7 DEF Next, Try, Borrow, Return

(* The lifetime runs from the first loan and no later loan begins it anew:   *)
(* no loan passes the age check with a connection whose lifetime is over.    *)
THEOREM OldConnectionsAreNotLent == Spec => RecycledOnTime
<1>1. AgeInv /\ [Next]_vars
        => [\A t \in Threads : CheckAge(t) /\ at'[t] = "pinging" => hand[t] \notin overdue]_vars
  <2> SUFFICES ASSUME AgeInv, NEW t \in Threads, CheckAge(t), at'[t] = "pinging", hand[t] \in overdue
               PROVE  FALSE
    OBVIOUS
  <2>1. Recycle /\ born[hand[t]] = "old"
    BY DEF AgeInv, OverdueIsOld, NothingAges
  <2>2. at'[t] = "discarding" \/ at' # [at EXCEPT ![t] = "discarding"] \/ t \notin DOMAIN at
    OBVIOUS
  <2> QED BY <2>1, <2>2 DEF CheckAge, GoTo
<1> QED BY <1>1, InitAge, AgeNext, PTL DEF Spec, RecycledOnTime
=============================================================================
