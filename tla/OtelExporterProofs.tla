-------------------------- MODULE OtelExporterProofs --------------------------
(***************************************************************************)
(* What holds of the exporter for any number of clients, reports, worker   *)
(* threads and any queue size.                                             *)
(***************************************************************************)
EXTENDS OtelExporter, FiniteSetTheorems, FunctionTheorems, SequenceTheorems, TLAPS

-----------------------------------------------------------------------------
(* Every variable keeps its type, for any sizes.                           *)

TypeInv == TypeOK /\ Carrying

LEMMA TypeInit == Init => TypeInv
  BY SizeAssumption DEF Init, TypeInv, TypeOK, Carrying, Busy, ClientStates, ThreadStates, Fates

LEMMA TypeStep == TypeInv /\ [Next]_vars => TypeInv'
<1> SUFFICES ASSUME TypeInv, [Next]_vars PROVE TypeInv'
  OBVIOUS
<1> USE SizeAssumption, NoneAssumption
    DEF TypeInv, TypeOK, Carrying, Busy, ClientStates, ThreadStates, Fates,
        exporterVars, clientVars, threadVars, Room
<1>1. ASSUME NEW c \in Clients, NEW r \in Reports, SubmitStart(c, r) PROVE TypeInv'
  BY <1>1 DEF SubmitStart, StartWorker
<1>2. ASSUME NEW c \in Clients, SubmitPut(c) PROVE TypeInv'
  BY <1>2 DEF SubmitPut
<1>3. ASSUME NEW c \in Clients, SubmitDrop(c) PROVE TypeInv'
  BY <1>3 DEF SubmitDrop
<1>4. ASSUME NEW c \in Clients, SubmitCount(c) PROVE TypeInv'
  BY <1>4 DEF SubmitCount
<1>5. ASSUME NEW c \in Clients, Flush(c) PROVE TypeInv'
  BY <1>5 DEF Flush, FlushBegin, FlushTrue, FlushFalse, FlushReturn, AfterFlush
<1>6. ASSUME NEW c \in Clients, ShutdownClaim(c) PROVE TypeInv'
  BY <1>6 DEF ShutdownClaim, WorkerTaken
<1>7. ASSUME NEW c \in Clients, ShutdownPut(c) PROVE TypeInv'
  BY <1>7 DEF ShutdownPut
<1>8. ASSUME NEW c \in Clients, ShutdownJoin(c) PROVE TypeInv'
  BY <1>8 DEF ShutdownJoin
<1>9. ASSUME NEW w \in Threads, TakeReport(w) PROVE TypeInv'
  BY <1>9 DEF TakeReport, Taken
<1>10. ASSUME NEW w \in Threads, TakeSentinel(w) PROVE TypeInv'
  BY <1>10 DEF TakeSentinel, Taken
<1>11. ASSUME NEW w \in Threads, SendReturn(w) PROVE TypeInv'
  BY <1>11 DEF SendReturn, SendDelivered, SendRefused
<1>12. ASSUME NEW w \in Threads, RecordFailure(w) PROVE TypeInv'
  BY <1>12 DEF RecordFailure
<1>13. ASSUME NEW w \in Threads, Finish(w) PROVE TypeInv'
  BY <1>13 DEF Finish
<1>14. CASE UNCHANGED vars
  BY <1>14 DEF vars
<1> QED BY <1>1, <1>2, <1>3, <1>4, <1>5, <1>6, <1>7, <1>8, <1>9, <1>10, <1>11, <1>12, <1>13, <1>14
        DEF Next, Submit, Shutdown, Drain

THEOREM TypeCorrect == Spec => []TypeOK
<1>1. Spec => []TypeInv
  BY TypeInit, TypeStep, PTL DEF Spec
<1> QED BY <1>1, PTL DEF TypeInv

-----------------------------------------------------------------------------
(* Counting positions of a queue: what Append and Tail do to the count.    *)

LEMMA PositionsFinite ==
  ASSUME NEW q, NEW n \in Int, NEW X
  PROVE  IsFiniteSet(Positions(q, n, X)) /\ Cardinality(Positions(q, n, X)) \in Nat
<1>1. IsFiniteSet(1..n)
  BY FS_Interval
<1> QED BY <1>1, FS_Subset, FS_CardinalityType DEF Positions

LEMMA PositionsAppend ==
  ASSUME NEW S, NEW q \in Seq(S), NEW x \in S, NEW X
  PROVE  /\ \A n \in 0..Len(q) : Positions(Append(q, x), n, X) = Positions(q, n, X)
         /\ Cardinality(Positions(Append(q, x), Len(q) + 1, X)) =
              Cardinality(Positions(q, Len(q), X)) + (IF x \in X THEN 1 ELSE 0)
<1> DEFINE k == Len(q) + 1
<1>1. /\ Len(q) \in Nat /\ Append(q, x)[k] = x
      /\ \A i \in 1..Len(q) : Append(q, x)[i] = q[i]
  OBVIOUS
<1>2. \A n \in 0..Len(q) : Positions(Append(q, x), n, X) = Positions(q, n, X)
  BY <1>1 DEF Positions
<1>3. Positions(Append(q, x), k, X) =
        Positions(q, Len(q), X) \cup (IF x \in X THEN {k} ELSE {})
  BY <1>1 DEF Positions
<1>4. k \notin Positions(q, Len(q), X)
  BY <1>1 DEF Positions
<1>5. CASE x \in X
  BY <1>1, <1>2, <1>3, <1>4, <1>5, PositionsFinite, FS_AddElement
<1>6. CASE x \notin X
  <2>1. Positions(Append(q, x), k, X) = Positions(q, Len(q), X)
    BY <1>3, <1>6
  <2> QED BY <1>1, <1>2, <1>6, <2>1, PositionsFinite
<1> QED BY <1>5, <1>6

LEMMA PositionsTail ==
  ASSUME NEW S, NEW q \in Seq(S), q # <<>>, NEW n \in 0..(Len(q) - 1), NEW X
  PROVE  Cardinality(Positions(q, n + 1, X)) =
           Cardinality(Positions(Tail(q), n, X)) + (IF Head(q) \in X THEN 1 ELSE 0)
<1> DEFINE P == Positions(Tail(q), n, X)
           U == {i \in 2..(n + 1) : q[i] \in X}
           f == [i \in P |-> i + 1]
<1>1. /\ Len(q) \in Nat /\ n \in Nat /\ Head(q) = q[1]
      /\ \A i \in 1..n : Tail(q)[i] = q[i + 1]
  OBVIOUS
<1>2. f \in Bijection(P, U)
  <2>1. f \in [P -> U]
    BY <1>1 DEF Positions
  <2>2. \A a, b \in P : f[a] = f[b] => a = b
    BY <1>1 DEF Positions
  <2>3. \A t \in U : \E a \in P : f[a] = t
    <3> TAKE t \in U
    <3>1. t - 1 \in P /\ f[t - 1] = t
      BY <1>1 DEF Positions
    <3> QED BY <3>1
  <2> QED BY <2>1, <2>2, <2>3, Fun_IsBij
<1>3. IsFiniteSet(P) /\ Cardinality(P) \in Nat
  BY <1>1, PositionsFinite
<1>4. IsFiniteSet(U) /\ Cardinality(U) = Cardinality(P)
  BY <1>2, <1>3, FS_Bijection DEF ExistsBijection
<1>5. Positions(q, n + 1, X) = U \cup (IF Head(q) \in X THEN {1} ELSE {})
  BY <1>1 DEF Positions
<1>6. 1 \notin U
  BY <1>1
<1>7. CASE Head(q) \in X
  <2>1. Positions(q, n + 1, X) = U \cup {1}
    BY <1>5, <1>7
  <2>2. Cardinality(U \cup {1}) = Cardinality(U) + 1
    BY <1>4, <1>6, FS_AddElement
  <2> QED BY <2>1, <2>2, <1>4, <1>7
<1>8. CASE Head(q) \notin X
  <2>1. Positions(q, n + 1, X) = U
    BY <1>5, <1>8
  <2>2. (IF Head(q) \in X THEN 1 ELSE 0) = 0
    BY <1>8
  <2>3. Cardinality(Positions(q, n + 1, X)) = Cardinality(P)
    BY <2>1, <1>4
  <2> QED BY <2>2, <2>3, <1>3
<1> QED BY <1>7, <1>8

-----------------------------------------------------------------------------
(* Workers and sentinels. The equation is inductive once no worker can die *)
(* of its warning; the strict inequality behind each report follows from   *)
(* it at the moment the report goes in, because the submitter holds the    *)
(* Condition and so _worker is set.                                        *)

NoneDies == \A w \in Threads : thread[w] # "dying"
PuttingHasWorker == \A c \in Clients : client[c] = "putting" => worker # None

BalanceInv ==
  TypeInv /\ NoneDies /\ PuttingHasWorker /\ WorkersBalance /\ ReportHasReader

(* A step that moves neither the queue nor the counted sets keeps both.    *)
LEMMA BalanceFrame ==
  ASSUME BalanceInv, TypeInv', NoneDies', PuttingHasWorker',
         queue' = queue, Live' = Live, Stopping' = Stopping, worker' = worker
  PROVE  BalanceInv'
  BY DEF BalanceInv, WorkersBalance, ReportHasReader, SentinelsIn, ReportsIn, Positions

LEMMA LiveFinite ==
  /\ IsFiniteSet(Live) /\ Cardinality(Live) \in Nat
  /\ IsFiniteSet(Stopping) /\ Cardinality(Stopping) \in Nat
  BY FiniteAssumption, FS_Subset, FS_CardinalityType DEF Live, Stopping

LEMMA SentinelsFinite ==
  ASSUME NEW n \in Int
  PROVE  Cardinality(SentinelsIn(queue, n)) \in Nat
  BY PositionsFinite DEF SentinelsIn

LEMMA BalanceSubmitStart ==
  ASSUME BalanceInv, TypeInv', NEW c \in Clients, NEW r \in Reports, SubmitStart(c, r)
  PROVE  BalanceInv'
<1> USE DEF BalanceInv, TypeInv, TypeOK
<1>1. NoneDies' /\ PuttingHasWorker' /\ queue' = queue /\ Stopping' = Stopping
  BY NoneAssumption DEF SubmitStart, StartWorker, NoneDies, PuttingHasWorker, Stopping, ThreadStates, ClientStates
<1>2. CASE worker # None
  <2>1. Live' = Live /\ worker' = worker
    BY <1>2 DEF SubmitStart, StartWorker, Live
  <2> QED BY <1>1, <2>1, BalanceFrame
<1>3. CASE worker = None
  <2>1. PICK w \in Threads : /\ thread[w] = "unborn" /\ worker' = w
                             /\ thread' = [thread EXCEPT ![w] = "getting"]
    BY <1>3 DEF SubmitStart, StartWorker
  <2>2. Live' = Live \cup {w} /\ w \notin Live
    BY <2>1 DEF Live, Serving
  <2>3. Cardinality(Live') = Cardinality(Live) + 1
    BY <2>2, LiveFinite, FS_AddElement
  <2>4. worker' # None
    BY <2>1, NoneAssumption
  <2>5. WorkersBalance'
    BY <1>1, <1>3, <2>3, <2>4, LiveFinite, SentinelsFinite, LenProperties
    DEF WorkersBalance, SentinelsIn, Positions
  <2>6. ReportHasReader'
    <3> SUFFICES ASSUME NEW i \in ReportsIn(queue)'
                 PROVE  Cardinality(SentinelsIn(queue, i - 1)') < Cardinality(Live')
      BY DEF ReportHasReader
    <3>1. i \in Int /\ Cardinality(SentinelsIn(queue, i - 1)) < Cardinality(Live)
      BY <1>1 DEF ReportHasReader, ReportsIn, Positions
    <3>2. SentinelsIn(queue, i - 1)' = SentinelsIn(queue, i - 1)
      BY <1>1 DEF SentinelsIn, Positions
    <3>3. Cardinality(SentinelsIn(queue, i - 1)) \in Nat
      BY <3>1, SentinelsFinite
    <3> QED BY <3>1, <3>2, <3>3, <2>3, LiveFinite
  <2> QED BY <1>1, <2>5, <2>6
<1> QED BY <1>2, <1>3

LEMMA BalanceSubmitPut ==
  ASSUME BalanceInv, TypeInv', NEW c \in Clients, SubmitPut(c)
  PROVE  BalanceInv'
<1> USE DEF BalanceInv, TypeInv, TypeOK
<1> DEFINE S == Reports \cup {None}
<1>1. /\ NoneDies' /\ PuttingHasWorker' /\ worker' = worker
      /\ Live' = Live /\ Stopping' = Stopping
  BY DEF SubmitPut, threadVars, NoneDies, PuttingHasWorker, Live, Stopping, ClientStates
<1>2. /\ report[c] \in Reports /\ report[c] # None /\ worker # None
      /\ queue' = Append(queue, report[c])
  BY NoneAssumption DEF SubmitPut, Carrying, PuttingHasWorker
<1>3. /\ Len(queue) \in Nat /\ Len(queue') = Len(queue) + 1
      /\ \A n \in 0..Len(queue) : SentinelsIn(queue', n) = SentinelsIn(queue, n)
      /\ Cardinality(SentinelsIn(queue', Len(queue) + 1)) =
           Cardinality(SentinelsIn(queue, Len(queue))) + (IF report[c] \in {None} THEN 1 ELSE 0)
  <2>1. queue \in Seq(S) /\ report[c] \in S
    BY <1>2
  <2>2. Len(queue) \in Nat /\ Len(queue') = Len(queue) + 1
    BY <1>2, <2>1
  <2> HIDE DEF S
  <2> QED BY <1>2, <2>1, <2>2, PositionsAppend DEF SentinelsIn
<1>4. Cardinality(SentinelsIn(queue', Len(queue) + 1)) = Cardinality(SentinelsIn(queue, Len(queue)))
  BY <1>2, <1>3, SentinelsFinite
<1>5. WorkersBalance'
  BY <1>1, <1>3, <1>4 DEF WorkersBalance
<1>6. ReportHasReader'
  <2> SUFFICES ASSUME NEW i \in ReportsIn(queue')
               PROVE  Cardinality(SentinelsIn(queue', i - 1)) < Cardinality(Live)
    BY <1>1 DEF ReportHasReader
  <2>1. i \in 1..(Len(queue) + 1) /\ queue'[i] \in Reports
    BY <1>3 DEF ReportsIn, Positions
  <2>2. SentinelsIn(queue', i - 1) = SentinelsIn(queue, i - 1)
    BY <1>3, <2>1
  <2>3. CASE i \in 1..Len(queue)
    <3>1. i \in ReportsIn(queue)
      BY <1>2, <2>1, <2>3 DEF ReportsIn, Positions
    <3> QED BY <2>2, <3>1 DEF ReportHasReader
  <2>4. CASE i = Len(queue) + 1
    <3>0. Cardinality(SentinelsIn(queue, Len(queue))) \in Nat
      BY <1>3, SentinelsFinite
    <3>1. Cardinality(Live) = Cardinality(SentinelsIn(queue, Len(queue))) + Cardinality(Stopping) + 1
      BY <1>2 DEF WorkersBalance
    <3>2. Cardinality(SentinelsIn(queue, Len(queue))) < Cardinality(Live)
      BY <3>0, <3>1, LiveFinite
    <3>3. i - 1 = Len(queue)
      BY <1>3, <2>4
    <3> QED BY <2>2, <3>2, <3>3
  <2> QED BY <2>1, <2>3, <2>4, <1>3
<1> QED BY <1>1, <1>5, <1>6

LEMMA BalanceShutdownPut ==
  ASSUME BalanceInv, TypeInv', NEW c \in Clients, ShutdownPut(c)
  PROVE  BalanceInv'
<1> USE DEF BalanceInv, TypeInv, TypeOK
<1> DEFINE S == Reports \cup {None}
<1>1. NoneDies' /\ PuttingHasWorker' /\ worker' = worker /\ Live' = Live
  BY DEF ShutdownPut, threadVars, NoneDies, PuttingHasWorker, Live, ClientStates
<1>2. Stopping' = Stopping \ {c} /\ c \in Stopping
  BY DEF ShutdownPut, Stopping, ClientStates
<1>3. Cardinality(Stopping') = Cardinality(Stopping) - 1
  BY <1>2, LiveFinite, FS_RemoveElement
<1>4. /\ Len(queue) \in Nat /\ Len(queue') = Len(queue) + 1
      /\ queue' = Append(queue, None)
      /\ \A n \in 0..Len(queue) : SentinelsIn(queue', n) = SentinelsIn(queue, n)
      /\ Cardinality(SentinelsIn(queue', Len(queue) + 1)) =
           Cardinality(SentinelsIn(queue, Len(queue))) + (IF None \in {None} THEN 1 ELSE 0)
  <2>1. queue \in Seq(S) /\ None \in S /\ queue' = Append(queue, None)
    BY DEF ShutdownPut
  <2>2. Len(queue) \in Nat /\ Len(queue') = Len(queue) + 1
    BY <2>1
  <2> HIDE DEF S
  <2> QED BY <2>1, <2>2, PositionsAppend DEF SentinelsIn
<1>5. Cardinality(SentinelsIn(queue', Len(queue) + 1)) = Cardinality(SentinelsIn(queue, Len(queue))) + 1
  BY <1>4
<1>6. WorkersBalance'
  BY <1>1, <1>3, <1>4, <1>5, LiveFinite, SentinelsFinite DEF WorkersBalance
<1>7. ReportHasReader'
  <2> SUFFICES ASSUME NEW i \in ReportsIn(queue')
               PROVE  Cardinality(SentinelsIn(queue', i - 1)) < Cardinality(Live)
    BY <1>1 DEF ReportHasReader
  <2>1. i \in ReportsIn(queue) /\ i \in 1..Len(queue)
    BY <1>4, NoneAssumption DEF ReportsIn, Positions
  <2>2. SentinelsIn(queue', i - 1) = SentinelsIn(queue, i - 1)
    BY <1>4, <2>1
  <2> QED BY <2>1, <2>2 DEF ReportHasReader
<1> QED BY <1>1, <1>6, <1>7

(* Taking the head shifts every position by one; a sentinel taken is one   *)
(* fewer in front of every report left, and one thread fewer alive.        *)
LEMMA BalanceTake ==
  ASSUME BalanceInv, TypeInv', NEW w \in Threads, TakeReport(w) \/ TakeSentinel(w)
  PROVE  BalanceInv'
<1> USE DEF BalanceInv, TypeInv, TypeOK
<1> DEFINE one == IF Head(queue) \in {None} THEN 1 ELSE 0
<1>1. /\ NoneDies' /\ PuttingHasWorker' /\ worker' = worker /\ Stopping' = Stopping
  BY DEF TakeReport, TakeSentinel, clientVars, NoneDies, PuttingHasWorker, Stopping, ThreadStates
<1>2. queue # <<>> /\ queue' = Tail(queue) /\ w \in Live
  BY DEF TakeReport, TakeSentinel, Taken, Live, Serving
<1>3. /\ Len(queue) \in Nat \ {0} /\ Len(queue') = Len(queue) - 1
      /\ \A i \in 1..Len(queue') : queue'[i] = queue[i + 1]
  BY <1>2
<1>4. \A n \in 0..(Len(queue) - 1) :
        Cardinality(SentinelsIn(queue, n + 1)) = Cardinality(SentinelsIn(queue', n)) + one
  BY <1>2, PositionsTail DEF SentinelsIn
<1>5. Cardinality(Live') = Cardinality(Live) - one
  <2>1. CASE TakeReport(w)
    <3>1. Live' = Live /\ one = 0
      BY <2>1 DEF TakeReport, Live, Serving
    <3> QED BY <3>1, LiveFinite
  <2>2. CASE TakeSentinel(w)
    <3>1. Live' = Live \ {w} /\ one = 1
      BY <2>2 DEF TakeSentinel, Live, Serving
    <3> QED BY <1>2, <3>1, LiveFinite, FS_RemoveElement
  <2> QED BY <2>1, <2>2
<1>6. \A n \in Int : Cardinality(SentinelsIn(queue', n)) \in Nat
  BY PositionsFinite DEF SentinelsIn
<1>7. WorkersBalance'
  <2>1. Cardinality(SentinelsIn(queue, Len(queue))) = Cardinality(SentinelsIn(queue', Len(queue'))) + one
    BY <1>3, <1>4
  <2>2. one \in Int /\ Cardinality(SentinelsIn(queue', Len(queue'))) \in Nat
    BY <1>3, <1>6
  <2> HIDE DEF one
  <2> QED BY <1>1, <1>5, <2>1, <2>2, LiveFinite DEF WorkersBalance
<1>8. ReportHasReader'
  <2> SUFFICES ASSUME NEW i \in ReportsIn(queue')
               PROVE  Cardinality(SentinelsIn(queue', i - 1)) < Cardinality(Live')
    BY DEF ReportHasReader
  <2>1. i \in 1..(Len(queue) - 1) /\ i + 1 \in ReportsIn(queue)
    BY <1>3 DEF ReportsIn, Positions
  <2>2. Cardinality(SentinelsIn(queue, i)) < Cardinality(Live)
    <3>1. Cardinality(SentinelsIn(queue, (i + 1) - 1)) < Cardinality(Live)
      BY <2>1 DEF ReportHasReader
    <3>2. (i + 1) - 1 = i
      BY <2>1
    <3> QED BY <3>1, <3>2
  <2>3. Cardinality(SentinelsIn(queue, i)) = Cardinality(SentinelsIn(queue', i - 1)) + one
    <3>1. i - 1 \in 0..(Len(queue) - 1) /\ (i - 1) + 1 = i
      BY <1>3, <2>1
    <3> QED BY <1>4, <3>1
  <2>4. one \in Int /\ Cardinality(SentinelsIn(queue', i - 1)) \in Nat
    <3>1. i - 1 \in Int
      BY <1>3, <2>1
    <3> QED BY <3>1, <1>6
  <2> HIDE DEF one
  <2> QED BY <1>5, <2>2, <2>3, <2>4, LiveFinite
<1> QED BY <1>1, <1>7, <1>8

LEMMA BalanceClaim ==
  ASSUME BalanceInv, TypeInv', NEW c \in Clients, ShutdownClaim(c)
  PROVE  BalanceInv'
<1> USE DEF BalanceInv, TypeInv, TypeOK
<1>1. /\ NoneDies' /\ queue' = queue /\ Live' = Live /\ PuttingHasWorker'
  BY NoneAssumption
  DEF ShutdownClaim, threadVars, NoneDies, PuttingHasWorker, Live, ClientStates, Carrying
<1>2. CASE worker = None
  <2>1. Stopping' = Stopping /\ worker' = worker
    BY <1>2 DEF ShutdownClaim, WorkerTaken, Stopping, ClientStates
  <2> QED BY <1>1, <2>1, BalanceFrame
<1>3. CASE worker # None
  <2>1. Stopping' = Stopping \cup {c} /\ c \notin Stopping /\ worker' = None
    BY <1>3 DEF ShutdownClaim, WorkerTaken, Stopping, ClientStates
  <2>2. Cardinality(Stopping') = Cardinality(Stopping) + 1
    BY <2>1, LiveFinite, FS_AddElement
  <2>3. WorkersBalance'
    BY <1>1, <1>3, <2>1, <2>2, LiveFinite, SentinelsFinite, LenProperties DEF WorkersBalance
  <2>4. ReportHasReader'
    BY <1>1 DEF ReportHasReader, ReportsIn, SentinelsIn, Positions
  <2> QED BY <1>1, <2>3, <2>4
<1> QED BY <1>2, <1>3

LEMMA BalanceStep ==
  ASSUME ~WarningsRaise, BalanceInv, [Next]_vars
  PROVE  BalanceInv'
<1>1. TypeInv'
  BY TypeStep DEF BalanceInv
<1> USE DEF TypeInv, TypeOK, clientVars, threadVars, exporterVars
<1>2. ASSUME NEW c \in Clients, Submit(c) PROVE BalanceInv'
  <2>1. ASSUME NEW r \in Reports, SubmitStart(c, r) PROVE BalanceInv'
    BY <1>1, <2>1, BalanceSubmitStart
  <2>2. CASE SubmitPut(c)
    BY <1>1, <2>2, BalanceSubmitPut
  <2>3. CASE SubmitDrop(c) \/ SubmitCount(c)
    <3>1. /\ NoneDies' /\ PuttingHasWorker' /\ queue' = queue
          /\ Live' = Live /\ Stopping' = Stopping /\ worker' = worker
      BY <2>3 DEF BalanceInv, SubmitDrop, SubmitCount, NoneDies, PuttingHasWorker, Live, Stopping, ClientStates
    <3> QED BY <1>1, <3>1, BalanceFrame
  <2> QED BY <1>2, <2>1, <2>2, <2>3 DEF Submit
<1>3. ASSUME NEW c \in Clients, Flush(c) PROVE BalanceInv'
  <2>1. /\ NoneDies' /\ PuttingHasWorker' /\ queue' = queue
        /\ Live' = Live /\ Stopping' = Stopping /\ worker' = worker
    BY <1>3 DEF BalanceInv, Flush, FlushBegin, FlushTrue, FlushFalse, FlushReturn, AfterFlush,
                NoneDies, PuttingHasWorker, Live, Stopping, ClientStates
  <2> QED BY <1>1, <2>1, BalanceFrame
<1>4. ASSUME NEW c \in Clients, Shutdown(c) PROVE BalanceInv'
  <2>1. CASE ShutdownJoin(c)
    <3>1. /\ NoneDies' /\ PuttingHasWorker' /\ queue' = queue
          /\ Live' = Live /\ Stopping' = Stopping /\ worker' = worker
      BY <2>1 DEF BalanceInv, ShutdownJoin, NoneDies, PuttingHasWorker, Live, Stopping, ClientStates
    <3> QED BY <1>1, <3>1, BalanceFrame
  <2> QED BY <1>1, <1>4, <2>1, BalanceClaim, BalanceShutdownPut DEF Shutdown
<1>5. ASSUME NEW w \in Threads, Drain(w) PROVE BalanceInv'
  <2>1. CASE SendReturn(w) \/ RecordFailure(w) \/ Finish(w)
    <3>1. /\ NoneDies' /\ PuttingHasWorker' /\ queue' = queue
          /\ Live' = Live /\ Stopping' = Stopping /\ worker' = worker
      BY <2>1 DEF BalanceInv, SendReturn, SendDelivered, SendRefused, RecordFailure, Finish,
                  NoneDies, PuttingHasWorker, Live, Stopping, ThreadStates, Serving
    <3> QED BY <1>1, <3>1, BalanceFrame
  <2> QED BY <1>1, <1>5, <2>1, BalanceTake DEF Drain
<1>6. CASE UNCHANGED vars
  <2>1. /\ NoneDies' /\ PuttingHasWorker' /\ queue' = queue
        /\ Live' = Live /\ Stopping' = Stopping /\ worker' = worker
    BY <1>6 DEF BalanceInv, vars, NoneDies, PuttingHasWorker, Live, Stopping
  <2> QED BY <1>1, <2>1, BalanceFrame
<1> QED BY <1>2, <1>3, <1>4, <1>5, <1>6 DEF Next

LEMMA BalanceInit == Init => BalanceInv
<1> SUFFICES ASSUME Init PROVE BalanceInv
  OBVIOUS
<1>1. TypeInv /\ NoneDies /\ PuttingHasWorker
  BY TypeInit DEF Init, NoneDies, PuttingHasWorker
<1>2. /\ Live = {} /\ Stopping = {} /\ worker = None
      /\ SentinelsIn(queue, Len(queue)) = {} /\ ReportsIn(queue) = {}
  BY DEF Init, Live, Serving, Stopping, SentinelsIn, ReportsIn, Positions
<1> QED BY <1>1, <1>2, FS_EmptySet DEF BalanceInv, WorkersBalance, ReportHasReader

(* Unless a warning is turned into an exception, the threads alive are the *)
(* one _worker names plus one per sentinel on the way: no submit or        *)
(* shutdown, in any order, leaks a worker or stops one too many.           *)
THEOREM WorkersBalanced ==
  ASSUME ~WarningsRaise PROVE Spec => []WorkersBalance
<1>1. BalanceInv /\ [Next]_vars => BalanceInv'
  BY BalanceStep
<1>2. BalanceInv => WorkersBalance
  BY DEF BalanceInv
<1> QED BY <1>1, <1>2, BalanceInit, PTL DEF Spec

(* And a report in the queue always has more threads alive than sentinels  *)
(* before it, so some thread will take it.                                 *)
THEOREM NoReportStranded ==
  ASSUME ~WarningsRaise PROVE Spec => []ReportHasReader
<1>1. BalanceInv /\ [Next]_vars => BalanceInv'
  BY BalanceStep
<1>2. BalanceInv => ReportHasReader
  BY DEF BalanceInv
<1> QED BY <1>1, <1>2, BalanceInit, PTL DEF Spec

-----------------------------------------------------------------------------
(* The books: how many reports are pending and refused, and where each is. *)
(* A report that was accepted and not yet sent waits in the queue once, or *)
(* one worker is sending it; a report on its way in is nowhere else.       *)

Sending == {w \in Threads : thread[w] = "sending"}
Refusing == {w \in Threads : thread[w] = "refusing"}
Refused == {r \in Reports : fate[r] = "refused"}

Handed == \A c \in Clients : client[c] = "putting" => fate[report[c]] = "handed"
Placed ==
  /\ \A i \in ReportsIn(queue) : fate[queue[i]] = "accepted"
  /\ \A w \in Sending : fate[item[w]] = "accepted"
  /\ \A i, j \in ReportsIn(queue) : queue[i] = queue[j] => i = j
  /\ \A w, v \in Sending : item[w] = item[v] => w = v
  /\ \A w \in Sending : \A i \in ReportsIn(queue) : queue[i] # item[w]
  /\ \A r \in Reports : fate[r] = "accepted" =>
       (\E i \in ReportsIn(queue) : queue[i] = r) \/ (\E w \in Sending : item[w] = r)
FailuresExact == failures + Cardinality(Refusing) = Cardinality(Refused)

PlacesInv == TypeInv /\ Handed /\ Placed
BooksInv == PlacesInv /\ PendingExact /\ FailuresExact

LEMMA PlacesFrame ==
  ASSUME PlacesInv, TypeInv', Handed', queue' = queue, fate' = fate,
         Sending' = Sending, \A w \in Sending : item'[w] = item[w]
  PROVE  PlacesInv'
<1>1. ReportsIn(queue)' = ReportsIn(queue)
  BY DEF ReportsIn, Positions
<1> QED BY <1>1 DEF PlacesInv, Placed

(* The fate of a report that is in no place changes, and not to accepted.  *)
LEMMA PlacesFate ==
  ASSUME PlacesInv, TypeInv', Handed', queue' = queue, item' = item, Sending' = Sending,
         NEW r \in Reports, fate[r] # "accepted",
         NEW f, f # "accepted", fate' = [fate EXCEPT ![r] = f]
  PROVE  PlacesInv'
<1>1. ReportsIn(queue)' = ReportsIn(queue) /\ \A i \in ReportsIn(queue) : queue[i] \in Reports
  BY DEF ReportsIn, Positions
<1>2. \A w \in Sending : item[w] \in Reports
  BY DEF PlacesInv, TypeInv, Carrying, Sending, Busy
<1>3. \A x \in Reports : fate'[x] = IF x = r THEN f ELSE fate[x]
  BY DEF PlacesInv, TypeInv, TypeOK
<1>4. \A x \in Reports : fate'[x] = "accepted" <=> fate[x] = "accepted"
  BY <1>3
<1> QED BY <1>1, <1>2, <1>4 DEF PlacesInv, Placed

LEMMA PlacesPut ==
  ASSUME PlacesInv, TypeInv', NEW c \in Clients, SubmitPut(c)
  PROVE  PlacesInv'
<1> DEFINE n == Len(queue) + 1
           x == report[c]
<1> USE DEF PlacesInv, TypeInv, TypeOK
<1>1. x \in Reports /\ x # None /\ fate[x] = "handed" /\ lock = c
  BY NoneAssumption DEF SubmitPut, Carrying, Handed
<1>2. /\ Len(queue) \in Nat /\ Len(queue') = n /\ queue'[n] = x
      /\ \A i \in 1..Len(queue) : queue'[i] = queue[i]
  BY <1>1 DEF SubmitPut
<1>3. ReportsIn(queue') = ReportsIn(queue) \cup {n} /\ n \notin ReportsIn(queue)
  BY <1>1, <1>2 DEF ReportsIn, Positions
<1>4. \A i \in ReportsIn(queue) : queue'[i] = queue[i] /\ queue[i] \in Reports
  BY <1>2 DEF ReportsIn, Positions
<1>5. Sending' = Sending /\ item' = item /\ \A w \in Sending : item[w] \in Reports
  BY DEF SubmitPut, threadVars, Sending, Carrying, Busy
<1>6. \A r \in Reports : fate'[r] = IF r = x THEN "accepted" ELSE fate[r]
  BY <1>1 DEF SubmitPut
<1>7. Handed'
  BY <1>1, <1>6 DEF SubmitPut, Handed, Carrying
<1>8. /\ \A i \in ReportsIn(queue) : queue[i] # x
      /\ \A w \in Sending : item[w] # x
  BY <1>1 DEF Placed
<1> HIDE DEF n, x
<1>9. /\ \A i \in ReportsIn(queue') : fate'[queue'[i]] = "accepted"
      /\ \A w \in Sending : fate'[item[w]] = "accepted"
  BY <1>1, <1>2, <1>3, <1>4, <1>5, <1>6 DEF Placed
<1>10. \A i, j \in ReportsIn(queue') : queue'[i] = queue'[j] => i = j
  BY <1>2, <1>3, <1>4, <1>8 DEF Placed
<1>11. \A w \in Sending : \A i \in ReportsIn(queue') : queue'[i] # item[w]
  BY <1>2, <1>3, <1>4, <1>8 DEF Placed
<1>12. \A r \in Reports : fate'[r] = "accepted" =>
         (\E i \in ReportsIn(queue') : queue'[i] = r) \/ (\E w \in Sending : item[w] = r)
  BY <1>2, <1>3, <1>4, <1>6 DEF Placed
<1>13. \A w, v \in Sending : item[w] = item[v] => w = v
  BY DEF Placed
<1>14. Placed'
  BY <1>5, <1>9, <1>10, <1>11, <1>12, <1>13 DEF Placed
<1> QED BY <1>7, <1>14

(* What a worker takes off the queue is the oldest, the others move up.    *)
LEMMA PlacesTake ==
  ASSUME PlacesInv, TypeInv', NEW w \in Threads, TakeReport(w) \/ TakeSentinel(w)
  PROVE  PlacesInv'
<1> USE DEF PlacesInv, TypeInv, TypeOK
<1>1. queue # <<>> /\ queue' = Tail(queue) /\ fate' = fate /\ Handed'
  BY DEF TakeReport, TakeSentinel, Taken, clientVars, Handed
<1>2. /\ Len(queue) \in Nat \ {0} /\ Len(queue') = Len(queue) - 1 /\ Head(queue) = queue[1]
      /\ \A i \in 1..Len(queue') : queue'[i] = queue[i + 1]
  BY <1>1
<1>3. \A i \in ReportsIn(queue') : /\ i \in Nat /\ i + 1 \in ReportsIn(queue) /\ i + 1 # 1
                                   /\ queue'[i] = queue[i + 1]
  BY <1>2 DEF ReportsIn, Positions
<1>4. \A i \in ReportsIn(queue) : i # 1 => /\ i - 1 \in ReportsIn(queue') /\ queue'[i - 1] = queue[i]
  <2> SUFFICES ASSUME NEW i \in ReportsIn(queue), i # 1
               PROVE  i - 1 \in ReportsIn(queue') /\ queue'[i - 1] = queue[i]
    OBVIOUS
  <2>1. i \in 1..Len(queue) /\ queue[i] \in Reports
    BY DEF ReportsIn, Positions
  <2>2. i - 1 \in 1..Len(queue') /\ (i - 1) + 1 = i
    BY <1>2, <2>1
  <2>3. queue'[i - 1] = queue[i]
    BY <1>2, <2>2
  <2> QED BY <2>1, <2>2, <2>3 DEF ReportsIn, Positions
<1>5. \A i, j \in ReportsIn(queue') : queue'[i] = queue'[j] => i = j
  <2> SUFFICES ASSUME NEW i \in ReportsIn(queue'), NEW j \in ReportsIn(queue'), queue'[i] = queue'[j]
               PROVE  i = j
    OBVIOUS
  <2>1. i \in Nat /\ j \in Nat /\ i + 1 = j + 1
    BY <1>3 DEF Placed
  <2> QED BY <2>1
<1>6. \A i \in ReportsIn(queue') : fate[queue'[i]] = "accepted"
  BY <1>3 DEF Placed
<1>7. CASE TakeSentinel(w)
  <2>1. 1 \notin ReportsIn(queue)
    BY <1>2, <1>7, NoneAssumption DEF TakeSentinel, ReportsIn, Positions
  <2>2. Sending' = Sending /\ item' = item
    BY <1>7 DEF TakeSentinel, Sending
  <2>3. \A v \in Sending : \A i \in ReportsIn(queue') : queue'[i] # item[v]
    BY <1>3 DEF Placed
  <2>4. \A r \in Reports : fate[r] = "accepted" =>
          (\E i \in ReportsIn(queue') : queue'[i] = r) \/ (\E v \in Sending : item[v] = r)
    <3> SUFFICES ASSUME NEW r \in Reports, fate[r] = "accepted", ~ \E v \in Sending : item[v] = r
                 PROVE  \E i \in ReportsIn(queue') : queue'[i] = r
      OBVIOUS
    <3>1. PICK i \in ReportsIn(queue) : queue[i] = r
      BY DEF Placed
    <3> QED BY <1>4, <2>1, <3>1
  <2>5. Placed'
    BY <1>1, <1>5, <1>6, <2>2, <2>3, <2>4 DEF Placed
  <2> QED BY <1>1, <2>5
<1>8. CASE TakeReport(w)
  <2>1. Sending' = Sending \cup {w} /\ w \notin Sending
    BY <1>8 DEF TakeReport, Sending
  <2>2. item'[w] = queue[1] /\ \A v \in Sending : item'[v] = item[v]
    BY <1>2, <1>8, <2>1 DEF TakeReport, Sending
  <2>3. 1 \in ReportsIn(queue)
    <3>1. queue[1] \in Reports \cup {None} /\ queue[1] # None
      BY <1>2, <1>8 DEF TakeReport
    <3> QED BY <1>2, <3>1 DEF ReportsIn, Positions
  <2>4. \A v \in Sending' : fate[item'[v]] = "accepted"
    BY <2>1, <2>2, <2>3 DEF Placed
  <2>5. \A u, v \in Sending' : item'[u] = item'[v] => u = v
    BY <2>1, <2>2, <2>3 DEF Placed
  <2>6. \A v \in Sending' : \A i \in ReportsIn(queue') : queue'[i] # item'[v]
    BY <1>3, <2>1, <2>2, <2>3 DEF Placed
  <2>7. \A r \in Reports : fate[r] = "accepted" =>
          (\E i \in ReportsIn(queue') : queue'[i] = r) \/ (\E v \in Sending' : item'[v] = r)
    <3> SUFFICES ASSUME NEW r \in Reports, fate[r] = "accepted", ~ \E v \in Sending' : item'[v] = r
                 PROVE  \E i \in ReportsIn(queue') : queue'[i] = r
      OBVIOUS
    <3>1. ~ \E v \in Sending : item[v] = r
      BY <2>1, <2>2
    <3>2. PICK i \in ReportsIn(queue) : queue[i] = r
      BY <3>1 DEF Placed
    <3>3. i # 1
      BY <2>1, <2>2, <3>2
    <3> QED BY <1>4, <3>2, <3>3
  <2>8. Placed'
    BY <1>1, <1>5, <1>6, <2>4, <2>5, <2>6, <2>7 DEF Placed
  <2> QED BY <1>1, <2>8
<1> QED BY <1>7, <1>8

LEMMA PlacesSend ==
  ASSUME PlacesInv, TypeInv', NEW w \in Threads, SendReturn(w)
  PROVE  PlacesInv'
<1> USE DEF PlacesInv, TypeInv, TypeOK
<1> DEFINE x == item[w]
<1>1. w \in Sending /\ x \in Reports /\ fate[x] = "accepted"
  BY DEF SendReturn, SendDelivered, SendRefused, Sending, Carrying, Busy, Placed
<1>2. queue' = queue /\ item' = item /\ ReportsIn(queue)' = ReportsIn(queue) /\ Sending' = Sending \ {w}
  BY DEF SendReturn, SendDelivered, SendRefused, exporterVars, Sending, ReportsIn, Positions
<1>3. fate'[x] # "accepted" /\ \A r \in Reports : r # x => fate'[r] = fate[r]
  BY <1>1 DEF SendReturn, SendDelivered, SendRefused
<1>4. \A i \in ReportsIn(queue) : queue[i] # x /\ queue[i] \in Reports
  BY <1>1 DEF Placed, ReportsIn, Positions
<1>5. \A v \in Sending' : v \in Sending /\ item[v] # x /\ item[v] \in Reports
  BY <1>1, <1>2 DEF Placed, Sending, Carrying, Busy
<1>6. Handed'
  BY <1>1, <1>3 DEF SendReturn, SendDelivered, SendRefused, clientVars, Handed, Carrying
<1> HIDE DEF x
<1>7. \A r \in Reports : fate'[r] = "accepted" =>
        (\E i \in ReportsIn(queue) : queue[i] = r) \/ (\E v \in Sending' : item[v] = r)
  <2> SUFFICES ASSUME NEW r \in Reports, fate'[r] = "accepted", ~ \E i \in ReportsIn(queue) : queue[i] = r
               PROVE  \E v \in Sending' : item[v] = r
    OBVIOUS
  <2>1. r # x /\ fate[r] = "accepted"
    BY <1>3
  <2>2. PICK v \in Sending : item[v] = r
    BY <2>1 DEF Placed
  <2>3. v # w
    BY <2>1, <2>2 DEF x
  <2> QED BY <1>2, <2>2, <2>3
<1>8. /\ \A i \in ReportsIn(queue) : fate'[queue[i]] = "accepted"
      /\ \A v \in Sending' : fate'[item[v]] = "accepted"
  BY <1>3, <1>4, <1>5 DEF Placed
<1>9. /\ \A i, j \in ReportsIn(queue) : queue[i] = queue[j] => i = j
      /\ \A u, v \in Sending' : item[u] = item[v] => u = v
      /\ \A v \in Sending' : \A i \in ReportsIn(queue) : queue[i] # item[v]
  BY <1>5 DEF Placed
<1>10. Placed'
  BY <1>2, <1>7, <1>8, <1>9 DEF Placed
<1> QED BY <1>6, <1>10

LEMMA PlacesStep == ASSUME PlacesInv, [Next]_vars PROVE PlacesInv'
<1>1. TypeInv'
  BY TypeStep DEF PlacesInv
<1> USE DEF clientVars, threadVars, exporterVars
<1>2. ASSUME NEW c \in Clients, NEW r \in Reports, SubmitStart(c, r) PROVE PlacesInv'
  <2>1. queue' = queue /\ item' = item /\ fate' = [fate EXCEPT ![r] = "handed"] /\ fate[r] = "new"
    BY <1>2 DEF SubmitStart
  <2>2. Sending' = Sending
    BY <1>2 DEF SubmitStart, StartWorker, Sending, PlacesInv, TypeInv, TypeOK
  <2>3. Handed'
    BY <1>2 DEF SubmitStart, Handed, PlacesInv, TypeInv, TypeOK
  <2> QED BY <1>1, <2>1, <2>2, <2>3, PlacesFate
<1>3. ASSUME NEW c \in Clients, SubmitDrop(c) PROVE PlacesInv'
  <2>1. /\ queue' = queue /\ item' = item /\ report[c] \in Reports /\ fate[report[c]] = "handed"
        /\ fate' = [fate EXCEPT ![report[c]] = "dropped"]
    BY <1>3 DEF SubmitDrop, PlacesInv, Handed, TypeInv, Carrying
  <2>2. Sending' = Sending
    BY <1>3 DEF SubmitDrop, Sending
  <2>3. Handed'
    BY <1>3, NoneAssumption DEF SubmitDrop, Handed, PlacesInv, TypeInv, TypeOK, Carrying
  <2> QED BY <1>1, <2>1, <2>2, <2>3, PlacesFate
<1>4. ASSUME NEW c \in Clients, SubmitCount(c) \/ Flush(c) \/ Shutdown(c) PROVE PlacesInv'
  <2>1. CASE ShutdownPut(c)
    <3> USE DEF PlacesInv, TypeInv, TypeOK
    <3>1. /\ Len(queue) \in Nat /\ Len(queue') = Len(queue) + 1 /\ queue'[Len(queue) + 1] = None
          /\ \A i \in 1..Len(queue) : queue'[i] = queue[i]
      BY <2>1 DEF ShutdownPut
    <3>2. ReportsIn(queue') = ReportsIn(queue) /\ \A i \in ReportsIn(queue) : queue'[i] = queue[i]
      BY <3>1, NoneAssumption DEF ReportsIn, Positions
    <3>3. Sending' = Sending /\ item' = item /\ fate' = fate
      BY <2>1 DEF ShutdownPut, Sending
    <3>4. Handed'
      BY <2>1 DEF ShutdownPut, Handed
    <3>5. Placed'
      BY <3>2, <3>3 DEF Placed
    <3> QED BY <1>1, <3>4, <3>5
  <2>2. CASE SubmitCount(c) \/ Flush(c) \/ ShutdownClaim(c) \/ ShutdownJoin(c)
    <3>1. /\ queue' = queue /\ fate' = fate /\ item' = item /\ Sending' = Sending
      BY <2>2 DEF SubmitCount, Flush, FlushBegin, FlushTrue, FlushFalse, FlushReturn,
                  ShutdownClaim, ShutdownJoin, Sending
    <3>2. Handed'
      BY <2>2 DEF SubmitCount, Flush, FlushBegin, FlushTrue, FlushFalse, FlushReturn, AfterFlush,
                  ShutdownClaim, ShutdownJoin, Handed, PlacesInv, TypeInv, TypeOK
    <3> QED BY <1>1, <3>1, <3>2, PlacesFrame
  <2> QED BY <1>4, <2>1, <2>2 DEF Shutdown
<1>5. ASSUME NEW w \in Threads, RecordFailure(w) \/ Finish(w) PROVE PlacesInv'
  <2>1. /\ queue' = queue /\ fate' = fate /\ Sending' = Sending /\ \A v \in Sending : item'[v] = item[v]
    BY <1>5 DEF RecordFailure, Finish, Sending, PlacesInv, TypeInv, TypeOK
  <2>2. Handed'
    BY <1>5 DEF RecordFailure, Finish, Handed, PlacesInv
  <2> QED BY <1>1, <2>1, <2>2, PlacesFrame
<1>6. CASE UNCHANGED vars
  <2>1. /\ queue' = queue /\ fate' = fate /\ item' = item /\ Sending' = Sending /\ Handed'
    BY <1>6 DEF vars, Sending, Handed, PlacesInv
  <2> QED BY <1>1, <2>1, PlacesFrame
<1>7. CASE Next
  BY <1>1, <1>2, <1>3, <1>4, <1>5, <1>7, PlacesPut, PlacesTake, PlacesSend DEF Next, Submit, Drain
<1> QED BY <1>6, <1>7

-----------------------------------------------------------------------------
(* The counts. A report comes in with the Condition held until it is       *)
(* counted, so the queue and the workers together have one more meanwhile. *)

LEMMA BooksFinite ==
  /\ IsFiniteSet(Holders) /\ Cardinality(Holders) \in Nat
  /\ IsFiniteSet(Counting) /\ Cardinality(Counting) \in Nat
  /\ IsFiniteSet(Refusing) /\ Cardinality(Refusing) \in Nat
  /\ IsFiniteSet(Refused) /\ Cardinality(Refused) \in Nat
  BY FiniteAssumption, FS_Subset, FS_CardinalityType DEF Holders, Counting, Refusing, Refused

LEMMA PendingStep ==
  ASSUME PlacesInv, PendingExact, [Next]_vars
  PROVE  PendingExact'
<1> DEFINE S == Reports \cup {None}
           R(q) == Cardinality(ReportsIn(q))
<1> USE DEF PlacesInv, TypeInv, TypeOK
<1>0. /\ queue \in Seq(S) /\ pending \in Int /\ Len(queue) \in Nat /\ R(queue) \in Nat
  BY PositionsFinite DEF ReportsIn
<1>1. SUFFICES ASSUME ~ UNCHANGED <<pending, Counting, queue, Holders>> PROVE PendingExact'
  BY DEF PendingExact, ReportsIn, Positions
<1>2. ASSUME NEW c \in Clients, SubmitPut(c) PROVE PendingExact'
  <2>1. report[c] \in Reports /\ queue' = Append(queue, report[c])
    BY <1>2 DEF SubmitPut, Carrying
  <2>2. R(queue') = R(queue) + 1
    <3>1. Len(queue') = Len(queue) + 1
      BY <1>0, <2>1
    <3>2. Cardinality(Positions(Append(queue, report[c]), Len(queue) + 1, Reports)) =
            Cardinality(Positions(queue, Len(queue), Reports)) + 1
      BY <1>0, <2>1, PositionsAppend
    <3> QED BY <2>1, <3>1, <3>2 DEF ReportsIn
  <2>3. Counting' = Counting \cup {c} /\ c \notin Counting
    BY <1>2 DEF SubmitPut, Counting
  <2>4. Cardinality(Counting') = Cardinality(Counting) + 1
    BY <2>3, BooksFinite, FS_AddElement
  <2>5. pending' = pending /\ Holders' = Holders
    BY <1>2 DEF SubmitPut, threadVars, Holders
  <2> HIDE DEF R
  <2> QED BY <1>0, <2>2, <2>4, <2>5, BooksFinite DEF PendingExact, R
<1>3. ASSUME NEW c \in Clients, SubmitCount(c) PROVE PendingExact'
  <2>1. Counting' = Counting \ {c} /\ c \in Counting
    BY <1>3 DEF SubmitCount, Counting
  <2>2. Cardinality(Counting') = Cardinality(Counting) - 1
    BY <2>1, BooksFinite, FS_RemoveElement
  <2>3. pending' = pending + 1 /\ Holders' = Holders /\ queue' = queue
    BY <1>3 DEF SubmitCount, threadVars, Holders
  <2> QED BY <1>0, <2>2, <2>3, BooksFinite DEF PendingExact
<1>4. ASSUME NEW w \in Threads, TakeReport(w) \/ TakeSentinel(w) PROVE PendingExact'
  <2> DEFINE one == IF Head(queue) \in Reports THEN 1 ELSE 0
  <2>1. queue # <<>> /\ queue' = Tail(queue) /\ pending' = pending /\ Counting' = Counting
    BY <1>4 DEF TakeReport, TakeSentinel, Taken, clientVars, Counting
  <2>2. R(queue) = R(queue') + one
    <3>1. Len(queue) - 1 \in 0..(Len(queue) - 1) /\ (Len(queue) - 1) + 1 = Len(queue)
          /\ Len(queue') = Len(queue) - 1
      BY <1>0, <2>1
    <3>2. Cardinality(Positions(queue, (Len(queue) - 1) + 1, Reports)) =
            Cardinality(Positions(Tail(queue), Len(queue) - 1, Reports)) + one
      BY <1>0, <2>1, <3>1, PositionsTail
    <3> QED BY <2>1, <3>1, <3>2 DEF ReportsIn
  <2>3. Cardinality(Holders') = Cardinality(Holders) + one
    <3>1. CASE TakeReport(w)
      <4>1. Head(queue) \in Reports
        BY <1>0, <2>1, <3>1 DEF TakeReport
      <4>2. Holders' = Holders \cup {w} /\ w \notin Holders
        BY <3>1 DEF TakeReport, Holders, Busy
      <4> QED BY <4>1, <4>2, BooksFinite, FS_AddElement
    <3>2. CASE TakeSentinel(w)
      <4>1. Head(queue) \notin Reports
        BY <3>2, NoneAssumption DEF TakeSentinel
      <4>2. Holders' = Holders
        BY <3>2 DEF TakeSentinel, Holders, Busy
      <4> QED BY <4>1, <4>2, BooksFinite
    <3> QED BY <1>4, <3>1, <3>2
  <2>4. one \in Int /\ R(queue') \in Nat
    <3>1. Len(queue') \in Int
      BY <1>0, <2>1
    <3> QED BY <3>1, PositionsFinite DEF ReportsIn
  <2> HIDE DEF R, one
  <2> QED BY <1>0, <2>1, <2>2, <2>3, <2>4, BooksFinite DEF PendingExact, R
<1>5. ASSUME NEW w \in Threads, Finish(w) PROVE PendingExact'
  <2>1. Holders' = Holders \ {w} /\ w \in Holders
    BY <1>5 DEF Finish, Holders, Busy
  <2>2. Cardinality(Holders') = Cardinality(Holders) - 1
    BY <2>1, BooksFinite, FS_RemoveElement
  <2>3. pending' = pending - 1 /\ Counting' = Counting /\ queue' = queue
    BY <1>5 DEF Finish, clientVars, Counting
  <2> QED BY <1>0, <2>2, <2>3, BooksFinite DEF PendingExact
<1>6. ASSUME NEW c \in Clients, ShutdownPut(c) PROVE PendingExact'
  <2>1. queue' = Append(queue, None) /\ None \in S
    BY <1>6 DEF ShutdownPut
  <2>2. R(queue') = R(queue)
    <3>1. Len(queue') = Len(queue) + 1
      BY <1>0, <2>1
    <3>2. Cardinality(Positions(Append(queue, None), Len(queue) + 1, Reports)) =
            Cardinality(Positions(queue, Len(queue), Reports)) + (IF None \in Reports THEN 1 ELSE 0)
      <4> HIDE DEF S
      <4> QED BY <1>0, <2>1, PositionsAppend
    <3>3. None \notin Reports
      BY NoneAssumption
    <3> QED BY <1>0, <2>1, <3>1, <3>2, <3>3 DEF ReportsIn
  <2>3. pending' = pending /\ Holders' = Holders /\ Counting' = Counting
    BY <1>6 DEF ShutdownPut, threadVars, Holders, Counting
  <2> QED BY <2>2, <2>3 DEF PendingExact
<1>7. CASE UNCHANGED vars
  BY <1>1, <1>7 DEF vars, exporterVars, clientVars, threadVars, Counting, Holders
<1> USE DEF clientVars, threadVars, exporterVars, Counting, Holders, ClientStates, ThreadStates, Busy
<1>8. ASSUME NEW c \in Clients,
             (\E r \in Reports : SubmitStart(c, r)) \/ SubmitDrop(c) \/ Flush(c) \/ ShutdownClaim(c) \/ ShutdownJoin(c)
      PROVE  PendingExact'
  <2>1. UNCHANGED <<pending, queue>>
    BY <1>8 DEF SubmitStart, SubmitDrop, Flush, FlushBegin, FlushTrue, FlushFalse, FlushReturn,
       ShutdownClaim, ShutdownJoin
  <2>2. Counting' = Counting
    BY <1>8 DEF SubmitStart, SubmitDrop, Flush, FlushBegin, FlushTrue, FlushFalse, FlushReturn, AfterFlush,
       ShutdownClaim, ShutdownJoin
  <2>3. Holders' = Holders
    BY <1>8 DEF SubmitStart, StartWorker, SubmitDrop, Flush, FlushBegin, FlushTrue, FlushFalse, FlushReturn,
       ShutdownClaim, ShutdownJoin
  <2> QED BY <1>1, <2>1, <2>2, <2>3
<1>9. ASSUME NEW w \in Threads, SendReturn(w) \/ RecordFailure(w) PROVE PendingExact'
  BY <1>1, <1>9 DEF SendReturn, SendDelivered, SendRefused, RecordFailure
<1> QED BY <1>2, <1>3, <1>4, <1>5, <1>6, <1>7, <1>8, <1>9 DEF Next, Submit, Shutdown, Drain

LEMMA FailuresStep ==
  ASSUME PlacesInv, FailuresExact, [Next]_vars
  PROVE  FailuresExact'
<1> USE DEF PlacesInv, TypeInv, TypeOK
<1>1. SUFFICES ASSUME ~ UNCHANGED <<failures, Refusing, Refused>> PROVE FailuresExact'
  BY DEF FailuresExact
<1>2. ASSUME NEW w \in Threads, SendRefused(w) PROVE FailuresExact'
  <2>1. Refusing' = Refusing \cup {w} /\ w \notin Refusing /\ failures' = failures
    BY <1>2 DEF SendRefused, exporterVars, Refusing
  <2>2. item[w] \in Reports /\ fate[item[w]] = "accepted"
    BY <1>2 DEF SendRefused, Sending, Placed, Carrying, Busy
  <2>3. Refused' = Refused \cup {item[w]} /\ item[w] \notin Refused
    BY <1>2, <2>2 DEF SendRefused, Refused
  <2>4. /\ Cardinality(Refusing') = Cardinality(Refusing) + 1
        /\ Cardinality(Refused') = Cardinality(Refused) + 1
    BY <2>1, <2>3, BooksFinite, FS_AddElement
  <2> QED BY <2>1, <2>4, BooksFinite DEF FailuresExact
<1>3. ASSUME NEW w \in Threads, RecordFailure(w) PROVE FailuresExact'
  <2>1. Refusing' = Refusing \ {w} /\ w \in Refusing /\ failures' = failures + 1 /\ Refused' = Refused
    BY <1>3 DEF RecordFailure, Refusing, Refused
  <2>2. Cardinality(Refusing') = Cardinality(Refusing) - 1
    BY <2>1, BooksFinite, FS_RemoveElement
  <2> QED BY <2>1, <2>2, BooksFinite DEF FailuresExact
<1> USE DEF clientVars, threadVars, exporterVars, Refusing, Refused
<1>4. ASSUME NEW w \in Threads, TakeReport(w) \/ TakeSentinel(w) \/ Finish(w) PROVE FailuresExact'
  BY <1>1, <1>4 DEF TakeReport, TakeSentinel, Finish
<1>5. ASSUME NEW w \in Threads, SendDelivered(w) PROVE FailuresExact'
  <2>1. item[w] \in Reports /\ fate[item[w]] = "accepted"
    BY <1>5 DEF SendDelivered, Sending, Placed, Carrying, Busy
  <2> QED BY <1>1, <1>5, <2>1 DEF SendDelivered
<1>6. ASSUME NEW c \in Clients, NEW r \in Reports, SubmitStart(c, r) PROVE FailuresExact'
  BY <1>1, <1>6 DEF SubmitStart, StartWorker
<1>7. ASSUME NEW c \in Clients, SubmitPut(c) \/ SubmitDrop(c) PROVE FailuresExact'
  <2>1. report[c] \in Reports /\ fate[report[c]] = "handed"
    BY <1>7 DEF SubmitPut, SubmitDrop, Handed, Carrying
  <2> QED BY <1>1, <1>7, <2>1 DEF SubmitPut, SubmitDrop
<1>8. ASSUME NEW c \in Clients, SubmitCount(c) \/ Flush(c) \/ Shutdown(c) PROVE FailuresExact'
  BY <1>1, <1>8 DEF SubmitCount, Flush, FlushBegin, FlushTrue, FlushFalse, FlushReturn,
     Shutdown, ShutdownClaim, ShutdownPut, ShutdownJoin
<1>9. CASE UNCHANGED vars
  BY <1>1, <1>9 DEF vars
<1> QED BY <1>2, <1>3, <1>4, <1>5, <1>6, <1>7, <1>8, <1>9 DEF Next, Submit, Drain, SendReturn

LEMMA BooksInit == Init => BooksInv
<1> SUFFICES ASSUME Init PROVE BooksInv
  OBVIOUS
<1>1. /\ ReportsIn(queue) = {} /\ Holders = {} /\ Counting = {} /\ Refusing = {} /\ Refused = {} /\ Sending = {}
  BY DEF Init, ReportsIn, Positions, Holders, Busy, Counting, Refusing, Refused, Sending
<1>2. Handed /\ Placed /\ pending = 0 /\ failures = 0
  BY <1>1 DEF Init, Handed, Placed
<1>3. PendingExact /\ FailuresExact
  BY <1>1, <1>2, FS_EmptySet DEF PendingExact, FailuresExact
<1> QED BY <1>2, <1>3, TypeInit DEF BooksInv, PlacesInv

LEMMA BooksAlways == Spec => []BooksInv
<1>1. BooksInv /\ [Next]_vars => BooksInv'
  BY PlacesStep, PendingStep, FailuresStep DEF BooksInv
<1> QED BY <1>1, BooksInit, PTL DEF Spec

(* What flush() waits on is exactly what has not been sent: the reports in *)
(* the queue and those a worker has, less the one being counted in.        *)
THEOREM PendingIsExact == Spec => []PendingExact
<1>1. BooksInv => PendingExact
  BY DEF BooksInv
<1> QED BY <1>1, BooksAlways, PTL

(* An accepted report is in one place, so none is ever posted twice,       *)
(* however many workers a race of submit and shutdown leaves.              *)
THEOREM NeverPostedTwice == Spec => []OnePlace
<1>1. ASSUME BooksInv PROVE OnePlace
  <2> SUFFICES ASSUME NEW r \in Reports
               PROVE  LET queued == {i \in 1..Len(queue) : queue[i] = r}
                          sending == {w \in Threads : thread[w] = "sending" /\ item[w] = r}
                      IN  Cardinality(queued) + Cardinality(sending) = IF fate[r] = "accepted" THEN 1 ELSE 0
    BY DEF OnePlace
  <2> DEFINE queued == {i \in 1..Len(queue) : queue[i] = r}
             sending == {w \in Threads : thread[w] = "sending" /\ item[w] = r}
  <2>1. queued = {i \in ReportsIn(queue) : queue[i] = r} /\ sending = {w \in Sending : item[w] = r}
    BY DEF ReportsIn, Positions, Sending
  <2>2. /\ \A i, j \in queued : i = j
        /\ \A w, v \in sending : w = v
        /\ queued = {} \/ sending = {}
        /\ fate[r] = "accepted" <=> queued # {} \/ sending # {}
    BY <1>1, <2>1 DEF BooksInv, PlacesInv, Placed
  <2> HIDE DEF queued, sending
  <2>3. CASE fate[r] # "accepted"
    <3>1. queued = {} /\ sending = {}
      BY <2>2, <2>3
    <3>2. Cardinality(queued) = 0 /\ Cardinality(sending) = 0
      BY <3>1, FS_EmptySet
    <3> QED BY <2>3, <3>2 DEF queued, sending
  <2>4. CASE fate[r] = "accepted"
    <3>1. \/ sending = {} /\ \E i : queued = {i}
          \/ queued = {} /\ \E w : sending = {w}
      BY <2>2, <2>4
    <3>2. Cardinality({}) = 0 /\ \A x : Cardinality({x}) = 1
      BY FS_EmptySet, FS_Singleton
    <3>3. \/ Cardinality(queued) = 0 /\ Cardinality(sending) = 1
          \/ Cardinality(queued) = 1 /\ Cardinality(sending) = 0
      BY <3>1, <3>2
    <3> QED BY <2>4, <3>3 DEF queued, sending
  <2> QED BY <2>3, <2>4
<1> QED BY <1>1, BooksAlways, PTL

(* When flush() answers True, every report submit() had accepted by then   *)
(* was posted or counted as a failure: the Condition is free, so nothing   *)
(* is half counted, and nothing pending means nothing queued or in a hand. *)
THEOREM FlushSettles == Spec => FlushMeansSettled
<1> DEFINE Settled == /\ \A r \in Reports : fate[r] # "accepted"
                      /\ failures = Cardinality({r \in Reports : fate[r] = "refused"})
<1>1. ASSUME BooksInv, NEW c \in Clients, FlushTrue(c) PROVE Settled
  <2> USE DEF BooksInv, PlacesInv, TypeInv, TypeOK
  <2>1. lock = None /\ pending = 0
    BY <1>1 DEF FlushTrue, FlushReturn
  <2>2. Counting = {}
    BY <1>1, <2>1, NoneAssumption DEF Counting, Carrying
  <2>3. Len(queue) \in Int
    BY <1>1
  <2>4. IsFiniteSet(ReportsIn(queue)) /\ Cardinality(ReportsIn(queue)) \in Nat
    BY <2>3, PositionsFinite DEF ReportsIn
  <2>5. Cardinality(ReportsIn(queue)) = 0 /\ Cardinality(Holders) = 0
    BY <1>1, <2>1, <2>2, <2>4, FS_EmptySet, BooksFinite DEF PendingExact
  <2>6. ReportsIn(queue) = {} /\ Holders = {}
    BY <2>4, <2>5, FS_EmptySet, BooksFinite
  <2>7. Sending = {} /\ Refusing = {}
    BY <2>6 DEF Holders, Sending, Refusing, Busy
  <2>8. \A r \in Reports : fate[r] # "accepted"
    BY <1>1, <2>6, <2>7 DEF Placed
  <2>9. failures = Cardinality(Refused)
    BY <1>1, <2>7, FS_EmptySet DEF FailuresExact
  <2> QED BY <2>8, <2>9 DEF Refused
<1>2. BooksInv /\ [Next]_vars => [\A c \in Clients : FlushTrue(c) => Settled]_vars
  BY <1>1
<1> QED BY <1>2, BooksAlways, PTL DEF Spec, FlushMeansSettled
=============================================================================
