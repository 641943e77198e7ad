---------------------------- MODULE OtelExporter ----------------------------
(***************************************************************************)
(* The background exporter of the `otel` debug channel                     *)
(* (src/src/snakeorm/debug/otel/exporter.py): request threads hand reports *)
(* to a bounded queue.Queue, daemon worker threads take them off and post  *)
(* them, flush() waits on a Condition until nothing is pending, and        *)
(* shutdown() flushes, claims the worker and sends it a sentinel.          *)
(*                                                                         *)
(* One action is one atomic section of the code: the Condition protects    *)
(* _pending, _worker and _failures, but the queue has a lock of   *)
(* its own, so a worker takes and sends a report while the submitter that  *)
(* put it there still holds the Condition.                                 *)
(***************************************************************************)
EXTENDS Integers, FiniteSets, Sequences

CONSTANTS Clients,        \* request threads and the thread that runs atexit
          Reports,        \* every DebugReport the process will ever submit
          Threads,        \* bound: the worker threads the process may start
          QueueSize,      \* queue.Queue(maxsize=queue_size)
          WarningsRaise,  \* TRUE: the warnings filter is "error" for SnakeWarning
          None            \* Python's None: no lock holder, no worker, the sentinel

ASSUME SizeAssumption == QueueSize \in Nat \ {0}
ASSUME FiniteAssumption == IsFiniteSet(Clients) /\ IsFiniteSet(Reports) /\ IsFiniteSet(Threads)
ASSUME NoneAssumption == None \notin Clients \cup Reports \cup Threads
ASSUME WarningsAssumption == WarningsRaise \in BOOLEAN

VARIABLES
  queue,     \* _queue: reports and sentinels, oldest first
  lock,      \* the client holding the Condition between two actions, or None
  pending,   \* _pending
  dropped,   \* _dropped
  failures,  \* _failures; _warned is failures > 0, set in the same section
  worker,    \* _worker: the thread the exporter believes it has
  client,    \* where each client stands in submit / flush / shutdown
  report,    \* the report a client is submitting
  claimed,   \* the worker a client took in shutdown
  thread,    \* where each worker thread stands in _drain
  item,      \* the report a worker thread took off the queue
  fate       \* history: what became of each report

exporterVars == <<queue, lock, pending, dropped, failures, worker>>
clientVars == <<client, report, claimed>>
threadVars == <<thread, item>>
vars == <<exporterVars, clientVars, threadVars, fate>>

-----------------------------------------------------------------------------
ClientStates == {"idle", "putting", "counting", "flushing", "closing",
                 "claiming", "stopping", "joining"}
ThreadStates == {"unborn", "getting", "sending", "refusing", "finishing", "dying", "dead"}
Fates == {"new", "handed", "dropped", "accepted", "delivered", "refused"}

(* A thread that will come back to the queue, and one with a report in hand. *)
Serving == {"getting", "sending", "refusing", "finishing"}
Busy == {"sending", "refusing", "finishing", "dying"}

Init ==
  /\ queue = <<>> /\ lock = None /\ pending = 0
  /\ dropped = 0 /\ failures = 0 /\ worker = None
  /\ client = [c \in Clients |-> "idle"]
  /\ report = [c \in Clients |-> None]
  /\ claimed = [c \in Clients |-> None]
  /\ thread = [w \in Threads |-> "unborn"]
  /\ item = [w \in Threads |-> None]
  /\ fate = [r \in Reports |-> "new"]

-----------------------------------------------------------------------------
(* submit(): under the Condition, start a worker if there is none, try to   *)
(* put the report without waiting, and count it only if it went in.         *)

StartWorker ==
  IF worker # None
  THEN UNCHANGED <<worker, thread>>
  ELSE \E w \in Threads : /\ thread[w] = "unborn"
                          /\ worker' = w
                          /\ thread' = [thread EXCEPT ![w] = "getting"]

(* A free slot, for put_nowait(report) and for put(None).                    *)
Room == Len(queue) < QueueSize

SubmitStart(c, r) ==
  /\ client[c] = "idle" /\ lock = None /\ fate[r] = "new"
  /\ lock' = c
  /\ StartWorker
  /\ client' = [client EXCEPT ![c] = "putting"]
  /\ report' = [report EXCEPT ![c] = r]
  /\ fate' = [fate EXCEPT ![r] = "handed"]
  /\ UNCHANGED <<queue, pending, dropped, failures, claimed, item>>

SubmitPut(c) ==
  /\ client[c] = "putting"
  /\ Room
  /\ queue' = Append(queue, report[c])
  /\ fate' = [fate EXCEPT ![report[c]] = "accepted"]
  /\ client' = [client EXCEPT ![c] = "counting"]
  /\ UNCHANGED <<lock, pending, dropped, failures, worker, report, claimed, threadVars>>

SubmitDrop(c) ==
  /\ client[c] = "putting"
  /\ ~Room
  /\ dropped' = dropped + 1
  /\ fate' = [fate EXCEPT ![report[c]] = "dropped"]
  /\ client' = [client EXCEPT ![c] = "idle"]
  /\ report' = [report EXCEPT ![c] = None]
  /\ lock' = None
  /\ UNCHANGED <<queue, pending, failures, worker, claimed, threadVars>>

SubmitCount(c) ==
  /\ client[c] = "counting"
  /\ pending' = pending + 1
  /\ client' = [client EXCEPT ![c] = "idle"]
  /\ report' = [report EXCEPT ![c] = None]
  /\ lock' = None
  /\ UNCHANGED <<queue, dropped, failures, worker, claimed, threadVars, fate>>

-----------------------------------------------------------------------------
(* flush(): Condition.wait_for answers with the predicate it last evaluated *)
(* while holding the lock: True with nothing pending, False on the timeout. *)
(* shutdown() runs the same wait and ignores the answer.                    *)

FlushBegin(c) ==
  /\ client[c] = "idle"
  /\ \E s \in {"flushing", "closing"} : client' = [client EXCEPT ![c] = s]
  /\ UNCHANGED <<exporterVars, report, claimed, threadVars, fate>>

AfterFlush(c) == IF client[c] = "flushing" THEN "idle" ELSE "claiming"

(* Mutant: _pending is read without holding the Condition.                  *)
FlushReturnUnlocked(c) ==
  /\ client[c] \in {"flushing", "closing"}
  /\ client' = [client EXCEPT ![c] = AfterFlush(c)]
  /\ UNCHANGED <<exporterVars, report, claimed, threadVars, fate>>

FlushReturn(c) ==
  /\ client[c] \in {"flushing", "closing"} /\ lock = None
  /\ client' = [client EXCEPT ![c] = AfterFlush(c)]
  /\ UNCHANGED <<exporterVars, report, claimed, threadVars, fate>>

FlushTrue(c) == FlushReturn(c) /\ pending = 0
FlushFalse(c) == FlushReturn(c) /\ pending # 0

(* `worker, self._worker = self._worker, None`, then leave if it was None.  *)
(* Mutant: _worker keeps naming the thread that is being stopped.           *)
WorkerKept == worker

WorkerTaken == None

ShutdownClaim(c) ==
  /\ client[c] = "claiming" /\ lock = None
  /\ claimed' = [claimed EXCEPT ![c] = worker]
  /\ worker' = WorkerTaken
  /\ client' = [client EXCEPT ![c] = IF worker = None THEN "idle" ELSE "stopping"]
  /\ UNCHANGED <<queue, lock, pending, dropped, failures, report, threadVars, fate>>

(* `self._queue.put(None)` waits for a free slot, with no timeout.          *)
ShutdownPut(c) ==
  /\ client[c] = "stopping"
  /\ Room
  /\ queue' = Append(queue, None)
  /\ client' = [client EXCEPT ![c] = "joining"]
  /\ UNCHANGED <<lock, pending, dropped, failures, worker, report, claimed, threadVars, fate>>

(* `worker.join(timeout)` returns when the thread ends or the wait runs out. *)
(* Mutant: join() without a timeout.                                        *)
ShutdownJoinForever(c) ==
  /\ client[c] = "joining" /\ thread[claimed[c]] = "dead"
  /\ client' = [client EXCEPT ![c] = "idle"]
  /\ claimed' = [claimed EXCEPT ![c] = None]
  /\ UNCHANGED <<exporterVars, report, threadVars, fate>>

ShutdownJoin(c) ==
  /\ client[c] = "joining"
  /\ client' = [client EXCEPT ![c] = "idle"]
  /\ claimed' = [claimed EXCEPT ![c] = None]
  /\ UNCHANGED <<exporterVars, report, threadVars, fate>>

-----------------------------------------------------------------------------
(* _drain(): a worker takes the oldest item, ends on the sentinel, sends a  *)
(* report otherwise, and in every case uncounts it and notifies.            *)

Taken == Tail(queue)

TakeReport(w) ==
  /\ thread[w] = "getting" /\ queue # <<>> /\ Head(queue) # None
  /\ queue' = Taken
  /\ item' = [item EXCEPT ![w] = Head(queue)]
  /\ thread' = [thread EXCEPT ![w] = "sending"]
  /\ UNCHANGED <<lock, pending, dropped, failures, worker, clientVars, fate>>

TakeSentinel(w) ==
  /\ thread[w] = "getting" /\ queue # <<>> /\ Head(queue) = None
  /\ queue' = Taken
  /\ thread' = [thread EXCEPT ![w] = "dead"]
  /\ UNCHANGED <<lock, pending, dropped, failures, worker, clientVars, item, fate>>

SendDelivered(w) ==
  /\ thread[w] = "sending"
  /\ thread' = [thread EXCEPT ![w] = "finishing"]
  /\ fate' = [fate EXCEPT ![item[w]] = "delivered"]
  /\ UNCHANGED <<exporterVars, clientVars, item>>

SendRefused(w) ==
  /\ thread[w] = "sending"
  /\ thread' = [thread EXCEPT ![w] = "refusing"]
  /\ fate' = [fate EXCEPT ![item[w]] = "refused"]
  /\ UNCHANGED <<exporterVars, clientVars, item>>

(* _record_failure(): the first failure warns, outside the Condition; when  *)
(* the warnings filter turns warnings into exceptions, the exception leaves *)
(* send_now, runs the `finally` and ends the thread.                        *)
RecordFailure(w) ==
  /\ thread[w] = "refusing" /\ lock = None
  /\ failures' = failures + 1
  /\ thread' = [thread EXCEPT ![w] = IF failures = 0 /\ WarningsRaise THEN "dying" ELSE "finishing"]
  /\ UNCHANGED <<queue, lock, pending, dropped, worker, clientVars, item, fate>>

Finish(w) ==
  /\ thread[w] \in {"finishing", "dying"} /\ lock = None
  /\ pending' = pending - 1
  /\ thread' = [thread EXCEPT ![w] = IF thread[w] = "dying" THEN "dead" ELSE "getting"]
  /\ item' = [item EXCEPT ![w] = None]
  /\ UNCHANGED <<queue, lock, dropped, failures, worker, clientVars, fate>>

-----------------------------------------------------------------------------
Submit(c) == (\E r \in Reports : SubmitStart(c, r)) \/ SubmitPut(c) \/ SubmitDrop(c) \/ SubmitCount(c)
Flush(c) == FlushBegin(c) \/ FlushTrue(c) \/ FlushFalse(c)
Shutdown(c) == ShutdownClaim(c) \/ ShutdownPut(c) \/ ShutdownJoin(c)
SendReturn(w) == SendDelivered(w) \/ SendRefused(w)
Drain(w) == TakeReport(w) \/ TakeSentinel(w) \/ SendReturn(w) \/ RecordFailure(w) \/ Finish(w)

Next == (\E c \in Clients : Submit(c) \/ Flush(c) \/ Shutdown(c)) \/ (\E w \in Threads : Drain(w))

Spec == Init /\ [][Next]_vars

(* What the interpreter schedules: a call that began goes on as far as its  *)
(* waits allow, flush() and join() time out, and a worker thread runs.      *)
CallsProgress == \A c \in Clients :
  /\ WF_vars(SubmitPut(c) \/ SubmitDrop(c)) /\ WF_vars(SubmitCount(c))
  /\ WF_vars(FlushTrue(c) \/ FlushFalse(c))
  /\ WF_vars(ShutdownClaim(c)) /\ WF_vars(ShutdownPut(c)) /\ WF_vars(ShutdownJoin(c))
WorkersProgress == \A w \in Threads :
  /\ WF_vars(TakeReport(w) \/ TakeSentinel(w)) /\ WF_vars(RecordFailure(w)) /\ WF_vars(Finish(w))

(* Nothing makes a send return: post_json gives urlopen a timeout, but an   *)
(* injected transport, or a server that answers byte by byte, needs none.   *)
FairSpec == Spec /\ CallsProgress /\ WorkersProgress

-----------------------------------------------------------------------------
Positions(q, n, X) == {i \in 1..n : q[i] \in X}
SentinelsIn(q, n) == Positions(q, n, {None})
ReportsIn(q) == Positions(q, Len(q), Reports)
Live == {w \in Threads : thread[w] \in Serving}
Holders == {w \in Threads : thread[w] \in Busy}
Counting == {c \in Clients : client[c] = "counting"}
Stopping == {c \in Clients : client[c] = "stopping"}

(* Who carries a report, and who is inside the Condition.                   *)
Carrying ==
  /\ \A c \in Clients : client[c] \in {"putting", "counting"} => report[c] \in Reports /\ lock = c
  /\ \A w \in Threads : thread[w] \in Busy => item[w] \in Reports

TypeOK ==
  /\ queue \in Seq(Reports \cup {None}) /\ Len(queue) <= QueueSize
  /\ lock \in Clients \cup {None}
  /\ pending \in Int /\ dropped \in Nat /\ failures \in Nat
  /\ worker \in Threads \cup {None}
  /\ client \in [Clients -> ClientStates]
  /\ report \in [Clients -> Reports \cup {None}]
  /\ claimed \in [Clients -> Threads \cup {None}]
  /\ thread \in [Threads -> ThreadStates]
  /\ item \in [Threads -> Reports \cup {None}]
  /\ fate \in [Reports -> Fates]

(* flush() reads _pending as "queued or being sent". It is that number, up  *)
(* to a submitter still inside the Condition between put_nowait and += 1.   *)
PendingExact ==
  pending + Cardinality(Counting) = Cardinality(ReportsIn(queue)) + Cardinality(Holders)

(* An accepted report that has not been sent yet is in one place: once in   *)
(* the queue, or with one worker; so two workers left alive by a shutdown   *)
(* that raced a submit never post the same report twice.                    *)
OnePlace ==
  \A r \in Reports :
    LET queued == {i \in 1..Len(queue) : queue[i] = r}
        sending == {w \in Threads : thread[w] = "sending" /\ item[w] = r}
    IN Cardinality(queued) + Cardinality(sending) = IF fate[r] = "accepted" THEN 1 ELSE 0

(* What flush() == True promises: everything submit() had accepted by then  *)
(* was posted or counted as a failure.                                      *)
FlushMeansSettled ==
  [][\A c \in Clients : FlushTrue(c) =>
       /\ \A r \in Reports : fate[r] # "accepted"
       /\ failures = Cardinality({r \in Reports : fate[r] = "refused"})]_vars

(* Every thread alive is either the one _worker names or has a sentinel of  *)
(* its own on the way: a submit that lands inside shutdown() starts a       *)
(* second worker, and whichever takes the sentinel, one of the two stays.   *)
WorkersBalance ==
  Cardinality(Live) = Cardinality(SentinelsIn(queue, Len(queue)))
                      + Cardinality(Stopping) + (IF worker = None THEN 0 ELSE 1)

(* No report is stranded: behind however many sentinels it waits, more      *)
(* threads than that are alive, so one is left to take it.                  *)
ReportHasReader ==
  \A i \in ReportsIn(queue) : Cardinality(SentinelsIn(queue, i - 1)) < Cardinality(Live)

(* Where no send lasts for ever, the worker settles every report the queue  *)
(* accepted, whatever flushes and shutdowns happen meanwhile.               *)
SendsEnd == \A w \in Threads : []<>(thread[w] # "sending")
AcceptedIsSettled ==
  SendsEnd => \A r \in Reports : (fate[r] = "accepted") ~> (fate[r] \in {"delivered", "refused"})

(* shutdown(), which atexit runs, returns: flush() and join() run out, and   *)
(* a send that never ends does not hold it. One case stops it for good:     *)
(* there is no room for its sentinel and every worker that could make some  *)
(* is inside such a send.                                                   *)
HeldUp(c) ==
  /\ client[c] = "stopping" /\ ~Room
  /\ Live # {} /\ \A w \in Live : thread[w] = "sending"
ShutdownReturns ==
  \A c \in Clients : <>[]HeldUp(c) \/ ((client[c] = "closing") ~> (client[c] = "idle"))

(* "Daemon: a stuck send never keeps the process alive" (exporter.py:213):  *)
(* so the shutdown that atexit runs would return in every case.             *)
StuckSendKeepsNobody ==
  \A c \in Clients : (client[c] = "closing") ~> (client[c] = "idle")
=============================================================================
