------------------------------- MODULE Reports -------------------------------
(***************************************************************************)
(* The debug report of a request (src/src/snakeorm/debug/collector.py,      *)
(* capture.py) and its delivery by the three adapters (contrib/asgi.py,      *)
(* wsgi.py, django.py, deliver.py) with the sidecar buffer                  *)
(* (contrib/sidecar.py). Workers, which are threads or tasks, serve requests *)
(* side by side; the application of a request may start helper tasks, which  *)
(* copy its context and may outlive it.                                     *)
(***************************************************************************)
EXTENDS Naturals, Sequences, FiniteSets, SequencesExt

CONSTANTS
  Workers,       \* threads or tasks, each serving one request at a time
  Helpers,       \* tasks an application starts, with a copy of its context
  Requests,      \* the requests of a behaviour
  Deployments,   \* how the process may be configured
  Capacity,      \* SidecarBuffer's capacity
  MaxStatements  \* bound: statements in a behaviour

ASSUME CapacityAssumption == Capacity \in Nat \ {0} /\ MaxStatements \in Nat
ASSUME TasksAssumption == Workers \cap Helpers = {}

VARIABLES
  deployed,   \* the configuration of this process
  channels,   \* the adapter's _channels, or Refused before it starts, or if it does not
  active,     \* the ContextVar _active, in the context of each task
  saved,      \* the token of each capture block a task is in, which holds what _active was
  records,    \* each collector's _records
  numbered,   \* the record a task has numbered and not yet appended
  stream,     \* the fetch_iter of each task that has rows left
  serves,     \* the request each task works for
  inside,     \* the scope a task is in, by the program's text
  phase,      \* where each request is
  report,     \* the report of each request
  lock,       \* who holds SidecarBuffer._lock
  store,      \* SidecarBuffer._store: tokens, the oldest first
  stores,     \* every token ever stored, in order
  response,   \* what each client was given
  ended,      \* the statements that ended in each scope
  statements  \* statements so far

scopes == <<active, saved, inside, serves>>
captured == <<records, numbered, stream, ended, statements>>
sidecar == <<lock, store, stores>>
started == <<deployed, channels>>
delivered == <<phase, report, response>>
reportVars == <<started, scopes, captured, sidecar, delivered>>

-----------------------------------------------------------------------------
(* Channels, and the environment they may go out in.                        *)
Channels == {"ssr", "envelope", "timing", "sidecar", "otel"}
Audience(c) ==
  CASE c \in {"ssr", "envelope", "sidecar"} -> "client_sql"
    [] c = "timing" -> "client_metrics"
    [] c = "otel" -> "operator"
RISKY_CHANNELS == {c \in Channels : Audience(c) = "client_sql"}

resolve_production(d) ==
  IF d.explicit # "unsaid" THEN {d.explicit}
  ELSE IF d.config # "unsaid" THEN {d.config}
  ELSE {place \in {"development"} : d.asked \cap RISKY_CHANNELS = {}}

_django_is_production(d) ==
  {IF d.explicit = "production" THEN "production" ELSE "development"}

allowed_channels(asked, place) ==
  IF place = "production" THEN asked \ RISKY_CHANNELS ELSE asked

Place(d) == IF d.adapter = "django" THEN _django_is_production(d) ELSE resolve_production(d)

-----------------------------------------------------------------------------
Refused == {"refused"}
Tasks == Workers \cup Helpers
Scopes == Requests \cup {<<r, "block">> : r \in Requests}
NoScope == <<"no scope">>
NoOne == "nobody"
NoneOpen == [scope |-> NoScope]

ASSUME NamesAssumption == NoOne \notin Tasks \cup Requests /\ NoScope \notin Scopes

Issued(t) == [of |-> serves[t], k |-> statements + 1]

(* Mutant: what is active is kept for the thread, whichever of its tasks    *)
(* runs.                                                                    *)
OfTheThread(t) == CHOOSE w \in Workers : TRUE

(* Where a task finds the ContextVar: in a context of its own.              *)
Context(t) == t

ReportsInit ==
  /\ deployed \in Deployments
  /\ channels = Refused
  /\ active = [t \in Tasks |-> NoScope]
  /\ saved = [t \in Tasks |-> <<>>]
  /\ inside = [t \in Tasks |-> NoScope]
  /\ serves = [t \in Tasks |-> NoOne]
  /\ records = [s \in Scopes |-> <<>>]
  /\ numbered = [t \in Tasks |-> NoneOpen]
  /\ stream = [t \in Tasks |-> NoneOpen]
  /\ ended = [s \in Scopes |-> <<>>]
  /\ statements = 0
  /\ lock = NoOne /\ store = <<>> /\ stores = <<>>
  /\ phase = [r \in Requests |-> "new"]
  /\ report = [r \in Requests |-> <<>>]
  /\ response = [r \in Requests |-> {}]

(* The middleware is built. It is not when nobody said where it runs and a  *)
(* channel hands out SQL.                                                   *)
Start ==
  /\ channels = Refused
  /\ \E place \in Place(deployed) : channels' = allowed_channels(deployed.asked, place)
  /\ UNCHANGED <<deployed, scopes, captured, sidecar, delivered>>

-----------------------------------------------------------------------------
(* Capture blocks.                                                          *)
Enters(t, scope) ==
  /\ saved' = [saved EXCEPT ![t] = Append(@, active[Context(t)])]
  /\ active' = [active EXCEPT ![Context(t)] = scope]

Leaves(t) ==
  /\ active' = [active EXCEPT ![Context(t)] = Last(saved[t])]
  /\ saved' = [saved EXCEPT ![t] = Front(@)]

(* An error takes the task out of every block it is in.                     *)
Unwinds(t) ==
  /\ active' = [active EXCEPT ![Context(t)] = saved[t][1]]
  /\ saved' = [saved EXCEPT ![t] = <<>>]

(* A worker takes a request. With no channel on it is handed through.       *)
Serve(w, r) ==
  /\ channels # Refused /\ serves[w] = NoOne /\ phase[r] = "new"
  /\ serves' = [serves EXCEPT ![w] = r]
  /\ phase' = [phase EXCEPT ![r] = "app"]
  /\ inside' = [inside EXCEPT ![w] = IF channels = {} THEN NoScope ELSE r]
  /\ IF channels = {} THEN UNCHANGED <<active, saved>> ELSE Enters(w, r)
  /\ UNCHANGED <<started, captured, sidecar, report, response>>

InApp(w) == serves[w] # NoOne /\ phase[serves[w]] = "app" /\ stream[w] = NoneOpen

(* The application captures a block of its own (assert_queries).            *)
OpenBlock(w) ==
  /\ InApp(w) /\ Len(saved[w]) = 1
  /\ LET block == <<serves[w], "block">> IN
       /\ Enters(w, block)
       /\ inside' = [inside EXCEPT ![w] = block]
  /\ UNCHANGED <<started, captured, sidecar, delivered, serves>>

CloseBlock(w) ==
  /\ InApp(w) /\ Len(saved[w]) = 2
  /\ Leaves(w)
  /\ inside' = [inside EXCEPT ![w] = serves[w]]
  /\ UNCHANGED <<started, captured, sidecar, delivered, serves>>

(* A helper starts with a copy of the context, and ends when it likes.      *)
Spawn(w, h) ==
  /\ InApp(w) /\ serves[h] = NoOne
  /\ serves' = [serves EXCEPT ![h] = serves[w]]
  /\ inside' = [inside EXCEPT ![h] = inside[w]]
  /\ active' = [active EXCEPT ![Context(h)] = active[Context(w)]]
  /\ UNCHANGED <<started, saved, captured, sidecar, delivered>>

HelperEnds(h) ==
  /\ serves[h] # NoOne /\ numbered[h] = NoneOpen /\ stream[h] = NoneOpen
  /\ serves' = [serves EXCEPT ![h] = NoOne]
  /\ inside' = [inside EXCEPT ![h] = NoScope]
  /\ active' = [active EXCEPT ![Context(h)] = NoScope]
  /\ UNCHANGED <<started, saved, captured, sidecar, delivered>>

-----------------------------------------------------------------------------
(* Statements. A helper works at any time; a worker in its application, and  *)
(* while the server pulls the rest of a streaming response.                 *)
MayWork(t) ==
  /\ serves[t] # NoOne /\ numbered[t] = NoneOpen
  /\ t \in Workers => phase[serves[t]] \in {"app", "streaming"}

Noted(s, scope) == IF scope = NoScope THEN ended ELSE [ended EXCEPT ![scope] = Append(@, s)]

(* DebugCollector.add: the record is numbered, its origin is looked for in   *)
(* the stack, it is appended. Between threads another may come in between.  *)
Record(it) == records' = [records EXCEPT ![it.scope] = Append(@, [n |-> it.n, s |-> it.s])]

Collects(t, s, into, in) ==
  LET it == [scope |-> into, in |-> in, n |-> Len(records[into]) + 1, s |-> s] IN
    IF into = NoScope
      THEN ended' = Noted(s, in) /\ UNCHANGED <<records, numbered>>
      ELSE numbered' = [numbered EXCEPT ![t] = it] /\ UNCHANGED <<records, ended>>

AppendsRecord(t) ==
  /\ numbered[t] # NoneOpen
  /\ Record(numbered[t])
  /\ ended' = Noted(numbered[t].s, numbered[t].in)
  /\ numbered' = [numbered EXCEPT ![t] = NoneOpen]
  /\ UNCHANGED <<started, scopes, stream, statements, sidecar, delivered>>

(* CaptureDriver.fetch_all and execute; one the engine refuses raises before *)
(* it is recorded.                                                          *)
Execute(t) ==
  /\ MayWork(t) /\ statements < MaxStatements
  /\ Collects(t, Issued(t), active[Context(t)], inside[t])
  /\ statements' = statements + 1
  /\ UNCHANGED <<started, scopes, stream, sidecar, delivered>>

(* CaptureDriver.fetch_iter looks for the collector at its first row, and    *)
(* records itself into that one when it is closed.                          *)
OpenStream(t) ==
  /\ MayWork(t) /\ stream[t] = NoneOpen /\ statements < MaxStatements
  /\ stream' = [stream EXCEPT ![t] =
       [scope |-> active[Context(t)], in |-> inside[t], s |-> Issued(t)]]
  /\ statements' = statements + 1
  /\ UNCHANGED <<started, scopes, records, numbered, ended, sidecar, delivered>>

CloseStream(t) ==
  /\ MayWork(t) /\ stream[t] # NoneOpen
  /\ Collects(t, stream[t].s, stream[t].scope, stream[t].in)
  /\ stream' = [stream EXCEPT ![t] = NoneOpen]
  /\ UNCHANGED <<started, scopes, statements, sidecar, delivered>>

-----------------------------------------------------------------------------
(* The end of a request.                                                    *)
At(w, here) == serves[w] # NoOne /\ phase[serves[w]] = here /\ numbered[w] = NoneOpen
Moves(w, there) == phase' = [phase EXCEPT ![serves[w]] = there]
Free(w) ==
  /\ serves' = [serves EXCEPT ![w] = NoOne]
  /\ inside' = [inside EXCEPT ![w] = NoScope]

(* The application returns, with its blocks closed: the scope is left.      *)
Return(w) ==
  /\ At(w, "app") /\ Len(saved[w]) < 2
  /\ IF channels = {}
       THEN /\ Moves(w, "done") /\ Free(w) /\ stream[w] = NoneOpen
            /\ UNCHANGED <<active, saved>>
       ELSE /\ Moves(w, "reporting") /\ Leaves(w)
            /\ inside' = [inside EXCEPT ![w] = NoScope] /\ UNCHANGED serves
  /\ UNCHANGED <<started, captured, sidecar, report, response>>

(* It raises: every block is left, and nothing is reported.                 *)
Raise(w) ==
  /\ At(w, "app") /\ stream[w] = NoneOpen
  /\ Moves(w, "raised") /\ Free(w)
  /\ IF saved[w] = <<>> THEN UNCHANGED <<active, saved>> ELSE Unwinds(w)
  /\ UNCHANGED <<started, captured, sidecar, report, response>>

(* collector.report().                                                      *)
Reports(w) ==
  /\ At(w, "reporting")
  /\ report' = [report EXCEPT ![serves[w]] = records[serves[w]]]
  /\ Moves(w, IF "sidecar" \in channels THEN "storing" ELSE "responding")
  /\ UNCHANGED <<started, scopes, captured, sidecar, response>>

(* Mutant: a buffer without its lock.                                       *)
NoLock(w) == {NoOne} \cup Workers

MayLock(w) == {NoOne}

(* SidecarBuffer.store, a step at a time: the entry is put last, and while  *)
(* there are too many the oldest goes.                                      *)
StoreLast(w) ==
  /\ At(w, "storing") /\ lock \in MayLock(w)
  /\ lock' = w
  /\ store' = Append(store, serves[w])
  /\ stores' = Append(stores, serves[w])
  /\ Moves(w, "trimming")
  /\ UNCHANGED <<started, scopes, captured, report, response>>

TooMany(w) ==
  /\ At(w, "trimming") /\ Len(store) > Capacity
  /\ Moves(w, "popping")
  /\ UNCHANGED <<started, scopes, captured, sidecar, report, response>>

Pop(w) ==
  /\ At(w, "popping") /\ store # <<>>
  /\ store' = Tail(store)
  /\ Moves(w, "trimming")
  /\ UNCHANGED <<started, scopes, captured, lock, stores, report, response>>

Trimmed(w) ==
  /\ At(w, "trimming") /\ Len(store) <= Capacity
  /\ lock' = NoOne
  /\ Moves(w, "responding")
  /\ UNCHANGED <<started, scopes, captured, store, stores, report, response>>

(* What goes out with a response: the headers, and in the body the envelope *)
(* of a JSON one or the panel of a page; a fragment and a stream get none.  *)
Contents == {"json", "page", "fragment", "stream"}
plan_delivery(content) ==
  (channels \cap {"timing", "sidecar"})
    \cup (IF content = "json" THEN channels \cap {"envelope"} ELSE {})
    \cup (IF content = "page" THEN channels \cap {"ssr"} ELSE {})

(* WSGI and ASGI join what the application streams inside the scope; Django  *)
(* leaves it to the server, after the middleware.                           *)
Respond(w) ==
  /\ At(w, "responding")
  /\ \E content \in Contents :
       /\ content = "stream" => deployed.adapter = "django"
       /\ stream[w] # NoneOpen => content = "stream"
       /\ response' = [response EXCEPT ![serves[w]] = plan_delivery(content)]
       /\ IF content = "stream" THEN Moves(w, "streaming") /\ UNCHANGED <<serves, inside>>
          ELSE Moves(w, "done") /\ Free(w)
  /\ UNCHANGED <<started, active, saved, captured, sidecar, report>>

Streamed(w) ==
  /\ At(w, "streaming") /\ stream[w] = NoneOpen
  /\ Moves(w, "done") /\ Free(w)
  /\ UNCHANGED <<started, active, saved, captured, sidecar, report, response>>

(* SidecarBuffer.get.                                                       *)
get(token) == {report[r] : r \in {token} \cap ToSet(store)}

-----------------------------------------------------------------------------
Works(t) == Execute(t) \/ OpenStream(t) \/ CloseStream(t) \/ AppendsRecord(t)
Sidecar(w) == StoreLast(w) \/ TooMany(w) \/ Pop(w) \/ Trimmed(w)
Finishes(w) == Return(w) \/ Raise(w) \/ Reports(w) \/ Respond(w) \/ Streamed(w)
Handles(w) ==
  \/ \E r \in Requests : Serve(w, r)
  \/ OpenBlock(w)
  \/ CloseBlock(w)
  \/ \E h \in Helpers : Spawn(w, h)
  \/ Sidecar(w)
  \/ Finishes(w)

ReportsNext ==
  \/ Start
  \/ \E w \in Workers : Handles(w)
  \/ \E h \in Helpers : HelperEnds(h)
  \/ \E t \in Tasks : Works(t)

ReportsSpec == ReportsInit /\ [][ReportsNext]_reportVars

-----------------------------------------------------------------------------
(* The report that is taken of a request has the statements that have ended *)
(* in its own scope, in that order: none of another request's, and none of  *)
(* a block the application captured for itself.                             *)
Told(r) == [i \in DOMAIN report[r] |-> report[r][i].s]
ReportIsItsOwn ==
  [][\A r \in Requests : phase[r] = "reporting" /\ phase'[r] # "reporting" =>
       Told(r)' = ended[r]]_reportVars

(* A report's statements are numbered as they arrived (collector.py:59). Not *)
(* so when two of a scope end in two threads at once.                       *)
NumberedInOrder ==
  \A r \in Requests : \A i \in DOMAIN report[r] : report[r][i].n = i

(* The sidecar answers a token a client holds with the report of the        *)
(* client's own request, or the token is gone and at least as many were     *)
(* stored after it as the buffer holds.                                     *)
Later(r) == Len(stores) - (CHOOSE i \in DOMAIN stores : stores[i] = r)
TokenShowsItsReport ==
  \A r \in Requests : lock = NoOne /\ "sidecar" \in response[r] =>
    \/ get(r) = {report[r]} /\ Len(store) <= Capacity
    \/ get(r) = {} /\ Later(r) >= Capacity

(* A client is handed SQL, or a token that leads to it, only where somebody *)
(* said that this is development: the application, the environment, or the  *)
(* settings of Django.                                                      *)
SqlNeedsAWord ==
  (\E r \in Requests : response[r] \cap {"ssr", "envelope", "sidecar"} # {}) =>
    \/ deployed.explicit = "development"
    \/ deployed.explicit = "unsaid" /\ deployed.config = "development"
    \/ deployed.adapter = "django" /\ deployed.explicit # "production"
=============================================================================
