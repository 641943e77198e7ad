----------------------------- MODULE OrdersProofs -----------------------------
(* The order desk, for any number of requests, orders, SKUs and quantities. *)
(* The row locks do their work (IInv): DecidesOnWhatIsThere, and what a row *)
(* holds fits on its shelf.                                                 *)
(* What a request has read of its order still holds when it writes, while   *)
(* no two work on the same thing (DeskInv): HeldIsPromised and with it      *)
(* NoOversell, BookExplainsShelf, SettledIsPaid and StatesGoForward. Every  *)
(* lock is in the hands of the statement its holder is at (Queued):         *)
(* NoDeadlock.                                                              *)
EXTENDS Orders, FiniteSetTheorems, WellFoundedInduction, TLAPS

(* What tables and calls are made of.                                       *)
Basket == UNION {[S -> Nat] : S \in SUBSET Skus}
Level == [on_hand : Int, reserved : Int]
Levels == UNION {[S -> Level] : S \in SUBSET Skus}
AskOK(a) ==
  /\ a.op \in OrderOps \cup LineOps \cup {"place_order"} => a.order \in OrderIds
  /\ a.op \in LineOps \cup StockOps => a.sku \in Skus
  /\ a.units \in Nat
Shape(c) == c = [ask |-> c.ask, at |-> c.at, row |-> c.row, wants |-> c.wants, held |-> c.held]
CallOK(c) ==
  /\ Shape(c) /\ AskOK(c.ask) /\ c.wants \in Basket /\ c.held \in Levels
Typed ==
  /\ stock \in [Skus -> Level]
  /\ lines \in [OrderIds -> Basket]
  /\ lock \in [Rows -> Requests \cup {Nobody}]
  /\ call = [r \in Requests |-> call[r]]
  /\ \A r \in Requests : CallOK(call[r])

(* Which use cases reach which statement.                                   *)
Lockers == Locking \cup {"reserve_units"}
PlaceOK(c) ==
  /\ c.at = "order" => c.ask.op \in OrderOps \cup LineOps
  /\ c.at \in {"stock", "again"} => c.ask.op \in StockOps \ {"reserve_units"}
  /\ c.at \in {"make", "again"} => c.ask.op = "receive"
  /\ c.at = "lines" => c.ask.op \in Locking
  /\ c.at \in {"lock", "locked"} => c.ask.op \in Lockers
  /\ c.at = "insert" => c.ask.op = "place_order"
  /\ c.at = "write" => c.ask.op \in {"attach_invoice", "remove_order"} \cup StockOps
  /\ c.at \in {"line", "retotal"} => c.ask.op \in LineOps
  /\ c.at = "write" /\ c.ask.op \in {"receive", "ship"} => c.ask.sku \in DOMAIN c.held
  /\ c.ask.op \in Locking =>
       /\ DOMAIN c.held \subseteq DOMAIN c.wants
       /\ c.at \in {"order", "lines"} => DOMAIN c.held = {}
Placed == \A r \in Requests : PlaceOK(call[r])

(* A form that sets levels has left its mark before it writes them.         *)
Marked == \A r \in Requests : call[r].ask.op \in StockForms => SetByHand(call[r].ask) \subseteq byHand

(* The rows a locking use case has read are its own, and as they were.      *)
Owned ==
  \A r \in Requests : call[r].ask.op \in Lockers =>
    \A s \in DOMAIN call[r].held : lock[StockRow(s)] = r /\ stock[s] = call[r].held[s]

(* What anybody has read of a SKU nobody set by hand was within the shelf.  *)
Within(l) == l.reserved <= l.on_hand
ReadWithin == \A r \in Requests : \A s \in DOMAIN call[r].held \ byHand : Within(call[r].held[s])

(* What a row holds fits on its shelf, whoever raced: where nobody set the  *)
(* levels, a hold is written by one who saw that there was enough.          *)
HoldsFit == \A s \in Skus \ byHand : stock[s] # NoStock => Within(stock[s])

IInv == Typed /\ Placed /\ Marked /\ Owned /\ ReadWithin /\ HoldsFit

LEMMA ShapeKept ==
  ASSUME NEW c, Shape(c), NEW x, NEW y
  PROVE  /\ Shape([c EXCEPT !.wants = x, !.at = y])
         /\ Shape([c EXCEPT !.row = x, !.at = y])
         /\ Shape([c EXCEPT !.held = x, !.at = y])
<1> DEFINE wants == [c EXCEPT !.wants = x]
           row == [c EXCEPT !.row = x]
           held == [c EXCEPT !.held = x]
<1>1. Shape(wants) /\ Shape(row) /\ Shape(held)
  BY DEF Shape
<1> HIDE DEF wants, row, held
<1>2. /\ Shape([wants EXCEPT !.at = y])
      /\ Shape([row EXCEPT !.at = y])
      /\ Shape([held EXCEPT !.at = y])
  BY <1>1 DEF Shape
<1>3. /\ [wants EXCEPT !.at = y] = [c EXCEPT !.wants = x, !.at = y]
      /\ [row EXCEPT !.at = y] = [c EXCEPT !.row = x, !.at = y]
      /\ [held EXCEPT !.at = y] = [c EXCEPT !.held = x, !.at = y]
  BY DEF wants, row, held
<1> QED BY <1>2, <1>3

LEMMA MovedTo ==
  ASSUME NEW c, Shape(c), PlaceOK(c), NEW at,
         at \notin {"order", "stock", "lines", "lock", "line", "retotal"},
         at = "write" => c.ask.op = "remove_order",
         at = "insert" => c.ask.op = "place_order", at = "locked" => c.ask.op \in Lockers,
         at \in {"make", "again"} => c.ask.op = "receive"
  PROVE  PlaceOK([c EXCEPT !.at = at])
<1> DEFINE d == [c EXCEPT !.at = at]
<1>1. d.ask = c.ask /\ d.held = c.held /\ d.wants = c.wants /\ d.at = at
  BY DEF Shape
<1> HIDE DEF d
<1>2. PlaceOK(d)
  BY <1>1 DEF PlaceOK, StockOps, StockForms
<1> QED BY <1>2 DEF d

LEMMA LevelsOfStock == ASSUME NEW S \in SUBSET Skus, NEW h \in [S -> Level] PROVE h \in Levels
BY DEF Levels

LEMMA InvariantImplies == IInv => DecidesOnWhatIsThere
BY DEF IInv, Owned, DecidesOnWhatIsThere, Lockers

LEMMA EmptyBasket == <<>> \in Basket /\ <<>> \in Levels /\ DOMAIN <<>> = {}
<1>1. <<>> \in [{} -> Nat] /\ <<>> \in [{} -> Level]
  OBVIOUS
<1>2. {} \in SUBSET Skus
  OBVIOUS
<1> QED BY <1>1, <1>2 DEF Basket, Levels

LEMMA IdleOK == CallOK(Idle) /\ PlaceOK(Idle) /\ Idle.ask.op \notin StockForms \cup Lockers /\ DOMAIN Idle.held = {}
BY EmptyBasket DEF Idle, Call, Ask, CallOK, Shape, AskOK, PlaceOK, OrderOps, LineOps, StockOps, StockForms, Lockers, Locking

LEMMA AskedOK ==
  ASSUME NEW a \in Asks
  PROVE  AskOK(a) /\ CallOK(Call(a, Start(a.op))) /\ PlaceOK(Call(a, Start(a.op)))
<1>1. AskOK(a)
  BY UnitsAssumption DEF Asks, AskOK, Ask, OrderOps, LineOps, StockOps, StockForms
<1>2. CallOK(Call(a, Start(a.op)))
  BY <1>1, EmptyBasket DEF CallOK, Shape, Call
<1>3. a.op \in OrderOps \cup LineOps \cup StockOps \cup {"place_order"}
  BY DEF Asks, Ask, OrderOps, LineOps, StockOps, StockForms
<1>4. PlaceOK(Call(a, Start(a.op)))
  BY <1>3 DEF PlaceOK, Call, Start, OrderOps, LineOps, StockOps, StockForms, Lockers, Locking
<1> QED BY <1>1, <1>2, <1>4

(***************************************************************************)
(* The two ways a step goes: the request ends its transaction, or it goes  *)
(* on with what it has just read or locked.                                 *)
(***************************************************************************)
LEMMA Finishes ==
  ASSUME IInv, NEW r \in Requests, Finish(r), byHand' = byHand,
         stock' \in [Skus -> Level], lines' \in [OrderIds -> Basket],
         \A s \in Skus : stock'[s] # stock[s] => lock[StockRow(s)] \in {r, Nobody},
         HoldsFit'
  PROVE  IInv'
<1> USE DEF IInv
<1>1. call' = [call EXCEPT ![r] = Idle]
  BY DEF Finish
<1>2. call'[r] = Idle /\ \A q \in Requests \ {r} : call'[q] = call[q]
  BY <1>1 DEF Typed
<1>3. Typed'
  <2>1. lock' \in [Rows -> Requests \cup {Nobody}]
    BY DEF Finish, Typed
  <2>2. call' = [q \in Requests |-> call'[q]]
    BY <1>1 DEF Typed
  <2>3. \A q \in Requests : CallOK(call'[q])
    BY <1>2, IdleOK DEF Typed
  <2>4. \A q \in Requests : CallOK(call[q])'
    BY <2>3 DEF CallOK, Shape, AskOK
  <2> QED BY <2>1, <2>2, <2>4 DEF Typed
<1>4. Placed'
  BY <1>2, IdleOK DEF Placed, PlaceOK
<1>5. Marked'
  BY <1>2, IdleOK DEF Marked, SetByHand
<1>6. Owned'
  <2> SUFFICES ASSUME NEW q \in Requests, call'[q].ask.op \in Lockers, NEW s \in DOMAIN call'[q].held
               PROVE  lock'[StockRow(s)] = q /\ stock'[s] = call'[q].held[s]
    BY DEF Owned
  <2>1. q # r /\ call'[q] = call[q]
    BY <1>2, IdleOK
  <2>2. lock[StockRow(s)] = q /\ stock[s] = call[q].held[s] /\ s \in Skus
    BY <2>1 DEF Owned, Typed, CallOK, Shape, Levels
  <2>3. StockRow(s) \in Rows
    BY <2>2 DEF Rows
  <2>4. lock'[StockRow(s)] = q
    BY <2>1, <2>2, <2>3 DEF Finish
  <2>5. stock'[s] = stock[s]
    BY <2>1, <2>2, RequestsAssumption DEF Nobody
  <2> QED BY <2>1, <2>2, <2>4, <2>5
<1>7. ReadWithin'
  BY <1>2, IdleOK DEF ReadWithin
<1> QED BY <1>3, <1>4, <1>5, <1>6, <1>7

LEMMA GoesOn ==
  ASSUME IInv, NEW r \in Requests, NEW c, call' = [call EXCEPT ![r] = c],
         stock' = stock, lines' = lines, byHand \subseteq byHand',
         lock' \in [Rows -> Requests \cup {Nobody}],
         \A row \in Rows : lock[row] # Nobody => lock'[row] = lock[row],
         CallOK(c), PlaceOK(c),
         c.ask.op \in StockForms => SetByHand(c.ask) \subseteq byHand',
         c.ask.op \in Lockers => \A s \in DOMAIN c.held : lock'[StockRow(s)] = r /\ stock[s] = c.held[s],
         \A s \in DOMAIN c.held \ byHand' : Within(c.held[s])
  PROVE  IInv'
<1> USE DEF IInv
<1>2. call'[r] = c /\ \A q \in Requests \ {r} : call'[q] = call[q]
  BY DEF Typed
<1>3. Typed'
  <2>1. call' = [q \in Requests |-> call'[q]]
    BY DEF Typed
  <2>2. \A q \in Requests : CallOK(call'[q])
    BY <1>2 DEF Typed
  <2>3. \A q \in Requests : CallOK(call[q])'
    BY <2>2 DEF CallOK, Shape, AskOK
  <2> QED BY <2>1, <2>3 DEF Typed
<1>4. Placed'
  BY <1>2 DEF Placed, PlaceOK
<1>5. Marked'
  <2> SUFFICES ASSUME NEW q \in Requests, call'[q].ask.op \in StockForms
               PROVE  SetByHand(call'[q].ask) \subseteq byHand'
    BY DEF Marked, SetByHand
  <2> QED BY <1>2 DEF Marked
<1>6. Owned'
  <2> SUFFICES ASSUME NEW q \in Requests, call'[q].ask.op \in Lockers, NEW s \in DOMAIN call'[q].held
               PROVE  lock'[StockRow(s)] = q /\ stock'[s] = call'[q].held[s]
    BY DEF Owned
  <2>1. CASE q = r
    BY <2>1, <1>2
  <2>2. CASE q # r
    <3>1. lock[StockRow(s)] = q /\ stock[s] = call[q].held[s] /\ s \in Skus
      BY <1>2, <2>2 DEF Owned, Typed, CallOK, Shape, Levels
    <3>2. StockRow(s) \in Rows
      BY <3>1 DEF Rows
    <3>3. lock'[StockRow(s)] = q
      BY <3>1, <3>2, RequestsAssumption DEF Nobody
    <3> QED BY <3>1, <3>3, <2>2, <1>2
  <2> QED BY <2>1, <2>2
<1>7. ReadWithin'
  BY <1>2 DEF ReadWithin
<1>8. HoldsFit'
  BY DEF HoldsFit, Within
<1> QED BY <1>3, <1>4, <1>5, <1>6, <1>7, <1>8

LEMMA Refuses ==
  ASSUME IInv, NEW r \in Requests, Refuse(r)
  PROVE  IInv'
<1>1. stock' = stock /\ lines' = lines /\ byHand' = byHand /\ Finish(r)
  BY DEF Refuse, tables, history
<1>2. HoldsFit'
  BY <1>1 DEF HoldsFit, Within, IInv
<1> QED BY <1>1, <1>2, Finishes DEF IInv, Typed

(* A request that goes on where it was, with nothing more in its hands.     *)
LEMMA Goes ==
  ASSUME IInv, NEW r \in Requests, NEW at, Go(r, at),
         stock' = stock, lines' = lines, byHand' = byHand,
         lock' \in [Rows -> Requests \cup {Nobody}],
         \A row \in Rows : lock[row] # Nobody => lock'[row] = lock[row],
         PlaceOK([call[r] EXCEPT !.at = at])
  PROVE  IInv'
<1> DEFINE c == [call[r] EXCEPT !.at = at]
<1>1. call' = [call EXCEPT ![r] = c]
  BY DEF Go
<1>2. CallOK(call[r])
  BY DEF IInv, Typed
<1>3. c.ask = call[r].ask /\ c.held = call[r].held /\ c.wants = call[r].wants /\ CallOK(c)
  BY <1>2 DEF CallOK, Shape
<1>4. c.ask.op \in StockForms => SetByHand(c.ask) \subseteq byHand'
  BY <1>3 DEF IInv, Marked
<1>5. c.ask.op \in Lockers => \A s \in DOMAIN c.held : lock'[StockRow(s)] = r /\ stock[s] = c.held[s]
  <2> SUFFICES ASSUME c.ask.op \in Lockers, NEW s \in DOMAIN c.held
               PROVE  lock'[StockRow(s)] = r /\ stock[s] = c.held[s]
    OBVIOUS
  <2>1. lock[StockRow(s)] = r /\ stock[s] = c.held[s] /\ s \in Skus
    BY <1>3, <1>2 DEF IInv, Owned, CallOK, Shape, Levels
  <2>2. StockRow(s) \in Rows
    BY <2>1 DEF Rows
  <2> QED BY <2>1, <2>2, RequestsAssumption DEF Nobody
<1>6. \A s \in DOMAIN c.held \ byHand' : Within(c.held[s])
  BY <1>3 DEF IInv, ReadWithin
<1> HIDE DEF c
<1>7. PlaceOK(c)
  BY DEF c
<1> QED BY <1>1, <1>3, <1>4, <1>5, <1>6, <1>7, GoesOn

LEMMA Takes ==
  ASSUME IInv, NEW r \in Requests, NEW row, Take(r, row) \/ lock' = lock
  PROVE  /\ lock' \in [Rows -> Requests \cup {Nobody}]
         /\ \A x \in Rows : lock[x] # Nobody => lock'[x] = lock[x]
         /\ Take(r, row) /\ row \in Rows => lock'[row] = r
BY DEF IInv, Typed, Take, Free

(***************************************************************************)
(* The steps of the orders.                                                 *)
(***************************************************************************)
LEMMA BegunKeeps ==
  ASSUME IInv, NEW r \in Requests, Begin(r)
  PROVE  IInv'
<1>1. PICK a \in Asks : /\ call' = [call EXCEPT ![r] = Call(a, Start(a.op))]
                        /\ byHand' = byHand \cup SetByHand(a)
  BY DEF Begin
<1> DEFINE c == Call(a, Start(a.op))
<1>2. c.ask = a /\ DOMAIN c.held = {} /\ CallOK(c) /\ PlaceOK(c)
  BY AskedOK, EmptyBasket DEF Call
<1>3. stock' = stock /\ lines' = lines /\ lock' = lock
  BY DEF Begin, tables
<1> HIDE DEF c
<1>4. call' = [call EXCEPT ![r] = c]
  BY <1>1 DEF c
<1> QED BY <1>1, <1>2, <1>3, <1>4, GoesOn DEF IInv, Typed

LEMMA PlaceOrderKeeps ==
  ASSUME IInv, NEW r \in Requests, PlaceOrder(r)
  PROVE  IInv'
<1> DEFINE o == call[r].ask.order
<1>1. CASE Refuse(r)
  BY <1>1, Refuses
<1>2. CASE At(r, {"place_order"}, "reference") /\ Go(r, "insert") /\ UNCHANGED <<tables, lock, taken, history>>
  <2>0. call[r].ask.op = "place_order"
    BY <1>2 DEF At
  <2>1. PlaceOK([call[r] EXCEPT !.at = "insert"])
    BY <2>0, MovedTo DEF IInv, Typed, CallOK, Placed
  <2> QED BY <1>2, <2>1, Goes, Takes DEF tables, history, IInv, Typed
<1>3. CASE /\ At(r, {"place_order"}, "insert") /\ Finish(r)
           /\ \E basket \in Baskets : lines' = [lines EXCEPT ![o] = basket]
           /\ UNCHANGED <<stock, invoices, book, moved, taken, history>>
  <2>1. PICK basket \in Baskets : lines' = [lines EXCEPT ![o] = basket]
    BY <1>3
  <2>2. basket \in Basket
    <3>1. PICK S \in SUBSET Skus : basket \in [S -> Units]
      BY BasketsAssumption
    <3>2. basket \in [S -> Nat]
      BY <3>1, UnitsAssumption
    <3> QED BY <3>2 DEF Basket
  <2>3. lines' \in [OrderIds -> Basket]
    BY <2>1, <2>2 DEF IInv, Typed
  <2>4. HoldsFit' /\ stock' = stock /\ byHand' = byHand
    BY <1>3 DEF HoldsFit, Within, IInv, history
  <2> QED BY <1>3, <2>3, <2>4, Finishes DEF IInv, Typed
<1> QED BY <1>1, <1>2, <1>3 DEF PlaceOrder

LEMMA FindLineKeeps ==
  ASSUME IInv, NEW r \in Requests, FindLine(r)
  PROVE  IInv'
<1>1. CASE Refuse(r)
  BY <1>1, Refuses
<1>2. CASE Go(r, "order") /\ UNCHANGED <<tables, lock, taken, history>>
  <2>1. PlaceOK([call[r] EXCEPT !.at = "order"])
    <3> DEFINE c == [call[r] EXCEPT !.at = "order"]
    <3>1. call[r].ask.op = "remove_line"
      BY DEF FindLine, At
    <3>2. c.ask = call[r].ask /\ c.at = "order"
      BY DEF IInv, Typed, CallOK, Shape
    <3> HIDE DEF c
    <3>3. PlaceOK(c)
      BY <3>1, <3>2 DEF PlaceOK, LineOps, Locking
    <3> QED BY <3>3 DEF c
  <2> QED BY <1>2, <2>1, Goes DEF tables, history, IInv, Typed
<1> QED BY <1>1, <1>2 DEF FindLine

LEMMA GetOrderKeeps ==
  ASSUME IInv, NEW r \in Requests, GetOrder(r)
  PROVE  IInv'
<1> DEFINE row == order[call[r].ask.order]
           at == After(call[r].ask.op, row.state)
           c == [call[r] EXCEPT !.row = row, !.at = at]
<1>1. CASE Refuse(r)
  BY <1>1, Refuses
<1>2. CASE ~Refuse(r)
  <2>1. /\ call[r].at = "order" /\ call' = [call EXCEPT ![r] = c]
        /\ UNCHANGED <<tables, lock, taken, byHand, calls>>
    BY <1>2 DEF GetOrder
  <2>2. CallOK(call[r]) /\ PlaceOK(call[r])
    BY DEF IInv, Typed, Placed
  <2>3. c.ask = call[r].ask /\ c.held = call[r].held /\ c.at = at /\ CallOK(c)
    <3>1. Shape(c)
      BY <2>2, ShapeKept DEF CallOK
    <3>2. c.ask = call[r].ask /\ c.held = call[r].held /\ c.wants = call[r].wants /\ c.at = at
      BY <2>2 DEF CallOK, Shape
    <3> QED BY <2>2, <3>1, <3>2 DEF CallOK
  <2>4. PlaceOK(c)
    <3>1. c.ask.op \in OrderOps \cup LineOps
      BY <2>1, <2>2, <2>3 DEF PlaceOK
    <3>2. at \in {"lines", "locked", "line", "count", "write"}
      BY <3>1, <2>3 DEF After, OrderOps, LineOps
    <3>3. at = "lines" => c.ask.op \in Locking
      BY <3>1, <2>3 DEF After, OrderOps, LineOps, Locking
    <3>4. at = "line" => c.ask.op \in LineOps
      BY <3>1, <2>3 DEF After, OrderOps, LineOps, Locking
    <3>7. at = "locked" => c.ask.op \in Lockers
      BY <3>1, <2>3 DEF After, OrderOps, LineOps, Locking, Lockers
    <3>8. at = "write" => c.ask.op \in {"attach_invoice", "remove_order"}
      BY <3>1, <2>3 DEF After, OrderOps, LineOps
    <3> HIDE DEF at
    <3>5. c.wants = call[r].wants
      BY <2>2 DEF CallOK, Shape
    <3>6. c.ask.op \notin {"receive", "ship"}
      BY <3>1 DEF OrderOps, LineOps
    <3> HIDE DEF c
    <3> QED BY <2>1, <2>2, <2>3, <3>2, <3>3, <3>4, <3>5, <3>6, <3>7, <3>8 DEF PlaceOK
  <2>5. c.ask.op \in StockForms => SetByHand(c.ask) \subseteq byHand
    BY <2>3 DEF IInv, Marked
  <2>6. c.ask.op \in Lockers => \A s \in DOMAIN c.held : lock[StockRow(s)] = r /\ stock[s] = c.held[s]
    BY <2>3 DEF IInv, Owned
  <2>7. \A s \in DOMAIN c.held \ byHand : Within(c.held[s])
    BY <2>3 DEF IInv, ReadWithin
  <2>8. stock' = stock /\ lines' = lines /\ lock' = lock /\ byHand' = byHand
    BY <2>1 DEF tables
  <2>9. lock' \in [Rows -> Requests \cup {Nobody}]
    BY <2>8 DEF IInv, Typed
  <2> HIDE DEF c
  <2> QED BY <2>1, <2>3, <2>4, <2>5, <2>6, <2>7, <2>8, <2>9, GoesOn
<1> QED BY <1>1, <1>2

LEMMA GetLinesKeeps ==
  ASSUME IInv, NEW r \in Requests, GetLines(r)
  PROVE  IInv'
<1> DEFINE found == lines[call[r].ask.order]
           c == [call[r] EXCEPT !.wants = found, !.at = "lock"]
<1>1. CASE Refuse(r)
  BY <1>1, Refuses
<1>2. CASE ~Refuse(r)
  <2>1. /\ call[r].at = "lines" /\ call' = [call EXCEPT ![r] = c]
        /\ UNCHANGED <<tables, lock, taken, history>>
    BY <1>2 DEF GetLines
  <2>2. CallOK(call[r]) /\ call[r].ask.op \in Locking
    BY <2>1 DEF IInv, Typed, Placed, PlaceOK
  <2>3. found \in Basket
    BY <2>2 DEF CallOK, Shape, AskOK, IInv, Typed, Locking, OrderOps
  <2>4. c.ask = call[r].ask /\ c.held = call[r].held /\ c.at = "lock" /\ CallOK(c)
    <3>1. Shape(c)
      BY <2>2, ShapeKept DEF CallOK
    <3>2. c.ask = call[r].ask /\ c.held = call[r].held /\ c.wants = found /\ c.at = "lock"
      BY <2>2 DEF CallOK, Shape
    <3> HIDE DEF c
    <3> QED BY <2>2, <2>3, <3>1, <3>2 DEF CallOK
  <2>5. PlaceOK(c) /\ c.ask.op \notin StockForms
    <3>1. DOMAIN c.held = {} /\ DOMAIN c.wants = DOMAIN c.wants
      BY <2>1, <2>2, <2>4 DEF IInv, Placed, PlaceOK
    <3> HIDE DEF c
    <3> QED BY <3>1, <2>2, <2>4 DEF PlaceOK, Lockers, Locking, StockForms
  <2>6. c.ask.op \in Lockers => \A s \in DOMAIN c.held : lock[StockRow(s)] = r /\ stock[s] = c.held[s]
    BY <2>4 DEF IInv, Owned
  <2>7. \A s \in DOMAIN c.held \ byHand : Within(c.held[s])
    BY <2>4 DEF IInv, ReadWithin
  <2>8. stock' = stock /\ lines' = lines /\ lock' = lock /\ byHand' = byHand
    BY <2>1 DEF tables, history
  <2>9. lock' \in [Rows -> Requests \cup {Nobody}]
    BY <2>8 DEF IInv, Typed
  <2> HIDE DEF c
  <2> QED BY <2>1, <2>4, <2>5, <2>6, <2>7, <2>8, <2>9, GoesOn
<1> QED BY <1>1, <1>2

(* The lock comes first and the row is read under it.                       *)
LEMMA LockStockKeeps ==
  ASSUME IInv, NEW r \in Requests, LockStock(r)
  PROVE  IInv'
<1>1. CallOK(call[r]) /\ call[r].ask.op \in Lockers /\ call[r].at = "lock"
  BY DEF IInv, Typed, Placed, PlaceOK, LockStock
<1>2. CASE Go(r, "locked") /\ UNCHANGED <<tables, lock, taken, history>>
  <2>1. PlaceOK([call[r] EXCEPT !.at = "locked"])
    BY <1>1, MovedTo DEF CallOK, IInv, Placed
  <2> QED BY <1>2, <2>1, Goes DEF tables, history, IInv, Typed
<1>3. ASSUME NEW s \in ToLock(call[r]), ForUpdate(r, StockRow(s)),
             call' = [call EXCEPT ![r].held =
                       [t \in DOMAIN call[r].held \cup {s} |-> IF t = s THEN stock[s] ELSE call[r].held[t]]],
             UNCHANGED <<tables, taken, history>>
      PROVE  IInv'
  <2> DEFINE h == [t \in DOMAIN call[r].held \cup {s} |-> IF t = s THEN stock[s] ELSE call[r].held[t]]
             c == [call[r] EXCEPT !.held = h]
  <2>1. PICK S \in SUBSET Skus : call[r].held \in [S -> Level]
    BY <1>1 DEF CallOK, Shape, Levels
  <2>2. PICK W \in SUBSET Skus : call[r].wants \in [W -> Nat]
    BY <1>1 DEF CallOK, Shape, Basket
  <2>3. s \in Skus /\ stock[s] # NoStock /\ stock[s] \in Level
    BY <2>2, <1>3 DEF ToLock, IInv, Typed
  <2>4. S \cup {s} \in SUBSET Skus /\ h \in [S \cup {s} -> Level]
    BY <2>1, <2>3
  <2>5. h \in Levels /\ DOMAIN h = S \cup {s}
    BY <2>4, LevelsOfStock
  <2> HIDE DEF h
  <2>6. call' = [call EXCEPT ![r] = c]
    BY <1>3 DEF h
  <2>7. c.ask = call[r].ask /\ c.held = h /\ c.at = "lock" /\ CallOK(c)
    BY <1>1, <2>5 DEF CallOK, Shape
  <2>8. PlaceOK(c) /\ (c.ask.op \in StockForms => SetByHand(c.ask) \subseteq byHand)
    <3>1. c.wants = call[r].wants /\ DOMAIN c.held = S \cup {s}
      BY <1>1, <2>5, <2>7 DEF CallOK, Shape
    <3>2. call[r].ask.op \in Locking => S \cup {s} \subseteq DOMAIN call[r].wants
      BY <1>3, <2>1 DEF ToLock, IInv, Placed, PlaceOK
    <3>3. c.ask.op \in StockForms => SetByHand(c.ask) \subseteq byHand
      BY <2>7 DEF IInv, Marked
    <3> HIDE DEF c
    <3>4. PlaceOK(c)
      BY <3>1, <3>2, <1>1, <2>7 DEF PlaceOK
    <3> QED BY <3>3, <3>4
  <2>9. \A t \in S : lock[StockRow(t)] = r /\ stock[t] = call[r].held[t]
    BY <1>1, <2>1 DEF IInv, Owned
  <2>10. /\ lock' \in [Rows -> Requests \cup {Nobody}] /\ lock'[StockRow(s)] = r
         /\ \A x \in Rows : lock[x] # Nobody => lock'[x] = lock[x]
    <3>1. StockRow(s) \in Rows
      BY <2>3 DEF Rows
    <3>2. Take(r, StockRow(s))
      BY <1>3 DEF ForUpdate
    <3> QED BY <3>1, <3>2, Takes
  <2>11. \A t \in DOMAIN h : lock'[StockRow(t)] = r /\ stock[t] = h[t]
    <3> TAKE t \in DOMAIN h
    <3>1. CASE t = s
      BY <3>1, <2>10, <2>5 DEF h
    <3>2. CASE t # s
      <4>1. t \in S /\ h[t] = call[r].held[t]
        BY <3>2, <2>1, <2>5 DEF h
      <4>2. StockRow(t) \in Rows
        BY <4>1, <2>1 DEF Rows
      <4> QED BY <4>1, <4>2, <2>9, <2>10, RequestsAssumption DEF Nobody
    <3> QED BY <3>1, <3>2
  <2>12. \A t \in DOMAIN h \ byHand : Within(h[t])
    <3>1. \A t \in DOMAIN h : h[t] = IF t = s THEN stock[s] ELSE call[r].held[t]
      BY DEF h
    <3> QED BY <2>1, <2>3, <2>5, <3>1 DEF IInv, HoldsFit, ReadWithin, Within
  <2>13. stock' = stock /\ lines' = lines /\ byHand' = byHand
    BY <1>3 DEF tables, history
  <2> HIDE DEF c
  <2> QED BY <2>6, <2>7, <2>8, <2>10, <2>11, <2>12, <2>13, GoesOn
<1> QED BY <1>2, <1>3 DEF LockStock

(* The writes of rows the request has locked.                               *)
LEMMA WritesHeld ==
  ASSUME IInv, NEW r \in Requests, call[r].ask.op \in Locking, Finish(r), byHand' = byHand,
         lines' = lines, NEW new, DOMAIN new = DOMAIN call[r].held, stock' = StockUpdated(new),
         \A s \in DOMAIN new : new[s] \in Level /\ (s \notin byHand => Within(new[s]))
  PROVE  IInv'
<1>1. stock \in [Skus -> Level]
  BY DEF IInv, Typed
<1>2. \A s \in Skus : stock'[s] = IF s \in DOMAIN new /\ stock[s] # NoStock THEN new[s] ELSE stock[s]
  BY DEF StockUpdated
<1>3. stock' \in [Skus -> Level]
  <2>1. stock' = [s \in Skus |-> stock'[s]]
    BY DEF StockUpdated
  <2>2. \A s \in Skus : stock'[s] \in Level
    BY <1>1, <1>2
  <2> QED BY <2>1, <2>2
<1>4. \A s \in Skus : stock'[s] # stock[s] => lock[StockRow(s)] \in {r, Nobody}
  BY <1>2 DEF IInv, Owned, Lockers
<1>5. HoldsFit'
  <2> SUFFICES ASSUME NEW s \in Skus, s \notin byHand, stock'[s] # NoStock
               PROVE  Within(stock'[s])
    BY DEF HoldsFit, Within
  <2> QED BY <1>2 DEF IInv, HoldsFit, Within
<1>6. lines' \in [OrderIds -> Basket]
  BY DEF IInv, Typed
<1> QED BY <1>3, <1>4, <1>5, <1>6, Finishes

(* What a locking use case writes on the rows it holds.                     *)
LEMMA NewLevels ==
  ASSUME IInv, NEW r \in Requests, call[r].ask.op \in Locking
  PROVE  /\ DOMAIN HoldUnits(call[r]) = DOMAIN call[r].held
         /\ DOMAIN ReleaseUnits(call[r]) = DOMAIN call[r].held
         /\ DOMAIN ShipHeld(call[r]) = DOMAIN call[r].held
         /\ \A s \in DOMAIN call[r].held :
              /\ HoldUnits(call[r])[s] \in Level
              /\ Enough(call[r]) => Within(HoldUnits(call[r])[s])
              /\ ReleaseUnits(call[r])[s] \in Level
              /\ s \notin byHand => Within(ReleaseUnits(call[r])[s])
              /\ ShipHeld(call[r])[s] \in Level
              /\ s \notin byHand => Within(ShipHeld(call[r])[s])
<1>1. PICK S \in SUBSET Skus : call[r].held \in [S -> Level]
  BY DEF IInv, Typed, CallOK, Levels
<1>2. PICK W \in SUBSET Skus : call[r].wants \in [W -> Nat]
  BY DEF IInv, Typed, CallOK, Basket
<1>3. S \subseteq W
  BY <1>1, <1>2 DEF IInv, Placed, PlaceOK
<1>4. \A s \in S : s \notin byHand => Within(call[r].held[s])
  BY <1>1 DEF IInv, ReadWithin
<1>5. /\ DOMAIN HoldUnits(call[r]) = S /\ DOMAIN ReleaseUnits(call[r]) = S /\ DOMAIN ShipHeld(call[r]) = S
  BY <1>1 DEF HoldUnits, ReleaseUnits, ShipHeld
<1>6. ASSUME NEW s \in S
      PROVE  /\ HoldUnits(call[r])[s] \in Level
             /\ Enough(call[r]) => Within(HoldUnits(call[r])[s])
             /\ ReleaseUnits(call[r])[s] \in Level
             /\ s \notin byHand => Within(ReleaseUnits(call[r])[s])
             /\ ShipHeld(call[r])[s] \in Level
             /\ s \notin byHand => Within(ShipHeld(call[r])[s])
  <2>1. call[r].held[s] \in Level /\ call[r].wants[s] \in Nat
    BY <1>1, <1>2, <1>3
  <2>2. call[r].held[s].on_hand \in Int /\ call[r].held[s].reserved \in Int
    BY <2>1 DEF Level
  <2>3. /\ HoldUnits(call[r])[s] \in Level
        /\ Enough(call[r]) => Within(HoldUnits(call[r])[s])
    BY <1>1, <1>2, <1>3, <2>1, <2>2 DEF HoldUnits, Level, Stock, Within, Enough
  <2>4. /\ ReleaseUnits(call[r])[s] \in Level
        /\ s \notin byHand => Within(ReleaseUnits(call[r])[s])
    BY <1>1, <1>4, <2>1, <2>2 DEF ReleaseUnits, Level, Stock, Within
  <2>5. /\ ShipHeld(call[r])[s] \in Level
        /\ s \notin byHand => Within(ShipHeld(call[r])[s])
    BY <1>1, <1>4, <2>1, <2>2 DEF ShipHeld, Level, Stock, Within
  <2> QED BY <2>3, <2>4, <2>5
<1> QED BY <1>1, <1>5, <1>6

LEMMA ReserveKeeps ==
  ASSUME IInv, NEW r \in Requests, Reserve(r)
  PROVE  IInv'
<1>1. CASE Refuse(r)
  BY <1>1, Refuses
<1>2. CASE /\ Enough(call[r]) /\ Write(r, HoldUnits(call[r]), "reserved")
           /\ UNCHANGED <<lines, invoices, book, moved, taken, history>>
  <2>1. call[r].ask.op \in Locking
    BY DEF Reserve, At, Locking
  <2> QED BY <1>2, <2>1, NewLevels, WritesHeld DEF Write, history
<1> QED BY <1>1, <1>2 DEF Reserve

LEMMA CancelOrderKeeps ==
  ASSUME IInv, NEW r \in Requests, CancelOrder(r)
  PROVE  IInv'
<1>1. CASE Refuse(r)
  BY <1>1, Refuses
<1>2. CASE /\ Write(r, ReleaseUnits(call[r]), "cancelled")
           /\ UNCHANGED <<lines, invoices, book, moved, taken, history>>
  <2>1. call[r].ask.op \in Locking
    BY DEF CancelOrder, At, Locking
  <2> QED BY <1>2, <2>1, NewLevels, WritesHeld DEF Write, history
<1> QED BY <1>1, <1>2 DEF CancelOrder

LEMMA IssueInvoiceKeeps ==
  ASSUME IInv, NEW r \in Requests, IssueInvoice(r)
  PROVE  IInv'
<1>1. CASE Refuse(r)
  BY <1>1, Refuses
<1>2. CASE /\ Take(r, OrderRow(call[r].ask.order)) /\ Go(r, "charge")
           /\ UNCHANGED <<tables, taken, history>>
  <2>1. PlaceOK([call[r] EXCEPT !.at = "charge"])
    BY MovedTo DEF IInv, Typed, CallOK, Placed
  <2>2. stock' = stock /\ lines' = lines /\ byHand' = byHand
    BY <1>2 DEF tables, history
  <2> QED BY <1>2, <2>1, <2>2, Takes, Goes
<1> QED BY <1>1, <1>2 DEF IssueInvoice

LEMMA ChargeKeeps ==
  ASSUME IInv, NEW r \in Requests, Charge(r)
  PROVE  IInv'
<1>1. PlaceOK([call[r] EXCEPT !.at = "ship"])
  BY MovedTo DEF IInv, Typed, CallOK, Placed
<1>2. stock' = stock /\ lines' = lines /\ byHand' = byHand /\ lock' = lock /\ Go(r, "ship")
  BY DEF Charge, tables, history
<1> QED BY <1>1, <1>2, Takes, Goes

LEMMA DeclineKeeps ==
  ASSUME IInv, NEW r \in Requests, Decline(r)
  PROVE  IInv'
<1>1. CASE Refuse(r)
  BY <1>1, Refuses
<1>2. CASE /\ stock' = StockUpdated(ReleaseUnits(call[r])) /\ Finish(r)
           /\ UNCHANGED <<lines, book, moved, taken, history>>
  <2>1. call[r].ask.op \in Locking
    BY DEF Decline, At, Locking
  <2> QED BY <1>2, <2>1, NewLevels, WritesHeld DEF history
<1> QED BY <1>1, <1>2 DEF Decline

LEMMA ShipKeeps ==
  ASSUME IInv, NEW r \in Requests, Ship(r)
  PROVE  IInv'
<1>1. CASE Refuse(r)
  BY <1>1, Refuses
<1>2. CASE /\ stock' = StockUpdated(ShipHeld(call[r])) /\ Finish(r)
           /\ UNCHANGED <<lines, taken, history>>
  <2>1. call[r].ask.op \in Locking
    BY DEF Ship, At, Locking
  <2> QED BY <1>2, <2>1, NewLevels, WritesHeld DEF history
<1> QED BY <1>1, <1>2 DEF Ship

LEMMA EditedOK ==
  ASSUME NEW c, CallOK(c), c.ask.op \in LineOps, NEW basket \in Basket
  PROVE  Edited(c, basket) \in Basket
<1> DEFINE kept == IF c.ask.op = "set_line" THEN DOMAIN basket \cup {c.ask.sku} ELSE DOMAIN basket \ {c.ask.sku}
<1>1. PICK S \in SUBSET Skus : basket \in [S -> Nat]
  BY DEF Basket
<1>2. c.ask.sku \in Skus /\ c.ask.units \in Nat
  BY DEF CallOK, AskOK
<1>3. kept \in SUBSET Skus /\ kept \subseteq S \cup {c.ask.sku}
  BY <1>1, <1>2
<1>4. Edited(c, basket) = [s \in kept |-> IF s = c.ask.sku THEN c.ask.units ELSE basket[s]]
  BY DEF Edited
<1>5. Edited(c, basket) \in [kept -> Nat]
  BY <1>1, <1>2, <1>3, <1>4
<1> QED BY <1>3, <1>5 DEF Basket

LEMMA WriteLineKeeps ==
  ASSUME IInv, NEW r \in Requests, WriteLine(r)
  PROVE  IInv'
<1> DEFINE o == call[r].ask.order
           edited == Edited(call[r], lines[o])
           c == [call[r] EXCEPT !.wants = edited, !.at = "retotal"]
<1>1. CASE Refuse(r)
  BY <1>1, Refuses
<1>2. CASE ~Refuse(r)
  <2>1. /\ call[r].at = "line" /\ Take(r, LineRow(o, call[r].ask.sku))
        /\ call' = [call EXCEPT ![r] = c] /\ UNCHANGED <<tables, taken, history>>
    BY <1>2 DEF WriteLine
  <2>2. CallOK(call[r]) /\ call[r].ask.op \in LineOps
    BY <2>1 DEF IInv, Typed, Placed, PlaceOK
  <2>3. edited \in Basket
    <3>1. lines[o] \in Basket
      BY <2>2 DEF CallOK, AskOK, IInv, Typed
    <3> QED BY <2>2, <3>1, EditedOK
  <2> HIDE DEF edited
  <2>4. c.ask = call[r].ask /\ c.held = call[r].held /\ c.at = "retotal" /\ CallOK(c)
    <3>1. Shape(c)
      BY <2>2, ShapeKept DEF CallOK
    <3>2. c.ask = call[r].ask /\ c.held = call[r].held /\ c.wants = edited /\ c.at = "retotal"
      BY <2>2 DEF CallOK, Shape
    <3> HIDE DEF c
    <3> QED BY <2>2, <2>3, <3>1, <3>2 DEF CallOK
  <2>5. call[r].ask.op \notin StockForms \cup Lockers
    BY <2>2 DEF LineOps, StockForms, Lockers, Locking
  <2>6. \A s \in DOMAIN c.held \ byHand : Within(c.held[s])
    BY <2>4 DEF IInv, ReadWithin
  <2>7. stock' = stock /\ lines' = lines /\ byHand' = byHand
    BY <2>1 DEF tables, history
  <2> HIDE DEF c
  <2>8. PlaceOK(c)
    BY <2>2, <2>4, <2>5 DEF PlaceOK, Lockers
  <2> QED BY <2>1, <2>4, <2>5, <2>6, <2>7, <2>8, Takes, GoesOn
<1> QED BY <1>1, <1>2

LEMMA RetotalKeeps ==
  ASSUME IInv, NEW r \in Requests, Retotal(r)
  PROVE  IInv'
<1>1. CallOK(call[r]) /\ call[r].ask.op \in LineOps
  BY DEF IInv, Typed, Placed, PlaceOK, Retotal
<1>2. lines[call[r].ask.order] \in Basket
  BY <1>1 DEF CallOK, AskOK, IInv, Typed
<1>3. Edited(call[r], lines[call[r].ask.order]) \in Basket
  BY <1>1, <1>2, EditedOK
<1>4. lines' \in [OrderIds -> Basket]
  BY <1>3 DEF Retotal, IInv, Typed
<1>5. Finish(r) /\ stock' = stock /\ byHand' = byHand
  BY DEF Retotal, history
<1>6. HoldsFit'
  BY <1>5 DEF HoldsFit, Within, IInv
<1> QED BY <1>4, <1>5, <1>6, Finishes DEF IInv, Typed

LEMMA QuietFinish ==
  ASSUME IInv, NEW r \in Requests, Finish(r), stock' = stock, lines' = lines, byHand' = byHand
  PROVE  IInv'
<1>1. HoldsFit'
  BY DEF HoldsFit, IInv, Within
<1> QED BY <1>1, Finishes DEF IInv, Typed

LEMMA AttachInvoiceKeeps ==
  ASSUME IInv, NEW r \in Requests, AttachInvoice(r)
  PROVE  IInv'
BY QuietFinish DEF AttachInvoice, history

LEMMA RemoveOrderKeeps ==
  ASSUME IInv, NEW r \in Requests, RemoveOrder(r)
  PROVE  IInv'
<1>1. CASE Refuse(r)
  BY <1>1, Refuses
<1>2. CASE /\ At(r, {"remove_order"}, "count") /\ Go(r, "write")
           /\ UNCHANGED <<tables, lock, taken, history>>
  <2>1. PlaceOK([call[r] EXCEPT !.at = "write"])
    BY <1>2, MovedTo DEF IInv, Typed, CallOK, Placed, At
  <2>2. stock' = stock /\ lines' = lines /\ byHand' = byHand /\ lock' = lock
    BY <1>2 DEF tables, history
  <2> QED BY <1>2, <2>1, <2>2, Takes, Goes
<1>3. CASE Finish(r) /\ UNCHANGED <<lines, stock, invoices, book, moved, taken, history>>
  BY <1>3, QuietFinish DEF history
<1> QED BY <1>1, <1>2, <1>3 DEF RemoveOrder

(***************************************************************************)
(* The steps of the stock forms.                                            *)
(***************************************************************************)
LEMMA AskOfStock ==
  ASSUME IInv, NEW r \in Requests, call[r].ask.op \in StockOps
  PROVE  /\ call[r].ask.sku \in Skus /\ call[r].ask.units \in Nat
         /\ call[r].ask.op \notin Locking /\ (call[r].ask.op # "reserve_units" => call[r].ask.op \notin Lockers)
         /\ call[r].ask.op \in StockForms => SetByHand(call[r].ask) \subseteq byHand
BY DEF IInv, Typed, CallOK, AskOK, Marked, StockOps, StockForms, Lockers, Locking

LEMMA GetStockKeeps ==
  ASSUME IInv, NEW r \in Requests, GetStock(r)
  PROVE  IInv'
<1> DEFINE s == call[r].ask.sku
           h == [t \in {s} |-> stock[s]]
           c == [call[r] EXCEPT !.held = h, !.at = "write"]
<1>1. CASE Refuse(r)
  BY <1>1, Refuses
<1>3. CASE /\ call[r].ask.op = "receive" /\ Go(r, "make")
           /\ UNCHANGED <<tables, lock, taken, history>>
  <2>1. PlaceOK([call[r] EXCEPT !.at = "make"])
    BY <1>3, MovedTo DEF IInv, Typed, CallOK, Placed
  <2> QED BY <1>3, <2>1, Goes, Takes DEF tables, history, IInv, Typed
<1>2. CASE /\ call[r].at \in {"stock", "again"} /\ stock[s] # NoStock
           /\ call' = [call EXCEPT ![r] = c] /\ UNCHANGED <<tables, lock, taken, history>>
  <2>1. /\ call[r].at \in {"stock", "again"} /\ stock[s] # NoStock
        /\ call' = [call EXCEPT ![r] = c] /\ UNCHANGED <<tables, lock, taken, history>>
    BY <1>2
  <2>2. CallOK(call[r]) /\ call[r].ask.op \in StockOps \ {"reserve_units"}
    BY <2>1 DEF IInv, Typed, Placed, PlaceOK
  <2>3. s \in Skus /\ stock[s] \in Level /\ call[r].ask.op \notin Lockers
    BY <2>2, AskOfStock DEF IInv, Typed
  <2>4. {s} \in SUBSET Skus /\ h \in [{s} -> Level]
    BY <2>3
  <2>5. h \in Levels /\ DOMAIN h = {s} /\ h[s] = stock[s]
    BY <2>4, LevelsOfStock
  <2> HIDE DEF h
  <2>6. c.ask = call[r].ask /\ c.held = h /\ c.at = "write" /\ CallOK(c)
    <3>1. Shape(c)
      BY <2>2, ShapeKept DEF CallOK
    <3>2. c.ask = call[r].ask /\ c.held = h /\ c.wants = call[r].wants /\ c.at = "write"
      BY <2>2 DEF CallOK, Shape
    <3> HIDE DEF c
    <3> QED BY <2>2, <2>5, <3>1, <3>2 DEF CallOK
  <2>7. \A t \in DOMAIN c.held \ byHand : Within(c.held[t])
    BY <2>1, <2>3, <2>5, <2>6 DEF IInv, HoldsFit, Within
  <2>8. c.ask.op \in StockForms => SetByHand(c.ask) \subseteq byHand
    BY <2>2, <2>6, AskOfStock
  <2>9. stock' = stock /\ lines' = lines /\ byHand' = byHand /\ lock' = lock
    BY <2>1 DEF tables, history
  <2> HIDE DEF c
  <2>10. PlaceOK(c)
    BY <2>2, <2>3, <2>5, <2>6 DEF PlaceOK, Lockers
  <2> QED BY <2>1, <2>3, <2>6, <2>7, <2>8, <2>9, <2>10, Takes, GoesOn
<1> QED BY <1>1, <1>2, <1>3 DEF GetStock

(* A row that somebody made and filled meanwhile is set by hand from then.  *)
LEMMA MakeStockKeeps ==
  ASSUME IInv, NEW r \in Requests, MakeStock(r)
  PROVE  IInv'
<1> DEFINE s == call[r].ask.sku
           c == [call[r] EXCEPT !.at = "again"]
<1>1. /\ stock' = [stock EXCEPT ![s] = Stock(0, @.reserved)] /\ Free(r, StockRow(s))
      /\ lines' = lines /\ lock' = lock /\ call' = [call EXCEPT ![r] = c]
      /\ byHand \subseteq byHand' /\ (stock[s] # NoStock => s \in byHand')
  BY DEF MakeStock, Go
<1>2. call[r].ask.op = "receive" /\ call[r].ask.op \notin Lockers \cup StockForms /\ s \in Skus
  <2>1. call[r].ask.op = "receive"
    BY DEF MakeStock, At
  <2> QED BY <2>1, AskOfStock DEF StockOps, StockForms, Lockers, Locking
<1>3. CallOK(call[r]) /\ PlaceOK(c)
  BY <1>2, MovedTo DEF IInv, Typed, CallOK, Placed
<1>4. c.ask = call[r].ask /\ c.held = call[r].held /\ CallOK(c)
  BY <1>3 DEF CallOK, Shape
<1> HIDE DEF c
<1>5. call'[r] = c /\ \A q \in Requests \ {r} : call'[q] = call[q]
  BY <1>1 DEF IInv, Typed
<1>6. Typed'
  <2>1. stock' \in [Skus -> Level]
    <3>1. Stock(0, stock[s].reserved) \in Level
      BY <1>2 DEF Stock, Level, IInv, Typed
    <3> QED BY <1>1, <3>1 DEF IInv, Typed
  <2>2. \A q \in Requests : CallOK(call'[q])
    BY <1>4, <1>5 DEF IInv, Typed
  <2>3. \A q \in Requests : CallOK(call[q])'
    BY <2>2 DEF CallOK, Shape, AskOK
  <2>4. call' = [q \in Requests |-> call'[q]]
    BY <1>1 DEF IInv, Typed
  <2> QED BY <1>1, <2>1, <2>3, <2>4 DEF IInv, Typed
<1>7. Placed'
  BY <1>3, <1>5 DEF IInv, Placed, PlaceOK
<1>8. Marked'
  <2> SUFFICES ASSUME NEW q \in Requests, call'[q].ask.op \in StockForms
               PROVE  SetByHand(call'[q].ask) \subseteq byHand'
    BY DEF Marked, SetByHand
  <2> QED BY <1>1, <1>2, <1>4, <1>5 DEF IInv, Marked
<1>9. ReadWithin'
  BY <1>1, <1>4, <1>5 DEF IInv, ReadWithin
<1>10. Owned'
  <2> SUFFICES ASSUME NEW q \in Requests, call'[q].ask.op \in Lockers, NEW t \in DOMAIN call'[q].held
               PROVE  lock'[StockRow(t)] = q /\ stock'[t] = call'[q].held[t]
    BY DEF Owned
  <2>1. q # r /\ call'[q] = call[q]
    BY <1>2, <1>4, <1>5
  <2>2. lock[StockRow(t)] = q /\ stock[t] = call[q].held[t]
    BY <2>1 DEF IInv, Owned
  <2>3. t # s
    BY <1>1, <2>1, <2>2, RequestsAssumption DEF Free, Nobody
  <2> QED BY <1>1, <2>1, <2>2, <2>3 DEF IInv, Typed
<1>11. HoldsFit'
  <2> SUFFICES ASSUME NEW t \in Skus, t \notin byHand', stock'[t] # NoStock
               PROVE  Within(stock'[t])
    BY DEF HoldsFit, Within
  <2>1. CASE t = s
    <3>1. stock[s] = NoStock /\ stock'[s] = Stock(0, 0)
      BY <2>1, <1>1, <1>2 DEF IInv, Typed, NoStock
    <3> QED BY <2>1, <3>1 DEF Within, Stock
  <2>2. CASE t # s
    BY <2>2, <1>1 DEF IInv, Typed, HoldsFit
  <2> QED BY <2>1, <2>2
<1> QED BY <1>6, <1>7, <1>8, <1>9, <1>10, <1>11 DEF IInv

(* A form writes one row nobody else has locked.                            *)
LEMMA SetsOne ==
  ASSUME IInv, NEW r \in Requests, Finish(r), byHand' = byHand, lines' = lines,
         NEW s \in Skus, Free(r, StockRow(s)), NEW new, DOMAIN new = {s}, new[s] \in Level,
         s \notin byHand => Within(new[s]), stock' = StockUpdated(new)
  PROVE  IInv'
<1>1. \A t \in Skus : stock'[t] = IF t = s /\ stock[t] # NoStock THEN new[t] ELSE stock[t]
  BY DEF StockUpdated
<1>2. stock' \in [Skus -> Level]
  <2>1. stock' = [t \in Skus |-> stock'[t]]
    BY DEF StockUpdated
  <2>2. \A t \in Skus : stock'[t] \in Level
    BY <1>1 DEF IInv, Typed
  <2> QED BY <2>1, <2>2
<1>3. HoldsFit'
  BY <1>1 DEF IInv, HoldsFit, Within
<1>4. \A t \in Skus : stock'[t] # stock[t] => lock[StockRow(t)] \in {r, Nobody}
  BY <1>1 DEF Free
<1> QED BY <1>2, <1>3, <1>4, Finishes DEF IInv, Typed

(* Goods received onto a row keep what was promised of it within the shelf; *)
(* a row that was shipped from is one somebody set by hand.                 *)
LEMMA MoveStockKeeps ==
  ASSUME IInv, NEW r \in Requests, MoveStock(r)
  PROVE  IInv'
<1> DEFINE s == call[r].ask.sku
           delta == IF call[r].ask.op = "ship" THEN 0 - call[r].ask.units ELSE call[r].ask.units
           new == [t \in {s} |-> Stock(call[r].held[t].on_hand + delta, call[r].held[t].reserved)]
<1>1. CASE Refuse(r)
  BY <1>1, Refuses
<1>2. CASE ~Refuse(r)
  <2>1. /\ stock' = StockUpdated(new) /\ stock[s] # NoStock /\ Free(r, StockRow(s))
        /\ Finish(r) /\ UNCHANGED <<order, lines, invoices, taken, history>>
        /\ call[r].ask.op \in {"receive", "ship"} /\ Accepted(new)
    BY <1>2 DEF MoveStock, At
  <2>2. s \in Skus /\ call[r].ask.units \in Nat
    BY <2>1, AskOfStock DEF StockOps, StockForms
  <2>3. s \in DOMAIN call[r].held
    BY <1>2 DEF MoveStock, At, IInv, Placed, PlaceOK
  <2>4. /\ call[r].held[s].on_hand \in Int /\ call[r].held[s].reserved \in Int
        /\ s \notin byHand => Within(call[r].held[s])
    <3>1. PICK S \in SUBSET Skus : call[r].held \in [S -> Level]
      BY DEF IInv, Typed, CallOK, Levels
    <3> QED BY <2>3, <3>1 DEF Level, IInv, ReadWithin
  <2>5. DOMAIN new = {s} /\ new[s] = Stock(call[r].held[s].on_hand + delta, call[r].held[s].reserved)
    OBVIOUS
  <2>6. new[s] \in Level /\ (s \notin byHand => Within(new[s]))
    <3>1. s \notin byHand => delta >= 0
      BY <2>1, <2>2, AskOfStock DEF SetByHand, StockForms, StockOps
    <3>2. delta \in Int
      BY <2>2
    <3> HIDE DEF delta, new
    <3>3. call[r].held[s].on_hand + delta \in Int
      BY <2>4, <3>2
    <3>4. /\ new[s] \in Level /\ new[s].on_hand = call[r].held[s].on_hand + delta
          /\ new[s].reserved = call[r].held[s].reserved
      BY <2>4, <2>5, <3>3 DEF Level, Stock
    <3>5. s \notin byHand => call[r].held[s].reserved <= call[r].held[s].on_hand + delta
      BY <2>4, <3>1, <3>2 DEF Within
    <3> QED BY <3>4, <3>5 DEF Within
  <2> HIDE DEF new
  <2> QED BY <2>1, <2>2, <2>5, <2>6, SetsOne DEF history
<1> QED BY <1>1, <1>2

LEMMA CountStockKeeps ==
  ASSUME IInv, NEW r \in Requests, CountStock(r)
  PROVE  IInv'
<1> DEFINE s == call[r].ask.sku
<1>1. s \in Skus /\ call[r].ask.units \in Nat /\ s \in byHand
  BY AskOfStock DEF CountStock, At, StockOps, StockForms, SetByHand
<1>2. /\ stock' = [stock EXCEPT ![s] = Stock(call[r].ask.units, @.reserved)]
      /\ Free(r, StockRow(s)) /\ Finish(r) /\ lines' = lines /\ byHand' = byHand
  BY DEF CountStock, history
<1>3. stock' \in [Skus -> Level]
  <2>1. Stock(call[r].ask.units, stock[s].reserved) \in Level
    BY <1>1 DEF Stock, Level, IInv, Typed
  <2> QED BY <1>2, <2>1 DEF IInv, Typed
<1>4. \A t \in Skus : t # s => stock'[t] = stock[t]
  BY <1>2 DEF IInv, Typed
<1>5. HoldsFit'
  BY <1>1, <1>2, <1>4 DEF IInv, HoldsFit, Within
<1>6. \A t \in Skus : stock'[t] # stock[t] => lock[StockRow(t)] \in {r, Nobody}
  BY <1>2, <1>4 DEF Free
<1> QED BY <1>2, <1>3, <1>5, <1>6, Finishes DEF IInv, Typed

LEMMA UpdateStockKeeps ==
  ASSUME IInv, NEW r \in Requests, UpdateStock(r)
  PROVE  IInv'
<1> DEFINE s == call[r].ask.sku
<1>1. s \in Skus /\ call[r].ask.units \in Nat /\ s \in byHand
  BY AskOfStock DEF UpdateStock, At, StockOps, StockForms, SetByHand
<1>2. PICK reserved \in {0} \cup Units :
        stock' = StockUpdated([t \in {s} |-> Stock(call[r].ask.units, reserved)])
  BY DEF UpdateStock
<1> DEFINE new == [t \in {s} |-> Stock(call[r].ask.units, reserved)]
<1>3. DOMAIN new = {s} /\ new[s] \in Level
  <2>1. reserved \in Int
    BY UnitsAssumption
  <2> QED BY <1>1, <2>1 DEF Stock, Level
<1>4. stock' = StockUpdated(new) /\ Free(r, StockRow(s)) /\ Finish(r) /\ lines' = lines /\ byHand' = byHand
  BY <1>2 DEF UpdateStock, history
<1> HIDE DEF new
<1> QED BY <1>1, <1>3, <1>4, SetsOne

LEMMA ScanStockKeeps ==
  ASSUME IInv, NEW r \in Requests, ScanStock(r)
  PROVE  IInv'
<1> DEFINE found == [s \in {t \in Skus : stock[t] # NoStock} |-> call[r].ask.units]
           c == [call[r] EXCEPT !.wants = found, !.at = "lock"]
<1>1. call[r].ask.op = "reserve_units" /\ call' = [call EXCEPT ![r] = c] /\ UNCHANGED <<tables, lock, taken, history>>
  BY DEF ScanStock, At
<1>2. CallOK(call[r]) /\ Marked
  BY DEF IInv, Typed
<1>3. found \in Basket
  <2>1. found \in [{t \in Skus : stock[t] # NoStock} -> Nat]
    BY <1>2 DEF CallOK, AskOK
  <2>2. {t \in Skus : stock[t] # NoStock} \in SUBSET Skus
    OBVIOUS
  <2> HIDE DEF found
  <2> QED BY <2>1, <2>2 DEF Basket
<1>4. c.ask = call[r].ask /\ c.held = call[r].held /\ c.wants = found /\ c.at = "lock" /\ Shape(c)
  <2>1. Shape(c)
    BY <1>2, ShapeKept DEF CallOK
  <2>2. c.ask = call[r].ask /\ c.held = call[r].held /\ c.wants = found /\ c.at = "lock"
    BY <1>2 DEF CallOK, Shape
  <2> QED BY <2>1, <2>2
<1> HIDE DEF found, c
<1>5. CallOK(c) /\ PlaceOK(c)
  BY <1>1, <1>2, <1>3, <1>4 DEF CallOK, PlaceOK, Lockers, Locking
<1>6. /\ c.ask.op \in Lockers => \A s \in DOMAIN c.held : lock[StockRow(s)] = r /\ stock[s] = c.held[s]
      /\ c.ask.op \in StockForms => SetByHand(c.ask) \subseteq byHand
  BY <1>1, <1>2, <1>4 DEF IInv, Marked, Owned
<1>7. stock' = stock /\ lines' = lines /\ lock' = lock /\ byHand' = byHand
  BY <1>1 DEF tables, history
<1>8. lock' \in [Rows -> Requests \cup {Nobody}] /\ \A s \in DOMAIN c.held \ byHand : Within(c.held[s])
  BY <1>4, <1>7 DEF IInv, Typed, ReadWithin
<1> QED BY <1>1, <1>5, <1>6, <1>7, <1>8, GoesOn

(* The rows it has locked are nobody else's to decide on.                   *)
LEMMA ReserveUnitsKeeps ==
  ASSUME IInv, NEW r \in Requests, ReserveUnits(r)
  PROVE  IInv'
<1> DEFINE held == DOMAIN call[r].held
           new == [s \in held |-> Stock(stock[s].on_hand, stock[s].reserved + call[r].ask.units)]
<1>1. call[r].ask.units \in Nat /\ Skus \subseteq byHand /\ held \subseteq Skus
  <2>1. call[r].ask.op = "reserve_units"
    BY DEF ReserveUnits, At
  <2>2. SetByHand(call[r].ask) = Skus
    BY <2>1 DEF SetByHand
  <2>3. held \subseteq Skus
    BY DEF IInv, Typed, CallOK, Levels
  <2> QED BY <2>1, <2>2, <2>3, AskOfStock DEF StockOps, StockForms
<1>2. \A s \in held : new[s] \in Level
  BY <1>1 DEF IInv, Typed, Level, Stock
<1>3. DOMAIN new = held
  OBVIOUS
<1>4. /\ stock' = StockUpdated(new) /\ Finish(r) /\ lines' = lines /\ byHand' = byHand
  BY DEF ReserveUnits, history
<1>5. \A s \in held : lock[StockRow(s)] = r
  BY DEF ReserveUnits, At, IInv, Owned, Lockers
<1> HIDE DEF new, held
<1>6. stock' \in [Skus -> Level] /\ \A s \in Skus : stock'[s] # stock[s] => s \in held
  BY <1>2, <1>3, <1>4 DEF StockUpdated, IInv, Typed
<1>7. HoldsFit'
  BY <1>1, <1>4 DEF HoldsFit, Within
<1> QED BY <1>4, <1>5, <1>6, <1>7, Finishes DEF IInv, Typed

LEMMA RemoveStockKeeps ==
  ASSUME IInv, NEW r \in Requests, RemoveStock(r)
  PROVE  IInv'
<1> DEFINE s == call[r].ask.sku
<1>1. CASE Refuse(r)
  BY <1>1, Refuses
<1>2. CASE stock' = [stock EXCEPT ![s] = NoStock] /\ Finish(r) /\ lines' = lines /\ byHand' = byHand
  <2>1. NoStock \in Level
    BY DEF NoStock, Level
  <2>2. stock' \in [Skus -> Level]
    BY <1>2, <2>1 DEF IInv, Typed
  <2>3. \A t \in Skus : stock'[t] = IF t = s THEN NoStock ELSE stock[t]
    BY <1>2 DEF IInv, Typed
  <2>4. HoldsFit'
    BY <1>2, <2>3 DEF IInv, HoldsFit, Within
  <2>5. Free(r, StockRow(s))
    BY DEF RemoveStock
  <2> QED BY <1>2, <2>2, <2>3, <2>4, <2>5, Finishes DEF IInv, Typed, Free
<1> QED BY <1>1, <1>2 DEF RemoveStock, history

-----------------------------------------------------------------------------
LEMMA InitEstablishes == Init => IInv
<1> SUFFICES ASSUME Init PROVE IInv
  OBVIOUS
<1>1. \A r \in Requests : call[r] = Idle
  BY DEF Init
<1>2. Typed
  <2>1. stock \in [Skus -> Level]
    <3>1. \A n \in 0..OnHand : Stock(OnHand, n) \in Level
      BY UnitsAssumption DEF Stock, Level
    <3>2. NoStock \in Level
      BY DEF NoStock, Level
    <3> QED BY <3>1, <3>2 DEF Init
  <2>2. lines \in [OrderIds -> Basket]
    <3>1. PICK held, drafts \in SUBSET OrderIds, basket \in [OrderIds -> Baskets] :
            /\ held \cap drafts = {}
            /\ lines = [o \in OrderIds |-> IF o \in held \cup drafts THEN basket[o] ELSE <<>>]
            /\ order = [o \in OrderIds |->
                 IF o \in held THEN Order("reserved", Total(basket[o]), 0)
                 ELSE IF o \in drafts THEN Order("draft", Total(basket[o]), 0) ELSE Absent]
      BY DEF Init
    <3>2. Baskets \subseteq Basket
      <4> SUFFICES ASSUME NEW b \in Baskets PROVE b \in Basket
        OBVIOUS
      <4>1. PICK S \in SUBSET Skus : b \in [S -> Units]
        BY BasketsAssumption
      <4>2. b \in [S -> Nat]
        BY <4>1, UnitsAssumption
      <4> QED BY <4>2 DEF Basket
    <3> QED BY <3>1, <3>2, EmptyBasket
  <2>3. lock \in [Rows -> Requests \cup {Nobody}]
    BY DEF Init
  <2>4. call = [r \in Requests |-> call[r]]
    BY DEF Init
  <2> QED BY <1>1, <2>1, <2>2, <2>3, <2>4, IdleOK DEF Typed
<1>3. Placed /\ Marked /\ Owned /\ ReadWithin
  BY <1>1, IdleOK DEF Placed, Marked, Owned, ReadWithin
<1>4. HoldsFit
  <2>1. \A n \in 0..OnHand : Stock(OnHand, n).reserved <= Stock(OnHand, n).on_hand
    BY UnitsAssumption DEF Stock
  <2> QED BY <2>1 DEF Init, HoldsFit, Within
<1> QED BY <1>2, <1>3, <1>4 DEF IInv

LEMMA StepKeeps ==
  ASSUME IInv, [Next]_vars
  PROVE  IInv'
<1>1. CASE UNCHANGED vars
  BY <1>1 DEF vars, tables, history, IInv, Typed, CallOK, Shape, AskOK, Placed, PlaceOK, Marked,
     SetByHand, Owned, ReadWithin, HoldsFit, Within
<1>2. ASSUME NEW r \in Requests, Begin(r) \/ Step(r) \/ Crash(r)
      PROVE  IInv'
  <2>1. CASE Begin(r)
    BY <2>1, BegunKeeps
  <2>2. CASE OrderStep(r)
    BY <2>2, PlaceOrderKeeps, FindLineKeeps, GetOrderKeeps, Refuses, GetLinesKeeps, LockStockKeeps,
       ReserveKeeps, CancelOrderKeeps, IssueInvoiceKeeps, ChargeKeeps, DeclineKeeps, ShipKeeps,
       WriteLineKeeps, RetotalKeeps, AttachInvoiceKeeps, RemoveOrderKeeps
    DEF OrderStep, WrongSubscription
  <2>3. CASE StockStep(r)
    BY <2>3, GetStockKeeps, MakeStockKeeps, MoveStockKeeps, CountStockKeeps, UpdateStockKeeps,
       ScanStockKeeps, ReserveUnitsKeeps, RemoveStockKeeps
    DEF StockStep
  <2>4. CASE Crash(r)
    BY <2>4, Refuses DEF Crash
  <2> QED BY <1>2, <2>1, <2>2, <2>3, <2>4 DEF Step
<1> QED BY <1>1, <1>2 DEF Next

LEMMA Invariant == Spec => []IInv
BY InitEstablishes, StepKeeps, PTL DEF Spec

(* reserve(), settle() and cancel_order() decide and write on the rows as   *)
(* they are, however many requests want them: the lock is what does it.     *)
THEOREM LocksHold == Spec => []DecidesOnWhatIsThere
BY InvariantImplies, Invariant, PTL

-----------------------------------------------------------------------------
(* A set of numbers has a least one: the argument by the least              *)
(* counterexample, where an induction would take a property as parameter.   *)
LEMMA LeastOf ==
  ASSUME NEW T \in SUBSET Nat, T # {}
  PROVE  \E n \in T : \A m \in T : n <= m
<1> DEFINE R == StrictSubsetOrdering(Nat)
           C == {0..n : n \in T}
<1>1. ASSUME NEW n \in Nat PROVE 0..n \in FiniteSubsetsOf(Nat)
  BY FS_Interval DEF FiniteSubsetsOf
<1>2. C \subseteq FiniteSubsetsOf(Nat) /\ C # {}
  BY <1>1
<1>3. IsWellFoundedOn(R, FiniteSubsetsOf(Nat))
  BY FS_StrictSubsetOrderingWellFounded
<1> HIDE DEF R
<1>4. \E x \in C : \A y \in C : ~(<<y, x>> \in R)
  BY <1>2, <1>3, WFMin
<1>5. PICK n \in T : \A y \in C : ~(<<y, 0..n>> \in R)
  BY <1>4
<1>6. ASSUME NEW m \in T, m < n PROVE FALSE
  <2>1. 0..m \in C /\ 0..m \subseteq 0..n /\ n \in 0..n /\ n \notin 0..m
    BY <1>6
  <2>2. <<0..m, 0..n>> \in R
    BY <2>1 DEF StrictSubsetOrdering, R
  <2> QED BY <1>5, <2>1, <2>2
<1> QED BY <1>6

(***************************************************************************)
(* Sums over a finite set, as the community module adds them up: one        *)
(* element after another, in an order of its own.                           *)
(***************************************************************************)
Pick(s) == CHOOSE x \in s : TRUE
SumsTo(F, D, g) ==
  F = [s \in SUBSET D |-> IF s = {} THEN 0 ELSE g[Pick(s)] + F[s \ {Pick(s)}]]
SumOf(D, g) == (CHOOSE F : SumsTo(F, D, g))[D]

LEMMA Picked == ASSUME NEW s, s # {} PROVE Pick(s) \in s
BY DEF Pick

LEMMA SumsThere ==
  ASSUME NEW D, IsFiniteSet(D), NEW g
  PROVE  \E F : SumsTo(F, D, g)
<1> DEFINE Upto(n) == {s \in SUBSET D : Cardinality(s) <= n}
           SumsUpto(F, n) ==
             F = [s \in Upto(n) |-> IF s = {} THEN 0 ELSE g[Pick(s)] + F[s \ {Pick(s)}]]
           Bad == {n \in Nat : ~\E F : SumsUpto(F, n)}
<1>1. \A s \in SUBSET D : IsFiniteSet(s) /\ Cardinality(s) \in Nat /\ (Cardinality(s) = 0 <=> s = {})
  BY FS_Subset, FS_CardinalityType, FS_EmptySet
<1>2. \A n \in Nat : {} \in Upto(n)
  BY FS_EmptySet
<1>3. ASSUME NEW n \in Nat, NEW s \in Upto(n), s # {}
      PROVE  n - 1 \in Nat /\ s \ {Pick(s)} \in Upto(n - 1)
  <2>1. Pick(s) \in s /\ Cardinality(s) # 0
    BY <1>1, <1>3, Picked
  <2>2. Cardinality(s \ {Pick(s)}) = Cardinality(s) - 1
    BY <1>1, <2>1, FS_RemoveElement
  <2> QED BY <1>1, <2>1, <2>2
<1>4. Bad = {}
  <2> SUFFICES ASSUME Bad # {} PROVE FALSE
    OBVIOUS
  <2>1. PICK n \in Bad : \A m \in Bad : n <= m
    BY LeastOf
  <2>2. CASE n = 0
    <3> DEFINE F == [s \in Upto(0) |-> 0]
    <3>1. \A s \in Upto(0) : s = {}
      BY <1>1
    <3>2. SumsUpto(F, 0)
      BY <3>1
    <3> QED BY <2>2, <3>2
  <2>3. CASE n # 0
    <3> DEFINE k == n - 1
    <3>0. n \in Nat
      BY <2>1
    <3>1. k \in Nat /\ k \notin Bad
      <4>1. Bad \subseteq Nat
        OBVIOUS
      <4> HIDE DEF Bad
      <4> QED BY <2>1, <2>3, <3>0, <4>1
    <3>2. PICK G : SumsUpto(G, k)
      <4> HIDE DEF SumsUpto, k
      <4> QED BY <3>1
    <3> DEFINE F == [s \in Upto(n) |-> IF s = {} THEN 0 ELSE g[Pick(s)] + G[s \ {Pick(s)}]]
    <3>3. \A s \in Upto(k) : s \in Upto(n) /\ F[s] = G[s]
      <4>1. \A s \in Upto(k) : s \in Upto(n)
        BY <1>1, <3>0
      <4>2. \A s \in Upto(k) : G[s] = IF s = {} THEN 0 ELSE g[Pick(s)] + G[s \ {Pick(s)}]
        BY <3>2
      <4>3. \A s \in Upto(n) : F[s] = IF s = {} THEN 0 ELSE g[Pick(s)] + G[s \ {Pick(s)}]
        OBVIOUS
      <4> HIDE DEF F, Upto
      <4> QED BY <4>1, <4>2, <4>3
    <3>4. \A s \in Upto(n) : s # {} => G[s \ {Pick(s)}] = F[s \ {Pick(s)}]
      BY <1>3, <3>0, <3>3
    <3>5. SumsUpto(F, n)
      BY <3>4
    <3> QED BY <3>5
  <2> QED BY <2>2, <2>3
<1>5. PICK F : SumsUpto(F, Cardinality(D))
  BY <1>1, <1>4
<1>6. Upto(Cardinality(D)) = SUBSET D
  BY FS_Subset
<1> QED BY <1>5, <1>6 DEF SumsTo

LEMMA SumOfNone == ASSUME NEW D, NEW g, NEW F, SumsTo(F, D, g) PROVE F[{}] = 0
BY DEF SumsTo

LEMMA SumEquation ==
  ASSUME NEW D, NEW g, NEW F, SumsTo(F, D, g), NEW s \in SUBSET D, s # {}
  PROVE  F[s] = g[Pick(s)] + F[s \ {Pick(s)}] /\ Pick(s) \in s /\ s \ {Pick(s)} \in SUBSET D
BY Picked DEF SumsTo

LEMMA Smallest ==
  ASSUME NEW D, IsFiniteSet(D), NEW B \in SUBSET (SUBSET D), B # {}
  PROVE  \E s \in B : \A x \in s : s \ {x} \in SUBSET D /\ s \ {x} \notin B
<1> DEFINE R == StrictSubsetOrdering(D)
<1>1. B \subseteq FiniteSubsetsOf(D)
  BY FS_FiniteSubsetsOfFinite
<1>2. IsWellFoundedOn(R, FiniteSubsetsOf(D))
  BY FS_StrictSubsetOrderingWellFounded
<1> HIDE DEF R
<1>3. PICK s \in B : \A t \in B : ~(<<t, s>> \in R)
  BY <1>1, <1>2, WFMin
<1>4. ASSUME NEW x \in s PROVE s \ {x} \in SUBSET D /\ <<s \ {x}, s>> \in R
  BY DEF StrictSubsetOrdering, R
<1> QED BY <1>3, <1>4

LEMMA SumsAreInts ==
  ASSUME NEW D, IsFiniteSet(D), NEW g, \A x \in D : g[x] \in Int, NEW F, SumsTo(F, D, g)
  PROVE  \A s \in SUBSET D : F[s] \in Int
<1> DEFINE B == {s \in SUBSET D : F[s] \notin Int}
<1>1. ASSUME B # {} PROVE FALSE
  <2>1. PICK s \in B : \A x \in s : s \ {x} \in SUBSET D /\ s \ {x} \notin B
    <3>1. B \in SUBSET (SUBSET D)
      OBVIOUS
    <3> HIDE DEF B
    <3> QED BY <1>1, <3>1, Smallest
  <2>2. s # {}
    <3>1. F[s] \notin Int
      OBVIOUS
    <3> HIDE DEF B
    <3> QED BY <3>1, SumOfNone
  <2>3. F[s] = g[Pick(s)] + F[s \ {Pick(s)}] /\ Pick(s) \in s /\ s \ {Pick(s)} \in SUBSET D
    BY <2>2, SumEquation
  <2>4. F[s \ {Pick(s)}] \in Int
    BY <2>1, <2>3
  <2> QED BY <2>3, <2>4
<1> QED BY <1>1

LEMMA SumsAreNats ==
  ASSUME NEW D, IsFiniteSet(D), NEW g, \A x \in D : g[x] \in Nat, NEW F, SumsTo(F, D, g)
  PROVE  \A s \in SUBSET D : F[s] \in Nat
<1> DEFINE B == {s \in SUBSET D : F[s] \notin Nat}
<1>1. ASSUME B # {} PROVE FALSE
  <2>1. PICK s \in B : \A x \in s : s \ {x} \in SUBSET D /\ s \ {x} \notin B
    <3>1. B \in SUBSET (SUBSET D)
      OBVIOUS
    <3> HIDE DEF B
    <3> QED BY <1>1, <3>1, Smallest
  <2>2. s # {}
    <3>1. F[s] \notin Nat
      OBVIOUS
    <3> HIDE DEF B
    <3> QED BY <3>1, SumOfNone
  <2>3. F[s] = g[Pick(s)] + F[s \ {Pick(s)}] /\ Pick(s) \in s /\ s \ {Pick(s)} \in SUBSET D
    BY <2>2, SumEquation
  <2>4. F[s \ {Pick(s)}] \in Nat
    BY <2>1, <2>3
  <2> QED BY <2>3, <2>4
<1> QED BY <1>1

(* The order does not matter.                                               *)
LEMMA SumTakesAny ==
  ASSUME NEW D, IsFiniteSet(D), NEW g, \A x \in D : g[x] \in Int, NEW F, SumsTo(F, D, g)
  PROVE  \A s \in SUBSET D : \A y \in s : F[s] = g[y] + F[s \ {y}]
<1> DEFINE Right(s) == \A y \in s : F[s] = g[y] + F[s \ {y}]
           B == {s \in SUBSET D : ~Right(s)}
<1>1. ASSUME B # {} PROVE FALSE
  <2>1. PICK s \in B : \A x \in s : s \ {x} \in SUBSET D /\ s \ {x} \notin B
    <3>1. B \in SUBSET (SUBSET D)
      OBVIOUS
    <3> HIDE DEF B
    <3> QED BY <1>1, <3>1, Smallest
  <2>2. s \in SUBSET D /\ \A z \in s : Right(s \ {z})
    BY <2>1
  <2>3. PICK y \in s : F[s] # g[y] + F[s \ {y}]
    BY <2>1
  <2> DEFINE x == Pick(s)
  <2>4. F[s] = g[x] + F[s \ {x}] /\ x \in s
    BY <2>2, <2>3, SumEquation
  <2> HIDE DEF x
  <2>5. x # y
    BY <2>3, <2>4
  <2>6. F[s \ {x}] = g[y] + F[(s \ {x}) \ {y}]
    BY <2>2, <2>3, <2>4, <2>5
  <2>7. F[s \ {y}] = g[x] + F[(s \ {y}) \ {x}]
    BY <2>2, <2>3, <2>4, <2>5
  <2>8. (s \ {y}) \ {x} = (s \ {x}) \ {y} /\ (s \ {x}) \ {y} \in SUBSET D
    BY <2>2
  <2>9. g[x] \in Int /\ g[y] \in Int /\ F[(s \ {x}) \ {y}] \in Int
    BY <2>2, <2>3, <2>4, <2>8, SumsAreInts
  <2>10. g[x] + (g[y] + F[(s \ {x}) \ {y}]) = g[y] + (g[x] + F[(s \ {x}) \ {y}])
    BY <2>9
  <2> QED BY <2>3, <2>4, <2>6, <2>7, <2>8, <2>10
<1> QED BY <1>1

(* The sum is of what is in the set, and of nothing else.                   *)
LEMMA SumsAgree ==
  ASSUME NEW D, IsFiniteSet(D), NEW E, NEW g, NEW h, NEW F, NEW G, SumsTo(F, D, g), SumsTo(G, E, h)
  PROVE  \A s \in SUBSET (D \cap E) : (\A x \in s : g[x] = h[x]) => F[s] = G[s]
<1> DEFINE Right(s) == (\A x \in s : g[x] = h[x]) => F[s] = G[s]
           B == {s \in SUBSET (D \cap E) : ~Right(s)}
<1>1. ASSUME B # {} PROVE FALSE
  <2>1. PICK s \in B : \A x \in s : s \ {x} \in SUBSET D /\ s \ {x} \notin B
    <3>1. B \in SUBSET (SUBSET D)
      OBVIOUS
    <3> HIDE DEF B
    <3> QED BY <1>1, <3>1, Smallest
  <2>2. s \in SUBSET D /\ s \in SUBSET E /\ ~Right(s) /\ \A z \in s : Right(s \ {z})
    BY <2>1
  <2>3. s # {}
    <3>1. F[{}] = 0 /\ G[{}] = 0
      <4> HIDE DEF Right, B
      <4> QED BY SumOfNone
    <3> QED BY <2>2, <3>1
  <2>4. F[s] = g[Pick(s)] + F[s \ {Pick(s)}] /\ Pick(s) \in s
    BY <2>2, <2>3, SumEquation
  <2>5. G[s] = h[Pick(s)] + G[s \ {Pick(s)}]
    <3>1. s \in SUBSET E /\ s # {}
      BY <2>2, <2>3
    <3> HIDE DEF Right, B
    <3> QED BY <3>1, SumEquation
  <2>6. g[Pick(s)] = h[Pick(s)] /\ F[s \ {Pick(s)}] = G[s \ {Pick(s)}]
    <3>1. \A x \in s : g[x] = h[x]
      BY <2>2
    <3>2. Right(s \ {Pick(s)})
      BY <2>2, <2>4
    <3>3. \A x \in s \ {Pick(s)} : g[x] = h[x]
      BY <3>1
    <3> QED BY <2>4, <3>1, <3>2, <3>3
  <2> QED BY <2>2, <2>4, <2>5, <2>6
<1> QED BY <1>1

LEMMA SumFacts ==
  ASSUME NEW D, IsFiniteSet(D), NEW g, \A x \in D : g[x] \in Int
  PROVE  /\ SumOf(D, g) \in Int
         /\ \A x \in D : SumOf(D, g) = g[x] + SumOf(D \ {x}, g)
<1> DEFINE F == CHOOSE G : SumsTo(G, D, g)
<1>1. SumsTo(F, D, g)
  BY SumsThere
<1>2. SumOf(D, g) = F[D]
  BY DEF SumOf
<1> HIDE DEF F
<1>3. SumOf(D, g) \in Int
  BY <1>1, <1>2, SumsAreInts
<1>4. ASSUME NEW x \in D PROVE SumOf(D, g) = g[x] + SumOf(D \ {x}, g)
  <2> DEFINE H == CHOOSE G : SumsTo(G, D \ {x}, g)
  <2>1. SumsTo(H, D \ {x}, g) /\ SumOf(D \ {x}, g) = H[D \ {x}]
    BY SumsThere, FS_Subset DEF SumOf
  <2> HIDE DEF H
  <2>2. F[D \ {x}] = H[D \ {x}]
    BY <1>1, <2>1, SumsAgree
  <2>3. F[D] = g[x] + F[D \ {x}]
    BY <1>1, SumTakesAny
  <2> QED BY <1>2, <2>1, <2>2, <2>3
<1> QED BY <1>3, <1>4

LEMMA SumIsNat ==
  ASSUME NEW D, IsFiniteSet(D), NEW g, \A x \in D : g[x] \in Nat
  PROVE  SumOf(D, g) \in Nat
<1> DEFINE F == CHOOSE G : SumsTo(G, D, g)
<1>1. SumsTo(F, D, g) /\ SumOf(D, g) = F[D]
  BY SumsThere DEF SumOf
<1> HIDE DEF F
<1> QED BY <1>1, SumsAreNats

LEMMA SumOfSame ==
  ASSUME NEW D, IsFiniteSet(D), NEW g, NEW h, \A x \in D : g[x] = h[x]
  PROVE  SumOf(D, g) = SumOf(D, h)
<1> DEFINE F == CHOOSE K : SumsTo(K, D, g)
           G == CHOOSE K : SumsTo(K, D, h)
<1>1. SumsTo(F, D, g) /\ SumsTo(G, D, h) /\ SumOf(D, g) = F[D] /\ SumOf(D, h) = G[D]
  BY SumsThere DEF SumOf
<1> HIDE DEF F, G
<1> QED BY <1>1, SumsAgree

-----------------------------------------------------------------------------
(***************************************************************************)
(* The second invariant: what a request has read of its order.              *)
(***************************************************************************)
Bill == [amount : Int, paid : BOOLEAN]
Row == [state : States \cup {"absent"}, total : Int, invoice : Nat]

(* The CHECK constraints hold of every row there is.                        *)
Standing(levels) ==
  \A s \in Skus : levels[s] # NoStock => levels[s].on_hand >= 0 /\ levels[s].reserved >= 0
Tables ==
  /\ order \in [OrderIds -> Row] /\ invoices \in Seq(Bill)
  /\ taken \in [OrderIds -> Nat] /\ book \in [Skus -> Int] /\ Standing(stock)
  /\ \A r \in Requests : call[r].row \in Row

HasRead(c) == c.ask.op \in OrderOps \cup LineOps /\ c.at \notin {"idle", "find", "order"}
Deciding(c) == c.ask.op \in Locking /\ c.at \in {"lock", "locked", "charge", "ship"}
Unreserved(c) == c.ask.op = "cancel_order" /\ c.row.state = "draft"

(* Whatever runs beside it, a request goes on with an order it found in a   *)
(* state it accepts, and a settlement ships what it has charged for.        *)
ReadIn(c, charges) ==
  /\ HasRead(c) => c.row.state \in From(c.ask.op)
  /\ c.ask.op = "cancel_order" /\ c.at \in {"lines", "lock"} => c.row.state = "reserved"
  /\ c.ask.op = "settle" /\ c.at \in {"charge", "ship"} => DOMAIN c.wants = DOMAIN c.held
  /\ c.ask.op = "settle" /\ c.at = "ship" => charges[c.ask.order] > 0
Read == \A r \in Requests : ReadIn(call[r], taken)

(* While nothing has raced, what it has read of the order is what is there, *)
(* a row it has passed over has not come since, and the row receive() is to *)
(* make is not there yet.                                                   *)
PassedOver(c, s) == c.at # "lock" \/ \E t \in DOMAIN c.held : s < t
StillIn(c, os, ls, levels) ==
  /\ HasRead(c) => c.row = os[c.ask.order]
  /\ HasRead(c) /\ c.ask.op \in LineOps \cup {"attach_invoice"} => c.row.state = "draft"
  /\ Deciding(c) => IF Unreserved(c) THEN DOMAIN c.held = {} ELSE c.wants = ls[c.ask.order]
  /\ Deciding(c) /\ ~Unreserved(c) =>
       \A s \in DOMAIN c.wants \ DOMAIN c.held : PassedOver(c, s) => levels[s] = NoStock
  /\ c.at = "make" => levels[c.ask.sku] = NoStock
  /\ c.ask.op \in {"receive", "ship"} /\ c.at = "write" => c.held[c.ask.sku] = levels[c.ask.sku]
Still == ~raced => \A r \in Requests : StillIn(call[r], order, lines, stock)
Apart ==
  ~raced => \A q, r \in Requests : q # r /\ Working(q) /\ Working(r) => ~Clash(call[q].ask, call[r].ask)

Paid(o) ==
  /\ order[o].invoice \in 1..Len(invoices)
  /\ invoices[order[o].invoice] = Invoice(order[o].total, TRUE) /\ taken[o] > 0
AllPaid == \A o \in OrderIds : order[o].state = "settled" => Paid(o)

DeskInv == Tables /\ Read /\ Still /\ Apart /\ AllPaid /\ HeldIsPromised /\ BookExplainsShelf

(* What the desk promises of a SKU is a sum over the orders.                *)
Reserved == {o \in OrderIds : order[o].state = "reserved"}
Asked(s) == [o \in OrderIds |-> Wanted(o, s)]
Part(o, s) == IF order[o].state = "reserved" THEN Wanted(o, s) ELSE 0

LEMMA PromisedIsSum ==
  ASSUME NEW s
  PROVE  /\ Promised(s) = SumOf(Reserved, Asked(s))
         /\ Promised(s)' = SumOf(Reserved, Asked(s))'
<1>1. Promised(s) = SumOf(Reserved, Asked(s))
  BY ZenonT(60) DEF MapThenSumSet, MapThenFoldSet, SumsTo, Pick, Promised, SumOf, Reserved, Asked
<1>2. Promised(s)' = SumOf(Reserved, Asked(s))'
  BY ZenonT(60) DEF MapThenSumSet, MapThenFoldSet, SumsTo, Pick, Promised, SumOf, Reserved, Asked
<1> QED BY <1>1, <1>2

LEMMA WantedIsInt ==
  ASSUME NEW ls \in [OrderIds -> Basket], NEW o \in OrderIds, NEW s
  PROVE  s \in DOMAIN ls[o] => ls[o][s] \in Nat
<1>1. PICK S \in SUBSET Skus : ls[o] \in [S -> Nat]
  BY DEF Basket
<1> QED BY <1>1

(* One order changes, and the sum by its part.                              *)
LEMMA PromisedChanges ==
  ASSUME lines \in [OrderIds -> Basket], lines' \in [OrderIds -> Basket], NEW o \in OrderIds, NEW s,
         \A p \in OrderIds \ {o} : order'[p].state = order[p].state /\ lines'[p] = lines[p]
  PROVE  /\ Promised(s) \in Int /\ Part(o, s) \in Int /\ Part(o, s)' \in Int
         /\ Promised(s)' = (Promised(s) - Part(o, s)) + Part(o, s)'
<1> DEFINE D == Reserved \ {o}
<1>1. IsFiniteSet(Reserved) /\ IsFiniteSet(Reserved') /\ IsFiniteSet(D)
  BY OrdersAssumption, FS_Subset DEF Reserved
<1>2. Reserved' \ {o} = D
  BY DEF Reserved
<1>3. \A p \in OrderIds : Asked(s)[p] \in Int /\ Asked(s)'[p] \in Int
  BY WantedIsInt DEF Asked, Wanted
<1>4. \A p \in D : Asked(s)[p] = Asked(s)'[p]
  BY DEF Asked, Wanted, Reserved
<1>5. SumOf(D, Asked(s)) = SumOf(D, Asked(s)')
  <2> HIDE DEF D
  <2> QED BY <1>1, <1>4, SumOfSame
<1>6. /\ SumOf(Reserved, Asked(s)) \in Int
      /\ o \in Reserved => SumOf(Reserved, Asked(s)) = Asked(s)[o] + SumOf(D, Asked(s))
  <2>1. \A p \in Reserved : Asked(s)[p] \in Int
    BY <1>3 DEF Reserved
  <2> QED BY <1>1, <2>1, SumFacts
<1>7. /\ SumOf(Reserved', Asked(s)') \in Int
      /\ o \in Reserved' => SumOf(Reserved', Asked(s)') = Asked(s)'[o] + SumOf(D, Asked(s)')
  <2>1. \A p \in Reserved' : Asked(s)'[p] \in Int
    BY <1>3 DEF Reserved
  <2>2. o \in Reserved' => SumOf(Reserved', Asked(s)') = Asked(s)'[o] + SumOf(Reserved' \ {o}, Asked(s)')
    BY <1>1, <2>1, SumFacts
  <2>3. SumOf(Reserved', Asked(s)') \in Int
    BY <1>1, <2>1, SumFacts
  <2> HIDE DEF D
  <2> QED BY <1>2, <2>2, <2>3
<1>8. SumOf(D, Asked(s)) \in Int
  <2>1. \A p \in D : Asked(s)[p] \in Int
    BY <1>3 DEF Reserved
  <2> HIDE DEF D
  <2> QED BY <1>1, <2>1, SumFacts
<1>9. /\ o \notin Reserved => D = Reserved
      /\ o \notin Reserved' => D = Reserved'
  BY <1>2
<1>10. /\ Part(o, s) = IF o \in Reserved THEN Asked(s)[o] ELSE 0
       /\ Part(o, s)' = IF o \in Reserved' THEN Asked(s)'[o] ELSE 0
  BY DEF Part, Asked, Reserved
<1>11. Promised(s) = SumOf(Reserved, Asked(s)) /\ Promised(s)' = SumOf(Reserved', Asked(s)')
  BY PromisedIsSum
<1>12. Asked(s)[o] \in Int /\ Asked(s)'[o] \in Int
  BY <1>3
<1>13. SumOf(Reserved, Asked(s)) = Part(o, s) + SumOf(D, Asked(s))
  <2> HIDE DEF D
  <2> QED BY <1>6, <1>8, <1>9, <1>10
<1>14. SumOf(Reserved', Asked(s)') = Part(o, s)' + SumOf(D, Asked(s))
  <2> HIDE DEF D
  <2> QED BY <1>5, <1>7, <1>8, <1>9, <1>10
<1> HIDE DEF D
<1> QED BY <1>8, <1>10, <1>11, <1>12, <1>13, <1>14

(* An order's part is no more than the sum: of what is promised to nobody,  *)
(* no reserved order asks.                                                  *)
LEMMA PartOfNothing ==
  ASSUME lines \in [OrderIds -> Basket], NEW o \in OrderIds, NEW s, Promised(s) = 0
  PROVE  Part(o, s) = 0
<1> DEFINE D == Reserved \ {o}
<1>1. IsFiniteSet(Reserved) /\ IsFiniteSet(D)
  BY OrdersAssumption, FS_Subset DEF Reserved
<1>2. \A p \in OrderIds : Asked(s)[p] \in Nat
  BY WantedIsInt DEF Asked, Wanted
<1>3. SumOf(D, Asked(s)) \in Nat
  <2>1. \A p \in D : Asked(s)[p] \in Nat
    BY <1>2 DEF Reserved
  <2> HIDE DEF D
  <2> QED BY <1>1, <2>1, SumIsNat
<1>4. o \in Reserved => SumOf(Reserved, Asked(s)) = Asked(s)[o] + SumOf(D, Asked(s))
  <2>1. \A p \in Reserved : Asked(s)[p] \in Int
    BY <1>2 DEF Reserved
  <2> QED BY <1>1, <2>1, SumFacts
<1>5. SumOf(Reserved, Asked(s)) = 0
  BY PromisedIsSum
<1>6. Part(o, s) = IF o \in Reserved THEN Asked(s)[o] ELSE 0
  BY DEF Part, Asked, Reserved
<1> HIDE DEF D
<1> QED BY <1>2, <1>3, <1>4, <1>5, <1>6

(***************************************************************************)
(* The two ways a step goes, for this invariant.                            *)
(***************************************************************************)
LEMMA CallsChange ==
  ASSUME IInv, NEW r \in Requests, NEW c, call' = [call EXCEPT ![r] = c]
  PROVE  call'[r] = c /\ \A q \in Requests \ {r} : call'[q] = call[q]
BY DEF IInv, Typed

LEMMA OrdersAreOrders ==
  ASSUME IInv, NEW q \in Requests, HasRead(call[q]) \/ Deciding(call[q])
  PROVE  call[q].ask.order \in OrderIds /\ call[q].ask.order # NoOrder
<1>1. call[q].ask.op \in OrderOps \cup LineOps
  BY DEF HasRead, Deciding, Locking, OrderOps
<1>2. CallOK(call[q])
  BY DEF IInv, Typed
<1> QED BY <1>1, <1>2, OrdersAssumption DEF CallOK, AskOK, NoOrder

LEMMA IdleReads ==
  /\ Idle.row \in Row
  /\ \A charges : ReadIn(Idle, charges)
  /\ \A os, ls, levels : StillIn(Idle, os, ls, levels)
BY DEF Idle, Call, Ask, Row, Absent, ReadIn, StillIn, HasRead, Deciding, OrderOps, LineOps, Locking

LEMMA RestStays ==
  ASSUME DeskInv, UNCHANGED tables, byHand \subseteq byHand', raced => raced',
         taken' \in [OrderIds -> Nat], \A o \in OrderIds : taken'[o] >= taken[o]
  PROVE  AllPaid' /\ HeldIsPromised' /\ BookExplainsShelf'
<1> USE DEF DeskInv
<1>1. order' = order /\ lines' = lines /\ stock' = stock /\ invoices' = invoices /\ book' = book
  BY DEF tables
<1>2. AllPaid'
  <2> SUFFICES ASSUME NEW o \in OrderIds, order[o].state = "settled" PROVE Paid(o)'
    BY <1>1 DEF AllPaid
  <2>1. Paid(o) /\ taken[o] \in Nat /\ taken'[o] \in Nat /\ taken'[o] >= taken[o]
    BY DEF AllPaid, Tables
  <2>2. taken'[o] > 0
    BY <2>1 DEF Paid
  <2> QED BY <1>1, <2>1, <2>2 DEF Paid, Invoice
<1>3. HeldIsPromised' /\ BookExplainsShelf'
  <2>1. \A s : Promised(s)' = Promised(s)
    <3> TAKE s
    <3>1. Reserved' = Reserved /\ Asked(s)' = Asked(s)
      BY <1>1 DEF Reserved, Asked, Wanted
    <3> QED BY <3>1, PromisedIsSum
  <2> QED BY <1>1, <2>1 DEF HeldIsPromised, BookExplainsShelf
<1> QED BY <1>2, <1>3

LEMMA DeskGoes ==
  ASSUME IInv, DeskInv, NEW r \in Requests, NEW c, call' = [call EXCEPT ![r] = c], UNCHANGED tables,
         byHand \subseteq byHand', raced => raced',
         taken' \in [OrderIds -> Nat], \A o \in OrderIds : taken'[o] >= taken[o],
         c.row \in Row, ReadIn(c, taken'), ~raced' => StillIn(c, order, lines, stock),
         ~raced' => \A q \in Requests \ {r} : Working(q) => ~Clash(call[q].ask, c.ask) /\ ~Clash(c.ask, call[q].ask)
  PROVE  DeskInv'
<1> USE DEF DeskInv
<1>1. call'[r] = c /\ \A q \in Requests \ {r} : call'[q] = call[q]
  BY CallsChange
<1>2. order' = order /\ lines' = lines /\ stock' = stock /\ invoices' = invoices /\ book' = book
  BY DEF tables
<1>3. Tables'
  <2>1. Standing(stock')
    BY <1>2 DEF Tables, Standing
  <2>2. \A q \in Requests : call'[q].row \in Row
    BY <1>1 DEF Tables
  <2> QED BY <1>2, <2>1, <2>2 DEF Tables
<1>4. Read'
  <2> SUFFICES ASSUME NEW q \in Requests PROVE ReadIn(call'[q], taken')
    BY DEF Read
  <2>1. CASE q = r
    BY <2>1, <1>1
  <2>2. CASE q # r
    <3>1. ReadIn(call[q], taken) /\ call'[q] = call[q]
      BY <2>2, <1>1 DEF Read
    <3>2. call[q].ask.op = "settle" /\ call[q].at = "ship" => call[q].ask.order \in OrderIds
      BY OrdersAreOrders DEF Deciding, Locking
    <3>3. call[q].ask.op = "settle" /\ call[q].at = "ship" => taken'[call[q].ask.order] > 0
      BY <3>1, <3>2 DEF ReadIn, Tables
    <3> QED BY <3>1, <3>3 DEF ReadIn
  <2> QED BY <2>1, <2>2
<1>5. Still'
  <2> SUFFICES ASSUME ~raced', NEW q \in Requests PROVE StillIn(call'[q], order, lines, stock)
    BY <1>2 DEF Still
  <2>1. CASE q = r
    BY <2>1, <1>1
  <2>2. CASE q # r
    <3>1. StillIn(call[q], order, lines, stock) /\ call'[q] = call[q]
      BY <2>2, <1>1 DEF Still
    <3> QED BY <3>1 DEF StillIn
  <2> QED BY <2>1, <2>2
<1>6. Apart'
  <2> SUFFICES ASSUME ~raced', NEW p \in Requests, NEW q \in Requests, p # q, Working(p)', Working(q)'
               PROVE  ~Clash(call'[p].ask, call'[q].ask)
    BY DEF Apart, Clash
  <2> QED BY <1>1 DEF Apart, Working
<1>7. AllPaid' /\ HeldIsPromised' /\ BookExplainsShelf'
  BY RestStays
<1> QED BY <1>3, <1>4, <1>5, <1>6, <1>7

LEMMA CallFacts ==
  ASSUME IInv, DeskInv, NEW r \in Requests
  PROVE  /\ Shape(call[r]) /\ CallOK(call[r]) /\ PlaceOK(call[r]) /\ call[r].row \in Row
         /\ ReadIn(call[r], taken)
         /\ ~raced => StillIn(call[r], order, lines, stock)
BY DEF IInv, Typed, CallOK, Placed, DeskInv, Tables, Read, Still

LEMMA StaysApart ==
  ASSUME DeskInv, NEW r \in Requests, Working(r), ~raced
  PROVE  \A q \in Requests \ {r} : Working(q) => ~Clash(call[q].ask, call[r].ask) /\ ~Clash(call[r].ask, call[q].ask)
BY DEF DeskInv, Apart

(* A request that ends has changed no order but its own, and no level that  *)
(* somebody beside it has read for a form. Only a form makes a row.         *)
LEMMA DeskEnds ==
  ASSUME IInv, DeskInv, NEW r \in Requests, Finish(r), Working(r), raced' = raced, byHand' = byHand,
         taken' = taken, order' \in [OrderIds -> Row], invoices' \in Seq(Bill), book' \in [Skus -> Int],
         Standing(stock'),
         \A o \in OrderIds : o # call[r].ask.order => order'[o] = order[o] /\ lines'[o] = lines[o],
         call[r].ask.op \notin StockOps => \A s \in Skus : stock[s] = NoStock => stock'[s] = NoStock,
         AllPaid', HeldIsPromised', BookExplainsShelf'
  PROVE  DeskInv'
<1> USE DEF DeskInv
<1>0. call' = [call EXCEPT ![r] = Idle]
  BY DEF Finish
<1>1. call'[r] = Idle /\ \A q \in Requests \ {r} : call'[q] = call[q]
  BY <1>0, CallsChange
<1>2. Tables'
  BY <1>1, IdleReads DEF Tables
<1>3. Read'
  BY <1>1, IdleReads DEF Read
<1>4. Still'
  <2> SUFFICES ASSUME ~raced, NEW q \in Requests PROVE StillIn(call'[q], order', lines', stock')
    BY DEF Still
  <2>1. CASE q = r
    BY <2>1, <1>1, IdleReads
  <2>2. CASE q # r
    <3>1. StillIn(call[q], order, lines, stock) /\ call'[q] = call[q]
      BY <2>2, <1>1 DEF Still
    <3>2. Working(q) => ~Clash(call[q].ask, call[r].ask)
      BY <2>2, StaysApart
    <3>3. CASE ~Working(q)
      BY <3>1, <3>3 DEF StillIn, Working, HasRead, Deciding
    <3>4. CASE Working(q)
      <4>1. /\ call[q].ask.op \notin StockOps
            /\ \A s \in Skus : stock[s] = NoStock => stock'[s] = NoStock
        BY <3>2, <3>4 DEF Clash
      <4>2. HasRead(call[q]) \/ Deciding(call[q]) =>
              order'[call[q].ask.order] = order[call[q].ask.order] /\ lines'[call[q].ask.order] = lines[call[q].ask.order]
        BY <3>2, <3>4, OrdersAreOrders DEF Clash
      <4>3. call[q].at # "make" /\ DOMAIN call[q].wants \subseteq Skus
        BY <4>1, CallFacts DEF PlaceOK, CallOK, Basket, StockOps
      <4>4. call[q].ask.op \notin {"receive", "ship"}
        BY <4>1 DEF StockOps, StockForms
      <4> QED BY <3>1, <4>1, <4>2, <4>3, <4>4 DEF StillIn
    <3> QED BY <3>3, <3>4
  <2> QED BY <2>1, <2>2
<1>5. Apart'
  <2> SUFFICES ASSUME ~raced, NEW p \in Requests, NEW q \in Requests, p # q, Working(p)', Working(q)'
               PROVE  ~Clash(call'[p].ask, call'[q].ask)
    BY DEF Apart, Clash
  <2> QED BY <1>1 DEF Apart, Working, Idle, Call
<1> QED BY <1>2, <1>3, <1>4, <1>5

LEMMA DeskRefuses ==
  ASSUME IInv, DeskInv, NEW r \in Requests, Refuse(r), Working(r)
  PROVE  DeskInv'
<1>1. /\ UNCHANGED <<order, lines, stock, invoices, book>> /\ taken' = taken
      /\ raced' = raced /\ byHand' = byHand /\ Finish(r) /\ UNCHANGED tables
  BY DEF Refuse, tables, history
<1>2. /\ order \in [OrderIds -> Row] /\ invoices \in Seq(Bill) /\ book \in [Skus -> Int]
      /\ Standing(stock) /\ taken \in [OrderIds -> Nat]
  BY DEF DeskInv, Tables
<1>3. AllPaid' /\ HeldIsPromised' /\ BookExplainsShelf'
  BY <1>1, <1>2, RestStays
<1> QED BY <1>1, <1>2, <1>3, DeskEnds

LEMMA AtFields ==
  ASSUME NEW c, Shape(c), NEW at
  PROVE  LET d == [c EXCEPT !.at = at]
         IN  d.ask = c.ask /\ d.row = c.row /\ d.wants = c.wants /\ d.held = c.held /\ d.at = at
BY DEF Shape

(* A request goes on with its order as it has read it.                      *)
LEMMA DeskTurns ==
  ASSUME IInv, DeskInv, NEW r \in Requests, Working(r), NEW c, call' = [call EXCEPT ![r] = c],
         c.ask = call[r].ask, c.row \in Row, UNCHANGED <<tables, taken>>, byHand' = byHand, raced => raced',
         ReadIn(c, taken), ~raced' => StillIn(c, order, lines, stock)
  PROVE  DeskInv'
<1>1. taken' \in [OrderIds -> Nat] /\ taken' = taken /\ \A o \in OrderIds : taken'[o] >= taken[o]
  BY DEF DeskInv, Tables
<1>2. ~raced' => \A q \in Requests \ {r} : Working(q) => ~Clash(call[q].ask, c.ask) /\ ~Clash(c.ask, call[q].ask)
  BY StaysApart
<1> QED BY <1>1, <1>2, DeskGoes

LEMMA DeskGo ==
  ASSUME IInv, DeskInv, NEW r \in Requests, Working(r), NEW at, Go(r, at),
         UNCHANGED <<tables, taken, byHand, raced>>,
         ReadIn([call[r] EXCEPT !.at = at], taken),
         ~raced => StillIn([call[r] EXCEPT !.at = at], order, lines, stock)
  PROVE  DeskInv'
<1> DEFINE c == [call[r] EXCEPT !.at = at]
<1>1. c.ask = call[r].ask /\ c.row \in Row
  BY AtFields DEF IInv, Typed, CallOK, DeskInv, Tables
<1>2. call' = [call EXCEPT ![r] = c]
  BY DEF Go
<1> HIDE DEF c
<1>3. ReadIn(c, taken) /\ (~raced => StillIn(c, order, lines, stock))
  BY DEF c
<1> QED BY <1>1, <1>2, <1>3, DeskTurns

LEMMA BeginDesk ==
  ASSUME IInv, DeskInv, NEW r \in Requests, Begin(r)
  PROVE  DeskInv'
<1>1. PICK a \in Asks :
        /\ call' = [call EXCEPT ![r] = Call(a, Start(a.op))]
        /\ raced' = (raced \/ \E q \in Requests \ {r} : Working(q) /\ Clash(a, call[q].ask))
        /\ byHand' = byHand \cup SetByHand(a)
  BY DEF Begin
<1> DEFINE c == Call(a, Start(a.op))
<1>2. c.ask = a /\ c.at = Start(a.op) /\ c.row = Absent
  BY DEF Call
<1>3. /\ ~HasRead(c) /\ ~Deciding(c) /\ c.at \notin {"lines", "lock", "charge", "ship", "make"}
      /\ a.op \in {"receive", "ship"} => c.at # "write"
  BY <1>2 DEF Start, HasRead, Deciding, OrderOps, LineOps, Locking
<1>4. c.row \in Row
  BY <1>2 DEF Row, Absent
<1> HIDE DEF c
<1>5. ReadIn(c, taken') /\ StillIn(c, order, lines, stock)
  BY <1>2, <1>3 DEF ReadIn, StillIn
<1>6. ~raced' => \A q \in Requests \ {r} : Working(q) => ~Clash(call[q].ask, c.ask) /\ ~Clash(c.ask, call[q].ask)
  BY <1>1, <1>2 DEF Clash
<1>7. UNCHANGED tables /\ taken' = taken /\ call' = [call EXCEPT ![r] = c]
  BY <1>1 DEF Begin, c
<1>8. taken' \in [OrderIds -> Nat] /\ \A o \in OrderIds : taken'[o] >= taken[o]
  BY <1>7 DEF DeskInv, Tables
<1>9. byHand \subseteq byHand' /\ (raced => raced')
  BY <1>1
<1> QED BY <1>4, <1>5, <1>6, <1>7, <1>8, <1>9, DeskGoes

LEMMA GetOrderDesk ==
  ASSUME IInv, DeskInv, NEW r \in Requests, GetOrder(r)
  PROVE  DeskInv'
<1> DEFINE row == order[call[r].ask.order]
           at == After(call[r].ask.op, row.state)
           c == [call[r] EXCEPT !.row = row, !.at = at]
<1>1. Working(r)
  BY DEF GetOrder, Working
<1>2. CASE Refuse(r)
  BY <1>1, <1>2, DeskRefuses
<1>3. CASE ~Refuse(r)
  <2>1. /\ call[r].at = "order" /\ row.state \in From(call[r].ask.op) /\ call' = [call EXCEPT ![r] = c]
        /\ raced' = (raced \/ (row.state = "reserved" /\ call[r].ask.op \in LineOps \cup {"attach_invoice"}))
        /\ UNCHANGED <<tables, lock, taken, byHand, calls>>
    BY <1>3 DEF GetOrder
  <2>2. Shape(call[r]) /\ CallOK(call[r]) /\ PlaceOK(call[r])
    BY CallFacts
  <2>3. call[r].ask.op \in OrderOps \cup LineOps /\ call[r].ask.order \in OrderIds
    BY <2>1, <2>2 DEF PlaceOK, CallOK, AskOK
  <2>4. row \in Row
    BY <2>3 DEF DeskInv, Tables
  <2>5. c.ask = call[r].ask /\ c.row = row /\ c.held = call[r].held /\ c.at = at
    BY <2>2 DEF Shape
  <2>6. /\ c.ask.op = "cancel_order" /\ at \in {"lines", "lock"} => row.state = "reserved"
        /\ at \notin {"charge", "ship", "lock", "make"}
        /\ at = "locked" => c.ask.op = "cancel_order" /\ row.state # "reserved"
    BY <2>3, <2>5 DEF After, OrderOps, LineOps
  <2>7. c.ask.op \in Locking => DOMAIN c.held = {}
    BY <2>1, <2>2, <2>5 DEF PlaceOK
  <2>8. c.ask.op \in LineOps \cup {"attach_invoice", "cancel_order"} => row.state \in OpenStates
    BY <2>1, <2>5 DEF From, LineOps
  <2> HIDE DEF c, at
  <2>9. ReadIn(c, taken)
    BY <2>1, <2>5, <2>6 DEF ReadIn
  <2>10. ~raced' => StillIn(c, order, lines, stock)
    BY <2>1, <2>3, <2>5, <2>6, <2>7, <2>8 DEF StillIn, Deciding, Unreserved, OpenStates, OrderOps, LineOps, Locking
  <2> QED BY <1>1, <2>1, <2>4, <2>5, <2>9, <2>10, DeskTurns
<1> QED BY <1>2, <1>3

LEMMA GetLinesDesk ==
  ASSUME IInv, DeskInv, NEW r \in Requests, GetLines(r)
  PROVE  DeskInv'
<1> DEFINE found == lines[call[r].ask.order]
           c == [call[r] EXCEPT !.wants = found, !.at = "lock"]
<1>1. Working(r)
  BY DEF GetLines, Working
<1>2. CASE Refuse(r)
  BY <1>1, <1>2, DeskRefuses
<1>3. CASE ~Refuse(r)
  <2>1. call[r].at = "lines" /\ call' = [call EXCEPT ![r] = c] /\ UNCHANGED <<tables, lock, taken, history>>
    BY <1>3 DEF GetLines
  <2>2. Shape(call[r]) /\ call[r].ask.op \in Locking /\ call[r].row \in Row
    BY <2>1, CallFacts DEF PlaceOK
  <2>3. HasRead(call[r])
    BY <2>1, <2>2 DEF HasRead, Locking, OrderOps
  <2>4. /\ c.ask = call[r].ask /\ c.row = call[r].row /\ c.wants = found /\ c.at = "lock"
        /\ c.held = call[r].held
    BY <2>2 DEF Shape
  <2> HIDE DEF c
  <2>7. DOMAIN c.held = {}
    BY <2>1, <2>2, <2>4, CallFacts DEF PlaceOK
  <2>5. ReadIn(c, taken)
    BY <2>1, <2>2, <2>3, <2>4, CallFacts DEF ReadIn
  <2>6. ~raced => StillIn(c, order, lines, stock)
    BY <2>1, <2>2, <2>3, <2>4, <2>7, CallFacts DEF StillIn, ReadIn, Unreserved, PassedOver, Locking, LineOps
  <2> QED BY <1>1, <2>1, <2>2, <2>4, <2>5, <2>6, DeskTurns DEF history
<1> QED BY <1>2, <1>3

(* The rows come in the order of their SKUs, so that one it has passed over *)
(* was not there at its turn.                                               *)
LEMMA LockStockDesk ==
  ASSUME IInv, DeskInv, NEW r \in Requests, LockStock(r)
  PROVE  DeskInv'
<1>1. /\ Working(r) /\ call[r].at = "lock" /\ call[r].ask.op \in Lockers
      /\ Shape(call[r]) /\ CallOK(call[r]) /\ call[r].row \in Row
  BY CallFacts DEF LockStock, Working, PlaceOK
<1>2. /\ call[r].ask.op \in Locking => HasRead(call[r]) /\ Deciding(call[r]) /\ ~Unreserved(call[r])
      /\ call[r].ask.op \notin Locking => call[r].ask.op \notin OrderOps \cup LineOps
      /\ call[r].ask.op \notin LineOps \cup {"receive", "ship"}
  BY <1>1, CallFacts DEF ReadIn, Unreserved, HasRead, Deciding, Lockers, Locking, OrderOps, LineOps
<1>5. DOMAIN call[r].wants \subseteq Nat /\ DOMAIN call[r].held \subseteq Nat
  BY <1>1, SkusAssumption DEF CallOK, Basket, Levels
<1>6. ASSUME ~raced, call[r].ask.op \in Locking, NEW s \in DOMAIN call[r].wants \ DOMAIN call[r].held,
             \E t \in DOMAIN call[r].held : ~Before(call[r], t, s)
      PROVE  stock[s] = NoStock
  <2>1. PICK t \in DOMAIN call[r].held : ~(t < s) /\ t # s
    BY <1>6 DEF Before
  <2>2. s < t
    BY <1>5, <2>1
  <2> QED BY <1>2, <1>6, <2>2, CallFacts DEF StillIn, PassedOver
<1>3. ASSUME ToLock(call[r]) = {}, Go(r, "locked"), UNCHANGED <<tables, lock, taken, history>>
      PROVE  DeskInv'
  <2> DEFINE c == [call[r] EXCEPT !.at = "locked"]
  <2>1. /\ c.ask = call[r].ask /\ c.row = call[r].row /\ c.wants = call[r].wants /\ c.held = call[r].held
        /\ c.at = "locked"
    BY <1>1, AtFields
  <2>2. ~raced /\ call[r].ask.op \in Locking =>
          \A s \in DOMAIN call[r].wants \ DOMAIN call[r].held : stock[s] = NoStock
    BY <1>3, <1>6 DEF ToLock
  <2> HIDE DEF c
  <2>3. ReadIn(c, taken) /\ (~raced => StillIn(c, order, lines, stock))
    <3>1. ReadIn(c, taken)
      BY <1>1, <1>2, <2>1, CallFacts DEF ReadIn, HasRead
    <3>2. CASE call[r].ask.op \in Locking
      BY <1>1, <1>2, <2>1, <2>2, <3>1, <3>2, CallFacts DEF StillIn, HasRead, Unreserved
    <3>3. CASE call[r].ask.op \notin Locking
      BY <1>1, <1>2, <2>1, <3>1, <3>3 DEF StillIn, HasRead, Deciding
    <3> QED BY <3>1, <3>2, <3>3
  <2> QED BY <1>1, <1>3, <2>3, DeskGo DEF history, c
<1>4. ASSUME NEW s \in ToLock(call[r]), NextToLock(call[r], s),
             call' = [call EXCEPT ![r].held =
                       [t \in DOMAIN call[r].held \cup {s} |-> IF t = s THEN stock[s] ELSE call[r].held[t]]],
             UNCHANGED <<tables, taken, history>>
      PROVE  DeskInv'
  <2> DEFINE h == [t \in DOMAIN call[r].held \cup {s} |-> IF t = s THEN stock[s] ELSE call[r].held[t]]
             c == [call[r] EXCEPT !.held = h]
  <2>0. DOMAIN h = DOMAIN call[r].held \cup {s}
    OBVIOUS
  <2> HIDE DEF h
  <2>1. /\ c.ask = call[r].ask /\ c.row = call[r].row /\ c.wants = call[r].wants /\ c.at = "lock"
        /\ DOMAIN c.held = DOMAIN call[r].held \cup {s}
    BY <1>1, <2>0 DEF Shape
  <2>2. call' = [call EXCEPT ![r] = c]
    BY <1>4 DEF h
  <2> HIDE DEF c
  <2>3. ReadIn(c, taken)
    BY <1>1, <1>2, <2>1, CallFacts DEF ReadIn, HasRead
  <2>4. ASSUME ~raced, call[r].ask.op \in Locking, NEW t \in DOMAIN call[r].wants \ DOMAIN c.held,
               NEW u \in DOMAIN c.held, t < u
        PROVE  stock[t] = NoStock
    <3>1. t \in Nat /\ s \in Nat /\ u \in Nat /\ t # s /\ call[r].ask.op # "reserve_units"
      BY <1>4, <1>5, <2>1, <2>4 DEF ToLock, Locking
    <3>2. CASE \E v \in DOMAIN call[r].held : ~Before(call[r], v, t)
      BY <1>6, <2>1, <2>4, <3>2
    <3>3. CASE \A v \in DOMAIN call[r].held : Before(call[r], v, t)
      <4>1. u = s
        <5>1. u \in DOMAIN call[r].held => u < t
          BY <3>1, <3>3 DEF Before
        <5> QED BY <2>1, <2>4, <3>1, <5>1
      <4>2. t \notin ToLock(call[r])
        <5>1. ~Before(call[r], s, t)
          BY <2>4, <3>1, <4>1 DEF Before
        <5> QED BY <1>4, <3>1, <5>1 DEF NextToLock
      <4> QED BY <2>1, <2>4, <3>3, <4>2 DEF ToLock
    <3> QED BY <3>2, <3>3
  <2>5. ~raced => StillIn(c, order, lines, stock)
    <3>1. CASE call[r].ask.op \in Locking
      BY <1>1, <1>2, <2>1, <2>4, <3>1, CallFacts DEF StillIn, HasRead, Unreserved, PassedOver
    <3>2. CASE call[r].ask.op \notin Locking
      BY <1>1, <1>2, <2>1, <3>2 DEF StillIn, HasRead, Deciding
    <3> QED BY <3>1, <3>2
  <2> QED BY <1>1, <1>4, <2>1, <2>2, <2>3, <2>5, DeskTurns DEF history
<1> QED BY <1>3, <1>4 DEF LockStock

LEMMA IssueInvoiceDesk ==
  ASSUME IInv, DeskInv, NEW r \in Requests, IssueInvoice(r)
  PROVE  DeskInv'
<1>1. /\ Working(r) /\ call[r].at = "locked" /\ call[r].ask.op = "settle" /\ Shape(call[r])
  BY CallFacts DEF IssueInvoice, At, Working
<1>2. CASE Refuse(r)
  BY <1>1, <1>2, DeskRefuses
<1>3. CASE DOMAIN call[r].wants = DOMAIN call[r].held /\ Go(r, "charge") /\ UNCHANGED <<tables, taken, history>>
  <2> DEFINE c == [call[r] EXCEPT !.at = "charge"]
  <2>1. /\ c.ask = call[r].ask /\ c.row = call[r].row /\ c.wants = call[r].wants /\ c.held = call[r].held
        /\ c.at = "charge"
    BY <1>1, AtFields
  <2> HIDE DEF c
  <2>2. ReadIn(c, taken)
    BY <1>1, <1>3, <2>1, CallFacts DEF ReadIn, HasRead, OrderOps
  <2>3. ~raced => StillIn(c, order, lines, stock)
    BY <1>1, <2>1, CallFacts DEF StillIn, HasRead, Deciding, Unreserved, PassedOver, Locking, OrderOps
  <2> QED BY <1>1, <1>3, <2>2, <2>3, DeskGo DEF history, c
<1> QED BY <1>2, <1>3 DEF IssueInvoice

LEMMA ChargeDesk ==
  ASSUME IInv, DeskInv, NEW r \in Requests, Charge(r)
  PROVE  DeskInv'
<1> DEFINE c == [call[r] EXCEPT !.at = "ship"]
           o == call[r].ask.order
<1>1. /\ Working(r) /\ call[r].at = "charge" /\ call[r].ask.op = "settle" /\ Shape(call[r])
      /\ call[r].row \in Row /\ o \in OrderIds
  BY CallFacts DEF Charge, At, Working, CallOK, AskOK, OrderOps
<1>2. /\ c.ask = call[r].ask /\ c.row = call[r].row /\ c.wants = call[r].wants /\ c.held = call[r].held
      /\ c.at = "ship"
  BY <1>1, AtFields
<1>3. /\ call' = [call EXCEPT ![r] = c] /\ taken' = [taken EXCEPT ![o] = @ + 1]
      /\ UNCHANGED <<tables, byHand, raced>>
  BY DEF Charge, Go, history
<1> HIDE DEF c
<1>4. taken' \in [OrderIds -> Nat] /\ taken'[o] > 0 /\ \A p \in OrderIds : taken'[p] >= taken[p]
  BY <1>1, <1>3 DEF DeskInv, Tables
<1>5. ReadIn(c, taken')
  BY <1>1, <1>2, <1>4, CallFacts DEF ReadIn, HasRead, OrderOps
<1>6. ~raced => StillIn(c, order, lines, stock)
  BY <1>1, <1>2, CallFacts DEF StillIn, HasRead, Deciding, Unreserved, PassedOver, Locking, OrderOps
<1>7. ~raced => \A q \in Requests \ {r} : Working(q) => ~Clash(call[q].ask, c.ask) /\ ~Clash(c.ask, call[q].ask)
  BY <1>1, <1>2, StaysApart
<1> QED BY <1>1, <1>2, <1>3, <1>4, <1>5, <1>6, <1>7, DeskGoes

LEMMA PlaceOrderGoes ==
  ASSUME IInv, DeskInv, NEW r \in Requests, At(r, {"place_order"}, "reference"), Go(r, "insert"),
         UNCHANGED <<tables, lock, taken, history>>
  PROVE  DeskInv'
<1> DEFINE c == [call[r] EXCEPT !.at = "insert"]
<1>1. Working(r) /\ Shape(call[r]) /\ call[r].ask.op = "place_order"
  BY CallFacts DEF At, Working
<1>2. c.ask = call[r].ask /\ c.at = "insert"
  BY <1>1, AtFields
<1> HIDE DEF c
<1>3. ReadIn(c, taken) /\ StillIn(c, order, lines, stock)
  BY <1>1, <1>2 DEF ReadIn, StillIn, HasRead, Deciding, Locking, OrderOps, LineOps
<1> QED BY <1>1, <1>3, DeskGo DEF c, history

LEMMA FindLineDesk ==
  ASSUME IInv, DeskInv, NEW r \in Requests, FindLine(r)
  PROVE  DeskInv'
<1> DEFINE c == [call[r] EXCEPT !.at = "order"]
<1>1. Working(r) /\ Shape(call[r]) /\ call[r].ask.op = "remove_line"
  BY CallFacts DEF FindLine, At, Working
<1>2. CASE Refuse(r)
  BY <1>1, <1>2, DeskRefuses
<1>3. CASE Go(r, "order") /\ UNCHANGED <<tables, lock, taken, history>>
  <2>1. c.ask = call[r].ask /\ c.at = "order"
    BY <1>1, AtFields
  <2> HIDE DEF c
  <2>2. ReadIn(c, taken) /\ StillIn(c, order, lines, stock)
    BY <1>1, <2>1 DEF ReadIn, StillIn, HasRead, Deciding, Locking
  <2> QED BY <1>1, <1>3, <2>2, DeskGo DEF c, history
<1> QED BY <1>2, <1>3 DEF FindLine

LEMMA WriteLineDesk ==
  ASSUME IInv, DeskInv, NEW r \in Requests, WriteLine(r)
  PROVE  DeskInv'
<1> DEFINE edited == Edited(call[r], lines[call[r].ask.order])
           c == [call[r] EXCEPT !.wants = edited, !.at = "retotal"]
<1>1. Working(r) /\ Shape(call[r]) /\ call[r].ask.op \in LineOps /\ call[r].at = "line" /\ call[r].row \in Row
  BY CallFacts DEF WriteLine, Working, PlaceOK
<1>2. CASE Refuse(r)
  BY <1>1, <1>2, DeskRefuses
<1>3. CASE call' = [call EXCEPT ![r] = c] /\ UNCHANGED <<tables, taken, history>>
  <2>1. c.ask = call[r].ask /\ c.row = call[r].row /\ c.at = "retotal"
    BY <1>1 DEF Shape
  <2> HIDE DEF c
  <2>2. HasRead(call[r])
    BY <1>1 DEF HasRead
  <2>3. ReadIn(c, taken)
    BY <1>1, <2>1, <2>2, CallFacts DEF ReadIn, LineOps
  <2>4. ~raced => StillIn(c, order, lines, stock)
    BY <1>1, <2>1, <2>2, CallFacts DEF StillIn, Deciding, Locking, LineOps
  <2> QED BY <1>1, <1>3, <2>1, <2>3, <2>4, DeskTurns DEF history
<1> QED BY <1>2, <1>3 DEF WriteLine

LEMMA RemoveOrderGoes ==
  ASSUME IInv, DeskInv, NEW r \in Requests, At(r, {"remove_order"}, "count"), Go(r, "write"),
         UNCHANGED <<tables, lock, taken, history>>
  PROVE  DeskInv'
<1> DEFINE c == [call[r] EXCEPT !.at = "write"]
<1>1. Working(r) /\ Shape(call[r]) /\ call[r].ask.op = "remove_order" /\ call[r].at = "count"
  BY CallFacts DEF At, Working
<1>2. c.ask = call[r].ask /\ c.row = call[r].row /\ c.at = "write"
  BY <1>1, AtFields
<1> HIDE DEF c
<1>3. HasRead(call[r])
  BY <1>1 DEF HasRead, OrderOps
<1>4. ReadIn(c, taken) /\ (~raced => StillIn(c, order, lines, stock))
  BY <1>1, <1>2, <1>3, CallFacts DEF ReadIn, StillIn, Deciding, Locking, LineOps
<1> QED BY <1>1, <1>4, DeskGo DEF c, history

LEMMA GetStockDesk ==
  ASSUME IInv, DeskInv, NEW r \in Requests, GetStock(r)
  PROVE  DeskInv'
<1> DEFINE s == call[r].ask.sku
           h == [t \in {s} |-> stock[s]]
           c == [call[r] EXCEPT !.held = h, !.at = "write"]
<1>1. Working(r) /\ Shape(call[r]) /\ call[r].ask.op \in StockOps /\ call[r].row \in Row
  BY CallFacts DEF GetStock, Working, PlaceOK
<1>2. CASE Refuse(r)
  BY <1>1, <1>2, DeskRefuses
<1>4. CASE /\ stock[s] = NoStock /\ call[r].ask.op = "receive" /\ Go(r, "make")
           /\ UNCHANGED <<tables, lock, taken, history>>
  <2> DEFINE d == [call[r] EXCEPT !.at = "make"]
  <2>1. d.ask = call[r].ask /\ d.at = "make"
    BY <1>1, AtFields
  <2> HIDE DEF d
  <2>2. ReadIn(d, taken) /\ StillIn(d, order, lines, stock)
    BY <1>4, <2>1 DEF ReadIn, StillIn, HasRead, Deciding, Locking, OrderOps, LineOps
  <2> QED BY <1>1, <1>4, <2>2, DeskGo DEF d, history
<1>3. CASE call' = [call EXCEPT ![r] = c] /\ UNCHANGED <<tables, lock, taken, history>>
  <2>1. call' = [call EXCEPT ![r] = c] /\ UNCHANGED <<tables, lock, taken, history>>
    BY <1>3
  <2>2. c.ask = call[r].ask /\ c.row = call[r].row /\ c.at = "write" /\ c.held = h
    BY <1>1 DEF Shape
  <2>3. h[s] = stock[s]
    OBVIOUS
  <2> HIDE DEF c, h
  <2>4. ReadIn(c, taken) /\ StillIn(c, order, lines, stock)
    BY <1>1, <2>2, <2>3 DEF ReadIn, StillIn, HasRead, Deciding, Locking, OrderOps, LineOps, StockOps, StockForms
  <2> QED BY <1>1, <2>1, <2>2, <2>4, DeskTurns DEF history
<1> QED BY <1>2, <1>3, <1>4 DEF GetStock

(* Alone, receive() makes the row it did not find, and holds nothing of it. *)
LEMMA MakeStockDesk ==
  ASSUME IInv, DeskInv, NEW r \in Requests, MakeStock(r)
  PROVE  DeskInv'
<1> USE DEF DeskInv
<1> DEFINE s == call[r].ask.sku
           c == [call[r] EXCEPT !.at = "again"]
<1>1. /\ call[r].at = "make" /\ call[r].ask.op = "receive" /\ Working(r)
      /\ stock' = [stock EXCEPT ![s] = Stock(0, @.reserved)]
      /\ book' = IF stock[s] = NoStock THEN [book EXCEPT ![s] = 0] ELSE book
      /\ order' = order /\ lines' = lines /\ invoices' = invoices /\ call' = [call EXCEPT ![r] = c]
      /\ taken' = taken /\ byHand \subseteq byHand' /\ raced' = raced
  BY DEF MakeStock, At, Working, Go
<1>2. s \in Skus /\ Shape(call[r]) /\ call[r].row \in Row
  BY <1>1, AskOfStock, CallFacts DEF StockOps
<1>3. c.ask = call[r].ask /\ c.row = call[r].row /\ c.at = "again"
  BY <1>2, AtFields
<1> HIDE DEF c
<1>4. call'[r] = c /\ \A q \in Requests \ {r} : call'[q] = call[q]
  BY <1>1, CallsChange
<1>5. stock \in [Skus -> Level] /\ book \in [Skus -> Int] /\ stock[s].reserved >= 0
  BY <1>2 DEF IInv, Typed, Tables, Standing, NoStock
<1>6. /\ stock'[s].on_hand = 0 /\ stock'[s].reserved = stock[s].reserved
      /\ \A t \in Skus \ {s} : stock'[t] = stock[t] /\ book'[t] = book[t]
  BY <1>1, <1>2, <1>5 DEF Stock
<1>7. Tables'
  <2>1. Standing(stock')
    BY <1>2, <1>5, <1>6 DEF Tables, Standing
  <2>2. book' \in [Skus -> Int]
    BY <1>1, <1>2, <1>5
  <2>3. \A q \in Requests : call'[q].row \in Row
    BY <1>2, <1>3, <1>4 DEF Tables
  <2> QED BY <1>1, <2>1, <2>2, <2>3 DEF Tables
<1>8. Read'
  <2>1. ReadIn(c, taken)
    BY <1>1, <1>3 DEF ReadIn, HasRead, OrderOps, LineOps
  <2> QED BY <1>1, <1>4, <2>1 DEF Read
<1>9. Still'
  <2> SUFFICES ASSUME ~raced, NEW q \in Requests PROVE StillIn(call'[q], order, lines, stock')
    BY <1>1 DEF Still
  <2>1. CASE q = r
    BY <1>1, <1>3, <1>4, <2>1 DEF StillIn, HasRead, Deciding, Locking, OrderOps, LineOps
  <2>2. CASE q # r
    <3>1. StillIn(call[q], order, lines, stock) /\ call'[q] = call[q]
      BY <1>4, <2>2 DEF Still
    <3>2. ~Working(q)
      BY <1>1, <2>2, StaysApart DEF Clash, StockOps
    <3> QED BY <3>1, <3>2 DEF StillIn, Working, HasRead, Deciding
  <2> QED BY <2>1, <2>2
<1>10. Apart'
  <2> SUFFICES ASSUME ~raced, NEW p \in Requests, NEW q \in Requests, p # q, Working(p)', Working(q)'
               PROVE  ~Clash(call'[p].ask, call'[q].ask)
    BY <1>1 DEF Apart, Clash
  <2> QED BY <1>1, <1>3, <1>4 DEF Apart, Working
<1>11. AllPaid'
  BY <1>1 DEF AllPaid, Paid, Invoice
<1>12. HeldIsPromised'
  <2>1. \A t : Promised(t)' = Promised(t)
    <3> TAKE t
    <3>1. Reserved' = Reserved /\ Asked(t)' = Asked(t)
      BY <1>1 DEF Reserved, Asked, Wanted
    <3> QED BY <3>1, PromisedIsSum
  <2>2. \A t \in Skus : stock'[t].reserved = stock[t].reserved
    BY <1>6
  <2> QED BY <1>1, <2>1, <2>2 DEF HeldIsPromised
<1>13. BookExplainsShelf'
  <2> SUFFICES ASSUME ~raced, NEW t \in Skus, stock'[t] # NoStock PROVE stock'[t].on_hand = book'[t]
    BY <1>1 DEF BookExplainsShelf
  <2>1. CASE t = s
    <3>1. stock[s] = NoStock
      BY <1>1, CallFacts DEF StillIn
    <3> QED BY <1>1, <1>2, <1>5, <1>6, <2>1, <3>1
  <2>2. CASE t # s
    BY <1>6, <2>2 DEF BookExplainsShelf
  <2> QED BY <2>1, <2>2
<1> QED BY <1>7, <1>8, <1>9, <1>10, <1>11, <1>12, <1>13

(***************************************************************************)
(* The steps that end a request.                                            *)
(***************************************************************************)
LEMMA TotalIsInt == ASSUME NEW b \in Basket PROVE Total(b) \in Int
<1>1. Total(b) = SumOf(DOMAIN b, b)
  BY DEF MapThenSumSet, MapThenFoldSet, SumsTo, Pick, Total, SumOf
<1>2. PICK S \in SUBSET Skus : b \in [S -> Nat]
  BY DEF Basket
<1>3. DOMAIN b \in SUBSET Skus /\ \A x \in DOMAIN b : b[x] \in Int
  BY <1>2
<1>4. IsFiniteSet(DOMAIN b)
  BY <1>3, SkusAssumption, FS_Subset
<1> QED BY <1>1, <1>3, <1>4, SumFacts

LEMMA HeldFacts ==
  ASSUME IInv, NEW r \in Requests, call[r].ask.op \in Locking
  PROVE  /\ DOMAIN call[r].held \subseteq DOMAIN call[r].wants /\ DOMAIN call[r].wants \subseteq Skus
         /\ \A s \in DOMAIN call[r].wants : call[r].wants[s] \in Nat
         /\ \A s \in DOMAIN call[r].held :
              /\ stock[s] = call[r].held[s]
              /\ call[r].held[s].on_hand \in Int /\ call[r].held[s].reserved \in Int
         /\ call[r].ask.order \in OrderIds
<1>1. PICK W \in SUBSET Skus : call[r].wants \in [W -> Nat]
  BY DEF IInv, Typed, CallOK, Basket
<1>2. PICK S \in SUBSET Skus : call[r].held \in [S -> Level]
  BY DEF IInv, Typed, CallOK, Levels
<1>3. \A s \in DOMAIN call[r].held : call[r].held[s].on_hand \in Int /\ call[r].held[s].reserved \in Int
  BY <1>2 DEF Level
<1> QED BY <1>1, <1>2, <1>3 DEF IInv, Placed, PlaceOK, Owned, Typed, CallOK, AskOK, Lockers, Locking, OrderOps

LEMMA Updated ==
  ASSUME IInv, DeskInv, NEW o \in OrderIds, NEW row \in Row, order' = OrderUpdated(o, row)
  PROVE  /\ order' \in [OrderIds -> Row]
         /\ order'[o] = IF order[o] = Absent THEN Absent ELSE row
         /\ \A p \in OrderIds : p # o => order'[p] = order[p]
<1>1. order \in [OrderIds -> Row]
  BY DEF DeskInv, Tables
<1> QED BY <1>1 DEF OrderUpdated

(* An UPDATE of levels neither makes a row nor removes one.                 *)
LEMMA Leveled ==
  ASSUME IInv, DeskInv, NEW new, stock' = StockUpdated(new),
         \A s \in DOMAIN new : stock[s] # NoStock => new[s].on_hand >= 0 /\ new[s].reserved >= 0
  PROVE  /\ Standing(stock')
         /\ \A s \in Skus : stock'[s] = NoStock <=> stock[s] = NoStock
<1>1. \A s \in Skus : stock'[s] = IF s \in DOMAIN new /\ stock[s] # NoStock THEN new[s] ELSE stock[s]
  BY DEF StockUpdated
<1>2. \A s \in DOMAIN new : stock[s] # NoStock => new[s] # NoStock
  BY DEF NoStock
<1> QED BY <1>1, <1>2 DEF DeskInv, Tables, Standing

(* What holds of a reserved order's units is moved with the order.          *)
LEMMA HoldsFollow ==
  ASSUME IInv, DeskInv, lines' \in [OrderIds -> Basket], raced' = raced, byHand' = byHand, NEW o \in OrderIds,
         \A p \in OrderIds \ {o} : order'[p].state = order[p].state /\ lines'[p] = lines[p],
         ~raced => \A s \in Skus \ byHand :
           stock'[s].reserved = (stock[s].reserved - Part(o, s)) + Part(o, s)'
  PROVE  HeldIsPromised'
<1> SUFFICES ASSUME ~raced, NEW s \in Skus \ byHand PROVE stock'[s].reserved = Promised(s)'
  BY DEF HeldIsPromised
<1>1. stock[s].reserved = Promised(s)
  BY DEF DeskInv, HeldIsPromised
<1>2. Promised(s)' = (Promised(s) - Part(o, s)) + Part(o, s)'
  BY PromisedChanges DEF IInv, Typed
<1> QED BY <1>1, <1>2

(* Of a settled order nothing is lost while others are written.             *)
LEMMA PaidStays ==
  ASSUME IInv, DeskInv, taken' = taken, NEW o \in OrderIds,
         \A p \in OrderIds : p # o => order'[p] = order[p],
         order'[o].state = "settled" => Paid(o)',
         invoices' = invoices \/ \E bill \in Bill : invoices' = Append(invoices, bill)
  PROVE  AllPaid'
<1> SUFFICES ASSUME NEW p \in OrderIds, order'[p].state = "settled" PROVE Paid(p)'
  BY DEF AllPaid
<1>1. CASE p = o
  BY <1>1
<1>2. CASE p # o
  <2>1. order'[p] = order[p]
    BY <1>2
  <2>2. Paid(p) /\ invoices \in Seq(Bill)
    BY <2>1 DEF DeskInv, AllPaid, Tables
  <2>3. \A i \in 1..Len(invoices) : i \in 1..Len(invoices') /\ invoices'[i] = invoices[i]
    BY <2>2
  <2> QED BY <2>1, <2>2, <2>3 DEF Paid, Invoice
<1> QED BY <1>1, <1>2

(* The ends of the use cases that lock their rows.                          *)
LEMMA LockingEnds ==
  ASSUME IInv, DeskInv, NEW r \in Requests, Working(r), call[r].ask.op \in Locking, Finish(r),
         lines' = lines, UNCHANGED <<taken, history>>, NEW o, o = call[r].ask.order,
         NEW row \in Row, order' = OrderUpdated(o, row),
         NEW new, stock' = StockUpdated(new),
         \A s \in DOMAIN new : stock[s] # NoStock => new[s].on_hand >= 0 /\ new[s].reserved >= 0,
         book' \in [Skus -> Int], BookExplainsShelf',
         invoices' = invoices \/ \E bill \in Bill : invoices' = Append(invoices, bill),
         order'[o].state = "settled" => Paid(o)',
         ~raced => \A s \in Skus \ byHand :
           stock'[s].reserved = (stock[s].reserved - Part(o, s)) + Part(o, s)'
  PROVE  DeskInv'
<1>1. o \in OrderIds
  BY HeldFacts
<1>2. order' \in [OrderIds -> Row] /\ \A p \in OrderIds : p # o => order'[p] = order[p]
  BY <1>1, Updated
<1>3. Standing(stock') /\ \A s \in Skus : stock'[s] = NoStock <=> stock[s] = NoStock
  BY Leveled
<1>4. AllPaid'
  BY <1>1, <1>2, PaidStays
<1>5. raced' = raced /\ byHand' = byHand
  BY DEF history
<1>6. lines \in [OrderIds -> Basket]
  BY DEF IInv, Typed
<1>7. \A p \in OrderIds \ {o} : order'[p].state = order[p].state /\ lines'[p] = lines[p]
  BY <1>2
<1>8. HeldIsPromised'
  BY <1>1, <1>5, <1>6, <1>7, HoldsFollow
<1>9. invoices' \in Seq(Bill)
  <2>1. invoices \in Seq(Bill)
    BY DEF DeskInv, Tables
  <2>2. ASSUME NEW bill \in Bill PROVE Append(invoices, bill) \in Seq(Bill)
    BY <2>1
  <2> QED BY <2>1, <2>2
<1>10. \A p \in OrderIds : p # call[r].ask.order => order'[p] = order[p] /\ lines'[p] = lines[p]
  BY <1>2
<1> QED BY <1>2, <1>3, <1>4, <1>5, <1>8, <1>9, <1>10, DeskEnds

(* What is released is what the order held.                                 *)
LEMMA Releases ==
  ASSUME IInv, DeskInv, NEW r \in Requests, call[r].ask.op \in {"cancel_order", "settle"},
         call[r].at \in {"locked", "charge", "ship"}, NEW o, o = call[r].ask.order, ~raced,
         NEW new, DOMAIN new = DOMAIN call[r].held, stock' = StockUpdated(new),
         \A s \in DOMAIN new : new[s].reserved = call[r].held[s].reserved - call[r].wants[s],
         lines' = lines, order'[o].state # "reserved"
  PROVE  \A s \in Skus \ byHand :
           stock'[s].reserved = (stock[s].reserved - Part(o, s)) + Part(o, s)'
<1> SUFFICES ASSUME NEW s \in Skus \ byHand
             PROVE  stock'[s].reserved = (stock[s].reserved - Part(o, s)) + Part(o, s)'
  OBVIOUS
<1>1. Deciding(call[r]) /\ HasRead(call[r]) /\ call[r].ask.op \in Locking
  BY DEF Deciding, HasRead, Locking, OrderOps
<1>2. /\ call[r].row = order[o] /\ order[o].state \in From(call[r].ask.op)
      /\ IF Unreserved(call[r]) THEN DOMAIN call[r].held = {} ELSE call[r].wants = lines[o]
      /\ ~Unreserved(call[r]) => \A x \in DOMAIN call[r].wants \ DOMAIN call[r].held : stock[x] = NoStock
  BY <1>1, CallFacts DEF ReadIn, StillIn, PassedOver
<1>3. Part(o, s)' = 0
  BY DEF Part
<1>4. stock'[s] = IF s \in DOMAIN new /\ stock[s] # NoStock THEN new[s] ELSE stock[s]
  BY DEF StockUpdated
<1>5. stock[s].reserved \in Int
  BY DEF IInv, Typed, Level
<1>8. CASE stock[s] = NoStock
  <2>1. Promised(s) = 0
    BY <1>8 DEF DeskInv, HeldIsPromised, NoStock
  <2>2. Part(o, s) = 0
    BY <1>1, <2>1, HeldFacts, PartOfNothing DEF IInv, Typed
  <2> QED BY <1>3, <1>4, <1>5, <1>8, <2>2
<1>6. CASE Unreserved(call[r])
  <2>1. Part(o, s) = 0
    BY <1>2, <1>6 DEF Part, Unreserved
  <2> QED BY <1>2, <1>3, <1>4, <1>5, <1>6, <2>1
<1>7. CASE ~Unreserved(call[r]) /\ stock[s] # NoStock
  <2>1. order[o].state = "reserved"
    BY <1>2, <1>7 DEF Unreserved, From, OpenStates
  <2>2. Part(o, s) = IF s \in DOMAIN call[r].wants THEN call[r].wants[s] ELSE 0
    BY <1>2, <1>7, <2>1 DEF Part, Wanted
  <2>3. s \in DOMAIN call[r].wants <=> s \in DOMAIN new
    BY <1>1, <1>2, <1>7, HeldFacts
  <2>4. s \in DOMAIN new => stock[s].reserved = call[r].held[s].reserved /\ call[r].wants[s] \in Nat
    BY <1>1, <2>3, HeldFacts
  <2> QED BY <1>3, <1>4, <1>5, <1>7, <2>2, <2>3, <2>4
<1> QED BY <1>6, <1>7, <1>8

LEMMA ReserveDesk ==
  ASSUME IInv, DeskInv, NEW r \in Requests, Reserve(r)
  PROVE  DeskInv'
<1> DEFINE new == HoldUnits(call[r])
           row == [call[r].row EXCEPT !.state = "reserved"]
<1>1. call[r].ask.op = "reserve" /\ call[r].at = "locked" /\ Working(r) /\ call[r].ask.op \in Locking
  BY DEF Reserve, At, Working, Locking
<1>0. PICK o \in OrderIds : o = call[r].ask.order
  BY <1>1, HeldFacts
<1>2. CASE Refuse(r)
  BY <1>1, <1>2, DeskRefuses
<1>3. CASE ~Refuse(r)
  <2>1. /\ Enough(call[r]) /\ stock' = StockUpdated(new) /\ order' = OrderUpdated(o, row) /\ Finish(r)
        /\ UNCHANGED <<lines, invoices, book, moved, taken, history>>
    BY <1>3, <1>0 DEF Reserve, Write
  <2>2. row \in Row /\ row.state = "reserved"
    BY CallFacts DEF Row, States
  <2>3. /\ DOMAIN new = DOMAIN call[r].held
        /\ \A s \in DOMAIN new : /\ new[s].on_hand = call[r].held[s].on_hand
                                 /\ new[s].reserved = call[r].held[s].reserved + call[r].wants[s]
    BY DEF HoldUnits, Stock
  <2> HIDE DEF new, row
  <2>5. \A s \in Skus : stock'[s] = IF s \in DOMAIN new /\ stock[s] # NoStock THEN new[s] ELSE stock[s]
    BY <2>1 DEF StockUpdated
  <2>6. BookExplainsShelf'
    <3> SUFFICES ASSUME ~raced, NEW s \in Skus, stock'[s] # NoStock PROVE stock'[s].on_hand = book[s]
      BY <2>1 DEF BookExplainsShelf, history
    <3>1. stock[s] # NoStock /\ stock'[s].on_hand = stock[s].on_hand
      BY <1>1, <2>3, <2>5, HeldFacts
    <3> QED BY <3>1 DEF DeskInv, BookExplainsShelf
  <2>7. ~raced => \A s \in Skus \ byHand :
          stock'[s].reserved = (stock[s].reserved - Part(o, s)) + Part(o, s)'
    <3> SUFFICES ASSUME ~raced, NEW s \in Skus \ byHand
                 PROVE  stock'[s].reserved = (stock[s].reserved - Part(o, s)) + Part(o, s)'
      OBVIOUS
    <3>1. Deciding(call[r]) /\ HasRead(call[r]) /\ ~Unreserved(call[r])
      BY <1>1 DEF Deciding, HasRead, Locking, OrderOps, Unreserved
    <3>2. /\ call[r].row = order[o] /\ order[o].state = "draft" /\ call[r].wants = lines[o]
      BY <1>0, <1>1, <3>1, CallFacts DEF ReadIn, StillIn, From
    <3>3. order'[o] = row
      BY <2>1, <2>2, <3>2, Updated DEF Absent
    <3>4. Part(o, s) = 0 /\ Part(o, s)' = IF s \in DOMAIN call[r].wants THEN call[r].wants[s] ELSE 0
      BY <2>1, <2>2, <3>2, <3>3 DEF Part, Wanted
    <3>5. s \in DOMAIN call[r].wants <=> s \in DOMAIN new
      BY <1>1, <2>1, <2>3, HeldFacts DEF Enough
    <3>6. s \in DOMAIN new => /\ stock[s] = call[r].held[s] /\ call[r].wants[s] \in Nat
                             /\ stock[s].reserved = call[r].held[s].reserved
      BY <1>1, <3>5, <2>3, HeldFacts
    <3>8. s \in DOMAIN new => stock[s] # NoStock
      BY <2>1, <3>5, <3>6 DEF Enough, NoStock
    <3>7. stock[s].reserved \in Int
      BY DEF IInv, Typed, Level
    <3> QED BY <2>3, <2>5, <3>4, <3>5, <3>6, <3>7, <3>8
  <2>8. order'[o].state # "settled"
    BY <2>1, <2>2, Updated DEF Absent
  <2>9. book' \in [Skus -> Int]
    BY <2>1 DEF DeskInv, Tables
  <2>10. \A s \in DOMAIN new : stock[s] # NoStock => new[s].on_hand >= 0 /\ new[s].reserved >= 0
    <3> SUFFICES ASSUME NEW s \in DOMAIN new, stock[s] # NoStock PROVE new[s].on_hand >= 0 /\ new[s].reserved >= 0
      OBVIOUS
    <3>1. /\ s \in Skus /\ stock[s] = call[r].held[s] /\ call[r].wants[s] \in Nat
          /\ call[r].held[s].on_hand \in Int /\ call[r].held[s].reserved \in Int
      BY <1>1, <2>3, HeldFacts
    <3>2. stock[s].on_hand >= 0 /\ stock[s].reserved >= 0
      BY <3>1 DEF DeskInv, Tables, Standing
    <3> QED BY <2>3, <3>1, <3>2
  <2> QED BY <1>1, <2>1, <2>2, <2>6, <2>7, <2>8, <2>9, <2>10, <1>0, LockingEnds
<1> QED BY <1>2, <1>3

(* What is written of the rows it holds, by a request that locked them.     *)
LEMMA OnTheHeld ==
  ASSUME IInv, NEW r \in Requests, call[r].ask.op \in Locking
  PROVE  /\ DOMAIN ReleaseUnits(call[r]) = DOMAIN call[r].held /\ DOMAIN ShipHeld(call[r]) = DOMAIN call[r].held
         /\ \A s \in DOMAIN call[r].held :
              /\ ReleaseUnits(call[r])[s].on_hand = stock[s].on_hand
              /\ ReleaseUnits(call[r])[s].reserved = call[r].held[s].reserved - call[r].wants[s]
              /\ ShipHeld(call[r])[s].on_hand = stock[s].on_hand - call[r].wants[s]
              /\ ShipHeld(call[r])[s].reserved = call[r].held[s].reserved - call[r].wants[s]
BY HeldFacts DEF ReleaseUnits, ShipHeld, Stock

LEMMA CancelOrderDesk ==
  ASSUME IInv, DeskInv, NEW r \in Requests, CancelOrder(r)
  PROVE  DeskInv'
<1> DEFINE new == ReleaseUnits(call[r])
           row == [call[r].row EXCEPT !.state = "cancelled"]
<1>1. /\ call[r].ask.op = "cancel_order" /\ call[r].at = "locked" /\ Working(r) /\ call[r].ask.op \in Locking
      /\ call[r].ask.op \in {"cancel_order", "settle"} /\ call[r].at \in {"locked", "charge", "ship"}
  BY DEF CancelOrder, At, Working, Locking
<1>2. PICK o \in OrderIds : o = call[r].ask.order
  BY <1>1, HeldFacts
<1>3. CASE Refuse(r)
  BY <1>1, <1>3, DeskRefuses
<1>4. CASE ~Refuse(r)
  <2>1. /\ Accepted(new) /\ stock' = StockUpdated(new) /\ order' = OrderUpdated(o, row) /\ Finish(r)
        /\ UNCHANGED <<lines, invoices, book, moved, taken, history>>
    BY <1>2, <1>4 DEF CancelOrder, Write
  <2>2. row \in Row /\ row.state = "cancelled"
    BY CallFacts DEF Row, States
  <2>3. DOMAIN new = DOMAIN call[r].held /\ \A s \in DOMAIN new :
          new[s].on_hand = stock[s].on_hand /\ new[s].reserved = call[r].held[s].reserved - call[r].wants[s]
    BY <1>1, OnTheHeld
  <2> HIDE DEF new, row
  <2>4. order'[o].state \notin {"reserved", "settled"}
    BY <2>1, <2>2, Updated DEF Absent
  <2>5. BookExplainsShelf'
    <3> SUFFICES ASSUME ~raced, NEW s \in Skus, stock'[s] # NoStock PROVE stock'[s].on_hand = book[s]
      BY <2>1 DEF BookExplainsShelf, history
    <3>1. stock[s] # NoStock /\ stock'[s].on_hand = stock[s].on_hand
      BY <2>1, <2>3 DEF StockUpdated
    <3> QED BY <3>1 DEF DeskInv, BookExplainsShelf
  <2>6. ~raced => \A s \in Skus \ byHand :
          stock'[s].reserved = (stock[s].reserved - Part(o, s)) + Part(o, s)'
    BY <1>1, <1>2, <2>1, <2>3, <2>4, Releases
  <2>7. book' \in [Skus -> Int]
    BY <2>1 DEF DeskInv, Tables
  <2>8. \A s \in DOMAIN new : new[s].on_hand >= 0 /\ new[s].reserved >= 0
    BY <2>1 DEF Accepted
  <2> QED BY <1>1, <1>2, <2>1, <2>2, <2>4, <2>5, <2>6, <2>7, <2>8, LockingEnds
<1> QED BY <1>3, <1>4

(* The bill a settlement leaves, and the order that points at it.           *)
LEMMA Bills ==
  ASSUME IInv, DeskInv, NEW r \in Requests, NEW o \in OrderIds, o = call[r].ask.order, NEW paid \in BOOLEAN,
         NEW state \in States, Billed(call[r], state, paid)
  PROVE  /\ \E bill \in Bill : invoices' = Append(invoices, bill)
         /\ \E row \in Row : row.state = state /\ order' = OrderUpdated(o, row)
         /\ order'[o] # Absent => /\ order'[o].state = state /\ order'[o].invoice \in 1..Len(invoices')
                                  /\ invoices'[order'[o].invoice] = Invoice(order'[o].total, paid)
<1> DEFINE bill == Invoice(call[r].row.total, paid)
           n == Len(invoices) + 1
           row == Order(state, call[r].row.total, n)
<1>1. invoices' = Append(invoices, bill) /\ order' = OrderUpdated(o, row)
  BY DEF Billed
<1>2. call[r].row.total \in Int
  BY CallFacts DEF Row
<1>3. bill \in Bill
  BY <1>2 DEF Invoice, Bill
<1>4. invoices \in Seq(Bill)
  BY DEF DeskInv, Tables
<1> HIDE DEF bill
<1>5. Len(invoices') = n /\ n \in Nat /\ n \in 1..n /\ invoices'[n] = bill
  BY <1>1, <1>3, <1>4
<1> HIDE DEF n
<1>6. row \in Row
  BY <1>2, <1>5 DEF Order, Row
<1>7. row.state = state /\ row.invoice = n /\ row.total = call[r].row.total
  BY DEF Order
<1> HIDE DEF row
<1>8. order'[o] # Absent => order'[o] = row
  BY <1>1, <1>6, Updated
<1> QED BY <1>1, <1>3, <1>5, <1>6, <1>7, <1>8 DEF bill

LEMMA DeclineDesk ==
  ASSUME IInv, DeskInv, NEW r \in Requests, Decline(r)
  PROVE  DeskInv'
<1> DEFINE new == ReleaseUnits(call[r])
<1>1. /\ call[r].ask.op = "settle" /\ call[r].at = "charge" /\ Working(r) /\ call[r].ask.op \in Locking
      /\ call[r].ask.op \in {"cancel_order", "settle"} /\ call[r].at \in {"locked", "charge", "ship"}
  BY DEF Decline, At, Working, Locking
<1>2. PICK o \in OrderIds : o = call[r].ask.order
  BY <1>1, HeldFacts
<1>3. CASE Refuse(r)
  BY <1>1, <1>3, DeskRefuses
<1>4. CASE ~Refuse(r)
  <2>1. /\ Accepted(new) /\ stock' = StockUpdated(new) /\ Billed(call[r], "invoiced", FALSE) /\ Finish(r)
        /\ UNCHANGED <<lines, book, moved, taken, history>>
    BY <1>4 DEF Decline
  <2>2. PICK row \in Row : row.state = "invoiced" /\ order' = OrderUpdated(o, row)
    BY <1>2, <2>1, Bills DEF States
  <2>3. DOMAIN new = DOMAIN call[r].held /\ \A s \in DOMAIN new :
          new[s].on_hand = stock[s].on_hand /\ new[s].reserved = call[r].held[s].reserved - call[r].wants[s]
    BY <1>1, OnTheHeld
  <2> HIDE DEF new
  <2>4. order'[o].state \notin {"reserved", "settled"}
    BY <2>2, Updated DEF Absent
  <2>5. BookExplainsShelf'
    <3> SUFFICES ASSUME ~raced, NEW s \in Skus, stock'[s] # NoStock PROVE stock'[s].on_hand = book[s]
      BY <2>1 DEF BookExplainsShelf, history
    <3>1. stock[s] # NoStock /\ stock'[s].on_hand = stock[s].on_hand
      BY <2>1, <2>3 DEF StockUpdated
    <3> QED BY <3>1 DEF DeskInv, BookExplainsShelf
  <2>6. ~raced => \A s \in Skus \ byHand :
          stock'[s].reserved = (stock[s].reserved - Part(o, s)) + Part(o, s)'
    BY <1>1, <1>2, <2>1, <2>3, <2>4, Releases
  <2>7. book' \in [Skus -> Int]
    BY <2>1 DEF DeskInv, Tables
  <2>8. \A s \in DOMAIN new : new[s].on_hand >= 0 /\ new[s].reserved >= 0
    BY <2>1 DEF Accepted
  <2>9. \E bill \in Bill : invoices' = Append(invoices, bill)
    BY <1>2, <2>1, Bills DEF States
  <2> QED BY <1>1, <1>2, <2>1, <2>2, <2>4, <2>5, <2>6, <2>7, <2>8, <2>9, LockingEnds
<1> QED BY <1>3, <1>4

LEMMA ShipDesk ==
  ASSUME IInv, DeskInv, NEW r \in Requests, Ship(r)
  PROVE  DeskInv'
<1> DEFINE new == ShipHeld(call[r])
<1>1. /\ call[r].ask.op = "settle" /\ call[r].at = "ship" /\ Working(r) /\ call[r].ask.op \in Locking
      /\ call[r].ask.op \in {"cancel_order", "settle"} /\ call[r].at \in {"locked", "charge", "ship"}
  BY DEF Ship, At, Working, Locking
<1>2. PICK o \in OrderIds : o = call[r].ask.order
  BY <1>1, HeldFacts
<1>3. CASE Refuse(r)
  BY <1>1, <1>3, DeskRefuses
<1>4. CASE ~Refuse(r)
  <2>1. /\ Accepted(new) /\ stock' = StockUpdated(new) /\ Billed(call[r], "settled", TRUE) /\ Finish(r)
        /\ book' = [s \in Skus |-> IF s \in DOMAIN call[r].wants THEN book[s] - call[r].wants[s] ELSE book[s]]
        /\ UNCHANGED <<lines, taken, history>>
    BY <1>4 DEF Ship
  <2>2. PICK row \in Row : row.state = "settled" /\ order' = OrderUpdated(o, row)
    BY <1>2, <2>1, Bills DEF States
  <2>3. DOMAIN new = DOMAIN call[r].held /\ \A s \in DOMAIN new :
          /\ new[s].on_hand = stock[s].on_hand - call[r].wants[s]
          /\ new[s].reserved = call[r].held[s].reserved - call[r].wants[s]
    BY <1>1, OnTheHeld
  <2> HIDE DEF new
  <2>4. order'[o].state # "reserved"
    BY <2>2, Updated DEF Absent
  <2>5. DOMAIN call[r].wants = DOMAIN new /\ taken[o] > 0
    BY <1>1, <1>2, <2>3, CallFacts DEF ReadIn
  <2>6. order'[o].state = "settled" => Paid(o)'
    <3>1. order'[o].state = "settled" => order'[o] # Absent
      BY DEF Absent
    <3> QED BY <1>2, <2>1, <2>5, <3>1, Bills DEF Paid, States, Invoice
  <2>7. book \in [Skus -> Int] /\ \A s \in DOMAIN call[r].wants : call[r].wants[s] \in Nat
    BY <1>1, HeldFacts DEF DeskInv, Tables
  <2>8. book' \in [Skus -> Int]
    BY <2>1, <2>7
  <2>9. BookExplainsShelf'
    <3> SUFFICES ASSUME ~raced, NEW s \in Skus, stock'[s] # NoStock PROVE stock'[s].on_hand = book'[s]
      BY <2>1 DEF BookExplainsShelf, history
    <3>1. stock'[s] = IF s \in DOMAIN new /\ stock[s] # NoStock THEN new[s] ELSE stock[s]
      BY <2>1 DEF StockUpdated
    <3>2. stock[s] # NoStock /\ stock[s].on_hand = book[s]
      BY <3>1 DEF DeskInv, BookExplainsShelf
    <3>3. book'[s] = IF s \in DOMAIN new THEN book[s] - call[r].wants[s] ELSE book[s]
      BY <2>1, <2>5
    <3> QED BY <2>3, <3>1, <3>2, <3>3
  <2>10. ~raced => \A s \in Skus \ byHand :
          stock'[s].reserved = (stock[s].reserved - Part(o, s)) + Part(o, s)'
    BY <1>1, <1>2, <2>1, <2>3, <2>4, Releases
  <2>11. \A s \in DOMAIN new : new[s].on_hand >= 0 /\ new[s].reserved >= 0
    BY <2>1 DEF Accepted
  <2>12. \E bill \in Bill : invoices' = Append(invoices, bill)
    BY <1>2, <2>1, Bills DEF States
  <2> QED BY <1>1, <1>2, <2>1, <2>2, <2>6, <2>8, <2>9, <2>10, <2>11, <2>12, LockingEnds
<1> QED BY <1>3, <1>4

(* The ends that leave the stock alone.                                     *)
LEMMA OrderEnds ==
  ASSUME IInv, DeskInv, NEW r \in Requests, Working(r), Finish(r), NEW o \in OrderIds, o = call[r].ask.order,
         order' \in [OrderIds -> Row], lines' \in [OrderIds -> Basket],
         \A p \in OrderIds : p # o => order'[p] = order[p] /\ lines'[p] = lines[p],
         UNCHANGED <<stock, invoices, book, taken, history>>, order'[o].state # "settled",
         ~raced => \A s \in Skus : Part(o, s) = 0 /\ Part(o, s)' = 0
  PROVE  DeskInv'
<1>1. raced' = raced /\ byHand' = byHand
  BY DEF history
<1>2. AllPaid'
  BY PaidStays
<1>3. BookExplainsShelf'
  BY <1>1 DEF DeskInv, BookExplainsShelf
<1>4. \A s \in Skus : stock[s].reserved \in Int
  BY DEF IInv, Typed, Level
<1>5. ~raced => \A s \in Skus \ byHand :
        stock'[s].reserved = (stock[s].reserved - Part(o, s)) + Part(o, s)'
  BY <1>4
<1>6. HeldIsPromised'
  BY <1>1, <1>5, HoldsFollow
<1>7. invoices' \in Seq(Bill) /\ book' \in [Skus -> Int] /\ Standing(stock')
  BY DEF DeskInv, Tables
<1> QED BY <1>1, <1>2, <1>3, <1>6, <1>7, DeskEnds

LEMMA PlaceOrderDesk ==
  ASSUME IInv, DeskInv, NEW r \in Requests, PlaceOrder(r), IInv'
  PROVE  DeskInv'
<1>1. Working(r)
  BY DEF PlaceOrder, At, Working
<1>2. CASE Refuse(r)
  BY <1>1, <1>2, DeskRefuses
<1>3. CASE /\ At(r, {"place_order"}, "reference") /\ Go(r, "insert") /\ UNCHANGED <<tables, lock, taken, history>>
  BY <1>3, PlaceOrderGoes
<1>4. CASE /\ At(r, {"place_order"}, "insert") /\ order[call[r].ask.order] = Absent /\ Finish(r)
           /\ \E basket \in Baskets :
                /\ order' = [order EXCEPT ![call[r].ask.order] = Order("draft", Total(basket), 0)]
                /\ lines' = [lines EXCEPT ![call[r].ask.order] = basket]
           /\ UNCHANGED <<stock, invoices, book, moved, taken, history>>
  <2>1. order \in [OrderIds -> Row] /\ lines \in [OrderIds -> Basket] /\ lines' \in [OrderIds -> Basket]
    BY DEF DeskInv, Tables, IInv, Typed
  <2>2. CASE call[r].ask.order \in OrderIds
    <3>1. PICK o \in OrderIds : o = call[r].ask.order
      BY <2>2
    <3>2. PICK basket \in Baskets : /\ order' = [order EXCEPT ![o] = Order("draft", Total(basket), 0)]
                                    /\ lines' = [lines EXCEPT ![o] = basket]
      BY <1>4, <3>1
    <3>3. Total(basket) \in Int
      <4>1. PICK S \in SUBSET Skus : basket \in [S -> Units]
        BY BasketsAssumption
      <4>2. basket \in [S -> Nat]
        BY <4>1, UnitsAssumption
      <4> QED BY <4>2, TotalIsInt DEF Basket
    <3>4. Order("draft", Total(basket), 0) \in Row /\ Order("draft", Total(basket), 0).state = "draft"
      BY <3>3 DEF Order, Row, States
    <3>5. order' \in [OrderIds -> Row] /\ order'[o].state = "draft"
      BY <2>1, <3>2, <3>4
    <3>6. \A p \in OrderIds : p # o => order'[p] = order[p] /\ lines'[p] = lines[p]
      BY <2>1, <3>2
    <3>7. \A s \in Skus : Part(o, s) = 0 /\ Part(o, s)' = 0
      BY <1>4, <3>1, <3>5 DEF Part, Absent
    <3> QED BY <1>1, <1>4, <2>1, <3>1, <3>5, <3>6, <3>7, OrderEnds
  <2>3. CASE call[r].ask.order \notin OrderIds
    <3>1. order' = order /\ lines' = lines
      BY <1>4, <2>1, <2>3
    <3>2. UNCHANGED <<order, lines, stock, invoices, book>> /\ taken' = taken /\ byHand' = byHand /\ raced' = raced
      BY <1>4, <3>1 DEF history
    <3>3. AllPaid' /\ BookExplainsShelf'
      BY <3>2 DEF DeskInv, AllPaid, Paid, Invoice, BookExplainsShelf
    <3>4. HeldIsPromised'
      <4>1. \A t : Promised(t)' = Promised(t)
        <5> TAKE t
        <5>1. Reserved' = Reserved /\ Asked(t)' = Asked(t)
          BY <3>2 DEF Reserved, Asked, Wanted
        <5> QED BY <5>1, PromisedIsSum
      <4> QED BY <3>2, <4>1 DEF DeskInv, HeldIsPromised
    <3>5. /\ order' \in [OrderIds -> Row] /\ invoices' \in Seq(Bill) /\ book' \in [Skus -> Int]
          /\ Standing(stock')
      BY <3>2 DEF DeskInv, Tables
    <3> QED BY <1>1, <1>4, <3>2, <3>3, <3>4, <3>5, DeskEnds
  <2> QED BY <2>2, <2>3
<1> QED BY <1>2, <1>3, <1>4 DEF PlaceOrder

LEMMA RetotalDesk ==
  ASSUME IInv, DeskInv, NEW r \in Requests, Retotal(r), IInv'
  PROVE  DeskInv'
<1> DEFINE row == [call[r].row EXCEPT !.total = Total(call[r].wants)]
<1>1. /\ Working(r) /\ call[r].ask.op \in LineOps /\ call[r].at = "retotal" /\ HasRead(call[r])
      /\ call[r].ask.order \in OrderIds
  BY CallFacts DEF Retotal, Working, PlaceOK, HasRead, CallOK, AskOK
<1>2. PICK o \in OrderIds : o = call[r].ask.order
  BY <1>1
<1>3. /\ lines' = [lines EXCEPT ![o] = Edited(call[r], lines[o])] /\ order' = OrderUpdated(o, row)
      /\ Finish(r) /\ UNCHANGED <<stock, invoices, book, moved, taken, history>>
  BY <1>2 DEF Retotal
<1>4. row \in Row /\ row.state = call[r].row.state
  <2>1. Total(call[r].wants) \in Int
    BY CallFacts, TotalIsInt DEF CallOK
  <2> QED BY <2>1, CallFacts DEF Row
<1> HIDE DEF row
<1>5. /\ order' \in [OrderIds -> Row] /\ order'[o] = IF order[o] = Absent THEN Absent ELSE row
      /\ \A p \in OrderIds : p # o => order'[p] = order[p]
  BY <1>3, <1>4, Updated
<1>6. row.state \in OpenStates /\ (~raced => row.state = "draft" /\ order[o].state = "draft")
  BY <1>1, <1>2, <1>4, CallFacts DEF ReadIn, StillIn, From, LineOps
<1>7. order'[o].state # "settled" /\ (~raced => \A s \in Skus : Part(o, s) = 0 /\ Part(o, s)' = 0)
  BY <1>5, <1>6 DEF Part, Absent, OpenStates
<1>8. lines \in [OrderIds -> Basket] /\ lines' \in [OrderIds -> Basket]
  BY DEF IInv, Typed
<1>9. \A p \in OrderIds : p # o => order'[p] = order[p] /\ lines'[p] = lines[p]
  BY <1>3, <1>5, <1>8
<1>10. Finish(r) /\ UNCHANGED <<stock, invoices, book, taken, history>>
  BY <1>3
<1>11. order' \in [OrderIds -> Row] /\ order'[o].state # "settled"
  BY <1>5, <1>7
<1>12. Working(r)
  BY <1>1
<1>13. ~raced => \A s \in Skus : Part(o, s) = 0 /\ Part(o, s)' = 0
  BY <1>7
<1> QED BY <1>2, <1>8, <1>9, <1>10, <1>11, <1>12, <1>13, OrderEnds

LEMMA AttachInvoiceDesk ==
  ASSUME IInv, DeskInv, NEW r \in Requests, AttachInvoice(r)
  PROVE  DeskInv'
<1>1. /\ Working(r) /\ call[r].ask.op = "attach_invoice" /\ call[r].at = "write" /\ HasRead(call[r])
      /\ call[r].ask.order \in OrderIds
  BY CallFacts DEF AttachInvoice, At, Working, HasRead, CallOK, AskOK, OrderOps
<1>2. PICK o \in OrderIds : o = call[r].ask.order
  BY <1>1
<1>3. PICK i \in 1..Len(invoices) : order' = OrderUpdated(o, Order("invoiced", call[r].row.total, i))
  BY <1>2 DEF AttachInvoice
<1> DEFINE row == Order("invoiced", call[r].row.total, i)
<1>4. row \in Row /\ row.state = "invoiced"
  <2>1. i \in Nat
    BY DEF DeskInv, Tables
  <2> QED BY <2>1, CallFacts DEF Row, Order, States
<1>5. order' = OrderUpdated(o, row) /\ Finish(r) /\ UNCHANGED <<lines, stock, invoices, book, moved, taken, history>>
  BY <1>3 DEF AttachInvoice
<1> HIDE DEF row
<1>6. /\ order' \in [OrderIds -> Row] /\ order'[o] = IF order[o] = Absent THEN Absent ELSE row
      /\ \A p \in OrderIds : p # o => order'[p] = order[p]
  BY <1>4, <1>5, Updated
<1>7. ~raced => order[o].state = "draft"
  BY <1>1, <1>2, CallFacts DEF StillIn
<1>8. order'[o].state # "settled" /\ (~raced => \A s \in Skus : Part(o, s) = 0 /\ Part(o, s)' = 0)
  BY <1>4, <1>6, <1>7 DEF Part, Absent
<1>9. lines' \in [OrderIds -> Basket] /\ \A p \in OrderIds : p # o => order'[p] = order[p] /\ lines'[p] = lines[p]
  BY <1>5, <1>6 DEF IInv, Typed
<1> QED BY <1>1, <1>2, <1>5, <1>6, <1>8, <1>9, OrderEnds

LEMMA RemoveOrderDesk ==
  ASSUME IInv, DeskInv, NEW r \in Requests, RemoveOrder(r)
  PROVE  DeskInv'
<1>1. Working(r) /\ call[r].ask.op = "remove_order" /\ call[r].ask.order \in OrderIds
  BY CallFacts DEF RemoveOrder, At, Working, CallOK, AskOK, OrderOps
<1>2. CASE Refuse(r)
  BY <1>1, <1>2, DeskRefuses
<1>3. CASE /\ At(r, {"remove_order"}, "count") /\ Go(r, "write")
           /\ UNCHANGED <<tables, lock, taken, history>>
  BY <1>3, RemoveOrderGoes
<1>4. CASE /\ lines[call[r].ask.order] = <<>> /\ order' = [order EXCEPT ![call[r].ask.order] = Absent]
           /\ Finish(r) /\ UNCHANGED <<lines, stock, invoices, book, moved, taken, history>>
  <2>1. PICK o \in OrderIds : o = call[r].ask.order
    BY <1>1
  <2>2. order \in [OrderIds -> Row] /\ Absent \in Row
    BY DEF DeskInv, Tables, Absent, Row
  <2>3. /\ order' \in [OrderIds -> Row] /\ order'[o] = Absent
        /\ \A p \in OrderIds : p # o => order'[p] = order[p]
    BY <1>4, <2>1, <2>2
  <2>4. order'[o].state # "settled" /\ \A s \in Skus : Part(o, s)' = 0
    BY <2>3 DEF Absent, Part
  <2>5. \A s \in Skus : Part(o, s) = 0
    BY <1>4, <2>1, EmptyBasket DEF Part, Wanted
  <2>6. lines' \in [OrderIds -> Basket] /\ \A p \in OrderIds : p # o => order'[p] = order[p] /\ lines'[p] = lines[p]
    BY <1>4, <2>3 DEF IInv, Typed
  <2> QED BY <1>1, <1>4, <2>1, <2>3, <2>4, <2>5, <2>6, OrderEnds
<1> QED BY <1>2, <1>3, <1>4 DEF RemoveOrder

(* The ends that leave the orders alone.                                    *)
LEMMA FormEnds ==
  ASSUME IInv, DeskInv, NEW r \in Requests, Working(r), Finish(r),
         UNCHANGED <<order, lines, invoices, taken, history>>, book' \in [Skus -> Int],
         Standing(stock'), BookExplainsShelf',
         call[r].ask.op \in StockOps, ~raced => \A s \in Skus \ byHand : stock'[s].reserved = stock[s].reserved
  PROVE  DeskInv'
<1>1. raced' = raced /\ byHand' = byHand
  BY DEF history
<1>2. AllPaid'
  BY DEF DeskInv, AllPaid, Paid, Invoice
<1>3. \A t : Promised(t)' = Promised(t)
  <2> TAKE t
  <2>1. Reserved' = Reserved /\ Asked(t)' = Asked(t)
    BY DEF Reserved, Asked, Wanted
  <2> QED BY <2>1, PromisedIsSum
<1>4. HeldIsPromised'
  BY <1>1, <1>3 DEF DeskInv, HeldIsPromised
<1>5. order' \in [OrderIds -> Row] /\ invoices' \in Seq(Bill)
  BY DEF DeskInv, Tables
<1> QED BY <1>1, <1>2, <1>4, <1>5, DeskEnds

LEMMA MoveStockDesk ==
  ASSUME IInv, DeskInv, NEW r \in Requests, MoveStock(r)
  PROVE  DeskInv'
<1> DEFINE s == call[r].ask.sku
           delta == IF call[r].ask.op = "ship" THEN 0 - call[r].ask.units ELSE call[r].ask.units
           new == [t \in {s} |-> Stock(call[r].held[t].on_hand + delta, call[r].held[t].reserved)]
<1>1. /\ Working(r) /\ call[r].ask.op \in {"receive", "ship"} /\ call[r].at = "write"
      /\ s \in Skus /\ call[r].ask.units \in Nat /\ call[r].ask.op \in StockOps
  BY AskOfStock DEF MoveStock, At, Working, StockOps, StockForms
<1>2. CASE Refuse(r)
  BY <1>1, <1>2, DeskRefuses
<1>3. CASE ~Refuse(r)
  <2>1. /\ stock[s] # NoStock /\ Accepted(new) /\ stock' = StockUpdated(new)
        /\ book' = [book EXCEPT ![s] = @ + delta] /\ Finish(r)
        /\ UNCHANGED <<order, lines, invoices, taken, history>>
    BY <1>3 DEF MoveStock
  <2>2. delta \in Int
    BY <1>1
  <2>3. /\ DOMAIN new = {s} /\ new[s].on_hand = call[r].held[s].on_hand + delta
        /\ new[s].reserved = call[r].held[s].reserved
    BY DEF Stock
  <2> HIDE DEF new, delta
  <2>4. \A t \in Skus : stock'[t] = IF t = s THEN new[t] ELSE stock[t]
    BY <2>1, <2>3 DEF StockUpdated
  <2>5. Standing(stock')
    <3>1. \A t \in DOMAIN new : new[t].on_hand >= 0 /\ new[t].reserved >= 0
      BY <2>1 DEF Accepted
    <3> HIDE DEF s
    <3> QED BY <2>1, <3>1, Leveled
  <2>6. book \in [Skus -> Int]
    BY DEF DeskInv, Tables
  <2>7. /\ book' \in [Skus -> Int] /\ book'[s] = book[s] + delta
        /\ \A t \in Skus : t # s => book'[t] = book[t]
    BY <1>1, <2>1, <2>2, <2>6
  <2>8. ~raced => call[r].held[s] = stock[s]
    BY <1>1, CallFacts DEF StillIn
  <2>9. ~raced => \A t \in Skus \ byHand : stock'[t].reserved = stock[t].reserved
    BY <2>3, <2>4, <2>8
  <2>10. BookExplainsShelf'
    <3> SUFFICES ASSUME ~raced, NEW t \in Skus, stock'[t] # NoStock PROVE stock'[t].on_hand = book'[t]
      BY <2>1 DEF BookExplainsShelf, history
    <3>1. CASE t = s
      <4>1. stock[s].on_hand = book[s]
        BY <1>1, <2>1 DEF DeskInv, BookExplainsShelf
      <4> QED BY <2>3, <2>4, <2>7, <2>8, <3>1, <4>1
    <3>2. CASE t # s
      BY <2>4, <2>7, <3>2 DEF DeskInv, BookExplainsShelf
    <3> QED BY <3>1, <3>2
  <2> QED BY <1>1, <2>1, <2>5, <2>7, <2>9, <2>10, FormEnds
<1> QED BY <1>2, <1>3

(* A form that sets one level by hand.                                      *)
LEMMA HandEnds ==
  ASSUME IInv, DeskInv, NEW r \in Requests, Working(r), Finish(r),
         UNCHANGED <<order, lines, invoices, taken, history>>, NEW s \in Skus, s \in byHand,
         call[r].ask.op \in StockOps,
         \A t \in Skus : t # s => stock'[t] = stock[t] /\ book'[t] = book[t], book' \in [Skus -> Int],
         stock'[s] # NoStock => stock'[s].on_hand >= 0 /\ stock'[s].reserved >= 0 /\ book'[s] = stock'[s].on_hand
  PROVE  DeskInv'
<1>1. raced' = raced /\ byHand' = byHand
  BY DEF history
<1>2. Standing(stock')
  BY DEF DeskInv, Tables, Standing
<1>3. BookExplainsShelf'
  BY <1>1 DEF DeskInv, BookExplainsShelf
<1> QED BY <1>2, <1>3, FormEnds

LEMMA CountStockDesk ==
  ASSUME IInv, DeskInv, NEW r \in Requests, CountStock(r)
  PROVE  DeskInv'
<1> DEFINE s == call[r].ask.sku
<1>1. s \in Skus /\ call[r].ask.units \in Nat /\ s \in byHand /\ Working(r) /\ call[r].ask.op \in StockOps
  BY AskOfStock DEF CountStock, At, StockOps, StockForms, SetByHand, Working
<1>2. /\ stock' = [stock EXCEPT ![s] = Stock(call[r].ask.units, @.reserved)]
      /\ book' = [book EXCEPT ![s] = call[r].ask.units] /\ Finish(r)
      /\ UNCHANGED <<order, lines, invoices, moved, taken, history>>
  BY DEF CountStock
<1>3. stock \in [Skus -> Level] /\ book \in [Skus -> Int] /\ stock[s].reserved >= 0
  BY <1>1 DEF IInv, Typed, DeskInv, Tables, Standing, NoStock
<1>4. /\ stock'[s] = Stock(call[r].ask.units, stock[s].reserved) /\ book'[s] = call[r].ask.units
      /\ \A t \in Skus : t # s => stock'[t] = stock[t] /\ book'[t] = book[t]
  BY <1>1, <1>2, <1>3
<1>5. book' \in [Skus -> Int]
  BY <1>1, <1>2, <1>3
<1>6. stock'[s].on_hand >= 0 /\ stock'[s].reserved >= 0 /\ book'[s] = stock'[s].on_hand
  BY <1>1, <1>3, <1>4 DEF Stock
<1> HIDE DEF s
<1> QED BY <1>1, <1>2, <1>4, <1>5, <1>6, HandEnds

LEMMA UpdateStockDesk ==
  ASSUME IInv, DeskInv, NEW r \in Requests, UpdateStock(r)
  PROVE  DeskInv'
<1> DEFINE s == call[r].ask.sku
<1>1. s \in Skus /\ call[r].ask.units \in Nat /\ s \in byHand /\ Working(r) /\ call[r].ask.op \in StockOps
  BY AskOfStock DEF UpdateStock, At, StockOps, StockForms, SetByHand, Working
<1>2. PICK reserved \in {0} \cup Units :
        stock' = StockUpdated([t \in {s} |-> Stock(call[r].ask.units, reserved)])
  BY DEF UpdateStock
<1>3. /\ book' = (IF stock[s] = NoStock THEN book ELSE [book EXCEPT ![s] = call[r].ask.units]) /\ Finish(r)
      /\ UNCHANGED <<order, lines, invoices, moved, taken, history>>
  BY DEF UpdateStock
<1>4. book \in [Skus -> Int] /\ reserved \in Nat
  BY UnitsAssumption DEF DeskInv, Tables
<1>5. \A t \in Skus : stock'[t] = IF t = s /\ stock[t] # NoStock THEN Stock(call[r].ask.units, reserved) ELSE stock[t]
  BY <1>2 DEF StockUpdated
<1>6. book' \in [Skus -> Int] /\ \A t \in Skus : t # s => stock'[t] = stock[t] /\ book'[t] = book[t]
  BY <1>1, <1>3, <1>4, <1>5
<1>7. stock'[s] # NoStock => stock'[s].on_hand >= 0 /\ stock'[s].reserved >= 0 /\ book'[s] = stock'[s].on_hand
  BY <1>1, <1>3, <1>4, <1>5 DEF Stock
<1> HIDE DEF s
<1> QED BY <1>1, <1>3, <1>6, <1>7, HandEnds

LEMMA ScanStockDesk ==
  ASSUME IInv, DeskInv, NEW r \in Requests, ScanStock(r)
  PROVE  DeskInv'
<1> DEFINE found == [s \in {t \in Skus : stock[t] # NoStock} |-> call[r].ask.units]
           c == [call[r] EXCEPT !.wants = found, !.at = "lock"]
<1>1. /\ call[r].ask.op = "reserve_units" /\ Working(r) /\ call' = [call EXCEPT ![r] = c]
      /\ UNCHANGED <<tables, taken, byHand, raced>>
  BY DEF ScanStock, At, Working, history
<1>2. c.ask = call[r].ask /\ c.row = call[r].row /\ c.row \in Row /\ c.at = "lock"
  <2>1. Shape(call[r]) /\ call[r].row \in Row
    BY CallFacts
  <2> QED BY <2>1 DEF Shape
<1> HIDE DEF c, found
<1>3. ReadIn(c, taken) /\ StillIn(c, order, lines, stock)
  BY <1>1, <1>2 DEF ReadIn, StillIn, HasRead, Deciding, Locking, OrderOps, LineOps
<1> QED BY <1>1, <1>2, <1>3, DeskTurns

LEMMA ReserveUnitsDesk ==
  ASSUME IInv, DeskInv, NEW r \in Requests, ReserveUnits(r)
  PROVE  DeskInv'
<1> DEFINE held == DOMAIN call[r].held
           new == [s \in held |-> Stock(stock[s].on_hand, stock[s].reserved + call[r].ask.units)]
<1>1. /\ call[r].ask.units \in Nat /\ Skus \subseteq byHand /\ Working(r) /\ held \subseteq Skus
      /\ call[r].ask.op \in StockOps
  <2>1. call[r].ask.op = "reserve_units" /\ Working(r)
    BY DEF ReserveUnits, At, Working
  <2>2. SetByHand(call[r].ask) = Skus
    BY <2>1 DEF SetByHand
  <2>3. held \subseteq Skus
    BY CallFacts DEF CallOK, Levels
  <2> QED BY <2>1, <2>2, <2>3, AskOfStock DEF StockOps, StockForms
<1>2. stock' = StockUpdated(new) /\ Finish(r) /\ UNCHANGED <<order, lines, invoices, book, moved, taken, history>>
  BY DEF ReserveUnits
<1>3. DOMAIN new = held /\ \A s \in held :
        new[s].on_hand = stock[s].on_hand /\ new[s].reserved = stock[s].reserved + call[r].ask.units
  BY DEF Stock
<1> HIDE DEF new, held
<1>4. \A s \in Skus : stock[s].reserved \in Int
  BY DEF IInv, Typed, Level
<1>5. \A s \in DOMAIN new : stock[s] # NoStock => new[s].on_hand >= 0 /\ new[s].reserved >= 0
  <2>1. \A s \in Skus : stock[s] # NoStock => stock[s].on_hand >= 0 /\ stock[s].reserved >= 0
    BY DEF DeskInv, Tables, Standing
  <2> QED BY <1>1, <1>3, <1>4, <2>1
<1>6. Standing(stock')
  BY <1>2, <1>5, Leveled
<1>7. BookExplainsShelf'
  <2>1. \A s \in Skus : stock'[s] # NoStock => stock[s] # NoStock /\ stock'[s].on_hand = stock[s].on_hand
    BY <1>2, <1>3 DEF StockUpdated
  <2> QED BY <1>2, <2>1 DEF DeskInv, BookExplainsShelf, history
<1>8. book' \in [Skus -> Int]
  BY <1>2 DEF DeskInv, Tables
<1> QED BY <1>1, <1>2, <1>6, <1>7, <1>8, FormEnds

LEMMA RemoveStockDesk ==
  ASSUME IInv, DeskInv, NEW r \in Requests, RemoveStock(r)
  PROVE  DeskInv'
<1> DEFINE s == call[r].ask.sku
<1>1. s \in Skus /\ s \in byHand /\ Working(r) /\ call[r].ask.op \in StockOps
  BY AskOfStock DEF RemoveStock, At, StockOps, StockForms, SetByHand, Working
<1>2. CASE Refuse(r)
  BY <1>1, <1>2, DeskRefuses
<1>3. CASE /\ stock' = [stock EXCEPT ![s] = NoStock] /\ Finish(r)
           /\ UNCHANGED <<order, lines, invoices, book, moved, taken, history>>
  <2>1. /\ stock'[s] = NoStock /\ \A t \in Skus : t # s => stock'[t] = stock[t] /\ book'[t] = book[t]
        /\ book' \in [Skus -> Int]
    BY <1>1, <1>3 DEF IInv, Typed, DeskInv, Tables
  <2> HIDE DEF s
  <2> QED BY <1>1, <1>3, <2>1, HandEnds
<1> QED BY <1>2, <1>3 DEF RemoveStock

-----------------------------------------------------------------------------
LEMMA DeskInit == Init => DeskInv
<1> SUFFICES ASSUME Init PROVE DeskInv
  OBVIOUS
<1>1. PICK held, drafts \in SUBSET OrderIds, basket \in [OrderIds -> Baskets] :
        /\ held \cap drafts = {}
        /\ lines = [o \in OrderIds |-> IF o \in held \cup drafts THEN basket[o] ELSE <<>>]
        /\ order = [o \in OrderIds |->
             IF o \in held THEN Order("reserved", Total(basket[o]), 0)
             ELSE IF o \in drafts THEN Order("draft", Total(basket[o]), 0) ELSE Absent]
  BY DEF Init
<1>2. \A r \in Requests : call[r] = Idle
  BY DEF Init
<1>3. order \in [OrderIds -> Row] /\ \A o \in OrderIds : order[o].state # "settled"
  <2>1. \A b \in Baskets : Total(b) \in Int
    <3> SUFFICES ASSUME NEW b \in Baskets PROVE Total(b) \in Int
      OBVIOUS
    <3>1. PICK S \in SUBSET Skus : b \in [S -> Units]
      BY BasketsAssumption
    <3>2. b \in [S -> Nat]
      BY <3>1, UnitsAssumption
    <3> QED BY <3>2, TotalIsInt DEF Basket
  <2>2. \A state \in States, b \in Baskets :
          Order(state, Total(b), 0) \in Row /\ Order(state, Total(b), 0).state = state
    BY <2>1 DEF Order, Row
  <2>3. Absent \in Row /\ Absent.state = "absent"
    BY DEF Absent, Row
  <2> QED BY <1>1, <2>2, <2>3 DEF States
<1>4. \A s \in Skus : stock[s] # NoStock => \E n \in 0..OnHand : stock[s] = Stock(OnHand, n)
  <2>1. stock \in [Skus -> {NoStock} \cup {Stock(OnHand, n) : n \in 0..OnHand}]
    BY DEF Init
  <2> QED BY <2>1
<1>5. \A s \in Skus : stock[s] # NoStock => stock[s].on_hand = OnHand /\ stock[s].reserved >= 0
  <2> SUFFICES ASSUME NEW s \in Skus, stock[s] # NoStock PROVE stock[s].on_hand = OnHand /\ stock[s].reserved >= 0
    OBVIOUS
  <2>1. PICK n \in 0..OnHand : stock[s] = Stock(OnHand, n)
    BY <1>4
  <2> QED BY <2>1, UnitsAssumption DEF Stock
<1>6. Tables
  <2> DEFINE bill == Invoice(0, FALSE)
  <2>1. bill \in Bill /\ invoices = <<bill>>
    BY DEF Invoice, Bill, Init
  <2> HIDE DEF bill
  <2>2. invoices \in Seq(Bill)
    BY <2>1
  <2>3. taken \in [OrderIds -> Nat] /\ book \in [Skus -> Int]
    BY UnitsAssumption DEF Init
  <2>4. Standing(stock)
    BY <1>5, UnitsAssumption DEF Standing
  <2> QED BY <1>2, <1>3, <2>2, <2>3, <2>4, IdleReads DEF Tables
<1>7. Read /\ Still
  BY <1>2, IdleReads DEF Read, Still
<1>8. Apart
  BY <1>2 DEF Apart, Working, Idle, Call
<1>9. AllPaid /\ HeldIsPromised /\ BookExplainsShelf
  BY <1>3, <1>5 DEF AllPaid, Init, HeldIsPromised, BookExplainsShelf
<1> QED BY <1>6, <1>7, <1>8, <1>9 DEF DeskInv

LEMMA DeskStep ==
  ASSUME IInv, DeskInv, [Next]_vars, IInv'
  PROVE  DeskInv'
<1>1. CASE UNCHANGED vars
  <2>1. /\ UNCHANGED <<order, lines, stock, invoices, book>> /\ call' = call /\ taken' = taken
        /\ byHand' = byHand /\ raced' = raced /\ UNCHANGED tables
    BY <1>1 DEF vars, tables, history
  <2>2. Tables' /\ Read' /\ Still' /\ Apart'
    BY <2>1 DEF DeskInv, Tables, Read, Still, Apart, Working, Clash
  <2>3. taken' \in [OrderIds -> Nat] /\ \A o \in OrderIds : taken'[o] >= taken[o]
    BY <2>1 DEF DeskInv, Tables
  <2>4. AllPaid' /\ HeldIsPromised' /\ BookExplainsShelf'
    BY <2>1, <2>3, RestStays
  <2> QED BY <2>2, <2>4 DEF DeskInv
<1>2. ASSUME NEW r \in Requests, Begin(r) \/ Step(r) \/ Crash(r)
      PROVE  DeskInv'
  <2>1. CASE Begin(r)
    BY <2>1, BeginDesk
  <2>2. CASE OrderStep(r)
    <3>1. CASE WrongSubscription(r)
      BY <3>1, DeskRefuses DEF WrongSubscription, At, Working
    <3> QED BY <2>2, <3>1, PlaceOrderDesk, FindLineDesk, GetOrderDesk, GetLinesDesk, LockStockDesk,
               ReserveDesk, CancelOrderDesk, IssueInvoiceDesk, ChargeDesk, DeclineDesk, ShipDesk,
               WriteLineDesk, RetotalDesk, AttachInvoiceDesk, RemoveOrderDesk DEF OrderStep
  <2>3. CASE StockStep(r)
    BY <2>3, GetStockDesk, MakeStockDesk, MoveStockDesk, CountStockDesk, UpdateStockDesk,
       ScanStockDesk, ReserveUnitsDesk, RemoveStockDesk
    DEF StockStep
  <2>4. CASE Crash(r)
    BY <2>4, DeskRefuses DEF Crash
  <2> QED BY <1>2, <2>1, <2>2, <2>3, <2>4 DEF Step
<1> QED BY <1>1, <1>2 DEF Next

(***************************************************************************)
(* Who waits for whom.                                                      *)
(***************************************************************************)
(* The rows a request has in its hands, by the statement it is at.          *)
Hands(c) ==
  CASE c.at \in {"lock", "locked"} -> {StockRow(s) : s \in DOMAIN c.held}
    [] c.at \in {"charge", "ship"} -> {StockRow(s) : s \in DOMAIN c.held} \cup {OrderRow(c.ask.order)}
    [] c.at = "retotal" -> {LineRow(c.ask.order, c.ask.sku)}
    [] OTHER -> {}
Queued == \A row \in Rows : lock[row] # Nobody => row \in Hands(call[lock[row]])

LEMMA QueuedInit == Init => Queued
<1> SUFFICES ASSUME Init PROVE Queued
  OBVIOUS
<1>1. \A row \in Rows : lock[row] = Nobody
  BY DEF Init
<1> QED BY <1>1 DEF Queued

(* A request that ends has nothing left in its hands.                       *)
LEMMA QueuedEnds ==
  ASSUME IInv, Queued, NEW r \in Requests, Finish(r)
  PROVE  Queued'
<1>1. call'[r] = Idle /\ \A q \in Requests \ {r} : call'[q] = call[q]
  BY CallsChange DEF Finish
<1> SUFFICES ASSUME NEW row \in Rows, lock'[row] # Nobody PROVE row \in Hands(call'[lock'[row]])
  BY DEF Queued, Hands
<1>2. lock'[row] = lock[row] /\ lock[row] # r /\ lock[row] \in Requests
  BY DEF Finish, IInv, Typed
<1>3. call'[lock[row]] = call[lock[row]]
  BY <1>1, <1>2
<1> QED BY <1>2, <1>3 DEF Queued

(* A request that goes on keeps what it has, and may take what it needs.    *)
LEMMA QueuedGoes ==
  ASSUME IInv, Queued, NEW r \in Requests, NEW c, call' = [call EXCEPT ![r] = c],
         \A row \in Rows : lock'[row] = lock[row] \/ (lock'[row] = r /\ row \in Hands(c)),
         Hands(call[r]) \subseteq Hands(c)
  PROVE  Queued'
<1>1. call'[r] = c /\ \A q \in Requests \ {r} : call'[q] = call[q]
  BY CallsChange
<1> SUFFICES ASSUME NEW row \in Rows, lock'[row] # Nobody PROVE row \in Hands(call'[lock'[row]])
  BY DEF Queued, Hands
<1>2. CASE lock'[row] = r /\ row \in Hands(c)
  BY <1>1, <1>2
<1>3. CASE lock'[row] = lock[row]
  <2>1. row \in Hands(call[lock[row]]) /\ lock[row] \in Requests
    BY <1>3 DEF Queued, IInv, Typed
  <2>2. CASE lock[row] = r
    BY <1>1, <1>3, <2>1, <2>2
  <2>3. CASE lock[row] # r
    <3>1. call'[lock[row]] = call[lock[row]]
      BY <1>1, <2>1, <2>3
    <3> QED BY <1>3, <2>1, <3>1
  <2> QED BY <2>2, <2>3
<1> QED BY <1>2, <1>3

(* With nothing in its hands, and no lock to take, but to queue for one.    *)
Empty(at) == at \notin {"lock", "locked", "charge", "ship", "retotal"}
LEMMA QueuedStarts ==
  ASSUME IInv, Queued, NEW r \in Requests, NEW c, call' = [call EXCEPT ![r] = c], lock' = lock, Empty(call[r].at)
  PROVE  Queued'
<1>1. Hands(call[r]) = {}
  BY DEF Hands, Empty
<1> QED BY <1>1, QueuedGoes

LEMMA LockStockQueued ==
  ASSUME IInv, Queued, NEW r \in Requests, LockStock(r)
  PROVE  Queued'
<1>1. /\ call[r].at = "lock" /\ call[r].ask.op \in Lockers /\ Shape(call[r]) /\ CallOK(call[r])
  BY DEF LockStock, PlaceOK, IInv, Typed, Placed, CallOK
<1>2. ASSUME Go(r, "locked"), UNCHANGED <<tables, lock, taken, history>>
      PROVE  Queued'
  <2> DEFINE c == [call[r] EXCEPT !.at = "locked"]
  <2>1. c.at = "locked" /\ c.held = call[r].held /\ call' = [call EXCEPT ![r] = c]
    BY <1>1, <1>2, AtFields DEF Go
  <2> HIDE DEF c
  <2>2. Hands(call[r]) = Hands(c)
    BY <1>1, <2>1 DEF Hands
  <2> QED BY <1>2, <2>1, <2>2, QueuedGoes
<1>3. ASSUME NEW s \in ToLock(call[r]), ForUpdate(r, StockRow(s)),
             call' = [call EXCEPT ![r].held =
                       [t \in DOMAIN call[r].held \cup {s} |-> IF t = s THEN stock[s] ELSE call[r].held[t]]],
             UNCHANGED <<tables, taken, history>>
      PROVE  Queued'
  <2> DEFINE h == [t \in DOMAIN call[r].held \cup {s} |-> IF t = s THEN stock[s] ELSE call[r].held[t]]
             c == [call[r] EXCEPT !.held = h]
  <2>1. DOMAIN h = DOMAIN call[r].held \cup {s}
    OBVIOUS
  <2> HIDE DEF h
  <2>2. c.held = h /\ c.ask = call[r].ask /\ c.wants = call[r].wants /\ c.at = "lock"
    BY <1>1 DEF Shape
  <2>3. call' = [call EXCEPT ![r] = c]
    BY <1>3 DEF h
  <2> HIDE DEF c
  <2>4. Hands(c) = Hands(call[r]) \cup {StockRow(s)}
    BY <1>1, <2>1, <2>2 DEF Hands
  <2>5. \A row \in Rows : lock'[row] = lock[row] \/ (lock'[row] = r /\ row \in Hands(c))
    BY <1>3, <2>4 DEF ForUpdate, Take, IInv, Typed
  <2> QED BY <1>3, <2>3, <2>4, <2>5, QueuedGoes
<1> QED BY <1>2, <1>3 DEF LockStock

LEMMA IssueInvoiceQueued ==
  ASSUME IInv, Queued, NEW r \in Requests, IssueInvoice(r)
  PROVE  Queued'
<1> DEFINE o == call[r].ask.order
           c == [call[r] EXCEPT !.at = "charge"]
<1>1. CASE Refuse(r)
  BY <1>1, QueuedEnds DEF Refuse
<1>2. CASE Take(r, OrderRow(o)) /\ Go(r, "charge") /\ UNCHANGED <<tables, taken, history>>
  <2>1. call[r].at = "locked" /\ Shape(call[r])
    BY DEF IssueInvoice, At, IInv, Typed, CallOK
  <2>2. c.at = "charge" /\ c.held = call[r].held /\ c.ask = call[r].ask /\ call' = [call EXCEPT ![r] = c]
    BY <1>2, <2>1, AtFields DEF Go
  <2> HIDE DEF c
  <2>3. Hands(c) = Hands(call[r]) \cup {OrderRow(o)}
    BY <2>1, <2>2 DEF Hands
  <2>4. \A row \in Rows : lock'[row] = lock[row] \/ (lock'[row] = r /\ row \in Hands(c))
    BY <1>2, <2>3 DEF Take, IInv, Typed
  <2> QED BY <1>2, <2>2, <2>3, <2>4, QueuedGoes
<1> QED BY <1>1, <1>2 DEF IssueInvoice

LEMMA ChargeQueued ==
  ASSUME IInv, Queued, NEW r \in Requests, Charge(r)
  PROVE  Queued'
<1> DEFINE c == [call[r] EXCEPT !.at = "ship"]
<1>1. call[r].at = "charge" /\ Shape(call[r]) /\ lock' = lock
  BY DEF Charge, At, IInv, Typed, CallOK
<1>2. c.at = "ship" /\ c.held = call[r].held /\ c.ask = call[r].ask /\ call' = [call EXCEPT ![r] = c]
  BY <1>1, AtFields DEF Charge, Go
<1> HIDE DEF c
<1>3. Hands(c) = Hands(call[r])
  BY <1>1, <1>2 DEF Hands
<1> QED BY <1>1, <1>2, <1>3, QueuedGoes

LEMMA WriteLineQueued ==
  ASSUME IInv, Queued, NEW r \in Requests, WriteLine(r)
  PROVE  Queued'
<1> DEFINE row == LineRow(call[r].ask.order, call[r].ask.sku)
           edited == Edited(call[r], lines[call[r].ask.order])
           c == [call[r] EXCEPT !.wants = edited, !.at = "retotal"]
<1>1. CASE Refuse(r)
  BY <1>1, QueuedEnds DEF Refuse
<1>2. CASE ~Refuse(r)
  <2>1. /\ call[r].at = "line" /\ Take(r, row) /\ Shape(call[r])
        /\ call' = [call EXCEPT ![r] = c] /\ UNCHANGED <<tables, taken, history>>
    BY <1>2 DEF WriteLine, IInv, Typed, CallOK
  <2>2. c.at = "retotal" /\ c.ask = call[r].ask
    BY <2>1 DEF Shape
  <2> HIDE DEF c
  <2>3. Hands(call[r]) = {} /\ Hands(c) = {row}
    BY <2>1, <2>2 DEF Hands
  <2>4. \A x \in Rows : lock'[x] = lock[x] \/ (lock'[x] = r /\ x \in Hands(c))
    BY <2>1, <2>3 DEF Take, IInv, Typed
  <2> QED BY <2>1, <2>2, <2>3, <2>4, QueuedGoes
<1> QED BY <1>1, <1>2

LEMMA BeginQueued ==
  ASSUME IInv, Queued, NEW r \in Requests, Begin(r)
  PROVE  Queued'
<1>1. PICK a \in Asks : call' = [call EXCEPT ![r] = Call(a, Start(a.op))]
  BY DEF Begin
<1> DEFINE c == Call(a, Start(a.op))
<1>2. lock' = lock /\ Empty(call[r].at)
  BY DEF Begin, Empty, Idle, Call
<1> HIDE DEF c
<1>3. call' = [call EXCEPT ![r] = c]
  BY <1>1 DEF c
<1> QED BY <1>2, <1>3, QueuedStarts

LEMMA QueuedStep ==
  ASSUME IInv, Queued, [Next]_vars
  PROVE  Queued'
<1>1. CASE UNCHANGED vars
  <2>1. call' = call /\ lock' = lock
    BY <1>1 DEF vars
  <2> QED BY <2>1 DEF Queued, Hands
<1>2. ASSUME NEW r \in Requests, Begin(r) \/ Step(r) \/ Crash(r)
      PROVE  Queued'
  <2>1. CASE Begin(r)
    BY <2>1, BeginQueued
  <2>2. CASE Finish(r)
    BY <2>2, QueuedEnds
  <2>3. CASE (\E c : call' = [call EXCEPT ![r] = c]) /\ lock' = lock /\ Empty(call[r].at)
    BY <2>3, QueuedStarts
  <2>4. CASE GetOrder(r) \/ GetLines(r)
    BY <2>2, <2>3, <2>4 DEF GetOrder, GetLines, Refuse, Empty
  <2>5. CASE GetStock(r) \/ MakeStock(r) \/ ScanStock(r)
    BY <2>2, <2>3, <2>5 DEF GetStock, MakeStock, ScanStock, Refuse, Go, At, Empty
  <2>6. CASE LockStock(r) \/ IssueInvoice(r) \/ Charge(r) \/ WriteLine(r)
    BY <2>6, LockStockQueued, IssueInvoiceQueued, ChargeQueued, WriteLineQueued
  <2>7. Refuse(r) => Finish(r)
    BY DEF Refuse
  <2>8. CASE Crash(r) \/ WrongSubscription(r) \/ Reserve(r) \/ CancelOrder(r) \/ Decline(r) \/ Ship(r)
               \/ Retotal(r) \/ AttachInvoice(r)
    BY <2>2, <2>7, <2>8 DEF Crash, WrongSubscription, Reserve, CancelOrder, Write, Decline, Ship, Retotal,
       AttachInvoice
  <2>9. CASE MoveStock(r) \/ CountStock(r) \/ UpdateStock(r) \/ ReserveUnits(r) \/ RemoveStock(r)
    BY <2>2, <2>7, <2>9 DEF MoveStock, CountStock, UpdateStock, ReserveUnits, RemoveStock
  <2>10. CASE PlaceOrder(r) \/ FindLine(r) \/ RemoveOrder(r)
    BY <2>2, <2>3, <2>7, <2>10 DEF PlaceOrder, FindLine, RemoveOrder, Go, At, Empty
  <2> QED BY <1>2, <2>1, <2>4, <2>5, <2>6, <2>8, <2>9, <2>10 DEF Step, OrderStep, StockStep
<1> QED BY <1>1, <1>2 DEF Next

LEMMA DeskInvariant == Spec => [](DeskInv /\ Queued)
BY DeskInit, QueuedInit, InitEstablishes, DeskStep, QueuedStep, StepKeeps, PTL DEF Spec

(* For any number of requests, and any orders and baskets: while no two     *)
(* requests worked on the same thing, what a SKU holds is the sum of what   *)
(* the reserved orders ask of it (reserve, cancel_order and settle in       *)
(* orders_usecases.py), however their statements alternate.                 *)
THEOREM HeldForSomebody == Spec => []HeldIsPromised
<1>1. DeskInv => HeldIsPromised
  BY DEF DeskInv
<1> QED BY <1>1, DeskInvariant, PTL

(* On every SKU whose levels no form has set: what is reserved is on the    *)
(* shelf, whatever raced, for who writes a hold has locked the row and   *)
(* saw that there was enough; and while nothing raced, what the reserved    *)
(* orders ask together is on the shelf, for it is what is reserved (reserve *)
(* in orders_usecases.py).                                                  *)
THEOREM NothingOversold == Spec => []NoOversell
<1>1. IInv /\ DeskInv => NoOversell
  <2> SUFFICES ASSUME IInv, DeskInv, NEW s \in Skus \ byHand
               PROVE  stock[s].reserved <= OnShelf(s) /\ (~raced => Promised(s) <= OnShelf(s))
    BY DEF NoOversell
  <2>1. stock[s].reserved <= OnShelf(s)
    BY DEF IInv, HoldsFit, Within, OnShelf, NoStock
  <2>2. ~raced => stock[s].reserved = Promised(s)
    BY DEF DeskInv, HeldIsPromised
  <2> QED BY <2>1, <2>2
<1> QED BY <1>1, Invariant, DeskInvariant, PTL

(* In the same case the movements and corrections of a SKU add up to what   *)
(* is on its shelf (move_stock and the forms of inventory_usecases.py).     *)
THEOREM MovementsExplainTheShelf == Spec => []BookExplainsShelf
<1>1. DeskInv => BookExplainsShelf
  BY DEF DeskInv
<1> QED BY <1>1, DeskInvariant, PTL

(* Whatever raced, a settled order points at a paid invoice of its total,   *)
(* and its charge was taken (settle in orders_usecases.py).                 *)
THEOREM SettledOrdersArePaid == Spec => []SettledIsPaid
<1>1. DeskInv => SettledIsPaid
  <2>1. ASSUME DeskInv, NEW o \in OrderIds, order[o].state = "settled" PROVE Paid(o) /\ order[o].invoice # 0
    <3>1. Paid(o) /\ invoices \in Seq(Bill)
      BY <2>1 DEF DeskInv, AllPaid, Tables
    <3> QED BY <3>1 DEF Paid
  <2> QED BY <2>1 DEF SettledIsPaid, Paid
<1> QED BY <1>1, DeskInvariant, PTL

(***************************************************************************)
(* An order goes forward.                                                   *)
(***************************************************************************)
LEMMA OrderChanges ==
  ASSUME IInv, DeskInv, NEW r \in Requests, Begin(r) \/ Step(r) \/ Crash(r), NEW o \in OrderIds,
         order[o] # Absent, order'[o] # order[o]
  PROVE  /\ raced' = raced /\ o = call[r].ask.order
         /\ \/ call[r].ask.op = "reserve" /\ HasRead(call[r]) /\ order'[o].state = "reserved"
            \/ call[r].ask.op \in {"cancel_order", "settle", "attach_invoice"} /\ HasRead(call[r])
                 /\ order'[o].state \in {"cancelled", "invoiced", "settled"}
            \/ call[r].ask.op \in LineOps /\ HasRead(call[r]) /\ order'[o].state = call[r].row.state
            \/ order'[o].state = "absent"
<1>1. order \in [OrderIds -> Row]
  BY DEF DeskInv, Tables
<1>2. ASSUME NEW q, NEW row, order' = OrderUpdated(q, row) PROVE o = q /\ order'[o] = row
  BY <1>1, <1>2 DEF OrderUpdated
<1>3. ~Refuse(r) /\ ~(UNCHANGED tables)
  BY DEF Refuse, tables
<1>4. ~Begin(r) /\ ~Crash(r) /\ ~StockStep(r)
  BY <1>3 DEF Begin, Crash, StockStep, GetStock, MakeStock, MoveStock, CountStock, UpdateStock, ScanStock, ReserveUnits, RemoveStock
<1>5. OrderStep(r)
  BY <1>4 DEF Step
<1>6. CASE PlaceOrder(r)
  BY <1>1, <1>3, <1>6 DEF PlaceOrder
<1>7. CASE Reserve(r)
  <2>1. /\ call[r].ask.op = "reserve" /\ call[r].at = "locked" /\ raced' = raced
        /\ order' = OrderUpdated(call[r].ask.order, [call[r].row EXCEPT !.state = "reserved"])
    BY <1>3, <1>7 DEF Reserve, At, Write, history
  <2> QED BY <1>2, <2>1, CallFacts DEF HasRead, OrderOps, Row
<1>8. CASE CancelOrder(r)
  <2>1. /\ call[r].ask.op = "cancel_order" /\ call[r].at = "locked" /\ raced' = raced
        /\ order' = OrderUpdated(call[r].ask.order, [call[r].row EXCEPT !.state = "cancelled"])
    BY <1>3, <1>8 DEF CancelOrder, At, Write, history
  <2> QED BY <1>2, <2>1, CallFacts DEF HasRead, OrderOps, Row
<1>9. CASE Decline(r)
  <2>1. /\ call[r].ask.op = "settle" /\ call[r].at = "charge" /\ raced' = raced
        /\ order' = OrderUpdated(call[r].ask.order, Order("invoiced", call[r].row.total, Len(invoices) + 1))
    BY <1>3, <1>9 DEF Decline, At, Billed, history
  <2> QED BY <1>2, <2>1 DEF HasRead, OrderOps, Order
<1>10. CASE Ship(r)
  <2>1. /\ call[r].ask.op = "settle" /\ call[r].at = "ship" /\ raced' = raced
        /\ order' = OrderUpdated(call[r].ask.order, Order("settled", call[r].row.total, Len(invoices) + 1))
    BY <1>3, <1>10 DEF Ship, At, Billed, history
  <2> QED BY <1>2, <2>1 DEF HasRead, OrderOps, Order
<1>11. CASE Retotal(r)
  <2>1. /\ call[r].at = "retotal" /\ raced' = raced
        /\ order' = OrderUpdated(call[r].ask.order, [call[r].row EXCEPT !.total = Total(call[r].wants)])
    BY <1>11 DEF Retotal, history
  <2>2. call[r].ask.op \in LineOps
    BY <2>1, CallFacts DEF PlaceOK
  <2> QED BY <1>2, <2>1, <2>2, CallFacts DEF HasRead, Row
<1>12. CASE AttachInvoice(r)
  <2>1. /\ call[r].ask.op = "attach_invoice" /\ call[r].at = "write" /\ raced' = raced
        /\ \E i \in 1..Len(invoices) :
             order' = OrderUpdated(call[r].ask.order, Order("invoiced", call[r].row.total, i))
    BY <1>12 DEF AttachInvoice, At, history
  <2> QED BY <1>2, <2>1 DEF HasRead, OrderOps, Order
<1>13. CASE RemoveOrder(r)
  <2>1. order' = [order EXCEPT ![call[r].ask.order] = Absent] /\ raced' = raced
    BY <1>3, <1>13 DEF RemoveOrder, history
  <2> QED BY <1>1, <2>1 DEF Absent
<1> QED BY <1>3, <1>5, <1>6, <1>7, <1>8, <1>9, <1>10, <1>11, <1>12, <1>13
        DEF OrderStep, FindLine, GetOrder, WrongSubscription, GetLines, LockStock, IssueInvoice, Charge, WriteLine

LEMMA GoesForward ==
  ASSUME IInv, DeskInv, [Next]_vars, ~raced', NEW o \in OrderIds, order[o] # Absent, order'[o].state # order[o].state
  PROVE  Forward[order[o].state] < Forward[order'[o].state]
<1>1. PICK r \in Requests : Begin(r) \/ Step(r) \/ Crash(r)
  BY DEF Next, vars, tables
<1>2. /\ raced' = raced /\ o = call[r].ask.order
      /\ \/ call[r].ask.op = "reserve" /\ HasRead(call[r]) /\ order'[o].state = "reserved"
         \/ call[r].ask.op \in {"cancel_order", "settle", "attach_invoice"} /\ HasRead(call[r])
              /\ order'[o].state \in {"cancelled", "invoiced", "settled"}
         \/ call[r].ask.op \in LineOps /\ HasRead(call[r]) /\ order'[o].state = call[r].row.state
         \/ order'[o].state = "absent"
  BY <1>1, OrderChanges
<1>3. HasRead(call[r]) => call[r].row = order[o] /\ order[o].state \in From(call[r].ask.op)
  BY <1>2, CallFacts DEF ReadIn, StillIn
<1>4. order[o].state \in States \cup {"absent"}
  BY DEF DeskInv, Tables, Row
<1>5. CASE call[r].ask.op = "reserve" /\ HasRead(call[r]) /\ order'[o].state = "reserved"
  BY <1>3, <1>5 DEF From, Forward
<1>6. CASE /\ call[r].ask.op \in {"cancel_order", "settle", "attach_invoice"} /\ HasRead(call[r])
           /\ order'[o].state \in {"cancelled", "invoiced", "settled"}
  <2>1. order[o].state \in {"draft", "reserved"}
    BY <1>3, <1>6 DEF From, OpenStates
  <2> QED BY <1>6, <2>1 DEF Forward
<1>7. CASE call[r].ask.op \in LineOps /\ HasRead(call[r]) /\ order'[o].state = call[r].row.state
  BY <1>3, <1>7
<1>8. CASE order'[o].state = "absent"
  BY <1>4, <1>8 DEF Forward, States
<1> QED BY <1>2, <1>5, <1>6, <1>7, <1>8

(* While no two requests worked on the same order, it goes forward, and     *)
(* never leaves a closed state but by being removed: what each use case     *)
(* checked of the state still holds when it writes (From).                  *)
THEOREM OrdersGoForward == Spec => StatesGoForward
<1>1. IInv /\ DeskInv /\ [Next]_vars =>
        [~raced' => \A o \in OrderIds :
            order[o] # Absent /\ order'[o].state # order[o].state =>
              Forward[order[o].state] < Forward[order'[o].state]]_vars
  BY GoesForward
<1> QED BY <1>1, Invariant, DeskInvariant, PTL DEF Spec, StatesGoForward

(***************************************************************************)
(* Nobody waits in a circle.                                                *)
(***************************************************************************)
LEMMA GreatestOf ==
  ASSUME NEW T \in SUBSET Skus, T # {}
  PROVE  \E n \in T : \A m \in T : m <= n
<1> DEFINE Upto(n) == {m \in T : n < m}
           R == StrictSubsetOrdering(Skus)
           C == {Upto(n) : n \in T}
<1>1. ASSUME NEW n \in T PROVE Upto(n) \in FiniteSubsetsOf(Skus)
  <2>1. Upto(n) \subseteq Skus
    OBVIOUS
  <2> HIDE DEF Upto
  <2> QED BY <2>1, SkusAssumption, FS_Subset DEF FiniteSubsetsOf
<1>2. C \subseteq FiniteSubsetsOf(Skus) /\ C # {}
  <2> HIDE DEF Upto
  <2> QED BY <1>1
<1>3. IsWellFoundedOn(R, FiniteSubsetsOf(Skus))
  BY FS_StrictSubsetOrderingWellFounded
<1> HIDE DEF R
<1>4. \E x \in C : \A y \in C : ~(<<y, x>> \in R)
  BY <1>2, <1>3, WFMin
<1>5. PICK n \in T : \A y \in C : ~(<<y, Upto(n)>> \in R)
  BY <1>4
<1>6. ASSUME NEW m \in T, ~(m <= n) PROVE FALSE
  <2>0. T \subseteq Nat
    BY SkusAssumption
  <2>1. m \in Nat /\ n \in Nat /\ n < m
    BY <1>6, <2>0
  <2>2. Upto(m) \subseteq Upto(n) /\ m \in Upto(n) /\ m \notin Upto(m)
    <3>1. m \in T /\ n \in T
      OBVIOUS
    <3>2. \A x \in T : x \in Nat /\ (m < x => n < x)
      BY <2>0, <2>1
    <3>3. ~(m < m)
      BY <2>1
    <3> QED BY <2>1, <3>1, <3>2, <3>3
  <2>3. <<Upto(m), Upto(n)>> \in R
    BY <2>2 DEF StrictSubsetOrdering, R
  <2> QED BY <1>5, <2>3
<1> QED BY <1>6

LEMMA RowsApart ==
  ASSUME NEW o, NEW p, NEW s, NEW t
  PROVE  /\ StockRow(s) # OrderRow(o) /\ StockRow(s) # LineRow(o, t) /\ OrderRow(o) # LineRow(p, t)
         /\ (StockRow(s) = StockRow(t) => s = t)
BY DEF StockRow, OrderRow, LineRow

LEMMA AwaitsRows ==
  ASSUME NEW r, CallOK(call[r]), PlaceOK(call[r]), call[r].ask.op # "reserve_units"
  PROVE  Awaits(r) \subseteq Rows
<1> DEFINE c == call[r]
<1>1. /\ \A s \in Skus : StockRow(s) \in Rows
      /\ \A o \in OrderIds : OrderRow(o) \in Rows /\ \A s \in Skus : LineRow(o, s) \in Rows
  BY DEF Rows
<1>2. /\ c.ask.op \in OrderOps \cup LineOps \cup {"place_order"} => c.ask.order \in OrderIds
      /\ c.ask.op \in LineOps \cup StockOps => c.ask.sku \in Skus
      /\ ToLock(c) \subseteq Skus
  BY DEF CallOK, AskOK, Basket, ToLock
<1>3. /\ c.at = "line" \/ c.at = "retotal" => c.ask.op \in LineOps
      /\ c.at \in {"insert", "locked"} => c.ask.op \in OrderOps \cup {"place_order"}
      /\ c.at = "write" => c.ask.op \in {"attach_invoice", "remove_order"} \cup StockOps
      /\ c.at = "make" => c.ask.op \in StockOps
  BY DEF PlaceOK, Lockers, Locking, OrderOps, StockOps
<1>4. c.at = "write" => AtWrite(c.ask) \subseteq Rows
  BY <1>1, <1>2, <1>3 DEF AtWrite, OrderOps
<1> QED BY <1>1, <1>2, <1>3, <1>4 DEF Awaits

(* Of requests that all wait for each other, each waits for a row of the    *)
(* stock: who has an order's row waits for nothing, and who has a line's    *)
(* waits for the order's.                                                   *)
LEMMA WaitsInTheStock ==
  ASSUME IInv, Queued, NEW Q \in SUBSET {r \in Requests : call[r].ask.op # "reserve_units"},
         \A r \in Q : \E q \in Q : WaitsFor(r, q), NEW r \in Q
  PROVE  \E q \in Q : \E s \in DOMAIN call[q].held :
           StockRow(s) \in Awaits(r) /\ lock[StockRow(s)] = q /\ call[q].at = "lock"
<1>1. ASSUME NEW p \in Q PROVE p \in Requests /\ p # Nobody /\ call[p].ask.op # "reserve_units" /\ CallOK(call[p])
  BY RequestsAssumption DEF Nobody, IInv, Typed
<1>2. ASSUME NEW p \in Q, NEW row \in Awaits(p) PROVE row \in Rows
  <2>1. CallOK(call[p]) /\ PlaceOK(call[p]) /\ call[p].ask.op # "reserve_units"
    BY <1>1 DEF IInv, Placed
  <2> QED BY <1>2, <2>1, AwaitsRows
<1>3. ASSUME NEW p \in Q
      PROVE  \E q \in Q, row \in Awaits(p) : row \in Rows /\ lock[row] = q /\ row \in Hands(call[q])
  <2>1. PICK q \in Q, row \in Awaits(p) : lock[row] = q
    BY DEF WaitsFor
  <2> QED BY <1>1, <1>2, <2>1 DEF Queued
<1>4. ASSUME NEW p \in Q PROVE call[p].at \notin {"charge", "ship"}
  <2>1. call[p].at \in {"charge", "ship"} => Awaits(p) = {}
    BY DEF Awaits
  <2> QED BY <1>3, <2>1
<1>5. ASSUME NEW q \in Q, NEW row \in Hands(call[q])
      PROVE  \/ \E s \in DOMAIN call[q].held : row = StockRow(s) /\ call[q].at \in {"lock", "locked"}
             \/ row = LineRow(call[q].ask.order, call[q].ask.sku) /\ call[q].at = "retotal"
  BY <1>4, <1>5 DEF Hands
<1>6. ASSUME NEW p \in Q PROVE \A o : Awaits(p) # {OrderRow(o)}
  <2> SUFFICES ASSUME NEW o, Awaits(p) = {OrderRow(o)} PROVE FALSE
    OBVIOUS
  <2>1. PICK q \in Q : OrderRow(o) \in Hands(call[q])
    BY <1>3
  <2> DEFINE row == OrderRow(o)
  <2>2. \A s : row # StockRow(s)
    BY RowsApart
  <2>3. row # LineRow(call[q].ask.order, call[q].ask.sku)
    BY DEF OrderRow, LineRow
  <2>4. row \in Hands(call[q])
    BY <2>1
  <2> HIDE DEF row
  <2> QED BY <1>5, <2>2, <2>3, <2>4
<1>7. ASSUME NEW p \in Q PROVE call[p].at \notin {"retotal", "locked", "insert"}
  <2>1. call[p].at \in {"retotal", "locked", "insert"} => Awaits(p) = {OrderRow(call[p].ask.order)}
    BY <1>1 DEF Awaits
  <2> QED BY <1>6, <2>1
<1>8. PICK q \in Q, row \in Awaits(r) : lock[row] = q /\ row \in Hands(call[q])
  BY <1>3
<1>9. PICK s \in DOMAIN call[q].held : row = StockRow(s) /\ call[q].at = "lock"
  BY <1>5, <1>7, <1>8
<1> QED BY <1>8, <1>9

(* Of requests that wait for each other in a circle, take the one that      *)
(* holds the greatest row of the stock: the row it waits for is greater.    *)
LEMMA NobodyInACircle ==
  ASSUME IInv, Queued
  PROVE  NoDeadlock
<1> DEFINE sorted == {r \in Requests : call[r].ask.op # "reserve_units"}
<1>1. NoCircle(sorted)
  <2> SUFFICES ASSUME NEW Q \in SUBSET sorted, Q # {}, \A r \in Q : \E q \in Q : WaitsFor(r, q)
               PROVE  FALSE
    BY DEF NoCircle
  <2>1. ASSUME NEW r \in Q
        PROVE  \E q \in Q : \E s \in DOMAIN call[q].held :
                 StockRow(s) \in Awaits(r) /\ lock[StockRow(s)] = q /\ call[q].at = "lock"
    BY WaitsInTheStock
  <2> DEFINE Holds(q, s) == s \in DOMAIN call[q].held /\ lock[StockRow(s)] = q /\ call[q].at = "lock"
             T == {s \in Skus : \E q \in Q : Holds(q, s)}
  <2>2. ASSUME NEW q \in Q PROVE DOMAIN call[q].held \subseteq Skus /\ call[q].ask.op # "reserve_units"
    BY DEF IInv, Typed, CallOK, Levels
  <2>3. T # {}
    BY <2>1, <2>2
  <2>4. PICK m \in T : \A t \in T : t <= m
    BY <2>3, GreatestOf
  <2>5. PICK q \in Q : Holds(q, m)
    OBVIOUS
  <2>10. PICK p \in Q : \E t \in DOMAIN call[p].held :
           StockRow(t) \in Awaits(q) /\ lock[StockRow(t)] = p /\ call[p].at = "lock"
    BY <2>1
  <2>6. PICK t \in DOMAIN call[p].held :
          StockRow(t) \in Awaits(q) /\ lock[StockRow(t)] = p /\ call[p].at = "lock"
    BY <2>10
  <2>7. t \in T /\ t <= m
    BY <2>2, <2>4, <2>6
  <2>8. t \in ToLock(call[q])
    <3>1. Awaits(q) = {StockRow(s) : s \in {t1 \in ToLock(call[q]) : NextToLock(call[q], t1)}}
      BY <2>5 DEF Awaits
    <3>2. PICK s \in ToLock(call[q]) : StockRow(t) = StockRow(s)
      BY <2>6, <3>1
    <3>3. t = s
      BY <3>2, RowsApart
    <3> QED BY <3>3
  <2>9. m < t
    BY <2>2, <2>5, <2>8 DEF ToLock, Before
  <2> QED BY <2>7, <2>9, SkusAssumption
<1>2. ASSUME NEW row \in Rows, lock[row] # Nobody PROVE Working(lock[row])
  <2>1. lock[row] \in Requests /\ row \in Hands(call[lock[row]])
    BY <1>2 DEF IInv, Typed, Queued
  <2>2. ASSUME NEW q \in Requests, call[q].at = "idle" PROVE Hands(call[q]) = {}
    BY <2>2 DEF Hands, IInv, Placed
  <2> QED BY <2>1, <2>2 DEF Working
<1> QED BY <1>1, <1>2 DEF NoDeadlock

(* No requests wait for each other in a circle, however many they are: the  *)
(* rows of the stock are locked by SKU, the order's row after them, and a   *)
(* line's before its order's (lock_stock, stock_to_take_from). And a lock   *)
(* is never left with a request that has ended.                             *)
THEOREM NobodyWaitsInACircle == Spec => []NoDeadlock
BY NobodyInACircle, Invariant, DeskInvariant, PTL
=============================================================================
