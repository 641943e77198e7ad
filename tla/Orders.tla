-------------------------------- MODULE Orders --------------------------------
(***************************************************************************)
(* The order desk of the demo applications: the use cases of              *)
(* src/frameworks/shared/usecases/orders_usecases.py and of its stock      *)
(* (inventory_usecases.py), run by several requests over one database at   *)
(* READ COMMITTED. The asynchronous twins in src/frameworks/shared/aio     *)
(* issue the same statements in the same order.                            *)
(*                                                                         *)
(* An action is one statement. A write on a row the request has locked, up *)
(* to the commit, is one action with the commit: nobody can see it before. *)
(* A price is one, so a total is a number of units.                        *)
(***************************************************************************)
EXTENDS Integers, Sequences, FiniteSets, FiniteSetsExt

CONSTANTS
  Requests,   \* the requests the server works on at the same time
  OrderIds,   \* the orders, by reference
  Skus,       \* the SKUs of the one warehouse; numbers, because rows are locked in their order
  Units,      \* bound: the quantities a form may carry
  Baskets,    \* bound: the lines an order may be placed with
  OnHand,     \* bound: what is on every shelf to begin with
  Ops,        \* the use cases that are called
  MaxCalls    \* bound: calls in a behaviour

ASSUME RequestsAssumption == "nobody" \notin Requests
ASSUME OrdersAssumption == "no order" \notin OrderIds /\ IsFiniteSet(OrderIds)
ASSUME SkusAssumption == Skus \subseteq Nat /\ IsFiniteSet(Skus)
ASSUME UnitsAssumption == Units \subseteq Nat \ {0} /\ OnHand \in Nat /\ MaxCalls \in Nat
ASSUME BasketsAssumption == Baskets \subseteq UNION {[S -> Units] : S \in SUBSET Skus}

VARIABLES
  order,     \* the orders table, committed
  lines,     \* the order_lines table: the units of each SKU, by order
  stock,     \* the warehouse_stock table
  invoices,  \* the invoices, in the order they were issued, with their payments
  lock,      \* who holds each row until the end of its transaction
  call,      \* what each request is doing, and what it has read
  taken,     \* the charges the payment processor accepted, by order
  book,      \* what the corrections and movements of a SKU say is on hand
  moved,     \* the SKUs with a stock movement
  byHand,    \* the SKUs whose levels an inventory form has set, shipped, bulk reserved or reset
  raced,     \* two requests have worked on the same thing, or a held order was edited
  calls      \* calls made so far

tables == <<order, lines, stock, invoices, book, moved>>
history == <<byHand, raced, calls>>
vars == <<tables, lock, call, taken, history>>

-----------------------------------------------------------------------------
(* Rows and their values.                                                   *)

States == {"draft", "reserved", "invoiced", "settled", "cancelled"}
OpenStates == {"draft", "reserved"}
NoOrder == "no order"
NoSku == 0 - 1
Absent == [state |-> "absent", total |-> 0, invoice |-> 0]
Order(state, total, invoice) == [state |-> state, total |-> total, invoice |-> invoice]
NoStock == [on_hand |-> 0 - 1, reserved |-> 0]
Stock(on_hand, reserved) == [on_hand |-> on_hand, reserved |-> reserved]
Invoice(amount, paid) == [amount |-> amount, paid |-> paid]

StockRow(s) == <<"stock", s>>
OrderRow(o) == <<"order", o>>
LineRow(o, s) == <<"line", o, s>>
Rows == {StockRow(s) : s \in Skus} \cup {OrderRow(o) : o \in OrderIds}
          \cup {LineRow(o, s) : o \in OrderIds, s \in Skus}
Nobody == "nobody"

Total(basket) == MapThenSumSet(LAMBDA s : basket[s], DOMAIN basket)
Wanted(o, s) == IF s \in DOMAIN lines[o] THEN lines[o][s] ELSE 0
Promised(s) == MapThenSumSet(LAMBDA o : Wanted(o, s), {o \in OrderIds : order[o].state = "reserved"})

(* An UPDATE writes every column but the key, and none if the row is gone.  *)
OrderUpdated(o, row) == IF order[o] = Absent THEN order ELSE [order EXCEPT ![o] = row]
StockUpdated(new) ==
  [s \in Skus |-> IF s \in DOMAIN new /\ stock[s] # NoStock THEN new[s] ELSE stock[s]]
(* The CHECK constraints of the table.                                      *)
Accepted(new) == \A s \in DOMAIN new : new[s].on_hand >= 0 /\ new[s].reserved >= 0

-----------------------------------------------------------------------------
(* Requests.                                                                *)

OrderOps == {"cancel_order", "reserve", "settle", "attach_invoice", "remove_order"}
LineOps == {"set_line", "remove_line"}
StockForms == {"ship", "count_stock", "update_stock", "reserve_units", "remove_stock"}
StockOps == StockForms \cup {"receive"}

Ask(op, o, s, n) == [op |-> op, order |-> o, sku |-> s, units |-> n]
Asks ==
  {a \in {Ask(op, o, NoSku, 0) : op \in OrderOps \cup {"place_order"}, o \in OrderIds}
         \cup {Ask("set_line", o, s, n) : o \in OrderIds, s \in Skus, n \in Units}
         \cup {Ask("remove_line", o, s, 0) : o \in OrderIds, s \in Skus}
         \cup {Ask("remove_stock", NoOrder, s, 0) : s \in Skus}
         \cup {Ask(op, NoOrder, s, n) : op \in StockOps \ {"remove_stock"}, s \in Skus, n \in Units}
    : a.op \in Ops}

Call(ask, at) == [ask |-> ask, at |-> at, row |-> Absent, wants |-> <<>>, held |-> <<>>]
Idle == Call(Ask("none", NoOrder, NoSku, 0), "idle")
Working(r) == call[r].at # "idle"

Start(op) ==
  CASE op = "place_order" -> "reference"
    [] op = "remove_line" -> "find"
    [] op \in {"receive", "ship", "update_stock", "remove_stock"} -> "stock"
    [] op = "count_stock" -> "write"
    [] op = "reserve_units" -> "scan"
    [] OTHER -> "order"

Clash(a, b) ==
  \/ a.order # NoOrder /\ a.order = b.order
  \/ a.op \in StockOps \/ b.op \in StockOps

SetByHand(a) ==
  CASE a.op = "reserve_units" -> Skus
    [] a.op \in StockForms \ {"reserve_units"} -> {a.sku}
    [] OTHER -> {}

Begin(r) ==
  /\ call[r] = Idle /\ calls < MaxCalls
  /\ \E a \in Asks :
       /\ call' = [call EXCEPT ![r] = Call(a, Start(a.op))]
       /\ raced' = (raced \/ \E q \in Requests \ {r} : Working(q) /\ Clash(a, call[q].ask))
       /\ byHand' = byHand \cup SetByHand(a)
  /\ calls' = calls + 1
  /\ UNCHANGED <<tables, lock, taken>>

At(r, op, at) == call[r].at = at /\ call[r].ask.op \in op
Go(r, at) == call' = [call EXCEPT ![r].at = at]
Free(r, row) == lock[row] \in {r, Nobody}
Take(r, row) == Free(r, row) /\ lock' = [lock EXCEPT ![row] = r]

(* The end of a transaction, and of the request with it.                    *)
Finish(r) ==
  /\ call' = [call EXCEPT ![r] = Idle]
  /\ lock' = [row \in Rows |-> IF lock[row] = r THEN Nobody ELSE lock[row]]
Refuse(r) == Finish(r) /\ UNCHANGED <<tables, taken, history>>
(* The connection is lost, or the process dies.                             *)
Crash(r) == Working(r) /\ Refuse(r)

-----------------------------------------------------------------------------
(* Orders.                                                                  *)

PlaceOrder(r) ==
  LET o == call[r].ask.order IN
  \/ /\ At(r, {"place_order"}, "reference")
     /\ \/ order[o] # Absent /\ Refuse(r)
        \/ order[o] = Absent /\ Go(r, "insert") /\ UNCHANGED <<tables, lock, taken, history>>
  \/ /\ At(r, {"place_order"}, "insert") /\ Free(r, OrderRow(o))
     /\ \/ order[o] # Absent /\ Refuse(r)
        \/ /\ order[o] = Absent /\ Finish(r)
           /\ \E basket \in Baskets :
                /\ order' = [order EXCEPT ![o] = Order("draft", Total(basket), 0)]
                /\ lines' = [lines EXCEPT ![o] = basket]
           /\ UNCHANGED <<stock, invoices, book, moved, taken, history>>

FindLine(r) ==
  LET a == call[r].ask IN
  /\ At(r, {"remove_line"}, "find")
  /\ \/ a.sku \notin DOMAIN lines[a.order] /\ Refuse(r)
     \/ /\ a.sku \in DOMAIN lines[a.order] /\ Go(r, "order")
        /\ UNCHANGED <<tables, lock, taken, history>>

(* Mutant: the lines of any order can be edited.                            *)
EditsAnything(op) ==
  CASE op = "reserve" -> {"draft"}
    [] op = "settle" -> {"reserved"}
    [] op \in LineOps \cup {"remove_order"} -> States
    [] OTHER -> OpenStates

(* The states each use case accepts, and the statement it goes on with.     *)
From(op) ==
  CASE op = "reserve" -> {"draft"}
    [] op = "settle" -> {"reserved"}
    [] op = "remove_order" -> States
    [] OTHER -> OpenStates
After(op, state) ==
  CASE op \in {"reserve", "settle"} -> "lines"
    [] op = "cancel_order" -> IF state = "reserved" THEN "lines" ELSE "locked"
    [] op \in LineOps -> "line"
    [] op = "remove_order" -> "count"
    [] OTHER -> "write"

GetOrder(r) ==
  LET c == call[r]  row == order[c.ask.order] IN
  /\ c.at = "order"
  /\ \/ row.state \notin From(c.ask.op) /\ Refuse(r)
     \/ /\ row.state \in From(c.ask.op)
        /\ call' = [call EXCEPT ![r].row = row, ![r].at = After(c.ask.op, row.state)]
        /\ raced' = (raced \/ (row.state = "reserved" /\ c.ask.op \in LineOps \cup {"attach_invoice"}))
        /\ UNCHANGED <<tables, lock, taken, byHand, calls>>

(* settle() looks for the subscription before the lines.                    *)
WrongSubscription(r) == At(r, {"settle"}, "lines") /\ Refuse(r)

GetLines(r) ==
  LET found == lines[call[r].ask.order] IN
  /\ call[r].at = "lines"
  /\ \/ call[r].ask.op = "reserve" /\ found = <<>> /\ Refuse(r)
     \/ /\ call[r].ask.op = "reserve" => found # <<>>
        /\ call' = [call EXCEPT ![r].wants = found, ![r].at = "lock"]
        /\ UNCHANGED <<tables, lock, taken, history>>

(* Mutant: the rows are read without a lock.                                *)
PlainSelect(r, row) == UNCHANGED lock

ForUpdate(r, row) == Take(r, row)

(* Mutant: the rows come in no order.                                       *)
InAnyOrder(c, s, t) == TRUE

(* SELECT ... ORDER BY sku_id FOR UPDATE. A bulk UPDATE may carry no ORDER  *)
(* BY, and takes its rows as the engine finds them.                         *)
Before(c, s, t) == s < t \/ c.ask.op = "reserve_units"

(* One row after another, each as it is once the lock is there. A pair with *)
(* no row is not in the answer, nor is one whose row comes after its turn.  *)
ToLock(c) ==
  {s \in DOMAIN c.wants \ DOMAIN c.held : stock[s] # NoStock /\ \A t \in DOMAIN c.held : Before(c, t, s)}
NextToLock(c, s) == \A t \in ToLock(c) \ {s} : Before(c, s, t)
LockStock(r) ==
  LET c == call[r] IN
  /\ c.at = "lock"
  /\ \/ /\ ToLock(c) = {} /\ Go(r, "locked") /\ UNCHANGED <<tables, lock, taken, history>>
     \/ \E s \in ToLock(c) :
          /\ NextToLock(c, s) /\ ForUpdate(r, StockRow(s))
          /\ call' = [call EXCEPT ![r].held =
                        [t \in DOMAIN c.held \cup {s} |-> IF t = s THEN stock[s] ELSE c.held[t]]]
          /\ UNCHANGED <<tables, taken, history>>

HoldUnits(c) == [s \in DOMAIN c.held |-> Stock(c.held[s].on_hand, c.held[s].reserved + c.wants[s])]

ReleaseUnits(c) == [s \in DOMAIN c.held |-> Stock(c.held[s].on_hand, c.held[s].reserved - c.wants[s])]

(* Mutant: the half shipment, one column and not the other.                 *)
ShipsThePromise(c) ==
  [s \in DOMAIN c.held |-> Stock(c.held[s].on_hand, c.held[s].reserved - c.wants[s])]

ShipHeld(c) ==
  [s \in DOMAIN c.held |-> Stock(c.held[s].on_hand - c.wants[s], c.held[s].reserved - c.wants[s])]
(* Mutant: what is already promised is not counted.                         *)
EnoughOnTheShelf(c) ==
  \A s \in DOMAIN c.wants : s \in DOMAIN c.held /\ c.wants[s] <= c.held[s].on_hand

Enough(c) ==
  \A s \in DOMAIN c.wants :
    s \in DOMAIN c.held /\ c.wants[s] <= c.held[s].on_hand - c.held[s].reserved

(* UPDATE warehouse_stock, UPDATE orders and COMMIT, on rows already locked *)
(* but for the order's.                                                     *)
Write(r, levels, state) ==
  LET c == call[r] IN
  /\ Free(r, OrderRow(c.ask.order))
  /\ stock' = StockUpdated(levels)
  /\ order' = OrderUpdated(c.ask.order, [c.row EXCEPT !.state = state])
  /\ Finish(r)

Reserve(r) ==
  /\ At(r, {"reserve"}, "locked")
  /\ \/ ~Enough(call[r]) /\ Refuse(r)
     \/ /\ Enough(call[r]) /\ Write(r, HoldUnits(call[r]), "reserved")
        /\ UNCHANGED <<lines, invoices, book, moved, taken, history>>

CancelOrder(r) ==
  /\ At(r, {"cancel_order"}, "locked")
  /\ \/ ~Accepted(ReleaseUnits(call[r])) /\ Refuse(r)
     \/ /\ Accepted(ReleaseUnits(call[r])) /\ Write(r, ReleaseUnits(call[r]), "cancelled")
        /\ UNCHANGED <<lines, invoices, book, moved, taken, history>>

(* settle(): the invoice is issued and the order points at it, uncommitted. *)
IssueInvoice(r) ==
  LET c == call[r] IN
  /\ At(r, {"settle"}, "locked")
  /\ \/ DOMAIN c.wants # DOMAIN c.held /\ Refuse(r)
     \/ /\ DOMAIN c.wants = DOMAIN c.held /\ Take(r, OrderRow(c.ask.order))
        /\ Go(r, "charge") /\ UNCHANGED <<tables, taken, history>>

(* What is committed of the invoice, at its number.                         *)
Billed(c, state, paid) ==
  /\ invoices' = Append(invoices, Invoice(c.row.total, paid))
  /\ order' = OrderUpdated(c.ask.order, Order(state, c.row.total, Len(invoices) + 1))

Charge(r) ==
  LET c == call[r] IN
  /\ At(r, {"settle"}, "charge")
  /\ taken' = [taken EXCEPT ![c.ask.order] = @ + 1]
  /\ Go(r, "ship") /\ UNCHANGED <<tables, lock, history>>

(* PaymentDeclined: the savepoint took the payment back; the hold is       *)
(* released and the invoice stands.                                         *)
Decline(r) ==
  LET c == call[r] IN
  /\ At(r, {"settle"}, "charge")
  /\ \/ ~Accepted(ReleaseUnits(c)) /\ Refuse(r)
     \/ /\ Accepted(ReleaseUnits(c)) /\ Billed(c, "invoiced", FALSE)
        /\ stock' = StockUpdated(ReleaseUnits(c))
        /\ Finish(r) /\ UNCHANGED <<lines, book, moved, taken, history>>

Ship(r) ==
  LET c == call[r] IN
  /\ At(r, {"settle"}, "ship")
  /\ \/ ~Accepted(ShipHeld(c)) /\ Refuse(r)
     \/ /\ Accepted(ShipHeld(c)) /\ Billed(c, "settled", TRUE)
        /\ stock' = StockUpdated(ShipHeld(c))
        /\ book' = [s \in Skus |-> IF s \in DOMAIN c.wants THEN book[s] - c.wants[s] ELSE book[s]]
        /\ moved' = moved \cup DOMAIN c.wants
        /\ Finish(r) /\ UNCHANGED <<lines, taken, history>>

(* set_line() upserts the line and remove_line() deletes it; then the total *)
(* is derived again from the lines this transaction sees.                   *)
Edited(c, basket) ==
  LET kept == IF c.ask.op = "set_line" THEN DOMAIN basket \cup {c.ask.sku} ELSE DOMAIN basket \ {c.ask.sku}
  IN [s \in kept |-> IF s = c.ask.sku THEN c.ask.units ELSE basket[s]]
WriteLine(r) ==
  LET c == call[r]  o == c.ask.order IN
  /\ c.at = "line" /\ Free(r, LineRow(o, c.ask.sku))
  /\ \/ order[o] = Absent /\ c.ask.op = "set_line" /\ Refuse(r)
     \/ /\ order[o] # Absent \/ c.ask.op = "remove_line"
        /\ Take(r, LineRow(o, c.ask.sku))
        /\ call' = [call EXCEPT ![r].wants = Edited(c, lines[o]), ![r].at = "retotal"]
        /\ UNCHANGED <<tables, taken, history>>
Retotal(r) ==
  LET c == call[r]  o == c.ask.order IN
  /\ c.at = "retotal" /\ Free(r, OrderRow(o))
  /\ lines' = [lines EXCEPT ![o] = Edited(c, lines[o])]
  /\ order' = OrderUpdated(o, [c.row EXCEPT !.total = Total(c.wants)])
  /\ Finish(r) /\ UNCHANGED <<stock, invoices, book, moved, taken, history>>

AttachInvoice(r) ==
  LET c == call[r] IN
  /\ At(r, {"attach_invoice"}, "write") /\ Free(r, OrderRow(c.ask.order))
  /\ \E i \in 1..Len(invoices) :
       order' = OrderUpdated(c.ask.order, Order("invoiced", c.row.total, i))
  /\ Finish(r) /\ UNCHANGED <<lines, stock, invoices, book, moved, taken, history>>

(* The engine refuses to delete an order a line points at, and waits for    *)
(* the transactions that are writing one.                                   *)
RemoveOrder(r) ==
  LET o == call[r].ask.order IN
  \/ /\ At(r, {"remove_order"}, "count")
     /\ \/ lines[o] # <<>> /\ Refuse(r)
        \/ lines[o] = <<>> /\ Go(r, "write") /\ UNCHANGED <<tables, lock, taken, history>>
  \/ /\ At(r, {"remove_order"}, "write")
     /\ Free(r, OrderRow(o)) /\ \A s \in Skus : Free(r, LineRow(o, s))
     /\ \/ lines[o] # <<>> /\ Refuse(r)
        \/ /\ lines[o] = <<>> /\ order' = [order EXCEPT ![o] = Absent]
           /\ Finish(r) /\ UNCHANGED <<lines, stock, invoices, book, moved, taken, history>>

-----------------------------------------------------------------------------
(* The stock, as the inventory forms write it. None of them locks what it   *)
(* reads.                                                                   *)

GetStock(r) ==
  LET c == call[r]  s == c.ask.sku  row == stock[c.ask.sku]  makes == c.ask.op = "receive" /\ c.at = "stock" IN
  /\ c.at \in {"stock", "again"}
  /\ \/ /\ \/ row = NoStock /\ ~makes
           \/ c.ask.op = "ship" /\ row.on_hand < c.ask.units
           \/ c.ask.op = "remove_stock" /\ s \in moved
        /\ Refuse(r)
     \/ row = NoStock /\ makes /\ Go(r, "make") /\ UNCHANGED <<tables, lock, taken, history>>
     \/ /\ row # NoStock
        /\ c.ask.op = "ship" => row.on_hand >= c.ask.units
        /\ c.ask.op = "remove_stock" => s \notin moved
        /\ call' = [call EXCEPT ![r].held = [t \in {s} |-> row], ![r].at = "write"]
        /\ UNCHANGED <<tables, lock, taken, history>>

(* receive() found no row: it upserts on_hand = 0 and commits, and then     *)
(* reads again, with an assertion that the row is there. Whoever made and   *)
(* filled the row meanwhile has its units set to 0, under what is reserved. *)
MakeStock(r) ==
  LET s == call[r].ask.sku  made == stock[s] = NoStock IN
  /\ At(r, {"receive"}, "make") /\ Free(r, StockRow(s))
  /\ stock' = [stock EXCEPT ![s] = Stock(0, @.reserved)]
  /\ book' = IF made THEN [book EXCEPT ![s] = 0] ELSE book
  /\ byHand' = IF made THEN byHand ELSE byHand \cup {s}
  /\ Go(r, "again") /\ UNCHANGED <<order, lines, invoices, moved, lock, taken, raced, calls>>

(* move_stock(): the row and its movement, whose foreign key needs the row. *)
MoveStock(r) ==
  LET c == call[r]  s == c.ask.sku
      delta == IF c.ask.op = "ship" THEN 0 - c.ask.units ELSE c.ask.units
      new == [t \in {s} |-> Stock(c.held[t].on_hand + delta, c.held[t].reserved)] IN
  /\ At(r, {"receive", "ship"}, "write") /\ Free(r, StockRow(s))
  /\ \/ (stock[s] = NoStock \/ ~Accepted(new)) /\ Refuse(r)
     \/ /\ stock[s] # NoStock /\ Accepted(new)
        /\ stock' = StockUpdated(new)
        /\ book' = [book EXCEPT ![s] = @ + delta] /\ moved' = moved \cup {s}
        /\ Finish(r) /\ UNCHANGED <<order, lines, invoices, taken, history>>

(* Corrections: they write no movement, so the book starts again from them. *)
CountStock(r) ==
  LET c == call[r]  s == c.ask.sku IN
  /\ At(r, {"count_stock"}, "write") /\ Free(r, StockRow(s))
  /\ stock' = [stock EXCEPT ![s] = Stock(c.ask.units, @.reserved)]
  /\ book' = [book EXCEPT ![s] = c.ask.units]
  /\ Finish(r) /\ UNCHANGED <<order, lines, invoices, moved, taken, history>>
UpdateStock(r) ==
  LET c == call[r]  s == c.ask.sku IN
  /\ At(r, {"update_stock"}, "write") /\ Free(r, StockRow(s))
  /\ \E reserved \in {0} \cup Units :
       stock' = StockUpdated([t \in {s} |-> Stock(c.ask.units, reserved)])
  /\ book' = IF stock[s] = NoStock THEN book ELSE [book EXCEPT ![s] = c.ask.units]
  /\ Finish(r) /\ UNCHANGED <<order, lines, invoices, moved, taken, history>>
(* One UPDATE of every row there is when it starts. It locks them one after *)
(* another (LockStock), and SET reserved = reserved + n is in the engine.   *)
ScanStock(r) ==
  /\ At(r, {"reserve_units"}, "scan")
  /\ call' = [call EXCEPT ![r].wants = [s \in {t \in Skus : stock[t] # NoStock} |-> call[r].ask.units],
                          ![r].at = "lock"]
  /\ UNCHANGED <<tables, lock, taken, history>>
ReserveUnits(r) ==
  LET c == call[r] IN
  /\ At(r, {"reserve_units"}, "locked")
  /\ stock' = StockUpdated([s \in DOMAIN c.held |-> Stock(stock[s].on_hand, stock[s].reserved + c.ask.units)])
  /\ Finish(r) /\ UNCHANGED <<order, lines, invoices, book, moved, taken, history>>
(* The engine refuses while a movement points at the row.                   *)
RemoveStock(r) ==
  LET s == call[r].ask.sku IN
  /\ At(r, {"remove_stock"}, "write") /\ Free(r, StockRow(s))
  /\ \/ s \in moved /\ Refuse(r)
     \/ /\ s \notin moved /\ stock' = [stock EXCEPT ![s] = NoStock]
        /\ Finish(r) /\ UNCHANGED <<order, lines, invoices, book, moved, taken, history>>

-----------------------------------------------------------------------------
Init ==
  /\ \E held, drafts \in SUBSET OrderIds, basket \in [OrderIds -> Baskets] :
       /\ held \cap drafts = {}
       /\ lines = [o \in OrderIds |-> IF o \in held \cup drafts THEN basket[o] ELSE <<>>]
       /\ order = [o \in OrderIds |->
            IF o \in held THEN Order("reserved", Total(basket[o]), 0)
            ELSE IF o \in drafts THEN Order("draft", Total(basket[o]), 0) ELSE Absent]
  /\ stock \in [Skus -> {NoStock} \cup {Stock(OnHand, n) : n \in 0..OnHand}]
  /\ \A s \in Skus : stock[s].reserved = Promised(s)
  /\ \A o \in OrderIds : order[o].state = "reserved" => \A s \in DOMAIN lines[o] : stock[s] # NoStock
  /\ invoices = <<Invoice(0, FALSE)>> /\ moved = {}
  /\ book = [s \in Skus |-> IF stock[s] = NoStock THEN 0 ELSE OnHand]
  /\ lock = [row \in Rows |-> Nobody] /\ call = [r \in Requests |-> Idle]
  /\ taken = [o \in OrderIds |-> 0] /\ byHand = {} /\ raced = FALSE /\ calls = 0

OrderStep(r) ==
  \/ PlaceOrder(r) \/ FindLine(r) \/ GetOrder(r) \/ WrongSubscription(r) \/ GetLines(r)
  \/ LockStock(r) \/ Reserve(r) \/ CancelOrder(r) \/ IssueInvoice(r) \/ Charge(r) \/ Decline(r)
  \/ Ship(r) \/ WriteLine(r) \/ Retotal(r) \/ AttachInvoice(r) \/ RemoveOrder(r)
StockStep(r) ==
  \/ GetStock(r) \/ MakeStock(r) \/ MoveStock(r) \/ CountStock(r) \/ UpdateStock(r)
  \/ ScanStock(r) \/ ReserveUnits(r) \/ RemoveStock(r)
Step(r) == OrderStep(r) \/ StockStep(r)
Next == \E r \in Requests : Begin(r) \/ Step(r) \/ Crash(r)
Spec == Init /\ [][Next]_vars

-----------------------------------------------------------------------------
Sum(f) == MapThenSumSet(LAMBDA x : f[x], DOMAIN f)
TypeOK ==
  /\ order \in [OrderIds -> [state : States \cup {"absent"}, total : Nat, invoice : 0..Len(invoices)]]
  /\ \A s \in Skus : stock[s] = NoStock \/ Accepted([t \in {s} |-> stock[s]])
  /\ lock \in [Rows -> Requests \cup {Nobody}]
  /\ moved \subseteq Skus /\ byHand \subseteq Skus /\ raced \in BOOLEAN /\ calls \in 0..MaxCalls

(* On a SKU whose levels no stock form has set (byHand), what is reserved   *)
(* is on the shelf whatever races, and what the reserved orders ask of it   *)
(* together is too, however the reservations, the cancellations and the     *)
(* settlements of orders that compete for it alternate: reserve() decides   *)
(* on the row it has locked. The second says nothing where two requests     *)
(* have worked on one order at once, a stock form or a reception has run    *)
(* beside another request, or a held order was edited (raced).              *)
OnShelf(s) == IF stock[s] = NoStock THEN 0 ELSE stock[s].on_hand
NoOversell ==
  \A s \in Skus \ byHand :
    stock[s].reserved <= OnShelf(s) /\ (~raced => Promised(s) <= OnShelf(s))

(* "So it decides against the number the first one left behind rather than  *)
(* against the one it found" (selectors/inventory_selectors.lock_stock): the *)
(* rows a use case has locked are as it read them, until it writes them.    *)
Locking == {"cancel_order", "reserve", "settle"}
DecidesOnWhatIsThere ==
  \A r \in Requests : call[r].ask.op \in Locking =>
    \A s \in DOMAIN call[r].held : stock[s] = call[r].held[s]

(* With the same exceptions, what a SKU holds is what the reserved orders   *)
(* ask of it: nothing is held for nobody, and nothing given twice. Of a SKU *)
(* with no row nothing is promised.                                         *)
HeldIsPromised == ~raced => \A s \in Skus \ byHand : stock[s].reserved = Promised(s)

(* Unless a stock form ran beside another request, the movements explain    *)
(* the shelf: no units come or go without one (services/inventory_services).*)
BookExplainsShelf == ~raced => \A s \in Skus : stock[s] # NoStock => stock[s].on_hand = book[s]

(* A settled order points at an invoice that is paid, of the order's total, *)
(* and its charge was taken, whatever else ran beside settle().             *)
SettledIsPaid ==
  \A o \in OrderIds : order[o].state = "settled" =>
    /\ order[o].invoice # 0 /\ invoices[order[o].invoice] = Invoice(order[o].total, TRUE)
    /\ taken[o] > 0

(* Unless they raced, an order goes forward: from draft to reserved, and    *)
(* from the open states to the closed ones, which it never leaves.          *)
Forward == [draft |-> 0, reserved |-> 1, invoiced |-> 2, settled |-> 2, cancelled |-> 2, absent |-> 3]
StatesGoForward ==
  [][~raced' => \A o \in OrderIds :
       order[o] # Absent /\ order'[o].state # order[o].state =>
         Forward[order[o].state] < Forward[order'[o].state]]_vars

(* The rows the next statement of a request needs, and so waits for while   *)
(* they are in the hands of another.                                        *)
AtWrite(a) ==
  CASE a.op = "attach_invoice" -> {OrderRow(a.order)}
    [] a.op = "remove_order" -> {OrderRow(a.order)} \cup {LineRow(a.order, s) : s \in Skus}
    [] OTHER -> {StockRow(a.sku)}
Awaits(r) ==
  LET c == call[r] IN
  CASE c.at = "lock" -> {StockRow(s) : s \in {t \in ToLock(c) : NextToLock(c, t)}}
    [] c.at = "line" -> {LineRow(c.ask.order, c.ask.sku)}
    [] c.at \in {"insert", "retotal"} \/ (c.at = "locked" /\ c.ask.op # "reserve_units") -> {OrderRow(c.ask.order)}
    [] c.at = "write" -> AtWrite(c.ask)
    [] c.at = "make" -> {StockRow(c.ask.sku)}
    [] OTHER -> {}
WaitsFor(r, q) == q # r /\ \E row \in Awaits(r) : lock[row] = q
NoCircle(rs) == \A Q \in (SUBSET rs) \ {{}} : \E r \in Q : \A q \in Q : ~WaitsFor(r, q)

(* No requests wait for each other, in pairs or in longer circles: the rows *)
(* of the stock are locked in one order and the order's row after them. And *)
(* nobody waits for a request that has ended: none walks away with a lock.  *)
(* A bulk reservation takes the rows in no order, and may close a circle.   *)
NoDeadlock ==
  /\ NoCircle({r \in Requests : call[r].ask.op # "reserve_units"})
  /\ \A row \in Rows : lock[row] # Nobody => Working(lock[row])

(* "Sorting by `sku_id` gives every operation in this repo the SAME order,  *)
(* and a global order is exactly what a deadlock cannot survive"            *)
(* (selectors/inventory_selectors.py, stock_to_take_from).                  *)
EveryOperationInOneOrder == NoCircle(Requests)

(* A request at work goes on, or waits for a row another request holds.     *)
GoesOnOrWaits == \A r \in Requests : Working(r) => ENABLED Step(r) \/ \E q \in Requests : WaitsFor(r, q)

(* A shelf never holds more than it has, whatever runs beside what, as long *)
(* as units come by receive() and go by settle() alone.                     *)
ShelfCoversHolds == \A s \in Skus : stock[s] # NoStock => stock[s].reserved <= stock[s].on_hand

(* "The CHECK is what holds under two concurrent writers"                   *)
(* (inventory_usecases.py, ship): no more units leave than there were.      *)
ShippedWasThere == \A s \in Skus : book[s] >= 0

(* "charge first, record after has a window in which the money has been     *)
(* taken and nothing in the database says so" (orders_usecases.py, settle): *)
(* once no request is at work, a charge that was taken is a paid invoice.   *)
TakenIsRecorded ==
  (\A r \in Requests : ~Working(r)) =>
    Cardinality({i \in DOMAIN invoices : invoices[i].paid}) >= Sum(taken)
=============================================================================
