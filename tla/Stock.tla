------------------------------- MODULE Stock -------------------------------
(***************************************************************************)
(* internal/inventory: stock of products in warehouses, and the stock that *)
(* orders reserve (internal/orders, cmd/api).                              *)
(*                                                                         *)
(* A level is read, checked and written back whole, after the movements    *)
(* and the product's total, each in a transaction of its own; only an      *)
(* issue posted to the ledger writes them together.  What an order holds   *)
(* is a row of its own, changed after the level.  A request gives any      *)
(* decimal; movements keep six digits of it, every other column three, each *)
(* rounded on its own.  Lots and costs are left out.                       *)
(***************************************************************************)
EXTENDS Integers, FiniteSets, Functions

CONSTANTS
    Product, Warehouse, Order,
    Clerks,      \* requests that may be under way at once
    Quantities,  \* quantities of a request, in quarters of a millionth
    Needs,       \* tracked quantities an order may have lines for
    Opening,     \* stock on hand at the start, in one warehouse
    Main,        \* that warehouse
    MaxRequests, \* bound: requests made
    None

Place == Product \X Warehouse

\* A quantity counts quarters of a millionth: they tell apart decimals that round differently.
Millionth  == 4
Thousandth == 4000

ASSUME StockAssumption ==
    /\ IsFiniteSet(Product) /\ IsFiniteSet(Warehouse) /\ IsFiniteSet(Order)
    /\ Quantities \subseteq Nat \ {0} /\ Needs \subseteq [Product -> Nat]
    /\ Main \in Warehouse /\ Opening \in [Product -> Nat] /\ MaxRequests \in Nat
    /\ \A p \in Product : Opening[p] % Thousandth = 0
    /\ None \notin Product \union Warehouse \union Order

VARIABLES
    stock,       \* products.current_stock
    level,       \* stock_levels
    moved,       \* sum of the inventory_movements
    order,       \* orders, with what their lines need of each product
    held,        \* order_stock_reservations
    request,     \* what each clerk's request has read
    behind,      \* history: moved by requests that stopped before they wrote the level
    stockBehind, \* history: moved by requests that stopped before they wrote the total
    rounded,     \* history: how often a level was written for a fraction of a thousandth
    stockRounded,\* history: how often a product's total was
    overlapped,  \* history: products with two requests at once
    freed,       \* history: products with stock released that an order may hold
    requests

roundings == <<rounded, stockRounded>>
history   == <<behind, stockBehind, roundings, overlapped, freed>>
books     == <<stock, level, moved>>
vars      == <<books, order, held, request, history, requests>>

-----------------------------------------------------------------------------
(* Columns *)

Nearest(x, unit) == ((x + unit \div 2) \div unit) * unit

\* PostgreSQL rounds a numeric half away from zero.
Rounded(x, unit) == IF x >= 0 THEN Nearest(x, unit) ELSE - Nearest(- x, unit)

Stored(x) == Rounded(x, Thousandth)

\* 1 if a column may round what it is changed by.
Rounds(q) == IF q % Thousandth = 0 THEN 0 ELSE 1

(* State *)

Level == [quantity : Int, reserved : Nat, available : Nat]

LevelOf(quantity) == [quantity |-> quantity, reserved |-> 0, available |-> quantity]

InStock(f, p) == SumFunctionOnSet([w \in Warehouse |-> f[<<p, w>>]], Warehouse)
HeldAt(k)     == SumFunctionOnSet([o \in Order |-> held[o][k]], Order)

Operations == {"none", "adjust", "issue", "post", "transfer", "reserve", "release", "undo"}
Steps == {"idle", "order", "picked", "product", "source", "checked", "moved", "stocked", "in", "sent", "row"}

\* quantity is signed: what is added to the level of the place, or reserved there.
Request ==
    [op : Operations, step : Steps, product : Product \union {None}, warehouse : Warehouse \union {None},
     to : Warehouse \union {None}, order : Order \union {None}, quantity : Int,
     stock : Nat, level : Level, toLevel : Level, todo : [Product -> Nat]]

Nothing == [p \in Product |-> 0]

NoRequest == [op |-> "none", step |-> "idle", product |-> None, warehouse |-> None, to |-> None,
              order |-> None, quantity |-> 0, stock |-> 0, level |-> LevelOf(0),
              toLevel |-> LevelOf(0), todo |-> Nothing]

Init ==
    /\ moved = [k \in Place |-> IF k[2] = Main THEN Opening[k[1]] ELSE 0]
    /\ level = [k \in Place |-> LevelOf(moved[k])]
    /\ stock = Opening
    /\ order = [o \in Order |-> [status |-> "absent", needs |-> Nothing]]
    /\ held = [o \in Order |-> [k \in Place |-> 0]]
    /\ request = [c \in Clerks |-> NoRequest]
    /\ behind = [k \in Place |-> 0] /\ stockBehind = [p \in Product |-> 0]
    /\ rounded = behind /\ stockRounded = stockBehind
    /\ overlapped = [p \in Product |-> FALSE] /\ freed = overlapped
    /\ requests = 0

Here(c) == <<request[c].product, request[c].warehouse>>
There(c) == <<request[c].product, request[c].to>>

Busy(p) == {c \in Clerks : request[c].product = p}

Moves(q) == Rounded(q, Millionth)

\* UpsertStockLevel writes all columns, from what was read.
Write(l) == [quantity |-> Stored(l.quantity), reserved |-> Stored(l.reserved), available |-> Stored(l.available)]

Writes(k, l, q) ==
    /\ level' = [level EXCEPT ![k] = Write(l)]
    /\ rounded' = [rounded EXCEPT ![k] = @ + Rounds(q)]

WritesStock(p, x, q) ==
    /\ stock' = [stock EXCEPT ![p] = Stored(x)]
    /\ stockRounded' = [stockRounded EXCEPT ![p] = @ + Rounds(q)]

-----------------------------------------------------------------------------
(* Requests *)

Starts(c, r) ==
    /\ request[c].step = "idle" /\ requests < MaxRequests
    /\ request' = [request EXCEPT ![c] = r]
    /\ requests' = requests + 1
    /\ UNCHANGED <<books, order, held, behind, stockBehind, roundings, freed>>

About(p) == overlapped' = [overlapped EXCEPT ![p] = @ \/ Busy(p) # {}]

Goes(c, step) == request' = [request EXCEPT ![c].step = step]

\* Mutant: the clerk still holds the product of the request before.
DoneHolding(c) == request' = [request EXCEPT ![c].step = "idle"]

Done(c) == request' = [request EXCEPT ![c] = NoRequest]

\* By how much the movements of request c run ahead of the level at k.
Ahead(c, k) ==
    LET r == request[c]
    IN  CASE r.op \in {"adjust", "issue"} /\ r.step \in {"moved", "stocked"} /\ k = Here(c) -> Moves(r.quantity)
          [] r.op = "transfer" /\ r.step \in {"moved", "in"} /\ k = Here(c)  -> Moves(r.quantity)
          [] r.op = "transfer" /\ r.step \in {"in", "sent"} /\ k = There(c) -> - Moves(r.quantity)
          [] OTHER -> 0

\* By how much they run ahead of the product's total.
AheadOfStock(c) ==
    IF request[c].op \in {"adjust", "issue", "transfer"} /\ request[c].step = "moved"
    THEN Moves(request[c].quantity) ELSE 0

\* A check refuses the request, a statement fails or the server stops.
Fail(c) ==
    LET p == request[c].product
    IN  /\ request[c].step # "idle" /\ Done(c)
        /\ behind' = [k \in Place |-> behind[k] + Ahead(c, k)]
        /\ stockBehind' = [q \in Product |-> stockBehind[q] + IF q = p THEN AheadOfStock(c) ELSE 0]
        /\ freed' = [q \in Product |-> freed[q] \/ (q = p /\ request[c].op = "release" /\ request[c].step = "row")]
        /\ UNCHANGED <<books, order, held, roundings, overlapped, requests>>

-----------------------------------------------------------------------------
(* AdjustStock and IssueStock *)

ReadProduct(c, op, p, w, q) ==
    /\ op \in {"issue", "post"} => q < 0
    /\ Starts(c, [NoRequest EXCEPT !.op = op, !.step = "product", !.product = p, !.warehouse = w,
                                   !.quantity = q, !.stock = stock[p]])
    /\ About(p)

\* What is reserved stays in the warehouse, and the total is enough.
Enough(c, l) ==
    /\ IF request[c].op = "adjust" THEN l.quantity + request[c].quantity >= l.reserved
                                   ELSE l.available + request[c].quantity >= 0
    /\ request[c].stock + request[c].quantity >= 0

CheckLevel(c) ==
    /\ request[c].step = "product" /\ Enough(c, level[Here(c)])
    /\ request' = [request EXCEPT ![c].step = "checked", ![c].level = level[Here(c)]]
    /\ UNCHANGED <<books, order, held, history, requests>>

CreateMovement(c) ==
    /\ request[c].op \in {"adjust", "issue"} /\ request[c].step = "checked" /\ Goes(c, "moved")
    /\ moved' = [moved EXCEPT ![Here(c)] = @ + Moves(request[c].quantity)]
    /\ UNCHANGED <<stock, level, order, held, history, requests>>

\* Mutant: the total is taken for the warehouse's quantity.
WarehouseStock(c) == request[c].level.quantity + request[c].quantity

NewProductStock(c) == request[c].stock + request[c].quantity

UpdateProductStock(c) ==
    /\ request[c].op \in {"adjust", "issue"} /\ request[c].step = "moved" /\ Goes(c, "stocked")
    /\ WritesStock(request[c].product, NewProductStock(c), request[c].quantity)
    /\ UNCHANGED <<level, moved, order, held, behind, stockBehind, rounded, overlapped, freed, requests>>

Changed(l, q) == [l EXCEPT !.quantity = @ + q, !.available = @ + q]

\* Mutant: all of the warehouse's stock is available.
AllAvailable(l, q) == [l EXCEPT !.quantity = @ + q, !.available = l.quantity + q]

Adjusted(l, q) == [l EXCEPT !.quantity = @ + q, !.available = l.quantity + q - l.reserved]

ChangeLevel(c) ==
    LET r == request[c]
    IN  /\ r.step = "stocked" /\ Done(c)
        /\ Writes(Here(c), IF r.op = "adjust" THEN Adjusted(r.level, r.quantity)
                                             ELSE Changed(r.level, r.quantity), r.quantity)
        /\ UNCHANGED <<stock, moved, order, held, behind, stockBehind, stockRounded, overlapped, freed, requests>>

\* An issue posted to the ledger writes in one transaction with the entry.
PostIssue(c) ==
    /\ request[c].op = "post" /\ request[c].step = "checked" /\ Done(c)
    /\ moved' = [moved EXCEPT ![Here(c)] = @ + Moves(request[c].quantity)]
    /\ WritesStock(request[c].product, NewProductStock(c), request[c].quantity)
    /\ Writes(Here(c), Changed(request[c].level, request[c].quantity), request[c].quantity)
    /\ UNCHANGED <<order, held, behind, stockBehind, overlapped, freed, requests>>

(* TransferStock *)

ReadSource(c, p, from, to, q) ==
    /\ from # to
    /\ Starts(c, [NoRequest EXCEPT !.op = "transfer", !.step = "source", !.product = p, !.warehouse = from,
                                   !.to = to, !.quantity = - q, !.level = level[<<p, from>>]])
    /\ About(p)

ReadDestination(c) ==
    /\ request[c].step = "source" /\ request[c].level.available + request[c].quantity >= 0
    /\ request' = [request EXCEPT ![c].step = "checked", ![c].toLevel = level[There(c)]]
    /\ UNCHANGED <<books, order, held, history, requests>>

MoveOut(c) ==
    /\ request[c].op = "transfer" /\ request[c].step = "checked" /\ Goes(c, "moved")
    /\ moved' = [moved EXCEPT ![Here(c)] = @ + Moves(request[c].quantity)]
    /\ UNCHANGED <<stock, level, order, held, history, requests>>

MoveIn(c) ==
    /\ request[c].op = "transfer" /\ request[c].step = "moved" /\ Goes(c, "in")
    /\ moved' = [moved EXCEPT ![There(c)] = @ - Moves(request[c].quantity)]
    /\ UNCHANGED <<stock, level, order, held, history, requests>>

ChangeSource(c) ==
    /\ request[c].step = "in" /\ Goes(c, "sent")
    /\ Writes(Here(c), Changed(request[c].level, request[c].quantity), request[c].quantity)
    /\ UNCHANGED <<stock, moved, order, held, behind, stockBehind, stockRounded, overlapped, freed, requests>>

ChangeDestination(c) ==
    /\ request[c].step = "sent" /\ Done(c)
    /\ Writes(There(c), Changed(request[c].toLevel, - request[c].quantity), request[c].quantity)
    /\ UNCHANGED <<stock, moved, order, held, behind, stockBehind, stockRounded, overlapped, freed, requests>>

-----------------------------------------------------------------------------
(* ReserveStock and ReleaseStock, of a product or of what an order needs *)

StartReservation(c, op, p, w, q) ==
    /\ Starts(c, [NoRequest EXCEPT !.op = op, !.step = "picked", !.product = p, !.warehouse = w,
                                   !.quantity = q])
    /\ About(p)

\* The stock check reads the lines and levels; its levels only decide whether to go on.
StartOrder(c, op, o, w) ==
    /\ Starts(c, [NoRequest EXCEPT !.op = op, !.step = "order", !.warehouse = w, !.order = o,
                                   !.todo = order[o].needs])
    /\ order[o].status = "open"
    /\ op = "reserve" => \A p \in Product : order[o].needs[p] <= level[<<p, w>>].available
    /\ UNCHANGED overlapped

\* Before a release the order's own reservation is checked.
PickProduct(c, p) ==
    LET r == request[c]
    IN  /\ r.step = "order" /\ r.todo[p] > 0 /\ About(p)
        /\ r.op = "release" => held[r.order][<<p, r.warehouse>>] >= r.todo[p]
        /\ request' = [request EXCEPT ![c].step = "picked", ![c].product = p, ![c].quantity = r.todo[p]]
        /\ UNCHANGED <<books, order, held, behind, stockBehind, roundings, freed, requests>>

ReadLevel(c) ==
    LET l == level[Here(c)]
    IN  /\ request[c].step = "picked"
        /\ request[c].quantity <= IF request[c].op = "reserve" THEN l.available ELSE l.reserved
        /\ request' = [request EXCEPT ![c].step = "checked", ![c].level = l]
        /\ UNCHANGED <<books, order, held, history, requests>>

Reserved(l, q) == [l EXCEPT !.reserved = @ + q, !.available = @ - q]

ReserveStock(c) ==
    /\ request[c].op = "reserve" /\ request[c].step = "checked"
    /\ Writes(Here(c), Reserved(request[c].level, request[c].quantity), request[c].quantity)
    /\ IF request[c].order = None THEN Done(c) ELSE Goes(c, "row")
    /\ UNCHANGED <<stock, moved, order, held, behind, stockBehind, stockRounded, overlapped, freed, requests>>

ReleaseStock(c) ==
    /\ request[c].op \in {"release", "undo"} /\ request[c].step = "checked"
    /\ Writes(Here(c), Reserved(request[c].level, - request[c].quantity), request[c].quantity)
    /\ IF request[c].op = "release" /\ request[c].order # None THEN Goes(c, "row") ELSE Done(c)
    /\ freed' = [p \in Product |->
                    freed[p] \/ (p = request[c].product /\ request[c].op = "release" /\ request[c].order = None)]
    /\ UNCHANGED <<stock, moved, order, held, behind, stockBehind, stockRounded, overlapped, requests>>

NextProduct(c) ==
    LET left == [request[c].todo EXCEPT ![request[c].product] = 0]
    IN  IF left = Nothing THEN Done(c)
        ELSE request' = [request EXCEPT ![c] = [NoRequest EXCEPT !.op = request[c].op, !.step = "order",
                                                                 !.warehouse = request[c].warehouse,
                                                                 !.order = request[c].order, !.todo = left]]

\* The row of an order that was deleted meanwhile cannot be written.
UpsertStockReservation(c) ==
    LET o == request[c].order
    IN  /\ request[c].op = "reserve" /\ request[c].step = "row" /\ NextProduct(c)
        /\ order[o].status = "open"
        /\ held' = [held EXCEPT ![o][Here(c)] = @ + Stored(request[c].quantity)]
        /\ UNCHANGED <<books, order, history, requests>>

\* The row could not be written: what was reserved is released.
RollBackReservation(c) ==
    /\ request[c].op = "reserve" /\ request[c].step = "row"
    /\ request' = [request EXCEPT ![c].op = "undo", ![c].step = "picked"]
    /\ UNCHANGED <<books, order, held, history, requests>>

\* By how much a release lowers what is reserved: a half is not released.
LevelReleased(q) == - Nearest(- q, Thousandth)

\* Mutant: the released quantity stays with the order.
RowKept(n, q) == n

RowReleased(n, q) == Stored(n - q)

ReleaseStockReservation(c) ==
    LET o == request[c].order
    IN  /\ request[c].op = "release" /\ request[c].step = "row" /\ NextProduct(c)
        /\ held[o][Here(c)] >= request[c].quantity
        /\ held' = [held EXCEPT ![o][Here(c)] = RowReleased(@, request[c].quantity)]
        /\ UNCHANGED <<books, order, history, requests>>

-----------------------------------------------------------------------------
(* Orders; their status, which no reservation reads, is left out *)

CreateOrder(o, needs) ==
    /\ order[o].status = "absent"
    /\ order' = [order EXCEPT ![o] = [status |-> "open", needs |-> needs]]
    /\ UNCHANGED <<books, held, request, history, requests>>

UpdateOrder(o, needs) ==
    /\ order[o].status = "open"
    /\ order' = [order EXCEPT ![o].needs = needs]
    /\ UNCHANGED <<books, held, request, history, requests>>

\* Its reservations are deleted with it (ON DELETE CASCADE); the levels are not touched.
DeleteOrder(o) ==
    /\ order[o].status = "open"
    /\ order' = [order EXCEPT ![o] = [status |-> "deleted", needs |-> Nothing]]
    /\ held' = [held EXCEPT ![o] = [k \in Place |-> 0]]
    /\ UNCHANGED <<books, request, history, requests>>

-----------------------------------------------------------------------------

StartStep(c) ==
    \E p \in Product, w \in Warehouse, q \in Quantities :
        \/ \E change \in {0, q} : ReadProduct(c, "adjust", p, w, change)
        \/ \E op \in {"adjust", "issue", "post"} : ReadProduct(c, op, p, w, - q)
        \/ \E to \in Warehouse : ReadSource(c, p, w, to, q)
        \/ \E op \in {"reserve", "release"} : StartReservation(c, op, p, w, q)

MoveStep(c) ==
    \/ CheckLevel(c) \/ CreateMovement(c) \/ UpdateProductStock(c) \/ ChangeLevel(c) \/ PostIssue(c)
    \/ ReadDestination(c) \/ MoveOut(c) \/ MoveIn(c) \/ ChangeSource(c) \/ ChangeDestination(c)

ReservationStep(c) ==
    \/ \E op \in {"reserve", "release"}, o \in Order, w \in Warehouse : StartOrder(c, op, o, w)
    \/ \E p \in Product : PickProduct(c, p)
    \/ ReadLevel(c) \/ ReserveStock(c) \/ ReleaseStock(c)
    \/ UpsertStockReservation(c) \/ RollBackReservation(c) \/ ReleaseStockReservation(c)

OrderStep ==
    \E o \in Order :
        \/ DeleteOrder(o)
        \/ \E needs \in Needs : CreateOrder(o, needs) \/ UpdateOrder(o, needs)

Next ==
    \/ OrderStep
    \/ \E c \in Clerks : StartStep(c) \/ MoveStep(c) \/ ReservationStep(c) \/ Fail(c)

Spec == Init /\ [][Next]_vars

-----------------------------------------------------------------------------
(* Properties *)

StockTypeOK ==
    /\ stock \in [Product -> Nat] /\ level \in [Place -> Level] /\ moved \in [Place -> Int]
    /\ order \in [Order -> [status : {"absent", "open", "deleted"}, needs : [Product -> Nat]]]
    /\ held \in [Order -> [Place -> Nat]]
    /\ request \in [Clerks -> Request]
    /\ behind \in [Place -> Int] /\ stockBehind \in [Product -> Int]
    /\ rounded \in [Place -> Nat] /\ stockRounded \in [Product -> Nat]
    /\ overlapped \in [Product -> BOOLEAN] /\ freed \in [Product -> BOOLEAN]
    /\ requests \in 0..MaxRequests
    /\ \A c \in Clerks : request[c].step \in {"idle", "order"} <=> request[c].product = None

\* However requests interleave, and wherever they stop, what a level says is
\* available and reserved is what it has, until it is written for a fraction
\* of a thousandth; each such write may add a thousandth that is not there,
\* and none takes one away (inventory/service.go:1274, 1916, 1960;
\* migrations/016_inventory.up.sql:87-89).
LevelAddsUp ==
    \A k \in Place : LET over == level[k].reserved + level[k].available - level[k].quantity
                     IN  0 <= over /\ over <= Thousandth * rounded[k]

\* As long as one request at a time is about a product, the levels and the
\* product's total follow its movements, but for what a request has still to
\* write or stopped before it wrote, and for half a thousandth, and half a
\* millionth of its movement, each time one was written for a fraction of a
\* thousandth (inventory/service.go:1265-1276, 1404-1418).
Within(x, y, times) ==
    /\ 2 * (x - y) <= (Thousandth + Millionth) * times
    /\ 2 * (y - x) <= (Thousandth + Millionth) * times

Moving(p) == {c \in Busy(p) : request[c].op \in {"adjust", "issue", "transfer"}}

MovementsAddUp ==
    \A p \in Product : ~overlapped[p] =>
        /\ \A w \in Warehouse :
              Within(moved[<<p, w>>],
                     level[<<p, w>>].quantity + behind[<<p, w>>]
                     + SumFunctionOnSet([c \in Clerks |-> Ahead(c, <<p, w>>)], Moving(p)),
                     rounded[<<p, w>>])
        /\ Within(InStock(moved, p),
                  stock[p] + stockBehind[p] + SumFunctionOnSet([c \in Clerks |-> AheadOfStock(c)], Moving(p)),
                  stockRounded[p])

\* As long as one request at a time is about a product, and none of its stock
\* was released past the orders that hold it, the level has reserved whatever
\* orders hold of it; between the two writes of a release it may lack the
\* quantity released.  A reservation may stop anywhere, its roll-back too
\* (cmd/api/handlers_business.go:5746-5771).
Releasing(k) ==
    {c \in Clerks : request[c].op = "release" /\ request[c].step = "row" /\ Here(c) = k}

OrdersCovered ==
    \A p \in Product, w \in Warehouse : ~overlapped[p] /\ ~freed[p] =>
        HeldAt(<<p, w>>) <= level[<<p, w>>].reserved
                            + SumFunctionOnSet([c \in Clerks |-> LevelReleased(request[c].quantity)],
                                               Releasing(<<p, w>>))
=============================================================================
