---------------------------- MODULE StockProofs ----------------------------
(***************************************************************************)
(* For any products, warehouses, orders, quantities and number of clerks:  *)
(* types, that no total, reservation or available quantity is negative,    *)
(* that every level adds up but for roundings, and, of products that one   *)
(* request at a time is about, that levels and totals follow the movements *)
(* but for roundings and that what orders hold is reserved.                *)
(*                                                                         *)
(* Columns round a half away from zero, each on its own: what a level      *)
(* promises (Over) can only grow, by a thousandth at most for each write   *)
(* of a fraction, and what a check allowed stays allowed when it is        *)
(* written (Kept).                                                         *)
(*                                                                         *)
(* A level is always written whole from one that was read, so it is enough *)
(* that what a request has read adds up and that the check it passed still *)
(* holds of what it read: Sound, which speaks of the request alone and     *)
(* which no other request can break.  That what it read is still so holds  *)
(* only while it is alone with its product: ProductsInv says, of each      *)
(* product, what the one request about it has read (Fresh) and by how much *)
(* it has brought movements, total, level and rows apart (Follows).        *)
(***************************************************************************)
EXTENDS Stock, SumTheorems

\* What the columns of a level can hold.
Whole(x) == x \in Int /\ x % Thousandth = 0

\* By how much a level promises more than it has.
Over(l) == l.reserved + l.available - l.quantity

Kept(l) == Whole(l.quantity) /\ Whole(l.reserved) /\ Whole(l.available) /\ Over(l) >= 0

\* What the checks of the operation have established of what was read.
Checked(r) ==
    /\ r.op \in {"adjust", "issue", "post"} => r.stock + r.quantity >= 0
    /\ r.op = "adjust" => r.level.quantity + r.quantity >= r.level.reserved
    /\ r.op \in {"issue", "post", "transfer"} => r.level.available + r.quantity >= 0
    /\ r.op = "reserve" => r.quantity <= r.level.available
    /\ r.op \in {"release", "undo"} => r.quantity <= r.level.reserved

StepsOf(op) ==
    CASE op \in {"adjust", "issue"} -> {"product", "checked", "moved", "stocked"}
      [] op = "post" -> {"product", "checked"}
      [] op = "transfer" -> {"source", "checked", "moved", "in", "sent"}
      [] op \in {"reserve", "release", "undo"} -> {"order", "picked", "checked", "row"}
      [] OTHER -> {"idle"}

Sound(r) ==
    /\ r \in Request /\ Kept(r.level) /\ Kept(r.toLevel) /\ Whole(r.stock)
    /\ r.step \in StepsOf(r.op)
    /\ r.step \in {"idle", "order"} <=> r.product = None
    /\ r.step # "idle" => r.warehouse \in Warehouse
    /\ r.step \notin {"idle", "order", "picked", "product", "source", "row"} => Checked(r)
    /\ r.op = "transfer" => r.to \in Warehouse /\ r.quantity <= 0
    /\ r.op \in {"reserve", "release", "undo"} => r.quantity >= 0
    /\ r.step \in {"order", "row"} => r.order \in Order /\ r.op \in {"reserve", "release"}
    /\ r.step = "order" => r.level = LevelOf(0)

\* What a request has read promises no more than roundings of the level explain.
Bounded(r) ==
    r.product # None =>
        /\ Over(r.level) <= Thousandth * rounded[<<r.product, r.warehouse>>]
        /\ r.op = "transfer" => Over(r.toLevel) <= Thousandth * rounded[<<r.product, r.to>>]

LevelKept(k) == Kept(level[k]) /\ Over(level[k]) <= Thousandth * rounded[k]

StockInv ==
    /\ StockTypeOK
    /\ \A k \in Place : LevelKept(k)
    /\ \A p \in Product : Whole(stock[p])
    /\ \A o \in Order, k \in Place : Whole(held[o][k])
    /\ \A c \in Clerks : Sound(request[c]) /\ Bounded(request[c])

-----------------------------------------------------------------------------
(* Rounding *)

LEMMA StoredWhole ==
    ASSUME NEW x \in Int
    PROVE  Whole(Stored(x)) /\ (x >= 0 => Stored(x) >= 0) /\ (Whole(x) => Stored(x) = x)
<1>1. Stored(x) \in Int /\ Stored(x) % Thousandth = 0
  BY SMT DEF Stored, Rounded, Nearest, Thousandth
<1>2. x >= 0 => Stored(x) >= 0
  BY SMT DEF Stored, Rounded, Nearest, Thousandth
<1>3. Whole(x) => Stored(x) = x
  BY SMT DEF Stored, Rounded, Nearest, Thousandth, Whole
<1> QED
  BY <1>1, <1>2, <1>3 DEF Whole

LEMMA WholeNumbers ==
    ASSUME NEW a, NEW b, Whole(a), Whole(b)
    PROVE  Whole(a + b) /\ Whole(a - b) /\ a \in Int /\ b \in Int
BY SMT DEF Thousandth, Whole

LEMMA RoundsTyped ==
    ASSUME NEW x \in Int
    PROVE  /\ Rounds(x) \in {0, 1} /\ Rounds(- x) = Rounds(x)
           /\ Moves(x) \in Int /\ Moves(- x) = - Moves(x)
<1>1. Rounds(x) \in {0, 1} /\ Rounds(- x) = Rounds(x)
  BY SMT DEF Thousandth, Rounds
<1>2. Moves(x) \in Int /\ Moves(- x) = - Moves(x)
  BY SMT DEF Moves, Rounded, Nearest, Millionth
<1> QED
  BY <1>1, <1>2

\* A column and a movement, changed by x: half a unit of each apart.
LEMMA StoredNear ==
    ASSUME NEW a, Whole(a), NEW x \in Int
    PROVE  Within(a + Moves(x), Stored(a + x), Rounds(x)) /\ Within(Stored(a + x), a + Moves(x), Rounds(x))
<1> DEFINE y == Stored(a + x)
           m == Moves(x)
<1>1. y \in Int /\ 2 * (y - (a + x)) <= 4000 /\ 2 * (a + x - y) <= 4000 /\ a \in Int
  BY SMT DEF Stored, Rounded, Nearest, Thousandth, Whole
<1>2. m \in Int /\ 2 * (m - x) <= 4 /\ 2 * (x - m) <= 4
  BY SMT DEF Moves, Rounded, Nearest, Millionth
<1>3. CASE x % Thousandth = 0
  <2>1. m = x
    BY <1>3, SMT DEF Moves, Rounded, Nearest, Millionth, Thousandth
  <2>2. y = a + x
    BY <1>3, WholeNumbers, StoredWhole DEF Whole
  <2>3. Rounds(x) = 0
    BY <1>3 DEF Rounds
  <2> HIDE DEF y, m
  <2> QED
    BY <1>1, <2>1, <2>2, <2>3 DEF Within, Thousandth, Millionth, y, m
<1>4. CASE x % Thousandth # 0
  <2>1. Rounds(x) = 1
    BY <1>4 DEF Rounds
  <2> HIDE DEF y, m
  <2>2. 2 * (y - (a + m)) <= 4004 * 1 /\ 2 * (a + m - y) <= 4004 * 1
    BY <1>1, <1>2
  <2>3. Within(a + m, y, 1) /\ Within(y, a + m, 1)
    BY <1>1, <1>2, <2>2, SMT DEF Within, Thousandth, Millionth
  <2> QED
    BY <2>1, <2>3 DEF y, m
<1> QED
  BY <1>3, <1>4

\* Two columns changed alike keep their distance, but for a half that one of
\* them rounds down because it is below zero.
LEMMA StoredAlike ==
    ASSUME NEW a, NEW b, Whole(a), Whole(b), NEW x \in Int, a + x >= 0
    PROVE  /\ a - b <= Stored(a + x) - Stored(b + x)
           /\ Stored(a + x) - Stored(b + x) <= a - b + Thousandth * Rounds(x)
           /\ b + x >= 0 => Stored(a + x) - Stored(b + x) = a - b
BY SMT DEF Stored, Rounded, Nearest, Thousandth, Whole, Rounds

\* Of two columns changed by opposite quantities a half is rounded up in both.
LEMMA StoredApart ==
    ASSUME NEW a, NEW b, Whole(a), Whole(b), NEW x \in Int, a + x >= 0, b - x >= 0
    PROVE  /\ a + b <= Stored(a + x) + Stored(b - x)
           /\ Stored(a + x) + Stored(b - x) <= a + b + Thousandth * Rounds(x)
BY SMT DEF Stored, Rounded, Nearest, Thousandth, Whole, Rounds

\* What a column has does not change how a quantity is rounded.
LEMMA StoredOn ==
    ASSUME NEW a, Whole(a), a >= 0, NEW x \in Int, x >= 0
    PROVE  Stored(a + x) = a + Stored(x)
BY SMT DEF Stored, Rounded, Nearest, Thousandth, Whole

\* By how much columns that are not negative rise and fall.
LEMMA StoredBy ==
    ASSUME NEW a, Whole(a), NEW x \in Int, x >= 0, a >= 0
    PROVE  /\ Stored(a + x) = a + Stored(x)
           /\ a >= x => Stored(a - x) = a - LevelReleased(x)
           /\ Stored(x) \in Nat /\ LevelReleased(x) \in Nat /\ LevelReleased(x) <= Stored(x)
BY SMT DEF Stored, Rounded, Nearest, Thousandth, Whole, LevelReleased

-----------------------------------------------------------------------------
(* Levels *)

LEMMA Written ==
    ASSUME NEW l, NEW W, W = Write(l), l.quantity \in Int, l.reserved \in Nat, l.available \in Nat
    PROVE  /\ W \in Level /\ Whole(W.quantity) /\ Whole(W.reserved) /\ Whole(W.available)
           /\ W.quantity = Stored(l.quantity) /\ W.reserved = Stored(l.reserved)
           /\ W.available = Stored(l.available)
<1>1. /\ W.quantity = Stored(l.quantity) /\ W.reserved = Stored(l.reserved)
      /\ W.available = Stored(l.available)
      /\ W = [quantity |-> Stored(l.quantity), reserved |-> Stored(l.reserved), available |-> Stored(l.available)]
  BY DEF Write
<1>2. /\ Whole(Stored(l.quantity)) /\ Whole(Stored(l.reserved)) /\ Whole(Stored(l.available))
      /\ Stored(l.reserved) >= 0 /\ Stored(l.available) >= 0
  BY StoredWhole
<1>3. Stored(l.quantity) \in Int /\ Stored(l.reserved) \in Nat /\ Stored(l.available) \in Nat
  BY <1>2 DEF Whole
<1> QED
  BY <1>1, <1>2, <1>3 DEF Level

\* A level that is written keeps up: what it promises beyond what it has grows
\* by a rounding at most, and its quantity changes as the movement does.
KeepsUp(l, W, q) ==
    W \in Level /\ Kept(W) /\ Over(W) <= Over(l) + Thousandth * Rounds(q)

LEMMA LevelTyped ==
    ASSUME NEW l \in Level
    PROVE  /\ l.quantity \in Int /\ l.reserved \in Nat /\ l.available \in Nat /\ Over(l) \in Int
           /\ l = [quantity |-> l.quantity, reserved |-> l.reserved, available |-> l.available]
BY DEF Level, Over

LEMMA ChangedKept ==
    ASSUME NEW l \in Level, NEW q \in Int, Kept(l), l.available + q >= 0, NEW W, W = Write(Changed(l, q))
    PROVE  /\ KeepsUp(l, W, q) /\ W.reserved = l.reserved
           /\ Within(W.quantity, l.quantity + Moves(q), Rounds(q))
<1>1. l.quantity \in Int /\ l.reserved \in Nat /\ l.available \in Nat
  BY LevelTyped
<1>2. PICK m : m = Changed(l, q)
  OBVIOUS
<1>3. m.quantity = l.quantity + q /\ m.reserved = l.reserved /\ m.available = l.available + q
  BY <1>2 DEF Changed, Level
<1>4. m.quantity \in Int /\ m.available \in Nat
  BY <1>1, <1>3
<1>5. /\ W \in Level /\ Whole(W.quantity) /\ Whole(W.reserved) /\ Whole(W.available)
      /\ W.quantity = Stored(l.quantity + q) /\ W.reserved = Stored(l.reserved)
      /\ W.available = Stored(l.available + q)
  BY <1>1, <1>2, <1>3, <1>4, Written
<1>6. W.reserved = l.reserved
  BY <1>1, <1>5, StoredWhole DEF Kept
<1>7. /\ l.available - l.quantity <= W.available - W.quantity
      /\ W.available - W.quantity <= l.available - l.quantity + Thousandth * Rounds(q)
  BY <1>5, StoredAlike DEF Kept
<1>8. Within(W.quantity, l.quantity + Moves(q), Rounds(q))
  BY <1>5, StoredNear DEF Kept
<1>9. Over(W) >= 0 /\ Over(W) <= Over(l) + Thousandth * Rounds(q)
  <2>1. W.quantity \in Int /\ W.available \in Int /\ Rounds(q) \in Int
    BY <1>5, RoundsTyped DEF Whole
  <2>2. l.reserved + l.available - l.quantity >= 0
    BY DEF Kept, Over
  <2> QED
    BY <1>1, <1>6, <1>7, <2>1, <2>2 DEF Over, Thousandth
<1> QED
  BY <1>5, <1>6, <1>8, <1>9 DEF KeepsUp, Kept

LEMMA AdjustedKept ==
    ASSUME NEW l \in Level, NEW q \in Int, Kept(l), l.quantity + q >= l.reserved, NEW W, W = Write(Adjusted(l, q))
    PROVE  /\ KeepsUp(l, W, q) /\ W.reserved = l.reserved
           /\ Within(W.quantity, l.quantity + Moves(q), Rounds(q))
<1>1. l.quantity \in Int /\ l.reserved \in Nat /\ l.available \in Nat /\ Over(l) \in Int
  BY LevelTyped
<1>2. PICK m : m = Adjusted(l, q)
  OBVIOUS
<1>3. m.quantity = l.quantity + q /\ m.reserved = l.reserved /\ m.available = l.quantity + q - l.reserved
  BY <1>2 DEF Adjusted, Level
<1>4. m.quantity \in Int /\ m.available \in Nat
  BY <1>1, <1>3
<1>5. /\ W \in Level /\ Whole(W.quantity) /\ Whole(W.reserved) /\ Whole(W.available)
      /\ W.quantity = Stored(l.quantity + q) /\ W.reserved = Stored(l.reserved)
      /\ W.available = Stored(l.quantity + q - l.reserved)
  BY <1>1, <1>2, <1>3, <1>4, Written
<1>6. W.reserved = l.reserved
  BY <1>1, <1>5, StoredWhole DEF Kept
<1>7. W.quantity = W.available + l.reserved
  <2> DEFINE x == l.quantity + q - l.reserved
  <2>1. x \in Int /\ x >= 0 /\ Whole(l.reserved) /\ l.reserved >= 0 /\ l.reserved + x = l.quantity + q
    BY <1>1 DEF Kept
  <2>2. W.quantity = Stored(l.reserved + x) /\ W.available = Stored(x)
    BY <1>5, <2>1
  <2> HIDE DEF x
  <2>3. Stored(l.reserved + x) = l.reserved + Stored(x) /\ Stored(x) \in Int
    BY <2>1, StoredOn, StoredWhole DEF Whole
  <2> QED
    BY <1>1, <2>2, <2>3
<1>8. Within(W.quantity, l.quantity + Moves(q), Rounds(q))
  BY <1>5, StoredNear DEF Kept
<1>9. Over(W) = 0 /\ Over(W) <= Over(l) + Thousandth * Rounds(q)
  <2>1. W.available \in Int /\ Rounds(q) \in {0, 1}
    BY <1>5, RoundsTyped DEF Whole
  <2>2. Over(l) >= 0
    BY DEF Kept
  <2>3. Over(W) = 0
    BY <1>1, <1>6, <1>7, <2>1 DEF Over
  <2> QED
    BY <1>1, <2>1, <2>2, <2>3 DEF Thousandth
<1> QED
  BY <1>5, <1>6, <1>8, <1>9 DEF KeepsUp, Kept

LEMMA ReservedKept ==
    ASSUME NEW l \in Level, NEW q \in Int, Kept(l), l.available - q >= 0, l.reserved + q >= 0,
           NEW W, W = Write(Reserved(l, q))
    PROVE  KeepsUp(l, W, q) /\ W.quantity = l.quantity /\ W.reserved = Stored(l.reserved + q)
<1>1. l.quantity \in Int /\ l.reserved \in Nat /\ l.available \in Nat
  BY LevelTyped
<1>2. PICK m : m = Reserved(l, q)
  OBVIOUS
<1>3. m.quantity = l.quantity /\ m.reserved = l.reserved + q /\ m.available = l.available - q
  BY <1>2 DEF Reserved, Level
<1>4. m.reserved \in Nat /\ m.available \in Nat
  BY <1>1, <1>3
<1>5. /\ W \in Level /\ Whole(W.quantity) /\ Whole(W.reserved) /\ Whole(W.available)
      /\ W.quantity = Stored(l.quantity) /\ W.reserved = Stored(l.reserved + q)
      /\ W.available = Stored(l.available - q)
  BY <1>1, <1>2, <1>3, <1>4, Written
<1>6. W.quantity = l.quantity
  BY <1>1, <1>5, StoredWhole DEF Kept
<1>7. /\ l.reserved + l.available <= W.reserved + W.available
      /\ W.reserved + W.available <= l.reserved + l.available + Thousandth * Rounds(q)
  BY <1>5, StoredApart DEF Kept
<1>8. Over(W) >= 0 /\ Over(W) <= Over(l) + Thousandth * Rounds(q)
  <2>1. W.reserved \in Int /\ W.available \in Int /\ Rounds(q) \in Int
    BY <1>5, RoundsTyped DEF Whole
  <2>2. l.reserved + l.available - l.quantity >= 0
    BY DEF Kept, Over
  <2> QED
    BY <1>1, <1>6, <1>7, <2>1, <2>2 DEF Over, Thousandth
<1> QED
  BY <1>5, <1>6, <1>8 DEF KeepsUp, Kept

LEMMA NewLevel ==
    ASSUME NEW n, Whole(n), n >= 0
    PROVE  LevelOf(n) \in Level /\ Kept(LevelOf(n)) /\ Over(LevelOf(n)) = 0
<1>1. n \in Nat /\ Whole(0)
  BY SMT DEF Whole, Thousandth
<1>2. LevelOf(n) \in Level /\ LevelOf(n).quantity = n /\ LevelOf(n).reserved = 0 /\ LevelOf(n).available = n
  BY <1>1 DEF LevelOf, Level
<1>3. Over(LevelOf(n)) = 0
  BY <1>1, <1>2 DEF Over
<1> QED
  BY <1>1, <1>2, <1>3 DEF Kept

LEMMA NoStock == Whole(0)
BY SMT DEF Whole, Thousandth

LEMMA NoLevel == LevelOf(0) \in Level /\ Kept(LevelOf(0)) /\ Over(LevelOf(0)) = 0
BY NoStock, NewLevel

-----------------------------------------------------------------------------
(* Requests *)

LEMMA ConstantFacts ==
    /\ Nothing \in [Product -> Nat] /\ Quantities \subseteq Nat \ {0} /\ Needs \subseteq [Product -> Nat]
    /\ None \notin Product /\ None \notin Warehouse /\ None \notin Order /\ MaxRequests \in Nat
BY StockAssumption DEF Nothing

LEMMA NoRequestSound ==
    Sound(NoRequest) /\ Bounded(NoRequest) /\ NoRequest.step = "idle" /\ NoRequest.product = None
<1>1. LevelOf(0) \in Level /\ Kept(LevelOf(0)) /\ Whole(0)
  BY NoLevel, SMT DEF Whole, Thousandth
<1>2. NoRequest \in Request
  BY <1>1, ConstantFacts DEF NoRequest, Request, Operations, Steps
<1>3. /\ NoRequest.step = "idle" /\ NoRequest.product = None /\ NoRequest.op = "none" /\ NoRequest.stock = 0
      /\ NoRequest.level = LevelOf(0) /\ NoRequest.toLevel = LevelOf(0)
  BY DEF NoRequest
<1>4. NoRequest.step \in StepsOf(NoRequest.op)
  BY <1>3 DEF StepsOf
<1> QED
  BY <1>1, <1>2, <1>3, <1>4 DEF Sound, Bounded

\* A request goes on to a step that its operation has.
LEMMA NextStep ==
    ASSUME NEW r, Sound(r), Bounded(r), NEW s \in Steps, s \in StepsOf(r.op),
           NEW new, new = [r EXCEPT !.step = s],
           r.step \notin {"idle", "order"}, s \notin {"idle", "order"},
           s \notin {"picked", "product", "source", "row"} => Checked(r),
           s = "row" => r.order \in Order /\ r.op \in {"reserve", "release"}
    PROVE  Sound(new) /\ Bounded(new)
<1>1. r \in Request
  BY DEF Sound
<1>2. new \in Request
  BY <1>1 DEF Request
<1>3. /\ new.step = s /\ new.op = r.op /\ new.product = r.product /\ new.warehouse = r.warehouse
      /\ new.to = r.to /\ new.order = r.order /\ new.quantity = r.quantity /\ new.stock = r.stock
      /\ new.level = r.level /\ new.toLevel = r.toLevel
  BY <1>1 DEF Request
<1>4. Checked(new) <=> Checked(r)
  BY <1>3 DEF Checked
<1>5. Bounded(new)
  BY <1>3 DEF Bounded
<1> QED
  BY <1>2, <1>3, <1>4, <1>5 DEF Sound

\* What a step may do to the levels: roundings are only added, and explain
\* what the levels promise.
LevelWrites ==
    /\ level' \in [Place -> Level] /\ rounded' \in [Place -> Nat]
    /\ \A k \in Place : LevelKept(k)' /\ rounded[k] <= rounded'[k]

\* The books keep their types and one request stays sound.
StepWrites(c, r) ==
    /\ stock' \in [Product -> Nat] /\ moved' \in [Place -> Int]
    /\ \A p \in Product : Whole(stock'[p])
    /\ LevelWrites
    /\ order' \in [Order -> [status : {"absent", "open", "deleted"}, needs : [Product -> Nat]]]
    /\ held' \in [Order -> [Place -> Nat]]
    /\ \A o \in Order, k \in Place : Whole(held'[o][k])
    /\ behind' \in [Place -> Int] /\ stockBehind' \in [Product -> Int] /\ stockRounded' \in [Product -> Nat]
    /\ overlapped' \in [Product -> BOOLEAN] /\ freed' \in [Product -> BOOLEAN]
    /\ requests' \in 0..MaxRequests
    /\ request' = [request EXCEPT ![c] = r]

\* What the invariant says of a request and of the books.
LEMMA Known ==
    ASSUME StockInv, NEW c \in Clerks
    PROVE  /\ Sound(request[c]) /\ Bounded(request[c])
           /\ request[c] \in Request /\ request \in [Clerks -> Request]
           /\ stock \in [Product -> Nat] /\ level \in [Place -> Level] /\ moved \in [Place -> Int]
           /\ \A k \in Place : LevelKept(k) /\ Kept(level[k]) /\ level[k] \in Level
           /\ \A p \in Product : Whole(stock[p])
           /\ order \in [Order -> [status : {"absent", "open", "deleted"}, needs : [Product -> Nat]]]
           /\ held \in [Order -> [Place -> Nat]]
           /\ \A o \in Order, k \in Place : Whole(held[o][k])
           /\ behind \in [Place -> Int] /\ stockBehind \in [Product -> Int]
           /\ rounded \in [Place -> Nat] /\ stockRounded \in [Product -> Nat]
           /\ overlapped \in [Product -> BOOLEAN] /\ freed \in [Product -> BOOLEAN]
           /\ requests \in 0..MaxRequests
BY DEF StockInv, StockTypeOK, LevelKept

\* What was bounded when it was read still is.
LEMMA StaysBounded ==
    ASSUME NEW r, Sound(r), Bounded(r), rounded \in [Place -> Nat], rounded' \in [Place -> Nat],
           \A k \in Place : rounded[k] <= rounded'[k]
    PROVE  Bounded(r)'
<1> SUFFICES ASSUME r.product # None
             PROVE  /\ Over(r.level) <= Thousandth * rounded'[<<r.product, r.warehouse>>]
                    /\ r.op = "transfer" => Over(r.toLevel) <= Thousandth * rounded'[<<r.product, r.to>>]
  BY DEF Bounded
<1>1. r.product \in Product /\ r.warehouse \in Warehouse /\ (r.op = "transfer" => r.to \in Warehouse)
  BY DEF Sound, Request, StepsOf
<1>2. Over(r.level) \in Int /\ Over(r.toLevel) \in Int
  BY LevelTyped DEF Sound, Request
<1>3. \A w \in Warehouse : /\ rounded[<<r.product, w>>] \in Nat /\ rounded'[<<r.product, w>>] \in Nat
                          /\ rounded[<<r.product, w>>] <= rounded'[<<r.product, w>>]
  BY <1>1 DEF Place
<1>4. /\ Over(r.level) <= 4000 * rounded[<<r.product, r.warehouse>>]
      /\ r.op = "transfer" => Over(r.toLevel) <= 4000 * rounded[<<r.product, r.to>>]
  BY DEF Bounded, Thousandth
<1>5. Over(r.level) <= 4000 * rounded'[<<r.product, r.warehouse>>]
  BY <1>1, <1>2, <1>3, <1>4
<1>6. r.op = "transfer" => Over(r.toLevel) <= 4000 * rounded'[<<r.product, r.to>>]
  BY <1>1, <1>2, <1>3, <1>4
<1> QED
  BY <1>5, <1>6 DEF Thousandth

LEMMA WritesKeep ==
    ASSUME StockInv, NEW c \in Clerks, NEW r, Sound(r), Bounded(r), StepWrites(c, r)
    PROVE  StockInv'
<1>1. request \in [Clerks -> Request] /\ r \in Request /\ rounded \in [Place -> Nat]
  BY DEF StockInv, StockTypeOK, Sound
<1>2. request' \in [Clerks -> Request]
  BY <1>1 DEF StepWrites
<1>3. \A d \in Clerks : request'[d] = IF d = c THEN r ELSE request[d]
  BY <1>1 DEF StepWrites
<1>4. \A d \in Clerks : Sound(request'[d])
  BY <1>3 DEF StockInv
<1>5. \A d \in Clerks : request'[d].step \in {"idle", "order"} <=> request'[d].product = None
  BY <1>4 DEF Sound
<1>6. StockTypeOK'
  BY <1>2, <1>5 DEF StepWrites, LevelWrites, StockTypeOK
<1>7. ASSUME NEW d \in Clerks PROVE Bounded(request[d])' 
  <2>1. PICK x : x = IF d = c THEN r ELSE request[d]
    OBVIOUS
  <2>2. Sound(x) /\ Bounded(x)
    BY <2>1 DEF StockInv
  <2>3. Bounded(x)'
    BY <1>1, <2>2, StaysBounded DEF StepWrites, LevelWrites
  <2>4. request'[d] = x
    BY <1>3, <2>1
  <2> QED
    BY <2>3, <2>4 DEF Bounded
<1>8. \A d \in Clerks : Sound(request[d])'
  BY <1>4 DEF Sound
<1> QED
  BY <1>6, <1>7, <1>8 DEF StockInv, StepWrites, LevelWrites

\* Of a request that is about a product.
LEMMA AtWork ==
    ASSUME NEW r, Sound(r), r.step \notin {"idle", "order"}
    PROVE  /\ r.product \in Product /\ r.warehouse \in Warehouse /\ r.quantity \in Int /\ r.stock \in Nat
           /\ r.level \in Level /\ r.toLevel \in Level /\ Kept(r.level) /\ Kept(r.toLevel)
           /\ <<r.product, r.warehouse>> \in Place
BY DEF Sound, Request, Place

LEMMA NoLevelWritten ==
    ASSUME StockInv, UNCHANGED <<level, rounded>>
    PROVE  LevelWrites
BY DEF StockInv, StockTypeOK, LevelWrites, LevelKept

\* A step that changes its request only.
LEMMA OnlyRequest ==
    ASSUME StockInv, NEW c \in Clerks, NEW r, Sound(r), Bounded(r), request' = [request EXCEPT ![c] = r],
           UNCHANGED <<books, order, held, history, requests>>
    PROVE  StockInv'
<1>1. LevelWrites
  BY NoLevelWritten DEF books, history, roundings
<1>2. StepWrites(c, r)
  BY <1>1, Known DEF StepWrites, books, history, roundings
<1> QED
  BY <1>2, WritesKeep

\* A level that is written from one that was read.
LEMMA OneLevelWritten ==
    ASSUME StockInv, NEW k \in Place, NEW l, NEW q \in Int, Writes(k, l, q),
           NEW base \in Level, Over(base) <= Thousandth * rounded[k], KeepsUp(base, Write(l), q)
    PROVE  LevelWrites
<1> DEFINE W == Write(l)
           n == Rounds(q)
<1>1. /\ level \in [Place -> Level] /\ rounded \in [Place -> Nat] /\ n \in {0, 1}
      /\ W \in Level /\ Kept(W) /\ Over(W) <= Over(base) + Thousandth * n
  BY RoundsTyped DEF StockInv, StockTypeOK, KeepsUp
<1>2. /\ level' = [level EXCEPT ![k] = W]
      /\ rounded' = [rounded EXCEPT ![k] = @ + n]
  BY DEF Writes
<1> HIDE DEF W, n
<1>3. level' \in [Place -> Level] /\ rounded' \in [Place -> Nat]
  BY <1>1, <1>2
<1>4. level'[k] = W /\ rounded'[k] = rounded[k] + n /\ rounded[k] \in Nat
  BY <1>1, <1>2
<1>5. \A j \in Place \ {k} : level'[j] = level[j] /\ rounded'[j] = rounded[j] /\ rounded[j] \in Nat
  BY <1>1, <1>2
<1>6. Over(W) <= Thousandth * rounded'[k]
  <2>1. Over(W) \in Int /\ Over(base) \in Int
    BY <1>1, LevelTyped
  <2> QED
    BY <1>1, <1>4, <2>1 DEF Thousandth
<1>7. ASSUME NEW j \in Place PROVE LevelKept(j)' /\ rounded[j] <= rounded'[j]
  <2>1. CASE j = k
    BY <1>1, <1>4, <1>6, <2>1 DEF LevelKept
  <2>2. CASE j # k
    <3>1. LevelKept(j)
      BY DEF StockInv
    <3> QED
      BY <1>5, <2>2, <3>1 DEF LevelKept
  <2> QED
    BY <2>1, <2>2
<1> QED
  BY <1>3, <1>7 DEF LevelWrites

\* A step that changes its request and the levels.
LEMMA LevelAndRequest ==
    ASSUME StockInv, NEW c \in Clerks, NEW r, Sound(r), Bounded(r), request' = [request EXCEPT ![c] = r],
           LevelWrites, freed' \in [Product -> BOOLEAN],
           UNCHANGED <<stock, moved, order, held, behind, stockBehind, stockRounded, overlapped, requests>>
    PROVE  StockInv'
<1>1. StepWrites(c, r)
  BY Known DEF StepWrites
<1> QED
  BY <1>1, WritesKeep

-----------------------------------------------------------------------------
(* Starting *)

LEMMA StartKeeps ==
    ASSUME StockInv, NEW c \in Clerks, NEW r, Sound(r), Bounded(r), Starts(c, r),
           overlapped' \in [Product -> BOOLEAN]
    PROVE  StockInv'
<1>1. requests' \in 0..MaxRequests
  BY Known, ConstantFacts DEF Starts
<1>2. LevelWrites
  BY NoLevelWritten DEF Starts, books, roundings
<1>3. StepWrites(c, r)
  BY <1>1, <1>2, Known DEF StepWrites, Starts, books, roundings
<1> QED
  BY <1>3, WritesKeep

\* A request that has read no level promises nothing.
LEMMA NothingRead ==
    ASSUME StockInv, NEW r, r.product = None \/ (r.product \in Product /\ r.warehouse \in Warehouse),
           r.level = LevelOf(0), r.op # "transfer"
    PROVE  Bounded(r)
<1> SUFFICES ASSUME r.product # None PROVE Over(r.level) <= Thousandth * rounded[<<r.product, r.warehouse>>]
  BY DEF Bounded
<1>1. rounded[<<r.product, r.warehouse>>] \in Nat
  BY DEF StockInv, StockTypeOK, Place
<1> QED
  BY <1>1, NoLevel DEF Thousandth

LEMMA AboutTyped ==
    ASSUME StockInv, NEW p \in Product, About(p)
    PROVE  overlapped' \in [Product -> BOOLEAN]
BY DEF StockInv, StockTypeOK, About

LEMMA StartStepKeeps ==
    ASSUME StockInv, NEW c \in Clerks, StartStep(c)
    PROVE  StockInv'
<1>1. PICK p \in Product, w \in Warehouse, q \in Quantities :
         \/ \E change \in {0, q} : ReadProduct(c, "adjust", p, w, change)
         \/ \E op \in {"adjust", "issue", "post"} : ReadProduct(c, op, p, w, - q)
         \/ \E to \in Warehouse : ReadSource(c, p, w, to, q)
         \/ \E op \in {"reserve", "release"} : StartReservation(c, op, p, w, q)
  BY DEF StartStep
<1>2. q \in Nat \ {0} /\ q \in Int /\ - q \in Int /\ p # None
  BY ConstantFacts
<1>3. /\ LevelOf(0) \in Level /\ Kept(LevelOf(0)) /\ Over(LevelOf(0)) = 0
      /\ Nothing \in [Product -> Nat]
  BY NoLevel, ConstantFacts
<1>4. /\ stock[p] \in Nat /\ Whole(stock[p])
      /\ \A to \in Warehouse : /\ level[<<p, to>>] \in Level /\ LevelKept(<<p, to>>)
                               /\ Kept(level[<<p, to>>]) /\ rounded[<<p, to>>] \in Nat
  BY Known DEF Place
<1>5. ASSUME NEW op \in {"adjust", "issue", "post"}, NEW n \in Int, ReadProduct(c, op, p, w, n)
      PROVE  StockInv'
  <2> DEFINE r == [NoRequest EXCEPT !.op = op, !.step = "product", !.product = p, !.warehouse = w,
                                    !.quantity = n, !.stock = stock[p]]
  <2>1. /\ r \in Request /\ r.op = op /\ r.step = "product" /\ r.product = p /\ r.warehouse = w
        /\ r.level = LevelOf(0) /\ r.toLevel = LevelOf(0) /\ r.stock = stock[p]
    BY <1>3, <1>4 DEF NoRequest, Request, Operations, Steps
  <2>2. Starts(c, r) /\ About(p)
    BY <1>5 DEF ReadProduct
  <2> HIDE DEF r
  <2>3. r.step \in StepsOf(r.op)
    BY <2>1 DEF StepsOf
  <2>4. Sound(r)
    BY <1>2, <1>3, <1>4, <2>1, <2>3 DEF Sound
  <2>5. Bounded(r)
    BY <2>1, NothingRead
  <2> QED
    BY <2>2, <2>4, <2>5, StartKeeps, AboutTyped
<1>6. ASSUME NEW to \in Warehouse, ReadSource(c, p, w, to, q) PROVE StockInv'
  <2> DEFINE n == - q
             l == level[<<p, w>>]
  <2>1. n \in Int /\ n <= 0 /\ l \in Level /\ Kept(l)
    BY <1>2, <1>4
  <2> DEFINE r == [NoRequest EXCEPT !.op = "transfer", !.step = "source", !.product = p, !.warehouse = w,
                                    !.to = to, !.quantity = n, !.level = l]
  <2>2. Starts(c, r) /\ About(p)
    BY <1>6 DEF ReadSource
  <2> HIDE DEF n, l
  <2>3. /\ r \in Request /\ r.op = "transfer" /\ r.step = "source" /\ r.product = p /\ r.warehouse = w
        /\ r.to = to /\ r.quantity = n /\ r.level = l /\ r.toLevel = LevelOf(0) /\ r.stock = 0
    BY <1>3, <2>1 DEF NoRequest, Request, Operations, Steps
  <2> HIDE DEF r
  <2>4. r.step \in StepsOf(r.op)
    BY <2>3 DEF StepsOf
  <2>5. Sound(r)
    BY <1>2, <1>3, <2>1, <2>3, <2>4, NoStock DEF Sound
  <2>6. Over(l) <= Thousandth * rounded[<<p, w>>] /\ 0 <= Thousandth * rounded[<<p, to>>]
    BY <1>4 DEF LevelKept, Thousandth, l
  <2>7. Bounded(r)
    BY <1>3, <2>3, <2>6 DEF Bounded
  <2> QED
    BY <2>2, <2>5, <2>7, StartKeeps, AboutTyped
<1>7. ASSUME NEW op \in {"reserve", "release"}, StartReservation(c, op, p, w, q) PROVE StockInv'
  <2> DEFINE r == [NoRequest EXCEPT !.op = op, !.step = "picked", !.product = p, !.warehouse = w,
                                    !.quantity = q]
  <2>1. /\ r \in Request /\ r.op = op /\ r.step = "picked" /\ r.product = p /\ r.warehouse = w
        /\ r.quantity = q /\ r.level = LevelOf(0) /\ r.toLevel = LevelOf(0) /\ r.stock = 0
    BY <1>2, <1>3 DEF NoRequest, Request, Operations, Steps
  <2>2. Starts(c, r) /\ About(p)
    BY <1>7 DEF StartReservation
  <2> HIDE DEF r
  <2>3. r.step \in StepsOf(r.op)
    BY <2>1 DEF StepsOf
  <2>4. Sound(r)
    BY <1>2, <1>3, <2>1, <2>3, NoStock DEF Sound
  <2>5. Bounded(r)
    BY <2>1, NothingRead
  <2> QED
    BY <2>2, <2>4, <2>5, StartKeeps, AboutTyped
<1>8. \A change \in {0, q} : change \in Int
  BY <1>2
<1> QED
  BY <1>1, <1>2, <1>5, <1>6, <1>7, <1>8

-----------------------------------------------------------------------------
(* Adjusting, issuing, transferring *)

\* The operation of a request from its step.
LEMMA OpOfStep ==
    ASSUME NEW r, Sound(r)
    PROVE  /\ r.step = "product" => r.op \in {"adjust", "issue", "post"}
           /\ r.step = "stocked" => r.op \in {"adjust", "issue"}
           /\ r.step \in {"source", "in", "sent"} => r.op = "transfer"
           /\ r.step \in {"picked", "order", "row"} => r.op \in {"reserve", "release", "undo"}
           /\ r.step \in {"in", "sent", "stocked", "moved", "checked"} => Checked(r)
<1>1. r.step \in StepsOf(r.op) /\ r.op \in Operations
  BY DEF Sound, Request
<1>2. r.step \in {"in", "sent", "stocked", "moved", "checked"} => Checked(r)
  BY DEF Sound
<1>3. /\ r.step = "product" => r.op \in {"adjust", "issue", "post"}
      /\ r.step = "stocked" => r.op \in {"adjust", "issue"}
      /\ r.step \in {"source", "in", "sent"} => r.op = "transfer"
      /\ r.step \in {"picked", "order", "row"} => r.op \in {"reserve", "release", "undo"}
  BY <1>1 DEF StepsOf, Operations
<1> QED
  BY <1>2, <1>3

\* A request that has read a level and passed the check.
LEMMA ReadsLevel ==
    ASSUME NEW r, Sound(r), r.step \in {"product", "picked"}, NEW l \in Level, Kept(l), NEW new,
           new = [r EXCEPT !.step = "checked", !.level = l], Checked(new),
           Over(l) <= Thousandth * rounded[<<r.product, r.warehouse>>]
    PROVE  Sound(new) /\ Bounded(new)
<1>1. r \in Request
  BY DEF Sound
<1>2. /\ new \in Request /\ new.step = "checked" /\ new.op = r.op /\ new.product = r.product
      /\ new.warehouse = r.warehouse /\ new.to = r.to /\ new.order = r.order
      /\ new.quantity = r.quantity /\ new.stock = r.stock /\ new.level = l /\ new.toLevel = r.toLevel
  BY <1>1 DEF Request, Steps
<1>3. r.op \in {"adjust", "issue", "post", "reserve", "release", "undo"}
  BY OpOfStep
<1>4. new.step \in StepsOf(new.op)
  BY <1>2, <1>3 DEF StepsOf
<1>5. Bounded(new)
  BY <1>2, <1>3 DEF Bounded
<1> QED
  BY <1>2, <1>4, <1>5 DEF Sound

LEMMA CheckLevelKeeps ==
    ASSUME StockInv, NEW c \in Clerks, CheckLevel(c) PROVE StockInv'
<1> DEFINE r == request[c]
           l == level[Here(c)]
           new == [r EXCEPT !.step = "checked", !.level = l]
<1>1. /\ r.step = "product" /\ Enough(c, l) /\ request' = [request EXCEPT ![c] = new]
      /\ UNCHANGED <<books, order, held, history, requests>>
  BY Known DEF CheckLevel
<1>2. Sound(r) /\ r \in Request
  BY Known
<1>3. Here(c) \in Place
  BY <1>1, <1>2, AtWork DEF Here
<1>4. l \in Level /\ Kept(l) /\ Over(l) <= Thousandth * rounded[<<r.product, r.warehouse>>]
  BY <1>3, Known DEF LevelKept, Here
<1>5. r.op \in {"adjust", "issue", "post"}
  BY <1>1, <1>2, OpOfStep
<1> HIDE DEF l
<1>6. Checked(new)
  <2>1. new.op = r.op /\ new.quantity = r.quantity /\ new.stock = r.stock /\ new.level = l
    BY <1>2 DEF Request
  <2>2. r.stock + r.quantity >= 0
    BY <1>1 DEF Enough
  <2>3. r.op = "adjust" => l.quantity + r.quantity >= l.reserved
    BY <1>1 DEF Enough
  <2>4. r.op \in {"issue", "post"} => l.available + r.quantity >= 0
    BY <1>1 DEF Enough
  <2> QED
    BY <1>5, <2>1, <2>2, <2>3, <2>4 DEF Checked
<1>7. Sound(new) /\ Bounded(new)
  BY <1>1, <1>2, <1>4, <1>6, ReadsLevel
<1> QED
  BY <1>1, <1>7, OnlyRequest

\* A movement is recorded, the total or a level written, and the request goes on.
LEMMA GoesOn ==
    ASSUME StockInv, NEW c \in Clerks, NEW s \in {"moved", "stocked", "in", "sent"}, Goes(c, s),
           request[c].step \notin {"idle", "order"}, s \in StepsOf(request[c].op), Checked(request[c]),
           stock' \in [Product -> Nat], \A p \in Product : Whole(stock'[p]), stockRounded' \in [Product -> Nat],
           moved' \in [Place -> Int], LevelWrites,
           UNCHANGED <<order, held, behind, stockBehind, overlapped, freed, requests>>
    PROVE  StockInv'
<1> DEFINE r == request[c]
           new == [r EXCEPT !.step = s]
<1>1. Sound(r) /\ Bounded(r) /\ request' = [request EXCEPT ![c] = new] /\ s \in Steps
  BY Known DEF Goes, Steps
<1>2. Sound(new) /\ Bounded(new)
  BY <1>1, NextStep
<1>3. StepWrites(c, new)
  BY <1>1, Known DEF StepWrites
<1> QED
  BY <1>2, <1>3, WritesKeep

\* A movement of six digits.
LEMMA MovementTyped ==
    ASSUME StockInv, NEW k \in Place, NEW q \in Int, moved' = [moved EXCEPT ![k] = @ + Moves(q)]
    PROVE  moved' \in [Place -> Int]
<1>1. Moves(q) \in Int
  BY RoundsTyped
<1> QED
  BY <1>1, Known DEF StockInv, StockTypeOK

\* A total that was read and, changed by q, is not negative.
LEMMA TotalWritten ==
    ASSUME StockInv, NEW p \in Product, NEW a \in Nat, Whole(a), NEW q \in Int, a + q >= 0,
           WritesStock(p, a + q, q)
    PROVE  /\ stock' \in [Product -> Nat] /\ stockRounded' \in [Product -> Nat]
           /\ \A x \in Product : Whole(stock'[x])
<1> DEFINE y == Stored(a + q)
           n == Rounds(q)
<1>1. stock \in [Product -> Nat] /\ stockRounded \in [Product -> Nat] /\ \A x \in Product : Whole(stock[x])
  BY DEF StockInv, StockTypeOK
<1>2. Whole(y) /\ y >= 0 /\ n \in {0, 1}
  BY StoredWhole, RoundsTyped
<1>3. y \in Nat
  BY <1>2 DEF Whole
<1>4. stock' = [stock EXCEPT ![p] = y] /\ stockRounded' = [stockRounded EXCEPT ![p] = @ + n]
  BY DEF WritesStock
<1> HIDE DEF y, n
<1>5. \A x \in Product : stock'[x] = IF x = p THEN y ELSE stock[x]
  BY <1>1, <1>4
<1> QED
  BY <1>1, <1>2, <1>3, <1>4, <1>5

\* Nothing but the movements changes.
LEMMA OnlyMovement ==
    ASSUME StockInv, UNCHANGED <<stock, level, order, held, history, requests>>
    PROVE  /\ stock' \in [Product -> Nat] /\ \A p \in Product : Whole(stock'[p])
           /\ stockRounded' \in [Product -> Nat] /\ LevelWrites
           /\ UNCHANGED <<order, held, behind, stockBehind, overlapped, freed, requests>>
<1>1. LevelWrites
  BY NoLevelWritten DEF history, roundings
<1> QED
  BY <1>1 DEF StockInv, StockTypeOK, history, roundings

LEMMA MovementsKeep ==
    ASSUME StockInv, NEW c \in Clerks,
           CreateMovement(c) \/ UpdateProductStock(c) \/ MoveOut(c) \/ MoveIn(c) \/ ChangeSource(c)
    PROVE  StockInv'
<1> DEFINE r == request[c]
           q == r.quantity
<1>1. r.step \in {"checked", "moved", "in"}
  BY DEF CreateMovement, UpdateProductStock, MoveOut, MoveIn, ChangeSource
<1>2. Sound(r) /\ Bounded(r) /\ r.step \notin {"idle", "order"} /\ Checked(r)
  BY <1>1, Known, OpOfStep
<1>3. /\ q \in Int /\ r.product \in Product /\ Here(c) \in Place
      /\ r.stock \in Nat /\ Whole(r.stock) /\ r.level \in Level /\ Kept(r.level)
  BY <1>2, AtWork DEF Here, Sound
<1>4. CASE CreateMovement(c)
  <2>1. /\ Goes(c, "moved") /\ r.op \in {"adjust", "issue"}
        /\ moved' = [moved EXCEPT ![Here(c)] = @ + Moves(q)]
        /\ UNCHANGED <<stock, level, order, held, history, requests>>
    BY <1>4 DEF CreateMovement
  <2>2. moved' \in [Place -> Int]
    BY <1>3, <2>1, MovementTyped
  <2>3. "moved" \in StepsOf(r.op)
    BY <2>1 DEF StepsOf
  <2> QED
    BY <1>2, <2>1, <2>2, <2>3, GoesOn, OnlyMovement
<1>5. CASE UpdateProductStock(c)
  <2>1. /\ Goes(c, "stocked") /\ r.op \in {"adjust", "issue"} /\ WritesStock(r.product, r.stock + q, q)
        /\ UNCHANGED <<level, moved, order, held, behind, stockBehind, rounded, overlapped, freed, requests>>
    BY <1>5 DEF UpdateProductStock, NewProductStock
  <2>2. r.stock + q >= 0
    BY <1>2, <2>1 DEF Checked
  <2>3. /\ stock' \in [Product -> Nat] /\ stockRounded' \in [Product -> Nat]
        /\ \A p \in Product : Whole(stock'[p])
    BY <1>3, <2>1, <2>2, TotalWritten
  <2>4. "stocked" \in StepsOf(r.op)
    BY <2>1 DEF StepsOf
  <2>5. LevelWrites /\ moved' \in [Place -> Int]
    BY <2>1, NoLevelWritten, Known
  <2> QED
    BY <1>2, <2>1, <2>3, <2>4, <2>5, GoesOn
<1>6. CASE MoveOut(c)
  <2>1. /\ Goes(c, "moved") /\ r.op = "transfer"
        /\ moved' = [moved EXCEPT ![Here(c)] = @ + Moves(q)]
        /\ UNCHANGED <<stock, level, order, held, history, requests>>
    BY <1>6 DEF MoveOut
  <2>2. moved' \in [Place -> Int]
    BY <1>3, <2>1, MovementTyped
  <2>3. "moved" \in StepsOf(r.op)
    BY <2>1 DEF StepsOf
  <2> QED
    BY <1>2, <2>1, <2>2, <2>3, GoesOn, OnlyMovement
<1>7. CASE MoveIn(c)
  <2>1. /\ Goes(c, "in") /\ r.op = "transfer"
        /\ moved' = [moved EXCEPT ![There(c)] = @ - Moves(q)]
        /\ UNCHANGED <<stock, level, order, held, history, requests>>
    BY <1>7 DEF MoveIn
  <2>2. There(c) \in Place
    BY <1>2, <1>3, <2>1 DEF Sound, There, Place
  <2>3. moved' \in [Place -> Int]
    <3>1. Moves(q) \in Int /\ moved \in [Place -> Int]
      BY <1>3, RoundsTyped, Known
    <3> QED
      BY <2>1, <2>2, <3>1
  <2>4. "in" \in StepsOf(r.op)
    BY <2>1 DEF StepsOf
  <2> QED
    BY <1>2, <2>1, <2>3, <2>4, GoesOn, OnlyMovement
<1>8. CASE ChangeSource(c)
  <2> DEFINE l == Changed(r.level, q)
  <2>1. /\ Goes(c, "sent") /\ r.step = "in" /\ Writes(Here(c), l, q)
        /\ UNCHANGED <<stock, moved, order, held, behind, stockBehind, stockRounded, overlapped, freed, requests>>
    BY <1>8 DEF ChangeSource
  <2>2. r.op = "transfer"
    BY <1>2, <2>1, OpOfStep
  <2>3. r.level.available + q >= 0
    BY <1>2, <2>2 DEF Checked
  <2>4. KeepsUp(r.level, Write(l), q)
    BY <1>3, <2>3, ChangedKept
  <2>5. Over(r.level) <= Thousandth * rounded[Here(c)]
    BY <1>2, <1>3, ConstantFacts DEF Bounded, Here
  <2>6. LevelWrites
    <3> HIDE DEF l
    <3> QED
      BY <1>3, <2>1, <2>4, <2>5, OneLevelWritten
  <2>7. "sent" \in StepsOf(r.op)
    BY <2>2 DEF StepsOf
  <2> QED
    BY <1>2, <2>1, <2>6, <2>7, GoesOn, Known
<1> QED
  BY <1>4, <1>5, <1>6, <1>7, <1>8

\* A request that ends with levels written.
LEMMA EndsWithLevel ==
    ASSUME StockInv, NEW c \in Clerks, Done(c), LevelWrites,
           stock' \in [Product -> Nat], \A p \in Product : Whole(stock'[p]), stockRounded' \in [Product -> Nat],
           moved' \in [Place -> Int],
           UNCHANGED <<order, held, behind, stockBehind, overlapped, freed, requests>>
    PROVE  StockInv'
<1>1. Sound(NoRequest) /\ Bounded(NoRequest) /\ StepWrites(c, NoRequest)
  BY NoRequestSound, Known DEF StepWrites, Done
<1> QED
  BY <1>1, WritesKeep

LEMMA LevelsKeep ==
    ASSUME StockInv, NEW c \in Clerks, ChangeLevel(c) \/ PostIssue(c) \/ ChangeDestination(c)
    PROVE  StockInv'
<1> DEFINE r == request[c]
           q == r.quantity
           l == r.level
<1>1. r.step \in {"checked", "stocked", "sent"}
  BY DEF ChangeLevel, PostIssue, ChangeDestination
<1>2. Sound(r) /\ Bounded(r) /\ r.step \notin {"idle", "order"} /\ Checked(r)
  BY <1>1, Known, OpOfStep
<1>3. /\ q \in Int /\ r.product \in Product /\ Here(c) \in Place /\ r.stock \in Nat /\ Whole(r.stock)
      /\ l \in Level /\ Kept(l) /\ r.toLevel \in Level /\ Kept(r.toLevel)
  BY <1>2, AtWork DEF Here, Sound
<1>4. r.op = "adjust" => KeepsUp(l, Write(Adjusted(l, q)), q)
  BY <1>2, <1>3, AdjustedKept DEF Checked
<1>5. r.op \in {"issue", "post"} => KeepsUp(l, Write(Changed(l, q)), q)
  BY <1>2, <1>3, ChangedKept DEF Checked
<1>6. Over(l) <= Thousandth * rounded[Here(c)]
  BY <1>2, <1>3, ConstantFacts DEF Bounded, Here
<1>7. CASE ChangeLevel(c)
  <2> DEFINE new == IF r.op = "adjust" THEN Adjusted(l, q) ELSE Changed(l, q)
  <2>1. /\ Done(c) /\ r.step = "stocked" /\ Writes(Here(c), new, q)
        /\ UNCHANGED <<stock, moved, order, held, behind, stockBehind, stockRounded, overlapped, freed, requests>>
    BY <1>7 DEF ChangeLevel
  <2>2. r.op \in {"adjust", "issue"}
    BY <1>2, <2>1, OpOfStep
  <2>3. KeepsUp(l, Write(new), q)
    BY <1>4, <1>5, <2>2
  <2> HIDE DEF new
  <2>4. LevelWrites
    BY <1>3, <1>6, <2>1, <2>3, OneLevelWritten
  <2> QED
    BY <2>1, <2>4, EndsWithLevel, Known
<1>8. CASE PostIssue(c)
  <2> DEFINE new == Changed(l, q)
  <2>1. /\ Done(c) /\ r.op = "post" /\ Writes(Here(c), new, q)
        /\ moved' = [moved EXCEPT ![Here(c)] = @ + Moves(q)] /\ WritesStock(r.product, r.stock + q, q)
        /\ UNCHANGED <<order, held, behind, stockBehind, overlapped, freed, requests>>
    BY <1>8 DEF PostIssue, NewProductStock
  <2>2. KeepsUp(l, Write(new), q)
    BY <1>5, <2>1
  <2>3. r.stock + q >= 0
    BY <1>2, <2>1 DEF Checked
  <2>4. /\ stock' \in [Product -> Nat] /\ stockRounded' \in [Product -> Nat]
        /\ \A p \in Product : Whole(stock'[p])
    BY <1>3, <2>1, <2>3, TotalWritten
  <2>5. moved' \in [Place -> Int]
    BY <1>3, <2>1, MovementTyped
  <2> HIDE DEF new
  <2>6. LevelWrites
    BY <1>3, <1>6, <2>1, <2>2, OneLevelWritten
  <2> QED
    BY <2>1, <2>4, <2>5, <2>6, EndsWithLevel
<1>9. CASE ChangeDestination(c)
  <2> DEFINE l2 == r.toLevel
             n == - q
             new == Changed(l2, n)
  <2>1. /\ Done(c) /\ r.step = "sent" /\ Writes(There(c), new, q)
        /\ UNCHANGED <<stock, moved, order, held, behind, stockBehind, stockRounded, overlapped, freed, requests>>
    BY <1>9 DEF ChangeDestination
  <2>2. r.op = "transfer"
    BY <1>2, <2>1, OpOfStep
  <2>3. r.to \in Warehouse /\ q <= 0
    BY <1>2, <2>2 DEF Sound
  <2>4. There(c) \in Place
    BY <1>3, <2>3 DEF There, Place
  <2>5. l2.available + n >= 0 /\ n \in Int
    BY <1>3, <2>3 DEF Level
  <2>6. Rounds(n) = Rounds(q)
    BY <1>3, RoundsTyped
  <2>7. Over(l2) <= Thousandth * rounded[There(c)]
    BY <1>2, <1>3, <2>2, ConstantFacts DEF Bounded, There
  <2>8. l2 \in Level /\ Kept(l2)
    BY <1>3
  <2> HIDE DEF n, l2
  <2>9. KeepsUp(l2, Write(new), n)
    BY <2>5, <2>8, ChangedKept
  <2> HIDE DEF new
  <2>10. KeepsUp(l2, Write(new), q)
    BY <2>6, <2>9 DEF KeepsUp
  <2>11. LevelWrites
    BY <1>3, <2>1, <2>4, <2>7, <2>8, <2>10, OneLevelWritten
  <2> QED
    BY <2>1, <2>11, EndsWithLevel, Known
<1> QED
  BY <1>7, <1>8, <1>9

LEMMA ReadDestinationKeeps ==
    ASSUME StockInv, NEW c \in Clerks, ReadDestination(c) PROVE StockInv'
<1> DEFINE r == request[c]
           l == level[There(c)]
           new == [r EXCEPT !.step = "checked", !.toLevel = l]
<1>1. /\ r.step = "source" /\ r.level.available + r.quantity >= 0
      /\ request' = [request EXCEPT ![c] = new] /\ UNCHANGED <<books, order, held, history, requests>>
  BY Known DEF ReadDestination
<1>2. Sound(r) /\ r \in Request /\ r.op = "transfer"
  BY <1>1, Known, OpOfStep
<1>3. There(c) \in Place
  BY <1>1, <1>2, AtWork DEF There, Place, Sound
<1>4. l \in Level /\ Kept(l) /\ Over(l) <= Thousandth * rounded[<<r.product, r.to>>]
  BY <1>3, Known DEF LevelKept, There
<1> HIDE DEF l
<1>5. /\ new \in Request /\ new.step = "checked" /\ new.op = "transfer" /\ new.product = r.product
      /\ new.warehouse = r.warehouse /\ new.to = r.to /\ new.order = r.order /\ new.stock = r.stock
      /\ new.quantity = r.quantity /\ new.level = r.level /\ new.toLevel = l
  BY <1>2, <1>4 DEF Request, Steps
<1>6. Checked(new)
  BY <1>1, <1>5 DEF Checked
<1>7. new.step \in StepsOf(new.op)
  BY <1>5 DEF StepsOf
<1>8. Sound(new)
  BY <1>1, <1>2, <1>4, <1>5, <1>6, <1>7 DEF Sound
<1>9. Bounded(r)
  BY Known
<1>10. Bounded(new)
  BY <1>4, <1>5, <1>9 DEF Bounded
<1> QED
  BY <1>1, <1>8, <1>10, OnlyRequest

LEMMA FailKeeps ==
    ASSUME StockInv, NEW c \in Clerks, Fail(c) PROVE StockInv'
<1>1. Moves(request[c].quantity) \in Int
  BY Known, RoundsTyped DEF Request
<1>2. \A k : Ahead(c, k) \in Int
  BY <1>1 DEF Ahead
<1>3. AheadOfStock(c) \in Int
  BY <1>1 DEF AheadOfStock
<1>4. behind' \in [Place -> Int]
  BY <1>2, Known DEF Fail
<1>5. stockBehind' \in [Product -> Int]
  BY <1>3, Known DEF Fail
<1>6. freed' \in [Product -> BOOLEAN]
  BY DEF Fail
<1>7. LevelWrites
  BY NoLevelWritten DEF Fail, books, roundings
<1>8. Sound(NoRequest) /\ Bounded(NoRequest) /\ StepWrites(c, NoRequest)
  BY <1>4, <1>5, <1>6, <1>7, NoRequestSound, Known DEF StepWrites, Fail, Done, books, roundings
<1> QED
  BY <1>8, WritesKeep

-----------------------------------------------------------------------------
(* Reserving and releasing *)

\* A request about an order that is to take its next product.
LEMMA OrderRequest ==
    ASSUME NEW op \in {"reserve", "release"}, NEW o \in Order, NEW w \in Warehouse,
           NEW todo \in [Product -> Nat], NEW r,
           r = [NoRequest EXCEPT !.op = op, !.step = "order", !.warehouse = w, !.order = o, !.todo = todo]
    PROVE  Sound(r) /\ Bounded(r)
<1>1. LevelOf(0) \in Level /\ Kept(LevelOf(0)) /\ Whole(0)
  BY NoLevel, NoStock
<1>2. /\ NoRequest \in Request /\ NoRequest.product = None /\ NoRequest.quantity = 0
      /\ NoRequest.level = LevelOf(0) /\ NoRequest.toLevel = LevelOf(0) /\ NoRequest.stock = 0
  BY NoRequestSound DEF NoRequest, Sound
<1>3. op \in Operations /\ "order" \in Steps
  BY DEF Operations, Steps
<1>4. r \in Request /\ r.op = op /\ r.step = "order" /\ r.product = None /\ r.warehouse = w
      /\ r.order = o /\ r.quantity = 0 /\ r.level = LevelOf(0) /\ r.toLevel = LevelOf(0) /\ r.stock = 0
  BY <1>2, <1>3 DEF Request
<1>5. r.step \in StepsOf(r.op)
  BY <1>4 DEF StepsOf
<1>6. Bounded(r)
  BY <1>4 DEF Bounded
<1> QED
  BY <1>1, <1>4, <1>5, <1>6, ConstantFacts DEF Sound

LEMMA StartOrderKeeps ==
    ASSUME StockInv, NEW c \in Clerks, NEW op \in {"reserve", "release"}, NEW o \in Order, NEW w \in Warehouse,
           StartOrder(c, op, o, w)
    PROVE  StockInv'
<1> DEFINE todo == order[o].needs
           r == [NoRequest EXCEPT !.op = op, !.step = "order", !.warehouse = w, !.order = o, !.todo = todo]
<1>1. Starts(c, r) /\ UNCHANGED overlapped
  BY DEF StartOrder
<1>2. todo \in [Product -> Nat]
  BY Known
<1> HIDE DEF todo
<1>3. Sound(r) /\ Bounded(r)
  BY <1>2, OrderRequest
<1> HIDE DEF r
<1> QED
  BY <1>1, <1>3, StartKeeps, Known

LEMMA PickProductKeeps ==
    ASSUME StockInv, NEW c \in Clerks, NEW p \in Product, PickProduct(c, p) PROVE StockInv'
<1> DEFINE r == request[c]
           q == r.todo[p]
           new == [r EXCEPT !.step = "picked", !.product = p, !.quantity = q]
<1>1. /\ r.step = "order" /\ About(p) /\ request' = [request EXCEPT ![c] = new]
      /\ UNCHANGED <<books, order, held, behind, stockBehind, roundings, freed, requests>>
  BY Known DEF PickProduct
<1>2. Sound(r) /\ r \in Request /\ q \in Nat /\ q \in Int
  BY Known DEF Request
<1>3. /\ r.op \in {"reserve", "release"} /\ r.warehouse \in Warehouse /\ p # None
      /\ r.level = LevelOf(0)
  BY <1>1, <1>2, ConstantFacts DEF Sound
<1> HIDE DEF q
<1>4. /\ new \in Request /\ new.step = "picked" /\ new.op = r.op /\ new.product = p
      /\ new.warehouse = r.warehouse /\ new.quantity = q /\ new.level = r.level /\ new.toLevel = r.toLevel
      /\ new.stock = r.stock
  BY <1>2 DEF Request, Steps
<1>5. new.step \in StepsOf(new.op)
  BY <1>3, <1>4 DEF StepsOf
<1>6. Sound(new)
  BY <1>2, <1>3, <1>4, <1>5 DEF Sound
<1>7. LevelWrites
  BY <1>1, NoLevelWritten DEF books, roundings
<1>8. StepWrites(c, new)
  BY <1>1, <1>7, AboutTyped, Known DEF StepWrites, books, roundings
<1>9. Bounded(new)
  BY <1>3, <1>4, NothingRead
<1> QED
  BY <1>6, <1>8, <1>9, WritesKeep

LEMMA ReadLevelKeeps ==
    ASSUME StockInv, NEW c \in Clerks, ReadLevel(c) PROVE StockInv'
<1> DEFINE r == request[c]
           l == level[Here(c)]
           new == [r EXCEPT !.step = "checked", !.level = l]
<1>1. /\ r.step = "picked" /\ request' = [request EXCEPT ![c] = new]
      /\ r.quantity <= IF r.op = "reserve" THEN l.available ELSE l.reserved
      /\ UNCHANGED <<books, order, held, history, requests>>
  BY Known DEF ReadLevel
<1>2. Sound(r) /\ r \in Request /\ r.op \in {"reserve", "release", "undo"}
  BY <1>1, Known, OpOfStep
<1>3. Here(c) \in Place
  BY <1>1, <1>2, AtWork DEF Here
<1>4. l \in Level /\ Kept(l) /\ Over(l) <= Thousandth * rounded[<<r.product, r.warehouse>>]
  BY <1>3, Known DEF LevelKept, Here
<1> HIDE DEF l
<1>5. Checked(new)
  <2>1. new.op = r.op /\ new.quantity = r.quantity /\ new.level = l
    BY <1>2 DEF Request
  <2> QED
    BY <1>1, <1>2, <2>1 DEF Checked
<1>6. Sound(new) /\ Bounded(new)
  BY <1>1, <1>2, <1>4, <1>5, ReadsLevel
<1> QED
  BY <1>1, <1>6, OnlyRequest

LEMMA LevelReservedKeeps ==
    ASSUME StockInv, NEW c \in Clerks, ReserveStock(c) \/ ReleaseStock(c) PROVE StockInv'
<1> DEFINE r == request[c]
           new == [r EXCEPT !.step = "row"]
<1>1. r.step = "checked" /\ r.op \in {"reserve", "release", "undo"}
  BY DEF ReserveStock, ReleaseStock
<1>2. Sound(r) /\ Bounded(r) /\ Checked(r) /\ r.order \in Order \union {None}
  BY <1>1, Known, OpOfStep DEF Request
<1>3. /\ r.quantity \in Int /\ r.quantity >= 0 /\ Here(c) \in Place /\ r.level \in Level /\ Kept(r.level)
  BY <1>1, <1>2, AtWork DEF Here, Sound
<1>4. "row" \in StepsOf(r.op) /\ "row" \in Steps
  BY <1>1 DEF StepsOf, Steps
<1>5. r.op # "undo" /\ r.order # None => Sound(new) /\ Bounded(new)
  BY <1>1, <1>2, <1>4, NextStep
<1>6. PICK n \in Int : /\ Writes(Here(c), Reserved(r.level, n), r.quantity) /\ n \in {r.quantity, - r.quantity}
                       /\ r.level.available - n >= 0 /\ r.level.reserved + n >= 0
  <2>1. CASE ReserveStock(c)
    <3>1. Writes(Here(c), Reserved(r.level, r.quantity), r.quantity) /\ r.op = "reserve"
      BY <2>1 DEF ReserveStock
    <3>2. r.level.available - r.quantity >= 0 /\ r.level.reserved + r.quantity >= 0
      BY <1>2, <1>3, <3>1 DEF Checked, Level
    <3> QED
      BY <1>3, <3>1, <3>2
  <2>2. CASE ReleaseStock(c)
    <3> DEFINE n == - r.quantity
    <3>1. Writes(Here(c), Reserved(r.level, n), r.quantity) /\ r.op \in {"release", "undo"}
      BY <2>2 DEF ReleaseStock
    <3>2. n \in Int /\ r.level.available - n >= 0 /\ r.level.reserved + n >= 0
      BY <1>2, <1>3, <3>1 DEF Checked, Level
    <3>3. n \in {r.quantity, - r.quantity}
      OBVIOUS
    <3> HIDE DEF n
    <3> QED
      BY <3>1, <3>2, <3>3
  <2> QED
    BY <2>1, <2>2
<1>7. LevelWrites
  <2> DEFINE l == Reserved(r.level, n)
  <2>1. KeepsUp(r.level, Write(l), n)
    BY <1>3, <1>6, ReservedKept
  <2>2. Rounds(n) = Rounds(r.quantity)
    BY <1>3, <1>6, RoundsTyped
  <2> HIDE DEF l
  <2>3. KeepsUp(r.level, Write(l), r.quantity)
    BY <2>1, <2>2 DEF KeepsUp
  <2>4. Over(r.level) <= Thousandth * rounded[Here(c)]
    BY <1>1, <1>2, AtWork, ConstantFacts DEF Bounded, Here
  <2> QED
    BY <1>3, <1>6, <2>3, <2>4, OneLevelWritten DEF l
<1>8. /\ freed' \in [Product -> BOOLEAN]
      /\ UNCHANGED <<stock, moved, order, held, behind, stockBehind, stockRounded, overlapped, requests>>
  <2>1. CASE ReserveStock(c)
    BY <2>1, Known DEF ReserveStock
  <2>2. CASE ReleaseStock(c)
    BY <2>2 DEF ReleaseStock
  <2> QED
    BY <2>1, <2>2
<1>9. \/ request' = [request EXCEPT ![c] = NoRequest]
      \/ request' = [request EXCEPT ![c] = new] /\ r.op # "undo" /\ r.order # None
  BY DEF ReserveStock, ReleaseStock, Done, Goes
<1>10. PICK s : Sound(s) /\ Bounded(s) /\ request' = [request EXCEPT ![c] = s]
  <2> HIDE DEF new
  <2> QED
    BY <1>5, <1>9, NoRequestSound
<1> QED
  BY <1>7, <1>8, <1>10, LevelAndRequest

\* After the row of an order the next product, or the end.
LEMMA NextProductSound ==
    ASSUME StockInv, NEW c \in Clerks, request[c].step = "row", NextProduct(c)
    PROVE  \E r : Sound(r) /\ Bounded(r) /\ request' = [request EXCEPT ![c] = r]
<1> DEFINE r == request[c]
           left == [r.todo EXCEPT ![r.product] = 0]
           new == [NoRequest EXCEPT !.op = r.op, !.step = "order", !.warehouse = r.warehouse,
                                    !.order = r.order, !.todo = left]
<1>1. Sound(r) /\ r \in Request
  BY Known
<1>2. r.op \in {"reserve", "release"} /\ r.order \in Order /\ r.warehouse \in Warehouse
  BY <1>1 DEF Sound
<1>3. left \in [Product -> Nat]
  BY <1>1 DEF Request
<1>4. \/ request' = [request EXCEPT ![c] = NoRequest]
      \/ request' = [request EXCEPT ![c] = new]
  BY DEF NextProduct, Done
<1> HIDE DEF left
<1>5. Sound(new) /\ Bounded(new)
  BY <1>2, <1>3, OrderRequest
<1> HIDE DEF new
<1> QED
  BY <1>4, <1>5, NoRequestSound

LEMMA RowsKeep ==
    ASSUME StockInv, NEW c \in Clerks,
           UpsertStockReservation(c) \/ ReleaseStockReservation(c) \/ RollBackReservation(c)
    PROVE  StockInv'
<1>1. request[c].step = "row"
  BY DEF UpsertStockReservation, ReleaseStockReservation, RollBackReservation
<1>2. Sound(request[c]) /\ request[c] \in Request
  BY Known
<1>3. /\ request[c].order \in Order /\ Here(c) \in Place /\ request[c].quantity \in Int
      /\ request[c].quantity >= 0
  BY <1>1, <1>2, AtWork DEF Here, Sound
<1>4. /\ held[request[c].order][Here(c)] \in Nat /\ held[request[c].order] \in [Place -> Nat]
      /\ Whole(held[request[c].order][Here(c)])
  BY <1>3, Known
<1>5. ASSUME NextProduct(c), NEW n \in Nat, Whole(n),
             held' = [held EXCEPT ![request[c].order][Here(c)] = n],
             UNCHANGED <<books, order, history, requests>>
      PROVE  StockInv'
  <2> DEFINE o == request[c].order
             h == Here(c)
  <2>1. held \in [Order -> [Place -> Nat]] /\ o \in Order /\ h \in Place
    BY <1>3, Known
  <2>2. held' = [held EXCEPT ![o][h] = n]
    BY <1>5
  <2>3. \A x \in Order, k \in Place : Whole(held[x][k])
    BY Known
  <2>4. PICK r : Sound(r) /\ Bounded(r) /\ request' = [request EXCEPT ![c] = r]
    BY <1>1, <1>5, NextProductSound
  <2> HIDE DEF o, h
  <2>5. held' \in [Order -> [Place -> Nat]]
    BY <2>1, <2>2
  <2>6. \A x \in Order, k \in Place : held'[x][k] = IF x = o /\ k = h THEN n ELSE held[x][k]
    BY <2>1, <2>2
  <2>7. \A x \in Order, k \in Place : Whole(held'[x][k])
    BY <1>5, <2>3, <2>6
  <2>8. LevelWrites
    BY <1>5, NoLevelWritten DEF books, history, roundings
  <2>9. StepWrites(c, r)
    BY <1>5, <2>4, <2>5, <2>7, <2>8, Known DEF StepWrites, books, history, roundings
  <2> QED
    BY <2>4, <2>9, WritesKeep
<1>6. CASE UpsertStockReservation(c)
  <2> DEFINE n == held[request[c].order][Here(c)] + Stored(request[c].quantity)
  <2>1. /\ NextProduct(c) /\ held' = [held EXCEPT ![request[c].order][Here(c)] = n]
        /\ UNCHANGED <<books, order, history, requests>>
    BY <1>6 DEF UpsertStockReservation
  <2>2. n \in Nat /\ Whole(n)
    <3>1. Stored(request[c].quantity) >= 0 /\ Whole(Stored(request[c].quantity))
      BY <1>3, StoredWhole
    <3> QED
      BY <1>4, <3>1, WholeNumbers
  <2> HIDE DEF n
  <2> QED
    BY <1>5, <2>1, <2>2
<1>7. CASE ReleaseStockReservation(c)
  <2> DEFINE n == Stored(held[request[c].order][Here(c)] - request[c].quantity)
  <2>1. /\ NextProduct(c) /\ held' = [held EXCEPT ![request[c].order][Here(c)] = n]
        /\ held[request[c].order][Here(c)] >= request[c].quantity
        /\ UNCHANGED <<books, order, history, requests>>
    BY <1>7 DEF ReleaseStockReservation, RowReleased
  <2>2. n \in Nat /\ Whole(n)
    <3> DEFINE x == held[request[c].order][Here(c)] - request[c].quantity
    <3>1. x \in Int /\ x >= 0
      BY <1>3, <1>4, <2>1
    <3>2. n >= 0 /\ Whole(n)
      BY <3>1, StoredWhole
    <3> QED
      BY <3>2 DEF Whole
  <2> HIDE DEF n
  <2> QED
    BY <1>5, <2>1, <2>2
<1>8. CASE RollBackReservation(c)
  <2> DEFINE r == request[c]
             new == [r EXCEPT !.op = "undo", !.step = "picked"]
  <2>1. request' = [request EXCEPT ![c] = new] /\ UNCHANGED <<books, order, held, history, requests>>
    BY <1>8, Known DEF RollBackReservation
  <2>2. /\ new \in Request /\ new.op = "undo" /\ new.step = "picked" /\ new.product = r.product
        /\ new.warehouse = r.warehouse /\ new.quantity = r.quantity /\ new.level = r.level
        /\ new.toLevel = r.toLevel /\ new.stock = r.stock
    BY <1>2 DEF Request, Operations, Steps
  <2>3. new.step \in StepsOf(new.op)
    BY <2>2 DEF StepsOf
  <2>4. Sound(new)
    BY <1>1, <1>2, <1>3, <2>2, <2>3 DEF Sound
  <2>5. Bounded(r)
    BY Known
  <2>6. Bounded(new)
    BY <2>2, <2>5 DEF Bounded
  <2> QED
    BY <2>1, <2>4, <2>6, OnlyRequest
<1> QED
  BY <1>6, <1>7, <1>8

-----------------------------------------------------------------------------
(* Orders *)

LEMMA OrderStepKeeps ==
    ASSUME StockInv, OrderStep PROVE StockInv'
<1>1. PICK o \in Order : DeleteOrder(o) \/ \E needs \in Needs : CreateOrder(o, needs) \/ UpdateOrder(o, needs)
  BY DEF OrderStep
<1>2. UNCHANGED <<books, request, history, requests>>
  BY <1>1 DEF DeleteOrder, CreateOrder, UpdateOrder
<1>3. /\ order \in [Order -> [status : {"absent", "open", "deleted"}, needs : [Product -> Nat]]]
      /\ held \in [Order -> [Place -> Nat]] /\ \A x \in Order, k \in Place : Whole(held[x][k])
  BY DEF StockInv, StockTypeOK
<1>4. /\ order' \in [Order -> [status : {"absent", "open", "deleted"}, needs : [Product -> Nat]]]
      /\ held' \in [Order -> [Place -> Nat]] /\ \A x \in Order, k \in Place : Whole(held'[x][k])
  <2>1. CASE DeleteOrder(o)
    <3> DEFINE row == [status |-> "deleted", needs |-> Nothing]
               none == [k \in Place |-> 0]
    <3>1. /\ row \in [status : {"absent", "open", "deleted"}, needs : [Product -> Nat]] /\ none \in [Place -> Nat]
          /\ \A k \in Place : Whole(none[k])
      BY ConstantFacts, NoStock
    <3>2. order' = [order EXCEPT ![o] = row] /\ held' = [held EXCEPT ![o] = none]
      BY <2>1 DEF DeleteOrder
    <3> HIDE DEF row, none
    <3>3. \A x \in Order : held'[x] = IF x = o THEN none ELSE held[x]
      BY <1>3, <3>2
    <3>4. \A x \in Order, k \in Place : Whole(held'[x][k])
      BY <1>3, <3>1, <3>3
    <3> QED
      BY <1>3, <3>1, <3>2, <3>4
  <2>2. ASSUME NEW needs \in Needs, CreateOrder(o, needs) \/ UpdateOrder(o, needs)
        PROVE  /\ order' \in [Order -> [status : {"absent", "open", "deleted"}, needs : [Product -> Nat]]]
               /\ held' \in [Order -> [Place -> Nat]] /\ \A x \in Order, k \in Place : Whole(held'[x][k])
    <3>1. held' = held
      BY <2>2 DEF CreateOrder, UpdateOrder
    <3>2. needs \in [Product -> Nat]
      BY ConstantFacts
    <3>3. CASE CreateOrder(o, needs)
      BY <1>3, <3>1, <3>2, <3>3 DEF CreateOrder
    <3>4. CASE UpdateOrder(o, needs)
      BY <1>3, <3>1, <3>2, <3>4 DEF UpdateOrder
    <3> QED
      BY <2>2, <3>3, <3>4
  <2> QED
    BY <1>1, <2>1, <2>2
<1>5. StockTypeOK'
  BY <1>2, <1>4 DEF StockInv, StockTypeOK, books, history, roundings
<1>6. \A k \in Place : LevelKept(k)'
  BY <1>2 DEF StockInv, LevelKept, books, history, roundings
<1>7. \A c \in Clerks : (Sound(request[c]) /\ Bounded(request[c]))'
  BY <1>2 DEF StockInv, Bounded, history, roundings
<1> QED
  BY <1>2, <1>4, <1>5, <1>6, <1>7 DEF StockInv, books

-----------------------------------------------------------------------------
(* The invariant *)

LEMMA StockStarts == Init => StockInv
<1> SUFFICES ASSUME Init PROVE StockInv
  OBVIOUS
<1>1. moved \in [Place -> Nat] /\ \A k \in Place : Whole(moved[k])
  <2>1. \A p \in Product : Opening[p] \in Nat /\ Whole(Opening[p])
    BY StockAssumption DEF Whole
  <2>2. \A k \in Place : k[1] \in Product
    BY DEF Place
  <2>3. \A k \in Place : moved[k] = IF k[2] = Main THEN Opening[k[1]] ELSE 0
    BY DEF Init
  <2>4. moved \in [Place -> Nat]
    BY <2>1, <2>2 DEF Init
  <2> QED
    BY <2>1, <2>2, <2>3, <2>4, NoStock
<1>2. \A k \in Place : /\ LevelOf(moved[k]) \in Level /\ Kept(LevelOf(moved[k]))
                        /\ Over(LevelOf(moved[k])) = 0
  BY <1>1, NewLevel
<1>3. /\ level \in [Place -> Level] /\ rounded \in [Place -> Nat] /\ stockRounded \in [Product -> Nat]
      /\ \A k \in Place : Kept(level[k]) /\ Over(level[k]) = 0 /\ rounded[k] = 0
  BY <1>2 DEF Init
<1>4. \A c \in Clerks : request[c] = NoRequest
  BY DEF Init
<1>5. request \in [Clerks -> Request] /\ \A c \in Clerks : Sound(request[c]) /\ Bounded(request[c])
  BY <1>4, NoRequestSound DEF Init, Sound
<1>6. \A c \in Clerks : request[c].step \in {"idle", "order"} <=> request[c].product = None
  BY <1>4, NoRequestSound
<1>7. /\ order \in [Order -> [status : {"absent", "open", "deleted"}, needs : [Product -> Nat]]]
      /\ held \in [Order -> [Place -> Nat]] /\ stock \in [Product -> Nat]
      /\ behind \in [Place -> Int] /\ stockBehind \in [Product -> Int]
      /\ overlapped \in [Product -> BOOLEAN] /\ freed \in [Product -> BOOLEAN]
      /\ requests \in 0..MaxRequests /\ moved \in [Place -> Int]
  BY <1>1, ConstantFacts, StockAssumption DEF Init
<1>8. StockTypeOK
  BY <1>3, <1>5, <1>6, <1>7 DEF StockTypeOK
<1>9. \A k \in Place : LevelKept(k)
  BY <1>3 DEF LevelKept, Thousandth
<1>10. \A p \in Product : Whole(stock[p])
  BY StockAssumption DEF Init, Whole
<1>11. \A o \in Order, k \in Place : Whole(held[o][k])
  BY NoStock DEF Init
<1> QED
  BY <1>5, <1>8, <1>9, <1>10, <1>11 DEF StockInv

LEMMA StockKeeps ==
    ASSUME StockInv, [Next]_vars PROVE StockInv'
<1>1. CASE OrderStep
  BY <1>1, OrderStepKeeps
<1>2. ASSUME NEW c \in Clerks, StartStep(c) PROVE StockInv'
  BY <1>2, StartStepKeeps
<1>3. ASSUME NEW c \in Clerks, Fail(c) PROVE StockInv'
  BY <1>3, FailKeeps
<1>4. ASSUME NEW c \in Clerks, MoveStep(c) PROVE StockInv'
  <2>1. CASE CheckLevel(c)
    BY <2>1, CheckLevelKeeps
  <2>2. CASE CreateMovement(c) \/ UpdateProductStock(c) \/ MoveOut(c) \/ MoveIn(c) \/ ChangeSource(c)
    BY <2>2, MovementsKeep
  <2>3. CASE ChangeLevel(c) \/ PostIssue(c) \/ ChangeDestination(c)
    BY <2>3, LevelsKeep
  <2>4. CASE ReadDestination(c)
    BY <2>4, ReadDestinationKeeps
  <2> QED
    BY <1>4, <2>1, <2>2, <2>3, <2>4 DEF MoveStep
<1>5. ASSUME NEW c \in Clerks, ReservationStep(c) PROVE StockInv'
  <2>1. ASSUME NEW op \in {"reserve", "release"}, NEW o \in Order, NEW w \in Warehouse, StartOrder(c, op, o, w)
        PROVE  StockInv'
    BY <2>1, StartOrderKeeps
  <2>2. ASSUME NEW p \in Product, PickProduct(c, p) PROVE StockInv'
    BY <2>2, PickProductKeeps
  <2>3. CASE ReadLevel(c)
    BY <2>3, ReadLevelKeeps
  <2>4. CASE ReserveStock(c) \/ ReleaseStock(c)
    BY <2>4, LevelReservedKeeps
  <2>5. CASE UpsertStockReservation(c) \/ RollBackReservation(c) \/ ReleaseStockReservation(c)
    BY <2>5, RowsKeep
  <2> QED
    BY <1>5, <2>1, <2>2, <2>3, <2>4, <2>5 DEF ReservationStep
<1>6. CASE UNCHANGED vars
  <2>1. /\ UNCHANGED <<stock, level, moved, order, held, request, behind, stockBehind, rounded>>
        /\ UNCHANGED <<stockRounded, overlapped, freed, requests>>
    BY <1>6 DEF vars, books, history, roundings
  <2>2. StockTypeOK'
    BY <2>1 DEF StockInv, StockTypeOK
  <2>3. \A k \in Place : LevelKept(k)'
    BY <2>1 DEF StockInv, LevelKept
  <2>4. \A c \in Clerks : (Sound(request[c]) /\ Bounded(request[c]))'
    BY <2>1 DEF StockInv, Bounded
  <2> QED
    BY <2>1, <2>2, <2>3, <2>4 DEF StockInv
<1> QED
  BY <1>1, <1>2, <1>3, <1>4, <1>5, <1>6 DEF Next

LEMMA StockInvariant == Spec => []StockInv
BY StockStarts, StockKeeps, PTL DEF Spec

\* No total, reservation or available quantity is ever negative, whatever the
\* requests (the quantity of a level may be, by what its columns were rounded
\* apart), and each request has read what its step needs
\* (inventory/service.go:1226-1235, 1909, 1953).
THEOREM StockTypes == Spec => []StockTypeOK
<1>1. StockInv => StockTypeOK
  BY DEF StockInv
<1> QED
  BY <1>1, StockInvariant, PTL

\* Every level adds up, but for a thousandth each time it was written for a
\* fraction of one, for any quantities and any number of requests that
\* interleave, stop anywhere and write over each other
\* (inventory/service.go:1230, 1274, 1909, 1953; migrations/016_inventory.up.sql:87-89).
THEOREM LevelsAddUp == Spec => []LevelAddsUp
<1>1. StockInv => LevelAddsUp
  BY DEF StockInv, LevelAddsUp, LevelKept, Kept, Over
<1> QED
  BY <1>1, StockInvariant, PTL

-----------------------------------------------------------------------------
(* One request at a time *)

\* Ahead, AheadOfStock and HeldAt, of any request and any rows.
Run(r, k) ==
    CASE r.op \in {"adjust", "issue"} /\ r.step \in {"moved", "stocked"}
           /\ k = <<r.product, r.warehouse>> -> Moves(r.quantity)
      [] r.op = "transfer" /\ r.step \in {"moved", "in"} /\ k = <<r.product, r.warehouse>> -> Moves(r.quantity)
      [] r.op = "transfer" /\ r.step \in {"in", "sent"} /\ k = <<r.product, r.to>> -> - Moves(r.quantity)
      [] OTHER -> 0

RunStock(r) ==
    IF r.op \in {"adjust", "issue", "transfer"} /\ r.step = "moved"
    THEN Moves(r.quantity) ELSE 0

HeldOf(h, k) == SumFunctionOnSet([o \in Order |-> h[o][k]], Order)

\* What a level has reserved beyond the rows: for a row that is still to be
\* written, less what was released and is still in its row.
Claims(r, k) ==
    CASE k = <<r.product, r.warehouse>> /\ r.op = "reserve" /\ r.step = "row" -> Stored(r.quantity)
      [] k = <<r.product, r.warehouse>> /\ r.op = "undo" -> Stored(r.quantity)
      [] k = <<r.product, r.warehouse>> /\ r.op = "release" /\ r.step = "row" -> - LevelReleased(r.quantity)
      [] OTHER -> 0

\* What request r has read of product p is still so.
Fresh(p, r) ==
    /\ r.op \in {"adjust", "issue", "post"} /\ r.step \in {"product", "checked", "moved"} => r.stock = stock[p]
    /\ r.step \in {"checked", "moved", "stocked", "source", "in"} => r.level = level[<<p, r.warehouse>>]
    /\ r.op = "transfer" => r.to # r.warehouse
    /\ r.op = "transfer" /\ r.step \in {"checked", "moved", "in", "sent"} => r.toLevel = level[<<p, r.to>>]

\* What moved is what is written, and what was not or is still to be, but for roundings.
Trails(x, written, stopped, run, times) == Within(x, written + stopped + run, times)

LevelFollows(p, r, w) ==
    Trails(moved[<<p, w>>], level[<<p, w>>].quantity, behind[<<p, w>>], Run(r, <<p, w>>), rounded[<<p, w>>])

LevelsFollow(p, r) == \A w \in Warehouse : LevelFollows(p, r, w)

TotalFollows(p, r) == Trails(InStock(moved, p), stock[p], stockBehind[p], RunStock(r), stockRounded[p])

RowsFollow(p, r) ==
    ~freed[p] => \A w \in Warehouse : HeldOf(held, <<p, w>>) + Claims(r, <<p, w>>) <= level[<<p, w>>].reserved

Follows(p, r) == Fresh(p, r) /\ LevelsFollow(p, r) /\ TotalFollows(p, r) /\ RowsFollow(p, r)

\* r is the one request about p, if there is one.
Alone(p, r) ==
    \/ Busy(p) = {} /\ r = NoRequest
    \/ \E c \in Clerks : Busy(p) = {c} /\ r = request[c]

ProductsInv == \A p \in Product : ~overlapped[p] => \E r : Alone(p, r) /\ Follows(p, r)

LEMMA TrailsMoves ==
    ASSUME NEW x \in Int, NEW y \in Int, NEW b \in Int, NEW run \in Int, NEW n \in Int, NEW d \in Int,
           Trails(x, y, b, run, n)
    PROVE  Trails(x + d, y, b, run + d, n)
BY SMT DEF Trails, Within, Thousandth, Millionth

\* A column that is y is written as new for a movement of g.
Near(y, g, new, times) == Within(y + g, new, times)

\* What is written catches up with the movements: run was still to be written,
\* and rest will be.
LEMMA CatchesUp ==
    ASSUME NEW x \in Int, NEW x2 \in Int, NEW y \in Int, NEW new \in Int, NEW b \in Int,
           NEW m \in Int, NEW m2 \in Int, NEW n \in Int, NEW run \in Int, NEW rest \in Int, NEW g \in Int,
           Trails(x, y, b, run, m), Near(y, g, new, n), x2 - x + run = g + rest, m2 = m + n
    PROVE  Trails(x2, new, b, rest, m2)
<1>1. Within(x, y + b + run, m) /\ Within(y + g, new, n)
  BY DEF Trails, Near
<1>2. Within(x2, new + b + rest, m + n)
  BY <1>1, SMT DEF Within, Thousandth, Millionth
<1> QED
  BY <1>2 DEF Trails

LEMMA WithinItself ==
    ASSUME NEW x \in Int, NEW n \in Nat PROVE Within(x, x, n)
BY SMT DEF Within, Thousandth, Millionth

-----------------------------------------------------------------------------
(* Sums over the places of a product, and over the orders *)

LEMMA MovedSum ==
    ASSUME NEW f \in [Place -> Int], NEW g \in [Place -> Int],
           NEW p \in Product, NEW w \in Warehouse, NEW q \in Int,
           g[<<p, w>>] = f[<<p, w>>] + q,
           \A k \in Place : k # <<p, w>> => g[k] = f[k]
    PROVE  /\ InStock(g, p) = InStock(f, p) + q
           /\ \A o \in Product \ {p} : InStock(g, o) = InStock(f, o)
           /\ \A o \in Product : InStock(f, o) \in Int
<1>0. IsFiniteSet(Warehouse)
  BY StockAssumption
<1>1. \A o \in Product, v \in Warehouse : <<o, v>> \in Place
  BY DEF Place
<1>2. g \in [Place -> Int]
  OBVIOUS
<1>3. /\ g[<<p, w>>] = f[<<p, w>>] + q
      /\ \A v \in Warehouse \ {w} : g[<<p, v>>] = f[<<p, v>>]
      /\ \A o \in Product \ {p}, v \in Warehouse : g[<<o, v>>] = f[<<o, v>>]
  BY <1>1
<1>4. ASSUME NEW o \in Product PROVE InStock(f, o) \in Int
  <2> DEFINE a == [v \in Warehouse |-> f[<<o, v>>]]
  <2>1. \A v \in Warehouse : a[v] \in Int
    BY <1>1
  <2> HIDE DEF a
  <2>2. SumFunctionOnSet(a, Warehouse) \in Int
    BY <1>0, <2>1, SumTyped
  <2> QED
    BY <2>2 DEF InStock, a
<1>5. InStock(g, p) = InStock(f, p) + q
  <2> DEFINE a == [v \in Warehouse |-> f[<<p, v>>]]
             b == [v \in Warehouse |-> g[<<p, v>>]]
  <2>1. /\ \A v \in Warehouse : a[v] \in Int /\ b[v] \in Int
        /\ \A v \in Warehouse \ {w} : b[v] = a[v]
        /\ b[w] = a[w] + q
    BY <1>1, <1>2, <1>3
  <2> HIDE DEF a, b
  <2>2. SumFunctionOnSet(b, Warehouse) = SumFunctionOnSet(a, Warehouse) - a[w] + b[w]
    BY <1>0, <2>1, SumChange
  <2>3. SumFunctionOnSet(a, Warehouse) \in Int /\ SumFunctionOnSet(a, Warehouse) = InStock(f, p)
    BY <1>0, <2>1, SumTyped DEF InStock, a
  <2>4. SumFunctionOnSet(b, Warehouse) = InStock(g, p)
    BY DEF InStock, b
  <2> QED
    BY <2>1, <2>2, <2>3, <2>4
<1>6. ASSUME NEW o \in Product \ {p} PROVE InStock(g, o) = InStock(f, o)
  <2> DEFINE a == [v \in Warehouse |-> f[<<o, v>>]]
             b == [v \in Warehouse |-> g[<<o, v>>]]
  <2>1. \A v \in Warehouse : b[v] = a[v]
    BY <1>3
  <2> HIDE DEF a, b
  <2>2. SumFunctionOnSet(b, Warehouse) = SumFunctionOnSet(a, Warehouse)
    BY <1>0, <2>1, SumEqual
  <2> QED
    BY <2>2 DEF InStock, a, b
<1> QED
  BY <1>4, <1>5, <1>6

\* A row changes what is held at its place only.
LEMMA HeldSum ==
    ASSUME NEW h \in [Order -> [Place -> Nat]], NEW g \in [Order -> [Place -> Nat]],
           NEW o \in Order, NEW k \in Place,
           \A i \in Order, j \in Place : i # o \/ j # k => g[i][j] = h[i][j]
    PROVE  /\ HeldOf(g, k) = HeldOf(h, k) - h[o][k] + g[o][k]
           /\ \A j \in Place \ {k} : HeldOf(g, j) = HeldOf(h, j)
<1>0. IsFiniteSet(Order)
  BY StockAssumption
<1>1. \A i \in Order, j \in Place \ {k} : g[i][j] = h[i][j]
  OBVIOUS
<1>2. \A i \in Order : g[i][k] \in Int /\ h[i][k] \in Int /\ (i # o => g[i][k] = h[i][k])
  OBVIOUS
<1>3. HeldOf(g, k) = HeldOf(h, k) - h[o][k] + g[o][k]
  <2> DEFINE a == [i \in Order |-> h[i][k]]
             b == [i \in Order |-> g[i][k]]
  <2>1. /\ \A i \in Order : a[i] \in Int /\ b[i] \in Int
        /\ \A i \in Order \ {o} : b[i] = a[i]
        /\ a[o] = h[o][k] /\ b[o] = g[o][k]
    BY <1>2
  <2> HIDE DEF a, b
  <2>2. SumFunctionOnSet(b, Order) = SumFunctionOnSet(a, Order) - a[o] + b[o]
    BY <1>0, <2>1, SumChange
  <2> QED
    BY <2>1, <2>2 DEF HeldOf, a, b
<1>4. ASSUME NEW j \in Place \ {k} PROVE HeldOf(g, j) = HeldOf(h, j)
  <2> DEFINE a == [i \in Order |-> h[i][j]]
             b == [i \in Order |-> g[i][j]]
  <2>1. \A i \in Order : b[i] = a[i]
    BY <1>1
  <2> HIDE DEF a, b
  <2>2. SumFunctionOnSet(b, Order) = SumFunctionOnSet(a, Order)
    BY <1>0, <2>1, SumEqual
  <2> QED
    BY <2>2 DEF HeldOf, a, b
<1> QED
  BY <1>3, <1>4

LEMMA HeldTyped ==
    ASSUME NEW h \in [Order -> [Place -> Nat]], NEW k \in Place
    PROVE  HeldOf(h, k) \in Nat
<1> DEFINE a == [i \in Order |-> h[i][k]]
<1>1. IsFiniteSet(Order) /\ \A i \in Order : a[i] \in Nat
  BY StockAssumption
<1> HIDE DEF a
<1>2. SumFunctionOnSet(a, Order) \in Nat
  BY <1>1, SumNatural
<1> QED
  BY <1>2 DEF HeldOf, a

\* The rows of an order that is deleted go with it.
LEMMA HeldFalls ==
    ASSUME NEW h \in [Order -> [Place -> Nat]], NEW o \in Order, NEW k \in Place, NEW g,
           g = [h EXCEPT ![o] = [j \in Place |-> 0]]
    PROVE  HeldOf(g, k) <= HeldOf(h, k) /\ HeldOf(g, k) \in Int
<1> DEFINE a == [i \in Order |-> h[i][k]]
           b == [i \in Order |-> g[i][k]]
<1>1. IsFiniteSet(Order)
  BY StockAssumption
<1>2. /\ \A i \in Order : a[i] \in Int /\ b[i] \in Int
      /\ \A i \in Order \ {o} : b[i] = a[i]
      /\ b[o] = 0 /\ a[o] >= 0
  OBVIOUS
<1> HIDE DEF a, b
<1>3. SumFunctionOnSet(b, Order) = SumFunctionOnSet(a, Order) - a[o] + b[o]
  BY <1>1, <1>2, SumChange
<1>4. SumFunctionOnSet(a, Order) \in Int
  BY <1>1, <1>2, SumTyped
<1> QED
  BY <1>2, <1>3, <1>4 DEF HeldOf, a, b

-----------------------------------------------------------------------------
(* What a step leaves alone *)

\* Nothing of product p changes but that less may be held of it.
Spared(p) ==
    /\ stock'[p] = stock[p] /\ stockBehind'[p] = stockBehind[p] /\ (freed[p] => freed'[p])
    /\ InStock(moved', p) = InStock(moved, p) /\ stockRounded'[p] = stockRounded[p]
    /\ \A w \in Warehouse :
          /\ level'[<<p, w>>] = level[<<p, w>>] /\ moved'[<<p, w>>] = moved[<<p, w>>]
          /\ behind'[<<p, w>>] = behind[<<p, w>>] /\ rounded'[<<p, w>>] = rounded[<<p, w>>]
          /\ HeldOf(held', <<p, w>>) <= HeldOf(held, <<p, w>>) /\ HeldOf(held', <<p, w>>) \in Int

LEMMA TotalNumbers ==
    ASSUME StockInv, NEW p \in Product
    PROVE  /\ stock[p] \in Int /\ Whole(stock[p]) /\ stockBehind[p] \in Int /\ stockRounded[p] \in Int
           /\ InStock(moved, p) \in Int
<1> DEFINE f == [v \in Warehouse |-> moved[<<p, v>>]]
<1>1. IsFiniteSet(Warehouse) /\ \A v \in Warehouse : f[v] \in Int
  BY StockAssumption DEF StockInv, StockTypeOK, Place
<1> HIDE DEF f
<1>2. SumFunctionOnSet(f, Warehouse) \in Int
  BY <1>1, SumTyped
<1>3. InStock(moved, p) \in Int
  BY <1>2 DEF InStock, f
<1> QED
  BY <1>3 DEF StockInv, StockTypeOK

LEMMA NumbersKnown ==
    ASSUME StockInv, NEW p \in Product, NEW w \in Warehouse
    PROVE  /\ <<p, w>> \in Place
           /\ level[<<p, w>>] \in Level /\ level[<<p, w>>].reserved \in Int /\ level[<<p, w>>].quantity \in Int
           /\ moved[<<p, w>>] \in Int /\ behind[<<p, w>>] \in Int /\ stock[p] \in Int /\ stockBehind[p] \in Int
           /\ HeldOf(held, <<p, w>>) \in Int /\ HeldOf(held, <<p, w>>) \in Nat
           /\ rounded[<<p, w>>] \in Int /\ stockRounded[p] \in Int /\ InStock(moved, p) \in Int
<1>1. <<p, w>> \in Place
  BY DEF Place
<1>2. level \in [Place -> Level] /\ held \in [Order -> [Place -> Nat]]
  BY DEF StockInv, StockTypeOK
<1>3. HeldOf(held, <<p, w>>) \in Nat
  BY <1>1, <1>2, HeldTyped
<1>4. level[<<p, w>>] \in Level
  BY <1>1, <1>2
<1>5. level[<<p, w>>].reserved \in Int /\ level[<<p, w>>].quantity \in Int
  BY <1>4 DEF Level
<1>6. moved[<<p, w>>] \in Int /\ behind[<<p, w>>] \in Int /\ stock[p] \in Int /\ stockBehind[p] \in Int
  BY <1>1 DEF StockInv, StockTypeOK
<1>7. rounded[<<p, w>>] \in Int /\ stockRounded[p] \in Int
  BY <1>1 DEF StockInv, StockTypeOK
<1>8. InStock(moved, p) \in Int
  BY TotalNumbers
<1> QED
  BY <1>1, <1>3, <1>4, <1>5, <1>6, <1>7, <1>8

LEMMA RunTyped ==
    ASSUME NEW r, Sound(r)
    PROVE  /\ \A k : Run(r, k) \in Int /\ Claims(r, k) \in Int
           /\ RunStock(r) \in Int
<1>1. /\ Moves(r.quantity) \in Int /\ - Moves(r.quantity) \in Int
      /\ Stored(r.quantity) \in Int /\ - LevelReleased(r.quantity) \in Int
  <2>1. r.quantity \in Int
    BY DEF Sound, Request
  <2>2. LevelReleased(r.quantity) \in Int
    BY <2>1, SMT DEF LevelReleased, Nearest, Thousandth
  <2> QED
    BY <2>1, <2>2, RoundsTyped, StoredWhole DEF Whole
<1>2. \A k : Run(r, k) \in Int
  BY <1>1 DEF Run
<1>3. \A k : Claims(r, k) \in Int
  BY <1>1 DEF Claims
<1> QED
  BY <1>1, <1>2, <1>3 DEF RunStock

LEMMA SparedFollows ==
    ASSUME StockInv, NEW p \in Product, NEW r, Sound(r), Follows(p, r), Spared(p)
    PROVE  Follows(p, r)'
<1>1. Fresh(p, r)'
  <2>1. r.step # "idle" => r.warehouse \in Warehouse
    BY DEF Sound
  <2>2. r.op = "transfer" => r.to \in Warehouse
    BY DEF Sound
  <2> QED
    BY <2>1, <2>2 DEF Follows, Fresh, Spared
<1>2. LevelsFollow(p, r)'
  BY DEF Follows, LevelsFollow, LevelFollows, Spared
<1>3. TotalFollows(p, r)'
  BY DEF Follows, TotalFollows, Spared
<1>4. RowsFollow(p, r)'
  <2> SUFFICES ASSUME ~freed'[p], NEW w \in Warehouse
               PROVE  HeldOf(held', <<p, w>>) + Claims(r, <<p, w>>) <= level'[<<p, w>>].reserved
    BY DEF RowsFollow
  <2>1. HeldOf(held, <<p, w>>) + Claims(r, <<p, w>>) <= level[<<p, w>>].reserved
    BY DEF Spared, Follows, RowsFollow
  <2>2. HeldOf(held', <<p, w>>) <= HeldOf(held, <<p, w>>) /\ HeldOf(held', <<p, w>>) \in Int
    BY DEF Spared
  <2>3. level'[<<p, w>>].reserved = level[<<p, w>>].reserved
    BY DEF Spared
  <2>4. Claims(r, <<p, w>>) \in Int
    BY RunTyped
  <2>5. HeldOf(held, <<p, w>>) \in Int /\ level[<<p, w>>].reserved \in Int
    BY NumbersKnown
  <2> QED
    BY <2>1, <2>2, <2>3, <2>4, <2>5
<1> QED
  BY <1>1, <1>2, <1>3, <1>4 DEF Follows

\* What is about another product.
LEMMA Others ==
    ASSUME StockInv, NEW q \in Product,
           stock'[q] = stock[q], stockBehind'[q] = stockBehind[q], freed[q] => freed'[q],
           stockRounded'[q] = stockRounded[q],
           \A w \in Warehouse : /\ level'[<<q, w>>] = level[<<q, w>>] /\ moved'[<<q, w>>] = moved[<<q, w>>]
                                /\ behind'[<<q, w>>] = behind[<<q, w>>]
                                /\ rounded'[<<q, w>>] = rounded[<<q, w>>],
           held' = held
    PROVE  Spared(q)
<1>1. \A w \in Warehouse : HeldOf(held, <<q, w>>) \in Int
  BY NumbersKnown
<1>2. \A w \in Warehouse : HeldOf(held', <<q, w>>) <= HeldOf(held, <<q, w>>) /\ HeldOf(held', <<q, w>>) \in Int
  BY <1>1
<1>3. InStock(moved', q) = InStock(moved, q)
  <2>1. [w \in Warehouse |-> moved'[<<q, w>>]] = [w \in Warehouse |-> moved[<<q, w>>]]
    OBVIOUS
  <2> QED
    BY <2>1 DEF InStock
<1> QED
  BY <1>2, <1>3 DEF Spared

-----------------------------------------------------------------------------
(* From the products of the one request to those of all *)

LEMMA AloneKnown ==
    ASSUME StockInv, NEW p \in Product, NEW r, Alone(p, r)
    PROVE  Sound(r)
BY NoRequestSound DEF Alone, StockInv

\* A step of the request about p.
LEMMA OneWorks ==
    ASSUME StockInv, ProductsInv, NEW c \in Clerks, NEW p \in Product, request[c].product = p,
           NEW new, Sound(new), request' = [request EXCEPT ![c] = new], new.product \in {p, None},
           overlapped' = overlapped,
           \A q \in Product \ {p} : Spared(q),
           NEW s, s = IF new.product = p THEN new ELSE NoRequest,
           Follows(p, request[c]) => Follows(p, s)'
    PROVE  ProductsInv'
<1> SUFFICES ASSUME NEW q \in Product, ~overlapped'[q]
             PROVE  \E r : Alone(q, r)' /\ Follows(q, r)'
  BY DEF ProductsInv
<1>0. request \in [Clerks -> Request] /\ None \notin Product
  BY ConstantFacts DEF StockInv, StockTypeOK
<1>1. request'[c] = new /\ \A d \in Clerks \ {c} : request'[d] = request[d]
  BY <1>0
<1>2. PICK r : Alone(q, r) /\ Follows(q, r)
  BY DEF ProductsInv
<1>3. CASE q = p
  <2>1. c \in Busy(p)
    BY DEF Busy
  <2>2. Busy(p) = {c} /\ r = request[c]
    BY <1>2, <1>3, <2>1 DEF Alone
  <2>3. Follows(p, s)'
    BY <1>2, <1>3, <2>2
  <2>4. Alone(p, s)'
    <3>1. \A d \in Clerks \ {c} : request[d].product # p
      BY <2>2 DEF Busy
    <3>2. CASE new.product = p
      <4>1. {d \in Clerks : request'[d].product = p} = {c}
        BY <1>1, <3>1, <3>2
      <4> QED
        BY <1>1, <3>2, <4>1 DEF Alone, Busy
    <3>3. CASE new.product = None
      <4>1. {d \in Clerks : request'[d].product = p} = {}
        BY <1>0, <1>1, <3>1, <3>3
      <4> QED
        BY <1>0, <3>3, <4>1 DEF Alone, Busy
    <3> QED
      BY <3>2, <3>3
  <2> QED
    BY <1>3, <2>3, <2>4
<1>4. CASE q # p
  <2>1. Follows(q, r)'
    BY <1>2, <1>4, AloneKnown, SparedFollows
  <2>2. Busy(q)' = Busy(q) /\ c \notin Busy(q)
    BY <1>0, <1>1, <1>4 DEF Busy
  <2>3. Alone(q, r)'
    BY <1>1, <1>2, <2>2 DEF Alone
  <2> QED
    BY <2>1, <2>3
<1> QED
  BY <1>3, <1>4

\* A request turns to product p.
LEMMA OneBegins ==
    ASSUME StockInv, ProductsInv, NEW c \in Clerks, NEW p \in Product, request[c].product = None,
           NEW new, request' = [request EXCEPT ![c] = new], new.product = p, About(p),
           \A q \in Product : Spared(q),
           Follows(p, NoRequest)' => Follows(p, new)'
    PROVE  ProductsInv'
<1> SUFFICES ASSUME NEW q \in Product, ~overlapped'[q]
             PROVE  \E r : Alone(q, r)' /\ Follows(q, r)'
  BY DEF ProductsInv
<1>0. request \in [Clerks -> Request] /\ None \notin Product /\ overlapped \in [Product -> BOOLEAN]
  BY ConstantFacts DEF StockInv, StockTypeOK
<1>1. request'[c] = new /\ \A d \in Clerks \ {c} : request'[d] = request[d]
  BY <1>0
<1>2. ~overlapped[q] /\ (q = p => Busy(p) = {})
  BY <1>0 DEF About
<1>3. PICK r : Alone(q, r) /\ Follows(q, r)
  BY <1>2 DEF ProductsInv
<1>4. Follows(q, r)'
  BY <1>3, AloneKnown, SparedFollows
<1>5. CASE q = p
  <2>1. r = NoRequest /\ \A d \in Clerks : request[d].product # p
    BY <1>2, <1>3, <1>5 DEF Alone, Busy
  <2>2. Follows(p, new)'
    BY <1>4, <1>5, <2>1
  <2>3. {d \in Clerks : request'[d].product = p} = {c}
    BY <1>1, <2>1
  <2>4. Alone(p, new)'
    BY <1>1, <2>3 DEF Alone, Busy
  <2> QED
    BY <1>5, <2>2, <2>4
<1>6. CASE q # p
  <2>1. Busy(q)' = Busy(q) /\ c \notin Busy(q)
    BY <1>0, <1>1, <1>6 DEF Busy
  <2>2. Alone(q, r)'
    BY <1>1, <1>3, <2>1 DEF Alone
  <2> QED
    BY <1>4, <2>2
<1> QED
  BY <1>5, <1>6

\* A step that no product sees.
LEMMA NoneWorks ==
    ASSUME StockInv, ProductsInv, overlapped' = overlapped, \A q \in Product : Spared(q),
           \A c \in Clerks : request'[c] = request[c] \/ (request[c].product = None /\ request'[c].product = None)
    PROVE  ProductsInv'
<1> SUFFICES ASSUME NEW q \in Product, ~overlapped'[q]
             PROVE  \E r : Alone(q, r)' /\ Follows(q, r)'
  BY DEF ProductsInv
<1>0. None \notin Product
  BY ConstantFacts
<1>1. PICK r : Alone(q, r) /\ Follows(q, r)
  BY DEF ProductsInv
<1>2. Follows(q, r)'
  BY <1>1, AloneKnown, SparedFollows
<1>3. Busy(q)' = Busy(q) /\ \A c \in Busy(q) : request'[c] = request[c]
  BY <1>0 DEF Busy
<1>4. Alone(q, r)'
  BY <1>1, <1>3 DEF Alone
<1> QED
  BY <1>2, <1>4

-----------------------------------------------------------------------------
(* The request about a product works *)

\* It has read something, or goes on to something else.
Reads(c, p, r, new) ==
    /\ r = request[c] /\ r.product = p
    /\ Sound(new) /\ request' = [request EXCEPT ![c] = new] /\ new.product = p
    /\ UNCHANGED <<books, order, held, history, requests>>
    /\ Fresh(p, r) => Fresh(p, new)
    /\ \A w \in Warehouse :
          Run(new, <<p, w>>) = Run(r, <<p, w>>) /\ Claims(new, <<p, w>>) = Claims(r, <<p, w>>)
    /\ RunStock(new) = RunStock(r)

LEMMA OnlyReads ==
    ASSUME StockInv, ProductsInv, NEW c \in Clerks, NEW p \in Product, NEW r, NEW new, Reads(c, p, r, new)
    PROVE  ProductsInv'
<1> USE DEF Reads
<1>1. /\ stock' = stock /\ level' = level /\ moved' = moved /\ held' = held /\ behind' = behind
      /\ stockBehind' = stockBehind /\ overlapped' = overlapped /\ freed' = freed
      /\ rounded' = rounded /\ stockRounded' = stockRounded
  BY DEF books, history, roundings
<1>2. \A q \in Product : Spared(q)
  BY <1>1, Others
<1>3. ASSUME Follows(p, r) PROVE Follows(p, new)'
  <2>1. Fresh(p, new)'
    BY <1>1, <1>3 DEF Follows, Fresh
  <2>2. LevelsFollow(p, new)'
    BY <1>1, <1>3 DEF Follows, LevelsFollow, LevelFollows
  <2>3. TotalFollows(p, new)'
    BY <1>1, <1>3 DEF Follows, TotalFollows
  <2>4. RowsFollow(p, new)'
    BY <1>1, <1>3 DEF Follows, RowsFollow
  <2> QED
    BY <2>1, <2>2, <2>3, <2>4 DEF Follows
<1> QED
  BY <1>1, <1>2, <1>3, OneWorks

\* It has recorded a movement.
Records(c, p, r, new, v, q) ==
    /\ r = request[c] /\ r.product = p
    /\ Sound(new) /\ request' = [request EXCEPT ![c] = new] /\ new.product = p
    /\ moved' \in [Place -> Int]
    /\ moved'[<<p, v>>] = moved[<<p, v>>] + q /\ \A k \in Place \ {<<p, v>>} : moved'[k] = moved[k]
    /\ UNCHANGED <<stock, level, order, held, history, requests>>
    /\ Fresh(p, r) =>
          /\ Fresh(p, new)
          /\ Run(new, <<p, v>>) = Run(r, <<p, v>>) + q
          /\ \A w \in Warehouse \ {v} : Run(new, <<p, w>>) = Run(r, <<p, w>>)
    /\ \A w \in Warehouse : Claims(new, <<p, w>>) = Claims(r, <<p, w>>)
    /\ RunStock(new) = RunStock(r) + q

LEMMA OneMoved ==
    ASSUME StockInv, ProductsInv, NEW c \in Clerks, NEW p \in Product, NEW r, NEW new,
           NEW v \in Warehouse, NEW q \in Int, Records(c, p, r, new, v, q)
    PROVE  ProductsInv'
<1> USE DEF Records
<1>1. /\ stock' = stock /\ level' = level /\ held' = held /\ behind' = behind
      /\ stockBehind' = stockBehind /\ overlapped' = overlapped /\ freed' = freed
      /\ rounded' = rounded /\ stockRounded' = stockRounded
  BY DEF history, roundings
<1>2. moved \in [Place -> Int] /\ Sound(r)
  BY DEF StockInv, StockTypeOK
<1>3. /\ moved'[<<p, v>>] = moved[<<p, v>>] + q
      /\ \A w \in Warehouse \ {v} : moved'[<<p, w>>] = moved[<<p, w>>]
      /\ \A o \in Product \ {p}, w \in Warehouse : moved'[<<o, w>>] = moved[<<o, w>>]
  BY <1>2 DEF Place
<1>4. InStock(moved', p) = InStock(moved, p) + q
  <2>1. moved' \in [Place -> Int] /\ \A k \in Place : k # <<p, v>> => moved'[k] = moved[k]
    BY <1>2, <1>3 DEF Place
  <2>2. moved \in [Place -> Int] /\ moved'[<<p, v>>] = moved[<<p, v>>] + q
    BY <1>2, <1>3
  <2> QED
    BY ONLY <2>1, <2>2, MovedSum, p \in Product, v \in Warehouse, q \in Int
<1>5. \A o \in Product \ {p} : Spared(o)
  BY <1>1, <1>3, Others
<1>6. ASSUME Follows(p, r) PROVE Follows(p, new)'
  <2>0. /\ Run(new, <<p, v>>) = Run(r, <<p, v>>) + q
        /\ \A w \in Warehouse \ {v} : Run(new, <<p, w>>) = Run(r, <<p, w>>)
    BY <1>6 DEF Follows
  <2>1. Fresh(p, new)'
    BY <1>1, <1>6 DEF Follows, Fresh
  <2>2. LevelsFollow(p, new)'
    <3> SUFFICES ASSUME NEW w \in Warehouse PROVE LevelFollows(p, new, w)'
      BY DEF LevelsFollow
    <3>1. LevelFollows(p, r, w)
      BY <1>6 DEF Follows, LevelsFollow
    <3>2. CASE w = v
      <4> DEFINE x == moved[<<p, v>>]
                 y == level[<<p, v>>].quantity
                 i == behind[<<p, v>>]
                 run == Run(r, <<p, v>>)
                 m == rounded[<<p, v>>]
      <4>1. y \in Int /\ i \in Int /\ run \in Int /\ x \in Int /\ m \in Int
        BY <1>2, NumbersKnown, RunTyped
      <4>2. Trails(x, y, i, run, m)
        BY <3>1, <3>2 DEF LevelFollows
      <4>3. moved'[<<p, v>>] = x + q /\ Run(new, <<p, v>>) = run + q
        BY <1>3, <2>0
      <4> HIDE DEF x, y, i, run, m
      <4>4. Trails(x + q, y, i, run + q, m)
        BY <4>1, <4>2, TrailsMoves
      <4> QED
        BY <1>1, <3>2, <4>3, <4>4 DEF LevelFollows, y, i, m
    <3>3. CASE w # v
      BY <1>1, <1>3, <2>0, <3>1, <3>3 DEF LevelFollows
    <3> QED
      BY <3>2, <3>3
  <2>3. TotalFollows(p, new)'
    <3> DEFINE x == InStock(moved, p)
               y == stock[p]
               i == stockBehind[p]
               run == RunStock(r)
               m == stockRounded[p]
    <3>1. y \in Int /\ i \in Int /\ run \in Int /\ x \in Int /\ m \in Int
      BY <1>2, TotalNumbers, RunTyped
    <3>2. Trails(x, y, i, run, m)
      BY <1>6 DEF Follows, TotalFollows
    <3>3. InStock(moved', p) = x + q /\ RunStock(new) = run + q
      BY <1>4
    <3> HIDE DEF x, y, i, run, m
    <3>4. Trails(x + q, y, i, run + q, m)
      BY <3>1, <3>2, TrailsMoves
    <3> QED
      BY <1>1, <3>3, <3>4 DEF TotalFollows, y, i, m
  <2>4. RowsFollow(p, new)'
    BY <1>1, <1>6 DEF Follows, RowsFollow
  <2> QED
    BY <2>1, <2>2, <2>3, <2>4 DEF Follows
<1> QED
  BY <1>1, <1>5, <1>6, OneWorks

\* It has written a level: its quantity by a, but for n roundings, and what is
\* reserved by b; it is r before and s after.
Rewrites(c, p, r, new, s, v, l, a, b, n) ==
    /\ r = request[c] /\ r.product = p
    /\ Sound(new) /\ request' = [request EXCEPT ![c] = new] /\ new.product \in {p, None}
    /\ s = IF new.product = p THEN new ELSE NoRequest
    /\ level' = [level EXCEPT ![<<p, v>>] = l]
    /\ rounded' = [rounded EXCEPT ![<<p, v>>] = @ + n]
    /\ UNCHANGED <<stock, moved, order, held, behind, stockBehind, stockRounded, overlapped, requests>>
    /\ \A q \in Product : freed[q] => freed'[q]
    /\ Fresh(p, r) =>
          /\ Near(level[<<p, v>>].quantity, a, l.quantity, n)
          /\ l.reserved = level[<<p, v>>].reserved + b
          /\ Fresh(p, s)'
          /\ Run(r, <<p, v>>) = Run(s, <<p, v>>) + a
          /\ \A w \in Warehouse \ {v} : Run(r, <<p, w>>) = Run(s, <<p, w>>)
    /\ RunStock(s) = RunStock(r)
    /\ ~freed'[p] =>
          /\ Claims(s, <<p, v>>) <= Claims(r, <<p, v>>) + b
          /\ \A w \in Warehouse \ {v} : Claims(s, <<p, w>>) = Claims(r, <<p, w>>)

LEMMA OneLevel ==
    ASSUME StockInv, ProductsInv, NEW c \in Clerks, NEW p \in Product, NEW r, NEW new, NEW s,
           NEW v \in Warehouse, NEW l \in Level, NEW a \in Int, NEW b \in Int, NEW n \in Int,
           Rewrites(c, p, r, new, s, v, l, a, b, n)
    PROVE  ProductsInv'
<1> USE DEF Rewrites
<1>1. Sound(r) /\ Sound(s) /\ level \in [Place -> Level] /\ rounded \in [Place -> Nat]
  BY NoRequestSound DEF StockInv, StockTypeOK
<1>2. /\ level'[<<p, v>>] = l
      /\ \A w \in Warehouse \ {v} : level'[<<p, w>>] = level[<<p, w>>]
      /\ \A o \in Product \ {p}, w \in Warehouse : level'[<<o, w>>] = level[<<o, w>>]
  BY <1>1 DEF Place
<1>3. /\ rounded'[<<p, v>>] = rounded[<<p, v>>] + n
      /\ \A w \in Warehouse \ {v} : rounded'[<<p, w>>] = rounded[<<p, w>>]
      /\ \A o \in Product \ {p}, w \in Warehouse : rounded'[<<o, w>>] = rounded[<<o, w>>]
  BY <1>1 DEF Place
<1>4. \A o \in Product \ {p} : Spared(o)
  BY <1>2, <1>3, Others
<1>5. ASSUME Follows(p, r) PROVE Follows(p, s)'
  <2>0. /\ Near(level[<<p, v>>].quantity, a, l.quantity, n)
        /\ l.reserved = level[<<p, v>>].reserved + b
        /\ Fresh(p, s)'
        /\ Run(r, <<p, v>>) = Run(s, <<p, v>>) + a
        /\ \A w \in Warehouse \ {v} : Run(r, <<p, w>>) = Run(s, <<p, w>>)
    BY <1>5 DEF Follows
  <2>1. LevelsFollow(p, s)'
    <3> SUFFICES ASSUME NEW w \in Warehouse PROVE LevelFollows(p, s, w)'
      BY DEF LevelsFollow
    <3>1. LevelFollows(p, r, w)
      BY <1>5 DEF Follows, LevelsFollow
    <3>2. CASE w = v
      <4> DEFINE x == moved[<<p, v>>]
                 y == level[<<p, v>>].quantity
                 z == l.quantity
                 b1 == behind[<<p, v>>]
                 m == rounded[<<p, v>>]
                 run == Run(r, <<p, v>>)
                 rest == Run(s, <<p, v>>)
      <4>1. /\ y \in Int /\ b1 \in Int /\ x \in Int /\ m \in Int /\ z \in Int
            /\ run \in Int /\ rest \in Int
        BY <1>1, NumbersKnown, RunTyped DEF Level
      <4>2. Trails(x, y, b1, run, m) /\ Near(y, a, z, n) /\ run = rest + a
        BY <2>0, <3>1, <3>2 DEF LevelFollows
      <4>3. /\ moved'[<<p, v>>] = x /\ level'[<<p, v>>].quantity = z /\ behind'[<<p, v>>] = b1
            /\ rounded'[<<p, v>>] = m + n
        BY <1>2, <1>3
      <4> HIDE DEF x, y, z, b1, m, run, rest
      <4>4. x - x + run = a + rest /\ m + n \in Int
        BY <4>1, <4>2
      <4>5. Trails(x, z, b1, rest, m + n)
        BY <4>1, <4>2, <4>4, CatchesUp
      <4> QED
        BY <3>2, <4>3, <4>5 DEF LevelFollows, rest
    <3>3. CASE w # v
      BY <1>2, <1>3, <2>0, <3>1, <3>3 DEF LevelFollows
    <3> QED
      BY <3>2, <3>3
  <2>2. TotalFollows(p, s)'
    BY <1>5 DEF Follows, TotalFollows
  <2>3. RowsFollow(p, s)'
    <3> SUFFICES ASSUME ~freed'[p], NEW w \in Warehouse
                 PROVE  HeldOf(held, <<p, w>>) + Claims(s, <<p, w>>) <= level'[<<p, w>>].reserved
      BY DEF RowsFollow
    <3>1. HeldOf(held, <<p, w>>) + Claims(r, <<p, w>>) <= level[<<p, w>>].reserved
      BY <1>5 DEF Follows, RowsFollow
    <3>2. CASE w = v
      <4>1. /\ HeldOf(held, <<p, v>>) \in Int /\ level[<<p, v>>].reserved \in Int
            /\ Claims(r, <<p, v>>) \in Int /\ Claims(s, <<p, v>>) \in Int
        BY <1>1, NumbersKnown, RunTyped
      <4> QED
        BY <1>2, <2>0, <3>1, <3>2, <4>1
    <3>3. CASE w # v
      BY <1>2, <2>0, <3>1, <3>3
    <3> QED
      BY <3>2, <3>3
  <2> QED
    BY <2>0, <2>1, <2>2, <2>3 DEF Follows
<1> QED
  BY <1>4, <1>5, OneWorks

-----------------------------------------------------------------------------
(* The actions *)

\* Of a request that is about a product.
LEMMA AboutProduct ==
    ASSUME StockInv, NEW c \in Clerks, NEW r, r = request[c], r.step \notin {"idle", "order"}
    PROVE  /\ Sound(r) /\ r.product \in Product /\ r.warehouse \in Warehouse /\ r.quantity \in Int /\ r.stock \in Nat
           /\ r.level \in Level /\ r.toLevel \in Level
           /\ Here(c) = <<r.product, r.warehouse>> /\ There(c) = <<r.product, r.to>>
           /\ None \notin Product
           /\ r.step \in StepsOf(r.op) /\ r.op \in Operations
BY Known, AtWork, ConstantFacts DEF Here, There, Sound, Request

\* What is known of a request at a new step.
LEMMA AtStep ==
    ASSUME NEW r, r \in Request, NEW s \in Steps, NEW new, new = [r EXCEPT !.step = s]
    PROVE  /\ new.step = s /\ new.op = r.op /\ new.product = r.product /\ new.warehouse = r.warehouse
           /\ new.to = r.to /\ new.quantity = r.quantity /\ new.stock = r.stock
           /\ new.level = r.level /\ new.toLevel = r.toLevel
BY DEF Request

LEMMA CheckLevelFollows ==
    ASSUME StockInv, ProductsInv, NEW c \in Clerks, CheckLevel(c), StockInv' PROVE ProductsInv'
<1> PICK r : r = request[c]
  OBVIOUS
<1> PICK p : p = r.product
  OBVIOUS
<1>1. r.step = "product" /\ UNCHANGED <<books, order, held, history, requests>>
  BY DEF CheckLevel
<1>2. /\ Sound(r) /\ r \in Request /\ p \in Product /\ Here(c) = <<p, r.warehouse>>
      /\ r.op \in {"adjust", "issue", "post"}
  BY <1>1, AboutProduct, OpOfStep DEF Sound, Place
<1> PICK l : l = level[Here(c)]
  OBVIOUS
<1> PICK new : new = [r EXCEPT !.step = "checked", !.level = l]
  OBVIOUS
<1>3. request' = [request EXCEPT ![c] = new]
  BY DEF CheckLevel
<1>4. Sound(new)
  <2>1. request'[c] = new
    BY <1>3, Known
  <2> QED
    BY <2>1 DEF StockInv
<1>5. /\ new.op = r.op /\ new.product = p /\ new.warehouse = r.warehouse /\ new.stock = r.stock
      /\ new.step = "checked" /\ new.level = l
  BY <1>2 DEF Request
<1>6. Fresh(p, r) => Fresh(p, new)
  BY <1>1, <1>2, <1>5 DEF Fresh
<1>7. \A w \in Warehouse : Run(new, <<p, w>>) = Run(r, <<p, w>>) /\ Claims(new, <<p, w>>) = Claims(r, <<p, w>>)
  BY <1>1, <1>2, <1>5 DEF Run, Claims
<1>8. RunStock(new) = RunStock(r)
  BY <1>1, <1>5 DEF RunStock
<1>9. Reads(c, p, r, new)
  BY <1>1, <1>3, <1>4, <1>5, <1>6, <1>7, <1>8 DEF Reads
<1> QED
  BY <1>2, <1>9, OnlyReads

\* The next step of a request.
LEMMA GoesTo ==
    ASSUME StockInv, StockInv', NEW c \in Clerks, NEW s \in Steps, Goes(c, s), NEW r, r = request[c]
    PROVE  \E new :
              /\ request' = [request EXCEPT ![c] = new] /\ Sound(new)
              /\ new.step = s /\ new.op = r.op /\ new.product = r.product /\ new.warehouse = r.warehouse
              /\ new.to = r.to /\ new.quantity = r.quantity /\ new.stock = r.stock
              /\ new.level = r.level /\ new.toLevel = r.toLevel
<1> PICK new : new = [r EXCEPT !.step = s]
  OBVIOUS
<1>1. r \in Request /\ request \in [Clerks -> Request]
  BY Known
<1>2. request' = [request EXCEPT ![c] = new]
  BY <1>1 DEF Goes
<1>3. request'[c] = new
  BY <1>1, <1>2
<1>4. Sound(new)
  BY <1>3 DEF StockInv
<1>5. /\ new.step = s /\ new.op = r.op /\ new.product = r.product /\ new.warehouse = r.warehouse
      /\ new.to = r.to /\ new.quantity = r.quantity /\ new.stock = r.stock
      /\ new.level = r.level /\ new.toLevel = r.toLevel
  BY <1>1, AtStep
<1> QED
  BY <1>2, <1>4, <1>5

LEMMA MovementFollows ==
    ASSUME StockInv, ProductsInv, StockInv', NEW c \in Clerks, CreateMovement(c) \/ MoveOut(c)
    PROVE  ProductsInv'
<1> PICK r : r = request[c]
  OBVIOUS
<1> PICK p : p = r.product
  OBVIOUS
<1> PICK v : v = r.warehouse
  OBVIOUS
<1> PICK q : q = Moves(r.quantity)
  OBVIOUS
<1>1. /\ r.op \in {"adjust", "issue", "transfer"} /\ r.step = "checked" /\ Goes(c, "moved")
      /\ moved' = [moved EXCEPT ![Here(c)] = @ + q]
      /\ UNCHANGED <<stock, level, order, held, history, requests>>
  BY DEF CreateMovement, MoveOut
<1>2. Sound(r) /\ p \in Product /\ v \in Warehouse /\ q \in Int /\ Here(c) = <<p, v>>
  BY <1>1, AboutProduct, RoundsTyped
<1>3. PICK new :
         /\ request' = [request EXCEPT ![c] = new] /\ Sound(new)
         /\ new.step = "moved" /\ new.op = r.op /\ new.product = p /\ new.warehouse = v
         /\ new.to = r.to /\ new.quantity = r.quantity /\ new.stock = r.stock
         /\ new.level = r.level /\ new.toLevel = r.toLevel
  <2>1. "moved" \in Steps
    BY DEF Steps
  <2> QED
    BY <1>1, <2>1, GoesTo
<1>4. Fresh(p, r) => Fresh(p, new)
  BY <1>1, <1>3 DEF Fresh
<1>5. /\ Run(new, <<p, v>>) = Run(r, <<p, v>>) + q
      /\ \A w \in Warehouse \ {v} : Run(new, <<p, w>>) = Run(r, <<p, w>>)
      /\ \A w \in Warehouse : Claims(new, <<p, w>>) = Claims(r, <<p, w>>)
  <2>1. Run(r, <<p, v>>) = 0 /\ Run(new, <<p, v>>) = q
    BY <1>1, <1>2, <1>3 DEF Run
  <2>2. \A w \in Warehouse \ {v} : Run(new, <<p, w>>) = 0 /\ Run(r, <<p, w>>) = 0
    BY <1>1, <1>3 DEF Run
  <2>3. \A w \in Warehouse : Claims(new, <<p, w>>) = Claims(r, <<p, w>>)
    BY <1>1, <1>3 DEF Claims
  <2> QED
    BY <1>2, <2>1, <2>2, <2>3
<1>6. RunStock(new) = RunStock(r) + q
  BY <1>1, <1>2, <1>3 DEF RunStock
<1>7. /\ moved' \in [Place -> Int]
      /\ moved'[<<p, v>>] = moved[<<p, v>>] + q /\ \A k \in Place \ {<<p, v>>} : moved'[k] = moved[k]
  <2>1. moved \in [Place -> Int] /\ <<p, v>> \in Place
    BY <1>2, NumbersKnown DEF StockInv, StockTypeOK
  <2>2. moved' \in [Place -> Int]
    BY DEF StockInv, StockTypeOK
  <2> QED
    BY <1>1, <1>2, <2>1, <2>2
<1>8. Records(c, p, r, new, v, q)
  BY <1>1, <1>3, <1>4, <1>5, <1>6, <1>7 DEF Records
<1> QED
  BY <1>2, <1>8, OneMoved

LEMMA MoveInFollows ==
    ASSUME StockInv, ProductsInv, StockInv', NEW c \in Clerks, MoveIn(c)
    PROVE  ProductsInv'
<1> PICK r : r = request[c]
  OBVIOUS
<1> PICK p : p = r.product
  OBVIOUS
<1> PICK v : v = r.to
  OBVIOUS
<1> PICK m : m = Moves(r.quantity)
  OBVIOUS
<1> PICK q : q = - m
  OBVIOUS
<1>1. /\ r.op = "transfer" /\ r.step = "moved" /\ Goes(c, "in")
      /\ moved' = [moved EXCEPT ![There(c)] = @ - m]
      /\ UNCHANGED <<stock, level, order, held, history, requests>>
  BY DEF MoveIn
<1>2. /\ Sound(r) /\ p \in Product /\ v \in Warehouse /\ m \in Int /\ q \in Int
      /\ There(c) = <<p, v>> /\ moved[<<p, v>>] \in Int
  <2>1. m \in Int
    BY <1>1, AboutProduct, RoundsTyped
  <2> QED
    BY <1>1, <2>1, AboutProduct, NumbersKnown DEF Sound
<1>3. PICK new :
         /\ request' = [request EXCEPT ![c] = new] /\ Sound(new)
         /\ new.step = "in" /\ new.op = r.op /\ new.product = p /\ new.warehouse = r.warehouse
         /\ new.to = v /\ new.quantity = r.quantity /\ new.stock = r.stock
         /\ new.level = r.level /\ new.toLevel = r.toLevel
  <2>1. "in" \in Steps
    BY DEF Steps
  <2> QED
    BY <1>1, <2>1, GoesTo
<1>4. Fresh(p, r) => Fresh(p, new) /\ r.warehouse # v
  BY <1>1, <1>3 DEF Fresh
<1>5. ASSUME r.warehouse # v
      PROVE  /\ Run(new, <<p, v>>) = Run(r, <<p, v>>) + q
             /\ \A w \in Warehouse \ {v} : Run(new, <<p, w>>) = Run(r, <<p, w>>)
  <2>1. Run(r, <<p, v>>) = 0 /\ Run(new, <<p, v>>) = q
    BY <1>1, <1>2, <1>3, <1>5 DEF Run
  <2>2. \A w \in Warehouse \ {v} : Run(new, <<p, w>>) = Run(r, <<p, w>>)
    BY <1>1, <1>3, <1>5 DEF Run
  <2> QED
    BY <1>2, <2>1, <2>2
<1>6. \A w \in Warehouse : Claims(new, <<p, w>>) = Claims(r, <<p, w>>)
  BY <1>1, <1>3 DEF Claims
<1>7. RunStock(new) = RunStock(r) + q
  BY <1>1, <1>2, <1>3 DEF RunStock
<1>8. /\ moved' \in [Place -> Int]
      /\ moved'[<<p, v>>] = moved[<<p, v>>] + q /\ \A k \in Place \ {<<p, v>>} : moved'[k] = moved[k]
  <2>1. moved \in [Place -> Int] /\ <<p, v>> \in Place
    BY <1>2, NumbersKnown DEF StockInv, StockTypeOK
  <2>2. moved' \in [Place -> Int]
    BY DEF StockInv, StockTypeOK
  <2> QED
    BY <1>1, <1>2, <2>1, <2>2
<1>9. Records(c, p, r, new, v, q)
  BY <1>1, <1>3, <1>4, <1>5, <1>6, <1>7, <1>8 DEF Records
<1> QED
  BY <1>2, <1>9, OneMoved

\* The total is written from what it was, for a movement of q.
TotalKept(p, q) ==
    stock'[p] = Stored(stock[p] + q) /\ stockRounded'[p] = stockRounded[p] + Rounds(q)

\* What a request r owed the total is written, but for a rounding, by the time
\* that it is s and the movements have grown by d.
LEMMA TotalCatchesUp ==
    ASSUME StockInv, StockInv', NEW p \in Product, NEW r, NEW s, NEW q \in Int, NEW d \in Int,
           TotalFollows(p, r), TotalKept(p, q), RunStock(r) + d = Moves(q), RunStock(s) = 0,
           RunStock(r) \in Int,
           stockBehind'[p] = stockBehind[p], InStock(moved', p) = InStock(moved, p) + d
    PROVE  TotalFollows(p, s)'
<1> DEFINE x == InStock(moved, p)
           a == stock[p]
           b == stockBehind[p]
           m == stockRounded[p]
           t == Stored(a + q)
           n == Rounds(q)
           g == Moves(q)
<1>1. x \in Int /\ a \in Int /\ Whole(a) /\ b \in Int /\ m \in Int
  BY TotalNumbers
<1>2. t \in Int /\ n \in Int /\ g \in Int
  BY <1>1, RoundsTyped, StoredWhole DEF Whole
<1>3. Near(a, g, t, n)
  BY <1>1, StoredNear DEF Near
<1>4. Trails(x, a, b, RunStock(r), m)
  BY DEF TotalFollows
<1>5. PICK run \in Int : run = RunStock(r) /\ run + d = g
  OBVIOUS
<1>6. stock'[p] = t /\ stockRounded'[p] = m + n /\ stockBehind'[p] = b /\ InStock(moved', p) = x + d
  BY <1>1 DEF TotalKept
<1> HIDE DEF x, a, b, m, t, n, g
<1>7. (x + d) - x + run = g + 0 /\ x + d \in Int /\ m + n \in Int
  BY <1>1, <1>2, <1>5
<1>8. Trails(x + d, t, b, 0, m + n)
  BY <1>1, <1>2, <1>3, <1>4, <1>5, <1>7, CatchesUp
<1> QED
  BY <1>6, <1>8 DEF TotalFollows

LEMMA UpdateFollows ==
    ASSUME StockInv, ProductsInv, StockInv', NEW c \in Clerks, UpdateProductStock(c)
    PROVE  ProductsInv'
<1> PICK r : r = request[c]
  OBVIOUS
<1> PICK p : p = r.product
  OBVIOUS
<1>1. /\ r.op \in {"adjust", "issue"} /\ r.step = "moved" /\ Goes(c, "stocked")
      /\ stock' = [stock EXCEPT ![p] = Stored(r.stock + r.quantity)]
      /\ stockRounded' = [stockRounded EXCEPT ![p] = @ + Rounds(r.quantity)]
      /\ level' = level /\ moved' = moved /\ held' = held /\ behind' = behind /\ rounded' = rounded
      /\ stockBehind' = stockBehind /\ overlapped' = overlapped /\ freed' = freed
  BY DEF UpdateProductStock, NewProductStock, WritesStock
<1>2. Sound(r) /\ p \in Product /\ r.quantity \in Int
  BY <1>1, AboutProduct
<1>3. PICK new :
         /\ request' = [request EXCEPT ![c] = new] /\ Sound(new)
         /\ new.step = "stocked" /\ new.op = r.op /\ new.product = p /\ new.warehouse = r.warehouse
         /\ new.to = r.to /\ new.quantity = r.quantity /\ new.stock = r.stock
         /\ new.level = r.level /\ new.toLevel = r.toLevel
  <2>1. "stocked" \in Steps
    BY DEF Steps
  <2> QED
    BY <1>1, <2>1, GoesTo
<1>4. /\ stock'[p] = Stored(r.stock + r.quantity)
      /\ stockRounded'[p] = stockRounded[p] + Rounds(r.quantity)
      /\ \A q \in Product \ {p} : stock'[q] = stock[q] /\ stockRounded'[q] = stockRounded[q]
  <2>1. stock \in [Product -> Nat] /\ stockRounded \in [Product -> Nat]
    BY Known
  <2> QED
    BY <1>1, <1>2, <2>1
<1>5. \A q \in Product \ {p} : Spared(q)
  BY <1>1, <1>4, Others
<1>6. ASSUME Follows(p, r) PROVE Follows(p, new)'
  <2>1. Fresh(p, r) /\ LevelsFollow(p, r) /\ TotalFollows(p, r) /\ RowsFollow(p, r)
    BY <1>6 DEF Follows
  <2>2. Fresh(p, new)'
    BY <1>1, <1>3, <2>1 DEF Fresh
  <2>3. LevelsFollow(p, new)'
    <3>1. \A w \in Warehouse : Run(new, <<p, w>>) = Run(r, <<p, w>>)
      BY <1>1, <1>3 DEF Run
    <3> QED
      BY <1>1, <2>1, <3>1 DEF LevelsFollow, LevelFollows
  <2>4. TotalFollows(p, new)'
    <3>1. RunStock(r) = Moves(r.quantity) /\ RunStock(new) = 0 /\ r.stock = stock[p]
      BY <1>1, <1>3, <2>1 DEF RunStock, Fresh
    <3>2. TotalKept(p, r.quantity)
      BY <1>2, <1>4, <3>1 DEF TotalKept
    <3>3. stockBehind'[p] = stockBehind[p] /\ InStock(moved', p) = InStock(moved, p) + 0
      BY <1>1, <1>2, TotalNumbers
    <3>4. RunStock(r) \in Int /\ RunStock(r) + 0 = Moves(r.quantity)
      BY <1>2, <3>1, RunTyped
    <3> QED
      BY <1>2, <2>1, <3>1, <3>2, <3>3, <3>4, TotalCatchesUp
  <2>5. RowsFollow(p, new)'
    <3>1. \A w \in Warehouse : Claims(new, <<p, w>>) = Claims(r, <<p, w>>)
      BY <1>1, <1>3 DEF Claims
    <3> QED
      BY <1>1, <2>1, <3>1 DEF RowsFollow
  <2> QED
    BY <2>2, <2>3, <2>4, <2>5 DEF Follows
<1> QED
  BY <1>1, <1>2, <1>3, <1>5, <1>6, OneWorks

\* What a request that ends leaves outstanding.
LEMMA NothingLeft ==
    /\ NoRequest.product = None /\ Sound(NoRequest) /\ RunStock(NoRequest) = 0
    /\ \A k : Run(NoRequest, k) = 0 /\ Claims(NoRequest, k) = 0
    /\ \A p \in Product : Fresh(p, NoRequest) /\ Fresh(p, NoRequest)'
<1>1. NoRequest.op = "none" /\ NoRequest.step = "idle" /\ NoRequest.product = None /\ Sound(NoRequest)
  BY NoRequestSound DEF NoRequest
<1>2. RunStock(NoRequest) = 0
  BY <1>1 DEF RunStock
<1>3. \A k : Run(NoRequest, k) = 0
  BY <1>1 DEF Run
<1>4. \A k : Claims(NoRequest, k) = 0
  BY <1>1 DEF Claims
<1>5. \A p \in Product : Fresh(p, NoRequest)
  BY <1>1 DEF Fresh
<1>6. \A p \in Product : Fresh(p, NoRequest)'
  BY <1>1 DEF Fresh
<1> QED
  BY <1>1, <1>2, <1>3, <1>4, <1>5, <1>6

\* A level that was read, written for a movement of q.
LEMMA ChangedBy ==
    ASSUME NEW l \in Level, Kept(l), NEW q \in Int, NEW new, new = Write(Changed(l, q)) \/ new = Write(Adjusted(l, q))
    PROVE  Near(l.quantity, Moves(q), new.quantity, Rounds(q)) /\ new.reserved = l.reserved + 0
<1>1. \A n, m : /\ [l EXCEPT !.quantity = n, !.available = m].quantity = n
                /\ [l EXCEPT !.quantity = n, !.available = m].reserved = l.reserved
  BY DEF Level
<1>2. l.reserved = l.reserved + 0 /\ Whole(l.reserved) /\ Whole(l.quantity) /\ l.reserved \in Int
  BY DEF Level, Kept
<1>3. PICK m : new = Write([l EXCEPT !.quantity = l.quantity + q, !.available = m])
  BY DEF Changed, Adjusted
<1>4. new.quantity = Stored(l.quantity + q) /\ new.reserved = Stored(l.reserved)
  BY <1>1, <1>3 DEF Write
<1>5. new.reserved = l.reserved
  BY <1>2, <1>4, StoredWhole
<1> QED
  BY <1>2, <1>4, <1>5, StoredNear DEF Near

LEMMA ReservedBy ==
    ASSUME NEW l \in Level, Kept(l), NEW q \in Int, NEW new, new = Write(Reserved(l, q))
    PROVE  new.quantity = l.quantity /\ new.reserved = Stored(l.reserved + q)
<1>1. Reserved(l, q).quantity = l.quantity /\ Reserved(l, q).reserved = l.reserved + q
  BY DEF Reserved, Level
<1>2. new.quantity = Stored(l.quantity) /\ new.reserved = Stored(l.reserved + q)
  BY <1>1 DEF Write
<1>3. l.quantity \in Int /\ Whole(l.quantity)
  BY DEF Level, Kept
<1> QED
  BY <1>2, <1>3, StoredWhole

LEMMA ChangeSourceFollows ==
    ASSUME StockInv, ProductsInv, StockInv', NEW c \in Clerks, ChangeSource(c)
    PROVE  ProductsInv'
<1> PICK r : r = request[c]
  OBVIOUS
<1> PICK p : p = r.product
  OBVIOUS
<1> PICK v : v = r.warehouse
  OBVIOUS
<1> PICK q : q = r.quantity
  OBVIOUS
<1> PICK l : l = Write(Changed(r.level, q))
  OBVIOUS
<1>1. /\ r.step = "in" /\ Goes(c, "sent") /\ level' = [level EXCEPT ![Here(c)] = l]
      /\ rounded' = [rounded EXCEPT ![Here(c)] = @ + Rounds(q)]
      /\ UNCHANGED <<stock, moved, order, held, behind, stockBehind, stockRounded, overlapped, requests>>
      /\ freed' = freed
  BY DEF ChangeSource, Writes
<1>2. /\ Sound(r) /\ p \in Product /\ v \in Warehouse /\ q \in Int /\ Here(c) = <<p, v>> /\ r.level \in Level
      /\ r.op = "transfer" /\ r.to \in Warehouse /\ None \notin Product /\ Kept(r.level)
      /\ Moves(q) \in Int /\ Rounds(q) \in Int
  BY <1>1, AboutProduct, OpOfStep, RoundsTyped DEF Sound
<1>3. PICK new :
         /\ request' = [request EXCEPT ![c] = new] /\ Sound(new)
         /\ new.step = "sent" /\ new.op = r.op /\ new.product = p /\ new.warehouse = v
         /\ new.to = r.to /\ new.quantity = q /\ new.stock = r.stock
         /\ new.level = r.level /\ new.toLevel = r.toLevel
  <2>1. "sent" \in Steps
    BY DEF Steps
  <2> QED
    BY <1>1, <2>1, GoesTo
<1>4. level \in [Place -> Level] /\ <<p, v>> \in Place /\ <<p, r.to>> \in Place
  BY <1>2, Known DEF Place
<1>5. /\ l \in Level /\ Near(r.level.quantity, Moves(q), l.quantity, Rounds(q))
      /\ l.reserved = r.level.reserved + 0
  <2>1. Near(r.level.quantity, Moves(q), l.quantity, Rounds(q)) /\ l.reserved = r.level.reserved + 0
    BY <1>2, ChangedBy
  <2>2. level' \in [Place -> Level] /\ level'[<<p, v>>] = l
    BY <1>1, <1>2, <1>4 DEF StockInv, StockTypeOK
  <2>3. l \in Level
    BY <1>4, <2>2
  <2> QED
    BY <2>1, <2>3
<1>6. ASSUME Fresh(p, r)
      PROVE  /\ Near(level[<<p, v>>].quantity, Moves(q), l.quantity, Rounds(q))
             /\ l.reserved = level[<<p, v>>].reserved + 0
             /\ Fresh(p, new)'
             /\ Run(r, <<p, v>>) = Run(new, <<p, v>>) + Moves(q)
             /\ \A w \in Warehouse \ {v} : Run(r, <<p, w>>) = Run(new, <<p, w>>)
  <2>1. r.to # v /\ r.level = level[<<p, v>>] /\ r.toLevel = level[<<p, r.to>>]
    BY <1>1, <1>2, <1>6 DEF Fresh
  <2>2. level'[<<p, r.to>>] = level[<<p, r.to>>]
    BY <1>1, <1>2, <1>4, <2>1
  <2>3. Fresh(p, new)'
    BY <1>2, <1>3, <2>1, <2>2 DEF Fresh
  <2>4. Run(r, <<p, v>>) = Moves(q) /\ Run(new, <<p, v>>) = 0
    BY <1>1, <1>2, <1>3, <2>1 DEF Run
  <2>5. \A w \in Warehouse \ {v} : Run(r, <<p, w>>) = Run(new, <<p, w>>)
    BY <1>1, <1>2, <1>3 DEF Run
  <2> QED
    BY <1>2, <1>5, <2>1, <2>3, <2>4, <2>5
<1>7. RunStock(new) = RunStock(r)
  BY <1>1, <1>3 DEF RunStock
<1>8. \A w \in Warehouse : Claims(new, <<p, w>>) = 0 /\ Claims(r, <<p, w>>) = 0
  BY <1>2, <1>3 DEF Claims
<1>9. Rewrites(c, p, r, new, new, v, l, Moves(q), 0, Rounds(q))
  BY <1>1, <1>2, <1>3, <1>6, <1>7, <1>8 DEF Rewrites
<1> QED
  BY <1>2, <1>5, <1>9, OneLevel

\* The level of warehouse v is written and the request ends.
Closes(c, p, r, v, q, base, l) ==
    /\ r = request[c] /\ r.product = p /\ Done(c)
    /\ l = Write(Changed(base, q)) \/ l = Write(Adjusted(base, q))
    /\ level' = [level EXCEPT ![<<p, v>>] = l]
    /\ rounded' = [rounded EXCEPT ![<<p, v>>] = @ + Rounds(q)]
    /\ UNCHANGED <<stock, moved, order, held, behind, stockBehind, stockRounded, overlapped, freed, requests>>
    /\ Fresh(p, r) => base = level[<<p, v>>]
    /\ Run(r, <<p, v>>) = Moves(q) /\ RunStock(r) = 0
    /\ \A w \in Warehouse \ {v} : Run(r, <<p, w>>) = 0
    /\ \A w \in Warehouse : Claims(r, <<p, w>>) = 0

LEMMA OneCloses ==
    ASSUME StockInv, ProductsInv, StockInv', NEW c \in Clerks, NEW p \in Product, NEW r, NEW v \in Warehouse,
           NEW q \in Int, NEW base \in Level, Kept(base), NEW l, Closes(c, p, r, v, q, base, l)
    PROVE  ProductsInv'
<1> USE DEF Closes
<1>1. level \in [Place -> Level] /\ <<p, v>> \in Place /\ level' \in [Place -> Level]
  BY DEF StockInv, StockTypeOK, Place
<1>2. /\ l \in Level /\ Near(base.quantity, Moves(q), l.quantity, Rounds(q))
      /\ l.reserved = base.reserved + 0 /\ Moves(q) \in Int /\ Rounds(q) \in Int
  <2>1. l \in Level
    BY <1>1
  <2> QED
    BY <2>1, ChangedBy, RoundsTyped
<1>3. p # None
  BY ConstantFacts
<1> PICK s : s = NoRequest
  OBVIOUS
<1>4. /\ s.product = None /\ Sound(s) /\ RunStock(s) = 0 /\ \A k : Run(s, k) = 0 /\ Claims(s, k) = 0
      /\ Fresh(p, s)'
  BY NothingLeft
<1>5. Rewrites(c, p, r, s, s, v, l, Moves(q), 0, Rounds(q))
  BY <1>2, <1>3, <1>4 DEF Rewrites, Done
<1> QED
  BY <1>2, <1>5, OneLevel

LEMMA ChangeLevelFollows ==
    ASSUME StockInv, ProductsInv, StockInv', NEW c \in Clerks, ChangeLevel(c)
    PROVE  ProductsInv'
<1> PICK r : r = request[c]
  OBVIOUS
<1> PICK p : p = r.product
  OBVIOUS
<1> PICK v : v = r.warehouse
  OBVIOUS
<1> PICK q : q = r.quantity
  OBVIOUS
<1> PICK l : l = Write(IF r.op = "adjust" THEN Adjusted(r.level, q) ELSE Changed(r.level, q))
  OBVIOUS
<1>1. /\ r.step = "stocked" /\ Done(c) /\ level' = [level EXCEPT ![Here(c)] = l]
      /\ rounded' = [rounded EXCEPT ![Here(c)] = @ + Rounds(q)]
      /\ UNCHANGED <<stock, moved, order, held, behind, stockBehind, stockRounded, overlapped, freed, requests>>
  BY DEF ChangeLevel, Writes
<1>2. /\ Sound(r) /\ p \in Product /\ v \in Warehouse /\ q \in Int /\ Here(c) = <<p, v>> /\ r.level \in Level
      /\ r.op \in {"adjust", "issue"} /\ Kept(r.level)
  BY <1>1, AboutProduct, OpOfStep DEF Sound
<1>3. Fresh(p, r) => r.level = level[<<p, v>>]
  BY <1>1 DEF Fresh
<1>4. Run(r, <<p, v>>) = Moves(q) /\ \A w \in Warehouse \ {v} : Run(r, <<p, w>>) = 0
  BY <1>1, <1>2 DEF Run
<1>5. RunStock(r) = 0 /\ \A w \in Warehouse : Claims(r, <<p, w>>) = 0
  BY <1>1, <1>2 DEF RunStock, Claims
<1>6. Closes(c, p, r, v, q, r.level, l)
  BY <1>1, <1>2, <1>3, <1>4, <1>5 DEF Closes
<1> QED
  BY <1>2, <1>6, OneCloses

LEMMA ChangeDestinationFollows ==
    ASSUME StockInv, ProductsInv, StockInv', NEW c \in Clerks, ChangeDestination(c)
    PROVE  ProductsInv'
<1> PICK r : r = request[c]
  OBVIOUS
<1> PICK p : p = r.product
  OBVIOUS
<1> PICK v : v = r.to
  OBVIOUS
<1> PICK q : q = - r.quantity
  OBVIOUS
<1> PICK l : l = Write(Changed(r.toLevel, q))
  OBVIOUS
<1>1. /\ r.step = "sent" /\ Done(c) /\ level' = [level EXCEPT ![There(c)] = l]
      /\ rounded' = [rounded EXCEPT ![There(c)] = @ + Rounds(r.quantity)]
      /\ UNCHANGED <<stock, moved, order, held, behind, stockBehind, stockRounded, overlapped, freed, requests>>
  BY DEF ChangeDestination, Writes
<1>2. /\ Sound(r) /\ p \in Product /\ r.quantity \in Int /\ There(c) = <<p, v>> /\ r.toLevel \in Level
      /\ r.op = "transfer" /\ Kept(r.toLevel)
      /\ Rounds(q) = Rounds(r.quantity) /\ Moves(q) = - Moves(r.quantity)
  BY <1>1, AboutProduct, OpOfStep, RoundsTyped DEF Sound
<1>3. v \in Warehouse /\ q \in Int
  BY <1>2 DEF Sound
<1>4. Fresh(p, r) => r.toLevel = level[<<p, v>>]
  BY <1>1, <1>2 DEF Fresh
<1>5. Run(r, <<p, v>>) = Moves(q) /\ \A w \in Warehouse \ {v} : Run(r, <<p, w>>) = 0
  BY <1>1, <1>2 DEF Run
<1>6. RunStock(r) = 0 /\ \A w \in Warehouse : Claims(r, <<p, w>>) = 0
  BY <1>1, <1>2 DEF RunStock, Claims
<1>7. Closes(c, p, r, v, q, r.toLevel, l)
  BY <1>1, <1>2, <1>4, <1>5, <1>6 DEF Closes
<1> QED
  BY <1>2, <1>3, <1>7, OneCloses

\* An issue posted to the ledger writes everything at once.
LEMMA PostIssueFollows ==
    ASSUME StockInv, ProductsInv, StockInv', NEW c \in Clerks, PostIssue(c)
    PROVE  ProductsInv'
<1> PICK r : r = request[c]
  OBVIOUS
<1> PICK p : p = r.product
  OBVIOUS
<1> PICK v : v = r.warehouse
  OBVIOUS
<1> PICK q : q = r.quantity
  OBVIOUS
<1> PICK g : g = Moves(q)
  OBVIOUS
<1> PICK n : n = Rounds(q)
  OBVIOUS
<1> PICK l : l = Write(Changed(r.level, q))
  OBVIOUS
<1> PICK s : s = NoRequest
  OBVIOUS
<1>1. /\ r.op = "post" /\ r.step = "checked" /\ request' = [request EXCEPT ![c] = s]
      /\ moved' = [moved EXCEPT ![Here(c)] = @ + g]
      /\ stock' = [stock EXCEPT ![p] = Stored(r.stock + q)]
      /\ stockRounded' = [stockRounded EXCEPT ![p] = @ + n]
      /\ level' = [level EXCEPT ![Here(c)] = l]
      /\ rounded' = [rounded EXCEPT ![Here(c)] = @ + n]
      /\ held' = held /\ behind' = behind /\ stockBehind' = stockBehind /\ overlapped' = overlapped
      /\ freed' = freed
  BY DEF PostIssue, Done, NewProductStock, Writes, WritesStock
<1>2. /\ Sound(r) /\ p \in Product /\ v \in Warehouse /\ q \in Int /\ Here(c) = <<p, v>> /\ r.level \in Level
      /\ p # None /\ Kept(r.level) /\ g \in Int /\ n \in Int
  BY <1>1, AboutProduct, RoundsTyped DEF Sound
<1>3. /\ level \in [Place -> Level] /\ moved \in [Place -> Int] /\ stock \in [Product -> Nat]
      /\ rounded \in [Place -> Nat] /\ stockRounded \in [Product -> Nat]
      /\ moved' \in [Place -> Int] /\ <<p, v>> \in Place /\ \A k \in Place \ {<<p, v>>} : k # <<p, v>>
  BY <1>2 DEF StockInv, StockTypeOK, Place
<1>4. /\ level'[<<p, v>>] = l /\ \A k \in Place \ {<<p, v>>} : level'[k] = level[k]
      /\ moved'[<<p, v>>] = moved[<<p, v>>] + g /\ \A k \in Place \ {<<p, v>>} : moved'[k] = moved[k]
      /\ rounded'[<<p, v>>] = rounded[<<p, v>>] + n /\ \A k \in Place \ {<<p, v>>} : rounded'[k] = rounded[k]
      /\ stock'[p] = Stored(r.stock + q) /\ stockRounded'[p] = stockRounded[p] + n
      /\ \A o \in Product \ {p} : stock'[o] = stock[o] /\ stockRounded'[o] = stockRounded[o]
  BY <1>1, <1>2, <1>3
<1>5. \A o \in Product, w \in Warehouse : (o # p \/ w # v) => <<o, w>> \in Place \ {<<p, v>>}
  BY DEF Place
<1>6. \A o \in Product \ {p} : Spared(o)
  BY <1>1, <1>4, <1>5, Others
<1>7. /\ s.product = None /\ Sound(s) /\ RunStock(s) = 0 /\ \A k : Run(s, k) = 0 /\ Claims(s, k) = 0
      /\ Fresh(p, s)'
  BY <1>2, NothingLeft
<1>8. InStock(moved', p) = InStock(moved, p) + g
  <2>1. \A k \in Place : k # <<p, v>> => moved'[k] = moved[k]
    BY <1>4
  <2>2. /\ p \in Product /\ v \in Warehouse /\ g \in Int /\ moved \in [Place -> Int] /\ moved' \in [Place -> Int]
        /\ moved'[<<p, v>>] = moved[<<p, v>>] + g
    BY <1>2, <1>3, <1>4
  <2> QED
    BY ONLY <2>1, <2>2, MovedSum
<1>9. RunStock(r) = 0 /\ \A w \in Warehouse : Run(r, <<p, w>>) = 0 /\ Claims(r, <<p, w>>) = 0
  BY <1>1 DEF RunStock, Run, Claims
<1>10. /\ l \in Level /\ Near(r.level.quantity, g, l.quantity, n) /\ l.reserved = r.level.reserved + 0
  <2>1. level'[<<p, v>>] \in Level
    BY <1>3 DEF StockInv, StockTypeOK
  <2> QED
    BY <1>2, <1>4, <2>1, ChangedBy
<1>11. ASSUME Follows(p, r) PROVE Follows(p, s)'
  <2>1. Fresh(p, r) /\ LevelsFollow(p, r) /\ TotalFollows(p, r) /\ RowsFollow(p, r)
    BY <1>11 DEF Follows
  <2>2. r.stock = stock[p] /\ r.level = level[<<p, v>>]
    BY <1>1, <2>1 DEF Fresh
  <2>3. LevelsFollow(p, s)'
    <3> SUFFICES ASSUME NEW w \in Warehouse PROVE LevelFollows(p, s, w)'
      BY DEF LevelsFollow
    <3>1. LevelFollows(p, r, w)
      BY <2>1 DEF LevelsFollow
    <3>2. CASE w = v
      <4> DEFINE x == moved[<<p, v>>]
                 y == level[<<p, v>>].quantity
                 z == l.quantity
                 b == behind[<<p, v>>]
                 m == rounded[<<p, v>>]
      <4>1. y \in Int /\ b \in Int /\ x \in Int /\ m \in Int /\ z \in Int
        BY <1>2, <1>10, NumbersKnown DEF Level
      <4>2. Trails(x, y, b, 0, m) /\ Near(y, g, z, n)
        BY <1>9, <1>10, <2>2, <3>1, <3>2 DEF LevelFollows
      <4>3. /\ moved'[<<p, v>>] = x + g /\ level'[<<p, v>>].quantity = z /\ behind'[<<p, v>>] = b
            /\ rounded'[<<p, v>>] = m + n
        BY <1>1, <1>4
      <4> HIDE DEF x, y, z, b, m
      <4>4. (x + g) - x + 0 = g + 0 /\ x + g \in Int /\ m + n \in Int
        BY <1>2, <4>1
      <4>5. Trails(x + g, z, b, 0, m + n)
        BY <1>2, <4>1, <4>2, <4>4, CatchesUp
      <4> QED
        BY <1>7, <3>2, <4>3, <4>5 DEF LevelFollows
    <3>3. CASE w # v
      BY <1>1, <1>2, <1>4, <1>5, <1>7, <1>9, <3>1, <3>3 DEF LevelFollows
    <3> QED
      BY <3>2, <3>3
  <2>4. TotalFollows(p, s)'
    <3>1. TotalKept(p, q) /\ stockBehind'[p] = stockBehind[p]
      BY <1>1, <1>2, <1>4, <2>2, TotalNumbers DEF TotalKept
    <3>2. RunStock(r) \in Int /\ RunStock(r) + g = Moves(q)
      BY <1>2, <1>9
    <3> QED
      BY <1>2, <1>7, <1>8, <2>1, <3>1, <3>2, TotalCatchesUp
  <2>5. RowsFollow(p, s)'
    <3>1. \A w \in Warehouse : level'[<<p, w>>].reserved = level[<<p, w>>].reserved
      <4> SUFFICES ASSUME NEW w \in Warehouse PROVE level'[<<p, w>>].reserved = level[<<p, w>>].reserved
        OBVIOUS
      <4>1. CASE w = v
        BY <1>2, <1>4, <1>10, <2>2, <4>1, NumbersKnown
      <4>2. CASE w # v
        BY <1>2, <1>4, <1>5, <4>2
      <4> QED
        BY <4>1, <4>2
    <3>2. \A w \in Warehouse : Claims(s, <<p, w>>) = Claims(r, <<p, w>>)
      BY <1>7, <1>9
    <3> QED
      BY <1>1, <2>1, <3>1, <3>2 DEF RowsFollow
  <2> QED
    BY <1>7, <2>3, <2>4, <2>5 DEF Follows
<1> QED
  BY <1>1, <1>2, <1>6, <1>7, <1>11, OneWorks

LEMMA ReadDestinationFollows ==
    ASSUME StockInv, ProductsInv, StockInv', NEW c \in Clerks, ReadDestination(c)
    PROVE  ProductsInv'
<1> PICK r : r = request[c]
  OBVIOUS
<1> PICK p : p = r.product
  OBVIOUS
<1> PICK l : l = level[There(c)]
  OBVIOUS
<1> PICK new : new = [r EXCEPT !.step = "checked", !.toLevel = l]
  OBVIOUS
<1>1. /\ r.step = "source" /\ request' = [request EXCEPT ![c] = new]
      /\ UNCHANGED <<books, order, held, history, requests>>
  BY DEF ReadDestination
<1>2. Sound(r) /\ r \in Request /\ p \in Product /\ There(c) = <<p, r.to>> /\ r.op = "transfer"
  BY <1>1, AboutProduct, OpOfStep DEF Sound
<1>3. Sound(new)
  <2>1. request'[c] = new
    BY <1>1, Known
  <2> QED
    BY <2>1 DEF StockInv
<1>4. /\ new.op = r.op /\ new.product = p /\ new.warehouse = r.warehouse /\ new.to = r.to
      /\ new.step = "checked" /\ new.level = r.level /\ new.toLevel = l
  BY <1>2 DEF Request
<1>5. Fresh(p, r) => Fresh(p, new)
  BY <1>1, <1>2, <1>4 DEF Fresh
<1>6. \A w \in Warehouse : Run(new, <<p, w>>) = Run(r, <<p, w>>) /\ Claims(new, <<p, w>>) = Claims(r, <<p, w>>)
  BY <1>1, <1>2, <1>4 DEF Run, Claims
<1>7. RunStock(new) = RunStock(r)
  BY <1>1, <1>4 DEF RunStock
<1>8. Reads(c, p, r, new)
  BY <1>1, <1>3, <1>4, <1>5, <1>6, <1>7 DEF Reads
<1> QED
  BY <1>2, <1>8, OnlyReads

LEMMA ReadLevelFollows ==
    ASSUME StockInv, ProductsInv, StockInv', NEW c \in Clerks, ReadLevel(c)
    PROVE  ProductsInv'
<1> PICK r : r = request[c]
  OBVIOUS
<1> PICK p : p = r.product
  OBVIOUS
<1> PICK l : l = level[Here(c)]
  OBVIOUS
<1> PICK new : new = [r EXCEPT !.step = "checked", !.level = l]
  OBVIOUS
<1>1. /\ r.step = "picked" /\ request' = [request EXCEPT ![c] = new]
      /\ UNCHANGED <<books, order, held, history, requests>>
  BY DEF ReadLevel
<1>2. /\ Sound(r) /\ r \in Request /\ p \in Product /\ Here(c) = <<p, r.warehouse>>
      /\ r.op \in {"reserve", "release", "undo"}
  BY <1>1, AboutProduct, OpOfStep DEF Sound
<1>3. Sound(new)
  <2>1. request'[c] = new
    BY <1>1, Known
  <2> QED
    BY <2>1 DEF StockInv
<1>4. /\ new.op = r.op /\ new.product = p /\ new.warehouse = r.warehouse /\ new.quantity = r.quantity
      /\ new.step = "checked" /\ new.level = l
  BY <1>2 DEF Request
<1>5. Fresh(p, r) => Fresh(p, new)
  BY <1>1, <1>2, <1>4 DEF Fresh
<1>6. \A w \in Warehouse : Run(new, <<p, w>>) = Run(r, <<p, w>>)
  BY <1>2, <1>4 DEF Run
<1>7. \A w \in Warehouse : Claims(new, <<p, w>>) = Claims(r, <<p, w>>)
  BY <1>1, <1>2, <1>4 DEF Claims
<1>8. RunStock(new) = RunStock(r)
  BY <1>2, <1>4 DEF RunStock
<1>9. Reads(c, p, r, new)
  BY <1>1, <1>3, <1>4, <1>5, <1>6, <1>7, <1>8 DEF Reads
<1> QED
  BY <1>2, <1>9, OnlyReads

LEMMA RollBackFollows ==
    ASSUME StockInv, ProductsInv, StockInv', NEW c \in Clerks, RollBackReservation(c)
    PROVE  ProductsInv'
<1> PICK r : r = request[c]
  OBVIOUS
<1> PICK p : p = r.product
  OBVIOUS
<1> PICK new : new = [r EXCEPT !.op = "undo", !.step = "picked"]
  OBVIOUS
<1>1. /\ r.op = "reserve" /\ r.step = "row" /\ request' = [request EXCEPT ![c] = new]
      /\ UNCHANGED <<books, order, held, history, requests>>
  BY Known DEF RollBackReservation
<1>2. Sound(r) /\ r \in Request /\ p \in Product
  BY <1>1, AboutProduct DEF Sound
<1>3. Sound(new)
  <2>1. request'[c] = new
    BY <1>1, Known
  <2> QED
    BY <2>1 DEF StockInv
<1>4. /\ new.op = "undo" /\ new.product = p /\ new.warehouse = r.warehouse /\ new.quantity = r.quantity
      /\ new.step = "picked"
  BY <1>2 DEF Request
<1>5. Fresh(p, new)
  BY <1>4 DEF Fresh
<1>6. \A w \in Warehouse : Run(new, <<p, w>>) = Run(r, <<p, w>>)
  BY <1>1, <1>4 DEF Run
<1>7. \A w \in Warehouse : Claims(new, <<p, w>>) = Claims(r, <<p, w>>)
  BY <1>1, <1>4 DEF Claims
<1>8. RunStock(new) = RunStock(r)
  BY <1>1, <1>4 DEF RunStock
<1>9. Reads(c, p, r, new)
  BY <1>1, <1>3, <1>4, <1>5, <1>6, <1>7, <1>8 DEF Reads
<1> QED
  BY <1>2, <1>9, OnlyReads

\* A level is reserved or released; then comes the row, or the end.
LEMMA ReservedFollows ==
    ASSUME StockInv, ProductsInv, StockInv', NEW c \in Clerks, ReserveStock(c) \/ ReleaseStock(c)
    PROVE  ProductsInv'
<1> PICK r : r = request[c]
  OBVIOUS
<1> PICK p : p = r.product
  OBVIOUS
<1> PICK v : v = r.warehouse
  OBVIOUS
<1> PICK q : q = r.quantity
  OBVIOUS
<1> PICK e : e = IF r.op = "reserve" THEN q ELSE - q
  OBVIOUS
<1> PICK b : b = IF r.op = "reserve" THEN Stored(q) ELSE - LevelReleased(q)
  OBVIOUS
<1> PICK n : n = Rounds(q)
  OBVIOUS
<1> PICK l : l = Write(Reserved(r.level, e))
  OBVIOUS
<1>1. /\ r.op \in {"reserve", "release", "undo"} /\ r.step = "checked"
      /\ level' = [level EXCEPT ![Here(c)] = l]
      /\ rounded' = [rounded EXCEPT ![Here(c)] = @ + n]
      /\ UNCHANGED <<stock, moved, order, held, behind, stockBehind, stockRounded, overlapped, requests>>
  <2>1. CASE ReserveStock(c)
    BY <2>1 DEF ReserveStock, Writes
  <2>2. CASE ReleaseStock(c)
    BY <2>2 DEF ReleaseStock, Writes
  <2> QED
    BY <2>1, <2>2
<1>2. /\ Sound(r) /\ p \in Product /\ v \in Warehouse /\ q \in Int /\ Here(c) = <<p, v>> /\ r.level \in Level
      /\ p # None /\ Kept(r.level) /\ Checked(r)
  BY <1>1, AboutProduct, OpOfStep DEF Sound
<1>3. /\ q >= 0 /\ e \in Int /\ n \in Nat /\ Stored(q) \in Nat /\ LevelReleased(q) \in Nat
      /\ LevelReleased(q) <= Stored(q) /\ b \in Int /\ Stored(r.level.reserved + e) = r.level.reserved + b
  <2> DEFINE a == r.level.reserved
  <2>1. q >= 0 /\ e \in Int /\ n \in Nat
    BY <1>1, <1>2, RoundsTyped DEF Sound
  <2>2. a \in Int /\ a >= 0 /\ Whole(a)
    BY <1>2 DEF Level, Kept
  <2>3. r.op # "reserve" => a >= q
    BY <1>1, <1>2, <2>2 DEF Checked
  <2> HIDE DEF a
  <2>4. /\ Stored(a + q) = a + Stored(q) /\ (a >= q => Stored(a - q) = a - LevelReleased(q))
        /\ Stored(q) \in Nat /\ LevelReleased(q) \in Nat /\ LevelReleased(q) <= Stored(q)
    BY <1>2, <2>1, <2>2, StoredBy
  <2>5. b \in Int
    BY <2>4
  <2>6. Stored(a + e) = a + b
    <3>1. CASE r.op = "reserve"
      BY <2>4, <3>1
    <3>2. CASE r.op # "reserve"
      <4>1. a + e = a - q /\ a + b = a - LevelReleased(q)
        BY <1>2, <2>2, <2>4, <3>2
      <4> QED
        BY <2>3, <2>4, <3>2, <4>1
    <3> QED
      BY <3>1, <3>2
  <2> QED
    BY <2>1, <2>4, <2>5, <2>6 DEF a
<1>4. freed \in [Product -> BOOLEAN] /\ \A o \in Product : freed[o] => freed'[o]
  <2>1. CASE ReserveStock(c)
    BY <2>1 DEF ReserveStock, StockInv, StockTypeOK
  <2>2. CASE ReleaseStock(c)
    BY <2>2 DEF ReleaseStock, StockInv, StockTypeOK
  <2> QED
    BY <2>1, <2>2
<1>5. \/ Goes(c, "row") /\ r.op \in {"reserve", "release"}
      \/ Done(c) /\ (r.op \in {"reserve", "undo"} \/ (r.op = "release" /\ freed'[p]))
  <2>1. CASE ReserveStock(c)
    BY <2>1 DEF ReserveStock
  <2>2. CASE ReleaseStock(c)
    BY <1>1, <1>2, <2>2 DEF ReleaseStock
  <2> QED
    BY <2>1, <2>2
<1>6. PICK new, s :
         /\ request' = [request EXCEPT ![c] = new] /\ Sound(new) /\ new.product \in {p, None}
         /\ s = IF new.product = p THEN new ELSE NoRequest
         /\ \/ /\ s.op = r.op /\ s.step = "row" /\ s.product = p /\ s.warehouse = v /\ s.quantity = q
               /\ r.op \in {"reserve", "release"}
            \/ s = NoRequest /\ (r.op \in {"reserve", "undo"} \/ (r.op = "release" /\ freed'[p]))
  <2>1. CASE Goes(c, "row") /\ r.op \in {"reserve", "release"}
    <3>1. "row" \in Steps
      BY DEF Steps
    <3>2. PICK new :
              /\ request' = [request EXCEPT ![c] = new] /\ Sound(new)
              /\ new.step = "row" /\ new.op = r.op /\ new.product = r.product /\ new.warehouse = r.warehouse
              /\ new.to = r.to /\ new.quantity = r.quantity /\ new.stock = r.stock
              /\ new.level = r.level /\ new.toLevel = r.toLevel
      BY <2>1, <3>1, GoesTo
    <3> WITNESS new, new
    <3> QED
      BY <2>1, <3>2
  <2>2. CASE Done(c) /\ (r.op \in {"reserve", "undo"} \/ (r.op = "release" /\ freed'[p]))
    <3>1. NoRequest.product = None /\ Sound(NoRequest)
      BY NothingLeft
    <3>2. request' = [request EXCEPT ![c] = NoRequest]
      BY <2>2 DEF Done
    <3> WITNESS NoRequest, NoRequest
    <3> QED
      BY <1>2, <2>2, <3>1, <3>2
  <2> QED
    BY <1>5, <2>1, <2>2
<1>7. level \in [Place -> Level] /\ level' \in [Place -> Level] /\ <<p, v>> \in Place
  BY <1>2 DEF StockInv, StockTypeOK, Place
<1>8. l \in Level /\ Near(r.level.quantity, 0, l.quantity, n) /\ l.reserved = r.level.reserved + b
  <2>1. l \in Level
    BY <1>1, <1>2, <1>7
  <2>2. l.quantity = r.level.quantity /\ l.reserved = r.level.reserved + b
    BY <1>2, <1>3, ReservedBy
  <2>3. l.quantity \in Int /\ l.quantity + 0 = l.quantity
    BY <2>1 DEF Level
  <2>4. Near(r.level.quantity, 0, l.quantity, n)
    BY <1>3, <2>2, <2>3, WithinItself DEF Near
  <2> QED
    BY <2>1, <2>2, <2>4
<1>9. /\ \A w \in Warehouse : Run(r, <<p, w>>) = 0 /\ Run(s, <<p, w>>) = 0
      /\ RunStock(r) = 0 /\ RunStock(s) = 0
  <2>1. (\A w \in Warehouse : Run(r, <<p, w>>) = 0) /\ RunStock(r) = 0
    BY <1>1 DEF Run, RunStock
  <2>2. (\A w \in Warehouse : Run(s, <<p, w>>) = 0) /\ RunStock(s) = 0
    <3>1. CASE s = NoRequest
      BY <3>1, NothingLeft
    <3>2. CASE s # NoRequest
      BY <1>6, <3>2 DEF Run, RunStock
    <3> QED
      BY <3>1, <3>2
  <2> QED
    BY <2>1, <2>2
<1>10. Fresh(p, s)'
  <2>1. CASE s = NoRequest
    BY <1>2, <2>1, NothingLeft
  <2>2. CASE s # NoRequest
    BY <1>6, <2>2 DEF Fresh
  <2> QED
    BY <2>1, <2>2
<1>11. ASSUME ~freed'[p]
       PROVE  /\ Claims(s, <<p, v>>) <= Claims(r, <<p, v>>) + b
              /\ \A w \in Warehouse \ {v} : Claims(s, <<p, w>>) = Claims(r, <<p, w>>)
  <2>1. /\ Claims(r, <<p, v>>) = IF r.op = "undo" THEN Stored(q) ELSE 0
        /\ \A w \in Warehouse \ {v} : Claims(r, <<p, w>>) = 0
    BY <1>1 DEF Claims
  <2>2. CASE s = NoRequest
    <3>1. \A w \in Warehouse : Claims(s, <<p, w>>) = 0
      BY <2>2, NothingLeft
    <3>2. r.op \in {"reserve", "undo", "release"} /\ (r.op = "release" => s.step = "row")
      BY <1>1, <1>6, <1>11
    <3>3. NoRequest.step # "row"
      BY NoRequestSound
    <3>4. Claims(r, <<p, v>>) + b >= 0
      BY <1>2, <1>3, <2>1, <2>2, <3>2, <3>3
    <3> QED
      BY <1>2, <2>1, <3>1, <3>4
  <2>3. CASE s # NoRequest
    <3>1. r.op \in {"reserve", "release"} /\ Claims(s, <<p, v>>) = b
      BY <1>6, <2>3 DEF Claims
    <3>2. \A w \in Warehouse \ {v} : Claims(s, <<p, w>>) = 0
      BY <1>6, <2>3 DEF Claims
    <3> QED
      BY <1>3, <2>1, <3>1, <3>2
  <2> QED
    BY <2>2, <2>3
<1>12. Fresh(p, r) => /\ Near(level[<<p, v>>].quantity, 0, l.quantity, n)
                      /\ l.reserved = level[<<p, v>>].reserved + b
                      /\ Fresh(p, s)'
                      /\ Run(r, <<p, v>>) = Run(s, <<p, v>>) + 0
                      /\ \A w \in Warehouse \ {v} : Run(r, <<p, w>>) = Run(s, <<p, w>>)
  <2>1. Fresh(p, r) => r.level = level[<<p, v>>]
    BY <1>1 DEF Fresh
  <2> QED
    BY <1>2, <1>8, <1>9, <1>10, <2>1
<1>13. Rewrites(c, p, r, new, s, v, l, 0, b, n)
  BY <1>1, <1>2, <1>4, <1>6, <1>9, <1>11, <1>12 DEF Rewrites
<1> QED
  BY <1>2, <1>3, <1>8, <1>13, OneLevel

\* The row of an order is written, or what was released is taken from it.
LEMMA RowFollows ==
    ASSUME StockInv, ProductsInv, StockInv', NEW c \in Clerks,
           UpsertStockReservation(c) \/ ReleaseStockReservation(c)
    PROVE  ProductsInv'
<1> PICK r : r = request[c]
  OBVIOUS
<1> PICK p : p = r.product
  OBVIOUS
<1> PICK v : v = r.warehouse
  OBVIOUS
<1> PICK o : o = r.order
  OBVIOUS
<1> PICK s : s = NoRequest
  OBVIOUS
<1> PICK q : q = IF r.op = "reserve" THEN Stored(r.quantity) ELSE - LevelReleased(r.quantity)
  OBVIOUS
<1>1. /\ r.op \in {"reserve", "release"} /\ r.step = "row" /\ NextProduct(c)
      /\ r.op = "release" => held[o][Here(c)] >= r.quantity
      /\ UNCHANGED <<books, order, history, requests>>
  BY DEF UpsertStockReservation, ReleaseStockReservation
<1>2. /\ Sound(r) /\ p \in Product /\ v \in Warehouse /\ r.quantity \in Int /\ Here(c) = <<p, v>> /\ p # None
      /\ o \in Order /\ <<p, v>> \in Place
  BY <1>1, AboutProduct DEF Sound, Place
<1>3. /\ q \in Int /\ held \in [Order -> [Place -> Nat]] /\ held[o][<<p, v>>] \in Nat
      /\ Stored(r.quantity) \in Nat
      /\ r.op = "release" => Stored(held[o][<<p, v>>] - r.quantity) = held[o][<<p, v>>] + q
  <2> DEFINE a == held[o][<<p, v>>]
  <2>1. held \in [Order -> [Place -> Nat]] /\ a \in Nat /\ Whole(a)
    BY <1>2 DEF StockInv, StockTypeOK
  <2>2. a \in Int /\ a >= 0 /\ r.quantity >= 0
    BY <1>1, <1>2, <2>1 DEF Sound
  <2>3. r.op = "release" => a >= r.quantity
    BY <1>1, <1>2
  <2> HIDE DEF a
  <2>4. /\ a >= r.quantity => Stored(a - r.quantity) = a - LevelReleased(r.quantity)
        /\ Stored(r.quantity) \in Nat /\ LevelReleased(r.quantity) \in Nat
    BY <1>2, <2>1, <2>2, StoredBy
  <2>5. q \in Int
    BY <2>4
  <2>6. r.op = "release" => Stored(a - r.quantity) = a + q
    BY <2>2, <2>3, <2>4
  <2> QED
    BY <2>1, <2>4, <2>5, <2>6 DEF a
<1> PICK n : n = held[o][<<p, v>>] + q
  OBVIOUS
<1>4. held' = [held EXCEPT ![o][<<p, v>>] = n] /\ n \in Nat
  <2>1. CASE r.op = "reserve"
    <3>1. held' = [held EXCEPT ![o][<<p, v>>] = held[o][<<p, v>>] + q]
      BY <1>2, <2>1 DEF UpsertStockReservation, ReleaseStockReservation
    <3>2. q \in Nat
      BY <1>3, <2>1
    <3>3. n \in Nat
      BY <1>3, <3>2
    <3>4. held' = [held EXCEPT ![o][<<p, v>>] = n]
      BY <3>1, Zenon
    <3> QED
      BY <3>3, <3>4
  <2>2. CASE r.op = "release"
    <3>0. ReleaseStockReservation(c)
      BY <2>2 DEF UpsertStockReservation
    <3>1. held' = [held EXCEPT ![o][<<p, v>>] = Stored(held[o][<<p, v>>] - r.quantity)]
      BY <1>2, <3>0 DEF ReleaseStockReservation, RowReleased
    <3>2. n = Stored(held[o][<<p, v>>] - r.quantity) /\ held[o][<<p, v>>] - r.quantity >= 0
      BY <1>1, <1>2, <1>3, <2>2
    <3>3. n \in Nat
      <4> PICK x : x = held[o][<<p, v>>] - r.quantity
        OBVIOUS
      <4>1. x \in Int /\ n \in Int
        BY <1>2, <1>3
      <4>2. x >= 0 /\ n = Stored(x)
        BY <3>2, Zenon
      <4>3. Stored(x) >= 0
        BY ONLY <4>1, <4>2, StoredWhole
      <4> QED
        BY ONLY <4>1, <4>2, <4>3
    <3>4. held' = [held EXCEPT ![o][<<p, v>>] = n]
      BY <3>1, <3>2, Zenon
    <3> QED
      BY <3>3, <3>4
  <2> QED
    BY <1>1, <2>1, <2>2
<1>5. /\ stock' = stock /\ level' = level /\ moved' = moved /\ behind' = behind
      /\ stockBehind' = stockBehind /\ overlapped' = overlapped /\ freed' = freed
      /\ rounded' = rounded /\ stockRounded' = stockRounded
  BY <1>1 DEF books, history, roundings
<1>6. /\ HeldOf(held', <<p, v>>) = HeldOf(held, <<p, v>>) + q
      /\ \A k \in Place \ {<<p, v>>} : HeldOf(held', k) = HeldOf(held, k)
  <2>0. /\ held' \in [Order -> [Place -> Nat]] /\ held'[o][<<p, v>>] = n
        /\ \A i \in Order, j \in Place : i # o \/ j # <<p, v>> => held'[i][j] = held[i][j]
    <3>1. held' \in [Order -> [Place -> Nat]]
      BY DEF StockInv, StockTypeOK
    <3>2. held'[o] = [held[o] EXCEPT ![<<p, v>>] = n] /\ \A i \in Order \ {o} : held'[i] = held[i]
      BY <1>2, <1>3, <1>4
    <3>3. held[o] \in [Place -> Nat]
      BY <1>2, <1>3
    <3>4. held'[o][<<p, v>>] = n /\ \A j \in Place : j # <<p, v>> => held'[o][j] = held[o][j]
      BY <1>2, <3>2, <3>3
    <3> QED
      BY <3>1, <3>2, <3>4, Zenon
  <2>1. /\ HeldOf(held', <<p, v>>) = HeldOf(held, <<p, v>>) - held[o][<<p, v>>] + n
        /\ \A k \in Place \ {<<p, v>>} : HeldOf(held', k) = HeldOf(held, k)
    BY ONLY ZenonT(60), <1>2, <1>3, <2>0, HeldSum
  <2>2. HeldOf(held, <<p, v>>) \in Int
    BY <1>2, NumbersKnown
  <2>3. HeldOf(held', <<p, v>>) = HeldOf(held, <<p, v>>) + q
    <3> PICK a, b : a = HeldOf(held, <<p, v>>) /\ b = held[o][<<p, v>>]
      OBVIOUS
    <3>1. a \in Int /\ b \in Nat /\ q \in Int /\ n = b + q
      BY <1>3, <2>2
    <3>2. a - b + n = a + q
      BY ONLY <3>1
    <3> QED
      BY <2>1, <3>2
  <2> QED
    BY <2>1, <2>3
<1>7. \A x \in Product, w \in Warehouse : (x # p \/ w # v) => <<x, w>> \in Place \ {<<p, v>>}
  BY DEF Place
<1>8. \A x \in Product \ {p} : Spared(x)
  <2> SUFFICES ASSUME NEW x \in Product \ {p} PROVE Spared(x)
    OBVIOUS
  <2>1. \A w \in Warehouse : HeldOf(held', <<x, w>>) <= HeldOf(held, <<x, w>>) /\ HeldOf(held', <<x, w>>) \in Int
    <3> SUFFICES ASSUME NEW w \in Warehouse
                 PROVE  HeldOf(held', <<x, w>>) <= HeldOf(held, <<x, w>>) /\ HeldOf(held', <<x, w>>) \in Int
      OBVIOUS
    <3>1. HeldOf(held, <<x, w>>) \in Int /\ HeldOf(held', <<x, w>>) = HeldOf(held, <<x, w>>)
      BY <1>6, <1>7, NumbersKnown
    <3> QED
      BY <3>1
  <2> QED
    BY <1>5, <2>1 DEF Spared
<1>9. PICK new : request' = [request EXCEPT ![c] = new] /\ new.product = None
  <2>1. CASE request' = [request EXCEPT ![c] = NoRequest]
    BY <2>1, NothingLeft
  <2>2. CASE ~(request' = [request EXCEPT ![c] = NoRequest])
    <3> DEFINE left == [r.todo EXCEPT ![p] = 0]
               m == [NoRequest EXCEPT !.op = r.op, !.step = "order", !.warehouse = v, !.order = o, !.todo = left]
    <3>1. request' = [request EXCEPT ![c] = m]
      BY <1>1, <2>2 DEF NextProduct, Done
    <3>2. m.product = None
      BY DEF NoRequest
    <3> HIDE DEF m
    <3> QED
      BY <3>1, <3>2
  <2> QED
    BY <2>1, <2>2
<1>10. Sound(new)
  <2>1. request'[c] = new
    BY <1>9, Known
  <2> QED
    BY <2>1 DEF StockInv
<1>11. /\ RunStock(s) = 0 /\ Fresh(p, s)' /\ \A k : Run(s, k) = 0 /\ Claims(s, k) = 0
  BY <1>2, NothingLeft
<1>12. /\ RunStock(r) = 0 /\ \A w \in Warehouse : Run(r, <<p, w>>) = 0
       /\ Claims(r, <<p, v>>) = q /\ \A w \in Warehouse \ {v} : Claims(r, <<p, w>>) = 0
  <2>1. RunStock(r) = 0 /\ \A w \in Warehouse : Run(r, <<p, w>>) = 0
    BY <1>1 DEF RunStock, Run
  <2>2. Claims(r, <<p, v>>) = q
    BY <1>1 DEF Claims
  <2>3. \A w \in Warehouse \ {v} : Claims(r, <<p, w>>) = 0
    BY DEF Claims
  <2> QED
    BY <2>1, <2>2, <2>3
<1>13. ASSUME Follows(p, r) PROVE Follows(p, s)'
  <2>1. LevelsFollow(p, r) /\ TotalFollows(p, r) /\ RowsFollow(p, r)
    BY <1>13 DEF Follows
  <2>2. LevelsFollow(p, s)'
    BY <1>5, <1>11, <1>12, <2>1 DEF LevelsFollow, LevelFollows
  <2>3. TotalFollows(p, s)'
    BY <1>5, <1>11, <1>12, <2>1 DEF TotalFollows
  <2>4. RowsFollow(p, s)'
    <3> SUFFICES ASSUME ~freed'[p], NEW w \in Warehouse
                 PROVE  HeldOf(held', <<p, w>>) + Claims(s, <<p, w>>) <= level'[<<p, w>>].reserved
      BY DEF RowsFollow
    <3>1. HeldOf(held, <<p, w>>) + Claims(r, <<p, w>>) <= level[<<p, w>>].reserved
      BY <1>5, <2>1 DEF RowsFollow
    <3>2. HeldOf(held, <<p, w>>) \in Int /\ level[<<p, w>>].reserved \in Int
      BY <1>2, NumbersKnown
    <3>3. HeldOf(held', <<p, w>>) = HeldOf(held, <<p, w>>) + Claims(r, <<p, w>>)
      BY <1>2, <1>6, <1>7, <1>12, <3>2
    <3> QED
      BY <1>3, <1>5, <1>11, <1>12, <3>1, <3>2, <3>3
  <2> QED
    BY <1>11, <2>2, <2>3, <2>4 DEF Follows
<1> QED
  BY <1>2, <1>5, <1>8, <1>9, <1>10, <1>13, OneWorks

-----------------------------------------------------------------------------
(* Stopping *)

LEMMA AheadRuns ==
    ASSUME NEW c \in Clerks, NEW r, r = request[c]
    PROVE  (\A k : Ahead(c, k) = Run(r, k)) /\ AheadOfStock(c) = RunStock(r)
<1>1. \A k : Ahead(c, k) = Run(r, k)
  BY DEF Ahead, Run, Here, There
<1> QED
  BY <1>1 DEF AheadOfStock, RunStock

\* What a request had still to write, it will not.
LEMMA TrailsStops ==
    ASSUME NEW x \in Int, NEW y \in Int, NEW b \in Int, NEW run \in Int, NEW n \in Int,
           Trails(x, y, b, run, n)
    PROVE  Trails(x, y, b + run, 0, n)
BY SMT DEF Trails, Within, Thousandth, Millionth

LEMMA FailFollows ==
    ASSUME StockInv, ProductsInv, StockInv', NEW c \in Clerks, Fail(c)
    PROVE  ProductsInv'
<1> PICK r : r = request[c]
  OBVIOUS
<1> PICK p : p = r.product
  OBVIOUS
<1> PICK s : s = NoRequest
  OBVIOUS
<1>1. /\ r.step # "idle" /\ request' = [request EXCEPT ![c] = s]
      /\ stock' = stock /\ level' = level /\ moved' = moved /\ held' = held /\ overlapped' = overlapped
      /\ rounded' = rounded /\ stockRounded' = stockRounded
      /\ behind' = [k \in Place |-> behind[k] + Ahead(c, k)]
      /\ stockBehind' = [q \in Product |-> stockBehind[q] + IF q = p THEN AheadOfStock(c) ELSE 0]
      /\ freed' = [q \in Product |-> freed[q] \/ (q = p /\ r.op = "release" /\ r.step = "row")]
  BY DEF Fail, Done, books, roundings
<1>2. /\ Sound(r) /\ s.product = None /\ Sound(s) /\ RunStock(s) = 0 /\ \A k : Run(s, k) = 0 /\ Claims(s, k) = 0
      /\ None \notin Product /\ freed \in [Product -> BOOLEAN] /\ request \in [Clerks -> Request]
  BY NothingLeft, ConstantFacts DEF StockInv, StockTypeOK
<1>3. \A q \in Product \ {p}, w \in Warehouse : Run(r, <<q, w>>) = 0
  BY DEF Run
<1>4. /\ \A q \in Product, w \in Warehouse : behind'[<<q, w>>] = behind[<<q, w>>] + Run(r, <<q, w>>)
      /\ p \in Product => stockBehind'[p] = stockBehind[p] + RunStock(r)
  <2>1. (\A k : Ahead(c, k) = Run(r, k)) /\ AheadOfStock(c) = RunStock(r)
    BY AheadRuns
  <2>2. \A q \in Product, w \in Warehouse : <<q, w>> \in Place
    BY DEF Place
  <2> QED
    BY <1>1, <2>1, <2>2
<1>5. ASSUME NEW q \in Product, q # p PROVE Spared(q)
  <2>1. stockBehind'[q] = stockBehind[q]
    <3>1. stockBehind[q] \in Int
      BY DEF StockInv, StockTypeOK
    <3> QED
      BY <1>1, <1>5, <3>1
  <2>2. \A w \in Warehouse : behind'[<<q, w>>] = behind[<<q, w>>]
    <3>1. \A w \in Warehouse : behind[<<q, w>>] \in Int
      BY NumbersKnown
    <3> QED
      BY <1>3, <1>4, <1>5, <3>1
  <2>3. freed[q] => freed'[q]
    BY <1>1
  <2> QED
    BY <1>1, <2>1, <2>2, <2>3, Others
<1>6. CASE p \notin Product
  <2>1. p = None
    BY <1>2, <1>6 DEF Sound, Request
  <2>2. \A d \in Clerks : request'[d] = request[d] \/ (request[d].product = None /\ request'[d].product = None)
    BY <1>1, <1>2, <2>1
  <2> QED
    BY <1>1, <1>5, <1>6, <2>2, NoneWorks
<1>7. CASE p \in Product
  <2>1. ASSUME Follows(p, r) PROVE Follows(p, s)'
    <3>1. LevelsFollow(p, r) /\ TotalFollows(p, r) /\ RowsFollow(p, r)
      BY <2>1 DEF Follows
    <3>2. LevelsFollow(p, s)'
      <4> SUFFICES ASSUME NEW w \in Warehouse PROVE LevelFollows(p, s, w)'
        BY DEF LevelsFollow
      <4>1. Trails(moved[<<p, w>>], level[<<p, w>>].quantity, behind[<<p, w>>], Run(r, <<p, w>>), rounded[<<p, w>>])
        BY <3>1 DEF LevelsFollow, LevelFollows
      <4>2. /\ moved[<<p, w>>] \in Int /\ level[<<p, w>>].quantity \in Int /\ behind[<<p, w>>] \in Int
            /\ Run(r, <<p, w>>) \in Int /\ rounded[<<p, w>>] \in Int
        BY <1>2, <1>7, NumbersKnown, RunTyped
      <4>3. Trails(moved[<<p, w>>], level[<<p, w>>].quantity, behind[<<p, w>>] + Run(r, <<p, w>>), 0,
                   rounded[<<p, w>>])
        BY ONLY <4>1, <4>2, TrailsStops
      <4>4. behind'[<<p, w>>] = behind[<<p, w>>] + Run(r, <<p, w>>) /\ Run(s, <<p, w>>) = 0
        BY <1>2, <1>4, <1>7
      <4> QED
        BY <1>1, <4>3, <4>4 DEF LevelFollows
    <3>3. TotalFollows(p, s)'
      <4>1. Trails(InStock(moved, p), stock[p], stockBehind[p], RunStock(r), stockRounded[p])
        BY <3>1 DEF TotalFollows
      <4>2. /\ InStock(moved, p) \in Int /\ stock[p] \in Int /\ stockBehind[p] \in Int
            /\ RunStock(r) \in Int /\ stockRounded[p] \in Int
        BY <1>2, <1>7, TotalNumbers, RunTyped
      <4>3. Trails(InStock(moved, p), stock[p], stockBehind[p] + RunStock(r), 0, stockRounded[p])
        BY ONLY <4>1, <4>2, TrailsStops
      <4>4. stockBehind'[p] = stockBehind[p] + RunStock(r) /\ RunStock(s) = 0
        BY <1>2, <1>4, <1>7
      <4>5. InStock(moved', p) = InStock(moved, p)
        BY <1>1
      <4> QED
        BY <1>1, <4>3, <4>4, <4>5 DEF TotalFollows
    <3>4. RowsFollow(p, s)'
      <4> SUFFICES ASSUME ~freed'[p], NEW w \in Warehouse
                   PROVE  HeldOf(held', <<p, w>>) + Claims(s, <<p, w>>) <= level'[<<p, w>>].reserved
        BY DEF RowsFollow
      <4>1. ~freed[p] /\ ~(r.op = "release" /\ r.step = "row")
        BY <1>1, <1>7
      <4>2. HeldOf(held, <<p, w>>) + Claims(r, <<p, w>>) <= level[<<p, w>>].reserved
        BY <3>1, <4>1 DEF RowsFollow
      <4>3. Claims(r, <<p, w>>) >= 0
        <5>1. r.quantity \in Int /\ (r.op \in {"reserve", "undo"} => r.quantity >= 0)
          BY <1>2 DEF Sound, Request
        <5>2. r.op \in {"reserve", "undo"} => Stored(r.quantity) >= 0
          BY <5>1, StoredWhole
        <5> QED
          BY <4>1, <5>2 DEF Claims
      <4>4. HeldOf(held, <<p, w>>) \in Int /\ level[<<p, w>>].reserved \in Int /\ Claims(r, <<p, w>>) \in Int
        BY <1>2, <1>7, NumbersKnown, RunTyped
      <4> QED
        BY <1>1, <1>2, <4>2, <4>3, <4>4
    <3>5. Fresh(p, s)'
      BY <1>7, NothingLeft
    <3> QED
      BY <3>2, <3>3, <3>4, <3>5 DEF Follows
  <2> QED
    BY <1>1, <1>2, <1>5, <1>7, <2>1, OneWorks
<1> QED
  BY <1>6, <1>7

-----------------------------------------------------------------------------
(* Beginning *)

\* A request turns to a product: what it has read, if anything, is what is there.
Turns(c, p, new) ==
    /\ request[c].product = None /\ request' = [request EXCEPT ![c] = new] /\ new.product = p /\ About(p)
    /\ UNCHANGED <<books, held, behind, stockBehind, roundings, freed>>
    /\ new.step \in {"product", "source", "picked"} /\ new.op # "undo" /\ Fresh(p, new)

LEMMA AllSpared ==
    ASSUME StockInv, UNCHANGED <<books, held, behind, stockBehind, roundings, freed>>
    PROVE  \A q \in Product : Spared(q)
<1>1. /\ stock' = stock /\ level' = level /\ moved' = moved /\ held' = held /\ behind' = behind
      /\ stockBehind' = stockBehind /\ freed' = freed
      /\ rounded' = rounded /\ stockRounded' = stockRounded
  BY DEF books, roundings
<1> QED
  BY <1>1, Others

LEMMA OneTurns ==
    ASSUME StockInv, ProductsInv, NEW c \in Clerks, NEW p \in Product, NEW new, Turns(c, p, new)
    PROVE  ProductsInv'
<1> USE DEF Turns
<1>1. /\ stock' = stock /\ level' = level /\ moved' = moved /\ held' = held /\ behind' = behind
      /\ stockBehind' = stockBehind /\ freed' = freed
      /\ rounded' = rounded /\ stockRounded' = stockRounded
  BY DEF books, roundings
<1>2. \A q \in Product : Spared(q)
  BY AllSpared
<1>3. ASSUME Follows(p, NoRequest)' PROVE Follows(p, new)'
  <2>0. Fresh(p, new)'
    BY <1>1 DEF Fresh
  <2>1. /\ RunStock(NoRequest) = 0 /\ RunStock(new) = 0
        /\ \A k : /\ Run(NoRequest, k) = 0 /\ Claims(NoRequest, k) = 0
                  /\ Run(new, k) = 0 /\ Claims(new, k) = 0
    <3>1. RunStock(new) = 0
      BY DEF RunStock
    <3>2. \A k : Run(new, k) = 0
      BY DEF Run
    <3>3. \A k : Claims(new, k) = 0
      BY DEF Claims
    <3> QED
      BY <3>1, <3>2, <3>3, NothingLeft
  <2>2. LevelsFollow(p, new)'
    BY <1>3, <2>1 DEF Follows, LevelsFollow, LevelFollows
  <2>3. TotalFollows(p, new)'
    BY <1>3, <2>1 DEF Follows, TotalFollows
  <2>4. RowsFollow(p, new)'
    BY <1>3, <2>1 DEF Follows, RowsFollow
  <2> QED
    BY <2>0, <2>2, <2>3, <2>4 DEF Follows
<1> QED
  BY <1>2, <1>3, OneBegins

LEMMA IdleFree ==
    ASSUME StockInv, NEW c \in Clerks, request[c].step \in {"idle", "order"}
    PROVE  request[c].product = None
BY DEF StockInv, StockTypeOK

LEMMA StartFollows ==
    ASSUME StockInv, ProductsInv, NEW c \in Clerks, StartStep(c)
    PROVE  ProductsInv'
<1>1. PICK p \in Product, w \in Warehouse, q \in Quantities :
         \/ \E change \in {0, q} : ReadProduct(c, "adjust", p, w, change)
         \/ \E op \in {"adjust", "issue", "post"} : ReadProduct(c, op, p, w, - q)
         \/ \E to \in Warehouse : ReadSource(c, p, w, to, q)
         \/ \E op \in {"reserve", "release"} : StartReservation(c, op, p, w, q)
  BY DEF StartStep
<1>2. ASSUME NEW op \in {"adjust", "issue", "post"}, NEW n, ReadProduct(c, op, p, w, n)
      PROVE  ProductsInv'
  <2> PICK new : new = [NoRequest EXCEPT !.op = op, !.step = "product", !.product = p, !.warehouse = w,
                                         !.quantity = n, !.stock = stock[p]]
    OBVIOUS
  <2>1. Starts(c, new) /\ About(p)
    BY <1>2 DEF ReadProduct
  <2>2. new.op = op /\ new.step = "product" /\ new.product = p /\ new.stock = stock[p]
    BY DEF NoRequest
  <2>3. Fresh(p, new)
    BY <2>2 DEF Fresh
  <2>4. Turns(c, p, new)
    BY <2>1, <2>2, <2>3, IdleFree DEF Turns, Starts
  <2> QED
    BY <2>4, OneTurns
<1>3. ASSUME NEW to \in Warehouse, ReadSource(c, p, w, to, q) PROVE ProductsInv'
  <2> PICK new : new = [NoRequest EXCEPT !.op = "transfer", !.step = "source", !.product = p, !.warehouse = w,
                                         !.to = to, !.quantity = - q, !.level = level[<<p, w>>]]
    OBVIOUS
  <2>1. Starts(c, new) /\ About(p) /\ w # to
    BY <1>3 DEF ReadSource
  <2>2. /\ new.op = "transfer" /\ new.step = "source" /\ new.product = p /\ new.level = level[<<p, w>>]
        /\ new.warehouse = w /\ new.to = to
    BY DEF NoRequest
  <2>3. Fresh(p, new)
    BY <2>1, <2>2 DEF Fresh
  <2>4. Turns(c, p, new)
    BY <2>1, <2>2, <2>3, IdleFree DEF Turns, Starts
  <2> QED
    BY <2>4, OneTurns
<1>4. ASSUME NEW op \in {"reserve", "release"}, StartReservation(c, op, p, w, q) PROVE ProductsInv'
  <2> PICK new : new = [NoRequest EXCEPT !.op = op, !.step = "picked", !.product = p, !.warehouse = w,
                                         !.quantity = q]
    OBVIOUS
  <2>1. Starts(c, new) /\ About(p)
    BY <1>4 DEF StartReservation
  <2>2. new.op = op /\ new.step = "picked" /\ new.product = p
    BY DEF NoRequest
  <2>3. Fresh(p, new)
    BY <2>2 DEF Fresh
  <2>4. Turns(c, p, new)
    BY <2>1, <2>2, <2>3, IdleFree DEF Turns, Starts
  <2> QED
    BY <2>4, OneTurns
<1> QED
  BY <1>1, <1>2, <1>3, <1>4

LEMMA PickProductFollows ==
    ASSUME StockInv, ProductsInv, NEW c \in Clerks, NEW p \in Product, PickProduct(c, p)
    PROVE  ProductsInv'
<1> PICK r : r = request[c]
  OBVIOUS
<1> PICK new : new = [r EXCEPT !.step = "picked", !.product = p, !.quantity = r.todo[p]]
  OBVIOUS
<1>1. /\ r.step = "order" /\ About(p) /\ request' = [request EXCEPT ![c] = new]
      /\ UNCHANGED <<books, order, held, behind, stockBehind, roundings, freed, requests>>
  BY DEF PickProduct
<1>2. r \in Request /\ Sound(r)
  BY Known
<1>3. r.op \in {"reserve", "release"}
  BY <1>1, <1>2 DEF Sound
<1>4. new.op = r.op /\ new.step = "picked" /\ new.product = p
  BY <1>2 DEF Request
<1>5. Fresh(p, new)
  BY <1>3, <1>4 DEF Fresh
<1>6. Turns(c, p, new)
  BY <1>1, <1>3, <1>4, <1>5, IdleFree DEF Turns
<1> QED
  BY <1>6, OneTurns

LEMMA StartOrderFollows ==
    ASSUME StockInv, ProductsInv, NEW c \in Clerks, NEW op, NEW o, NEW w, StartOrder(c, op, o, w)
    PROVE  ProductsInv'
<1> PICK new : new = [NoRequest EXCEPT !.op = op, !.step = "order", !.warehouse = w, !.order = o,
                                       !.todo = order[o].needs]
  OBVIOUS
<1>1. Starts(c, new) /\ UNCHANGED overlapped
  BY DEF StartOrder
<1>2. new.product = None
  BY DEF NoRequest
<1>3. /\ request[c].product = None /\ request' = [request EXCEPT ![c] = new]
      /\ UNCHANGED <<books, held, behind, stockBehind, roundings, freed>>
  BY <1>1, IdleFree DEF Starts
<1>4. request \in [Clerks -> Request]
  BY Known
<1>5. \A d \in Clerks : request'[d] = request[d] \/ (request[d].product = None /\ request'[d].product = None)
  BY <1>2, <1>3, <1>4
<1>6. \A q \in Product : Spared(q)
  BY <1>3, AllSpared
<1> QED
  BY <1>1, <1>5, <1>6, NoneWorks

LEMMA OrdersFollow ==
    ASSUME StockInv, ProductsInv, OrderStep
    PROVE  ProductsInv'
<1>1. PICK o \in Order : DeleteOrder(o) \/ \E needs \in Needs : CreateOrder(o, needs) \/ UpdateOrder(o, needs)
  BY DEF OrderStep
<1>2. UNCHANGED <<books, request, history, requests>>
  BY <1>1 DEF DeleteOrder, CreateOrder, UpdateOrder
<1>3. /\ stock' = stock /\ level' = level /\ moved' = moved /\ behind' = behind /\ request' = request
      /\ stockBehind' = stockBehind /\ freed' = freed /\ overlapped' = overlapped
      /\ rounded' = rounded /\ stockRounded' = stockRounded
  BY <1>2 DEF books, history, roundings
<1>4. \A q \in Product : Spared(q)
  <2>1. CASE held' = held
    BY <1>3, <2>1, AllSpared DEF books, roundings
  <2>2. CASE held' # held
    <3>1. DeleteOrder(o)
      BY <1>1, <2>2 DEF CreateOrder, UpdateOrder
    <3>2. held' = [held EXCEPT ![o] = [k \in Place |-> 0]]
      BY <3>1 DEF DeleteOrder
    <3>3. held \in [Order -> [Place -> Nat]]
      BY DEF StockInv, StockTypeOK
    <3>4. \A k \in Place : HeldOf(held', k) <= HeldOf(held, k) /\ HeldOf(held', k) \in Int
      BY <3>2, <3>3, HeldFalls
    <3>5. \A q \in Product, w \in Warehouse : <<q, w>> \in Place
      BY DEF Place
    <3> QED
      BY <1>3, <3>4, <3>5 DEF Spared
  <2> QED
    BY <2>1, <2>2
<1> QED
  BY <1>3, <1>4, NoneWorks

-----------------------------------------------------------------------------
(* The invariant *)

LEMMA ProductsStart == Init => ProductsInv
<1> SUFFICES ASSUME Init, NEW p \in Product PROVE Alone(p, NoRequest) /\ Follows(p, NoRequest)
  BY DEF ProductsInv
<1>1. /\ NoRequest.product = None /\ RunStock(NoRequest) = 0 /\ Fresh(p, NoRequest)
      /\ \A k : Run(NoRequest, k) = 0 /\ Claims(NoRequest, k) = 0
  BY NothingLeft
<1>2. Alone(p, NoRequest)
  <2>1. \A c \in Clerks : request[c].product # p
    BY <1>1, ConstantFacts DEF Init
  <2> QED
    BY <2>1 DEF Alone, Busy
<1>3. \A w \in Warehouse :
         /\ <<p, w>> \in Place /\ moved[<<p, w>>] = (IF w = Main THEN Opening[p] ELSE 0) /\ moved[<<p, w>>] \in Int
         /\ level[<<p, w>>] = LevelOf(moved[<<p, w>>]) /\ behind[<<p, w>>] = 0 /\ rounded[<<p, w>>] = 0
  BY StockAssumption DEF Init, Place
<1>0. \A n : LevelOf(n).quantity = n /\ LevelOf(n).reserved = 0
  BY DEF LevelOf
<1>4. LevelsFollow(p, NoRequest)
  <2> SUFFICES ASSUME NEW w \in Warehouse PROVE LevelFollows(p, NoRequest, w)
    BY DEF LevelsFollow
  <2>1. level[<<p, w>>].quantity + 0 + 0 = moved[<<p, w>>]
    BY <1>0, <1>3
  <2>2. Within(moved[<<p, w>>], moved[<<p, w>>], 0)
    BY <1>3, WithinItself
  <2> QED
    BY <1>1, <1>3, <2>1, <2>2 DEF LevelFollows, Trails
<1>5. TotalFollows(p, NoRequest)
  <2> DEFINE a == [w \in Warehouse |-> moved[<<p, w>>]]
  <2>1. /\ a[Main] = Opening[p] /\ Opening[p] \in Int /\ Main \in Warehouse /\ IsFiniteSet(Warehouse)
        /\ \A w \in Warehouse : a[w] \in Int
        /\ \A w \in Warehouse \ {Main} : a[w] = 0
    BY <1>3, StockAssumption
  <2> HIDE DEF a
  <2>2. SumFunctionOnSet(a, Warehouse) = a[Main] + SumFunctionOnSet(a, Warehouse \ {Main})
    BY <2>1, SumWithout
  <2>3. SumFunctionOnSet(a, Warehouse \ {Main}) = 0
    <3>1. IsFiniteSet(Warehouse \ {Main})
      BY <2>1, FS_Difference
    <3> QED
      BY <2>1, <3>1, SumOfZeros
  <2>4. InStock(moved, p) = Opening[p]
    BY <2>1, <2>2, <2>3 DEF InStock, a
  <2>5. stock[p] = Opening[p] /\ stockBehind[p] = 0 /\ stockRounded[p] = 0
    BY DEF Init
  <2>6. Opening[p] + 0 + 0 = Opening[p] /\ Within(Opening[p], Opening[p], 0)
    BY <2>1, WithinItself
  <2> QED
    BY <1>1, <2>4, <2>5, <2>6 DEF TotalFollows, Trails
<1>6. RowsFollow(p, NoRequest)
  <2> SUFFICES ASSUME NEW w \in Warehouse PROVE HeldOf(held, <<p, w>>) + 0 <= level[<<p, w>>].reserved
    BY <1>1 DEF RowsFollow
  <2> DEFINE a == [o \in Order |-> held[o][<<p, w>>]]
  <2>1. IsFiniteSet(Order) /\ \A o \in Order : a[o] = 0
    BY <1>3, StockAssumption DEF Init
  <2> HIDE DEF a
  <2>2. SumFunctionOnSet(a, Order) = 0
    BY <2>1, SumOfZeros
  <2>3. level[<<p, w>>].reserved = 0
    BY <1>0, <1>3
  <2> QED
    BY <2>2, <2>3 DEF HeldOf, a
<1> QED
  BY <1>1, <1>2, <1>4, <1>5, <1>6 DEF Follows

LEMMA ProductsKeep ==
    ASSUME StockInv, ProductsInv, [Next]_vars, StockInv' PROVE ProductsInv'
<1>1. CASE OrderStep
  BY <1>1, OrdersFollow
<1>2. ASSUME NEW c \in Clerks, StartStep(c) PROVE ProductsInv'
  BY <1>2, StartFollows
<1>3. ASSUME NEW c \in Clerks, Fail(c) PROVE ProductsInv'
  BY <1>3, FailFollows
<1>4. ASSUME NEW c \in Clerks, MoveStep(c) PROVE ProductsInv'
  BY <1>4, CheckLevelFollows, MovementFollows, UpdateFollows, ChangeLevelFollows, PostIssueFollows,
     ReadDestinationFollows, MoveInFollows, ChangeSourceFollows, ChangeDestinationFollows DEF MoveStep
<1>5. ASSUME NEW c \in Clerks, ReservationStep(c) PROVE ProductsInv'
  BY <1>5, StartOrderFollows, PickProductFollows, ReadLevelFollows, ReservedFollows, RowFollows,
     RollBackFollows DEF ReservationStep
<1>6. CASE UNCHANGED vars
  <2>1. /\ UNCHANGED <<books, held, behind, stockBehind, roundings, freed>> /\ overlapped' = overlapped
        /\ request' = request
    BY <1>6 DEF vars, history, roundings
  <2> QED
    BY <2>1, AllSpared, NoneWorks
<1> QED
  BY <1>1, <1>2, <1>3, <1>4, <1>5, <1>6 DEF Next

LEMMA ProductsInvariant == Spec => [](StockInv /\ ProductsInv)
<1>1. Init => StockInv /\ ProductsInv
  BY StockStarts, ProductsStart
<1>2. StockInv /\ ProductsInv /\ [Next]_vars => (StockInv /\ ProductsInv)'
  BY StockKeeps, ProductsKeep
<1> QED
  BY <1>1, <1>2, PTL DEF Spec

-----------------------------------------------------------------------------
(* What follows of the sums over the clerks *)

\* What the one request adds is all that the requests add.
LEMMA OneAdds ==
    ASSUME NEW f, NEW S, NEW c, S \subseteq {c}, c \in S => f[c] \in Int
    PROVE  SumFunctionOnSet(f, S) = IF c \in S THEN f[c] ELSE 0
<1>1. CASE c \in S
  <2>1. S = {c} /\ IsFiniteSet(S) /\ S \ {c} = {}
    BY <1>1, FS_Singleton
  <2>2. \A x \in S : f[x] \in Int
    BY <1>1, <2>1
  <2>3. SumFunctionOnSet(f, S) = f[c] + SumFunctionOnSet(f, S \ {c})
    BY <1>1, <2>1, <2>2, SumWithout
  <2> QED
    BY <1>1, <2>1, <2>2, <2>3, SumOfNone
<1>2. CASE c \notin S
  BY <1>2, SumOfNone
<1> QED
  BY <1>1, <1>2

LEMMA SumsOfAlone ==
    ASSUME StockInv, NEW p \in Product, NEW r, Alone(p, r), NEW w \in Warehouse
    PROVE  /\ SumFunctionOnSet([c \in Clerks |-> Ahead(c, <<p, w>>)], Moving(p)) = Run(r, <<p, w>>)
           /\ SumFunctionOnSet([c \in Clerks |-> AheadOfStock(c)], Moving(p)) = RunStock(r)
           /\ SumFunctionOnSet([c \in Clerks |-> LevelReleased(request[c].quantity)], Releasing(<<p, w>>))
                >= 0 - Claims(r, <<p, w>>)
           /\ SumFunctionOnSet([c \in Clerks |-> LevelReleased(request[c].quantity)], Releasing(<<p, w>>)) \in Int
<1> DEFINE a == [c \in Clerks |-> Ahead(c, <<p, w>>)]
           b == [c \in Clerks |-> AheadOfStock(c)]
           d == [c \in Clerks |-> LevelReleased(request[c].quantity)]
<1>1. Moving(p) \subseteq Busy(p) /\ Releasing(<<p, w>>) \subseteq Busy(p)
  BY DEF Moving, Releasing, Busy, Here
<1>2. CASE Busy(p) = {} /\ r = NoRequest
  <2>1. Moving(p) = {} /\ Releasing(<<p, w>>) = {}
    BY <1>1, <1>2
  <2>2. Run(r, <<p, w>>) = 0 /\ RunStock(r) = 0 /\ Claims(r, <<p, w>>) = 0
    BY <1>2, NothingLeft
  <2>3. /\ SumFunctionOnSet(a, {}) = 0 /\ SumFunctionOnSet(b, {}) = 0
        /\ SumFunctionOnSet(d, {}) = 0 /\ 0 >= 0 - 0
    BY SumOfNone
  <2> HIDE DEF a, b, d
  <2>4. /\ SumFunctionOnSet(a, Moving(p)) = Run(r, <<p, w>>)
        /\ SumFunctionOnSet(b, Moving(p)) = RunStock(r)
        /\ SumFunctionOnSet(d, Releasing(<<p, w>>)) >= 0 - Claims(r, <<p, w>>)
        /\ SumFunctionOnSet(d, Releasing(<<p, w>>)) \in Int
    BY <2>1, <2>2, <2>3
  <2> QED
    BY <2>4 DEF a, b, d
<1>3. ASSUME NEW c \in Clerks, Busy(p) = {c}, r = request[c]
      PROVE  /\ SumFunctionOnSet(a, Moving(p)) = Run(r, <<p, w>>)
             /\ SumFunctionOnSet(b, Moving(p)) = RunStock(r)
             /\ SumFunctionOnSet(d, Releasing(<<p, w>>)) >= 0 - Claims(r, <<p, w>>)
             /\ SumFunctionOnSet(d, Releasing(<<p, w>>)) \in Int
  <2>1. Sound(r) /\ r.product = p
    BY <1>3 DEF StockInv, Busy
  <2>2. Run(r, <<p, w>>) \in Int /\ RunStock(r) \in Int /\ Claims(r, <<p, w>>) \in Int
    BY <2>1, RunTyped
  <2>0. r.quantity \in Int /\ Stored(r.quantity) \in Int /\ LevelReleased(r.quantity) \in Int
    <3>1. r.quantity \in Int
      BY <2>1 DEF Sound, Request
    <3>2. LevelReleased(r.quantity) \in Int
      BY <3>1, SMT DEF LevelReleased, Nearest, Thousandth
    <3> QED
      BY <3>1, <3>2, StoredWhole DEF Whole
  <2>3. a[c] = Run(r, <<p, w>>) /\ b[c] = RunStock(r) /\ d[c] = LevelReleased(r.quantity)
    BY <1>3, AheadRuns
  <2>4. /\ c \in Moving(p) <=> r.op \in {"adjust", "issue", "transfer"}
        /\ c \in Releasing(<<p, w>>) <=> (r.op = "release" /\ r.step = "row" /\ r.warehouse = w)
    BY <1>3, <2>1 DEF Moving, Releasing, Busy, Here
  <2> HIDE DEF a, b, d
  <2>5. /\ SumFunctionOnSet(a, Moving(p)) = IF c \in Moving(p) THEN Run(r, <<p, w>>) ELSE 0
        /\ SumFunctionOnSet(b, Moving(p)) = IF c \in Moving(p) THEN RunStock(r) ELSE 0
        /\ SumFunctionOnSet(d, Releasing(<<p, w>>)) = IF c \in Releasing(<<p, w>>) THEN LevelReleased(r.quantity) ELSE 0
    BY <1>1, <1>3, <2>0, <2>2, <2>3, OneAdds
  <2>6. r.op \notin {"adjust", "issue", "transfer"} => Run(r, <<p, w>>) = 0 /\ RunStock(r) = 0
    BY DEF Run, RunStock
  <2>7. IF c \in Releasing(<<p, w>>) THEN Claims(r, <<p, w>>) = - LevelReleased(r.quantity) ELSE Claims(r, <<p, w>>) >= 0
    <3>1. r.op \in {"reserve", "undo"} => Stored(r.quantity) >= 0
      BY <2>0, <2>1, StoredWhole DEF Sound
    <3>2. CASE c \in Releasing(<<p, w>>)
      BY <2>1, <2>4, <3>2 DEF Claims
    <3>3. CASE c \notin Releasing(<<p, w>>)
      BY <2>1, <2>4, <3>1, <3>3 DEF Claims
    <3> QED
      BY <3>2, <3>3
  <2>8. /\ SumFunctionOnSet(d, Releasing(<<p, w>>)) >= 0 - Claims(r, <<p, w>>)
        /\ SumFunctionOnSet(d, Releasing(<<p, w>>)) \in Int
    BY <2>0, <2>2, <2>5, <2>7
  <2> QED
    BY <2>4, <2>5, <2>6, <2>8
<1> QED
  BY <1>2, <1>3 DEF Alone

\* For any products, warehouses, orders, quantities and number of clerks: the
\* levels and a product's total follow its movements, wherever requests stop,
\* but for half a thousandth and half a millionth for each write of a fraction
\* of a thousandth, as long as one request at a time is about the product
\* (inventory/service.go:1265-1276, 1404-1418; migrations 011:356, 016:33, 87).
THEOREM MovementsFollow == Spec => []MovementsAddUp
<1>1. ASSUME StockInv, ProductsInv PROVE MovementsAddUp
  <2> SUFFICES ASSUME NEW p \in Product, ~overlapped[p]
               PROVE  /\ \A w \in Warehouse :
                            Within(moved[<<p, w>>],
                                   level[<<p, w>>].quantity + behind[<<p, w>>]
                                   + SumFunctionOnSet([c \in Clerks |-> Ahead(c, <<p, w>>)], Moving(p)),
                                   rounded[<<p, w>>])
                      /\ Within(InStock(moved, p),
                                stock[p] + stockBehind[p]
                                + SumFunctionOnSet([c \in Clerks |-> AheadOfStock(c)], Moving(p)),
                                stockRounded[p])
    BY DEF MovementsAddUp
  <2>1. PICK r : Alone(p, r) /\ Follows(p, r)
    BY <1>1 DEF ProductsInv
  <2>2. /\ \A w \in Warehouse :
              Within(moved[<<p, w>>], level[<<p, w>>].quantity + behind[<<p, w>>] + Run(r, <<p, w>>),
                     rounded[<<p, w>>])
        /\ Within(InStock(moved, p), stock[p] + stockBehind[p] + RunStock(r), stockRounded[p])
    BY <2>1 DEF Follows, LevelsFollow, LevelFollows, TotalFollows, Trails
  <2>3. \A w \in Warehouse :
          SumFunctionOnSet([c \in Clerks |-> Ahead(c, <<p, w>>)], Moving(p)) = Run(r, <<p, w>>)
    BY <1>1, <2>1, SumsOfAlone
  <2>4. Warehouse # {}
    BY StockAssumption
  <2>5. SumFunctionOnSet([c \in Clerks |-> AheadOfStock(c)], Moving(p)) = RunStock(r)
    BY <1>1, <2>1, <2>4, SumsOfAlone
  <2> QED
    BY <2>2, <2>3, <2>5
<1> QED
  BY <1>1, ProductsInvariant, PTL

\* For any products, warehouses, orders and number of clerks: what orders hold
\* of a product is reserved in the level, wherever a reservation, its roll-back
\* or a release stops, as long as one request at a time is about the product
\* and none of its stock was released past the orders that hold it
\* (cmd/api/handlers_business.go:5746-5771).
THEOREM OrdersStayCovered == Spec => []OrdersCovered
<1>1. ASSUME StockInv, ProductsInv PROVE OrdersCovered
  <2> SUFFICES ASSUME NEW p \in Product, NEW w \in Warehouse, ~overlapped[p], ~freed[p]
               PROVE  HeldAt(<<p, w>>) <= level[<<p, w>>].reserved
                        + SumFunctionOnSet([c \in Clerks |-> LevelReleased(request[c].quantity)], Releasing(<<p, w>>))
    BY DEF OrdersCovered
  <2> DEFINE sum == SumFunctionOnSet([c \in Clerks |-> LevelReleased(request[c].quantity)], Releasing(<<p, w>>))
  <2>1. PICK r : Alone(p, r) /\ Follows(p, r)
    BY <1>1 DEF ProductsInv
  <2>2. HeldOf(held, <<p, w>>) + Claims(r, <<p, w>>) <= level[<<p, w>>].reserved
    BY <2>1 DEF Follows, RowsFollow
  <2>3. sum >= 0 - Claims(r, <<p, w>>) /\ sum \in Int
    BY <1>1, <2>1, SumsOfAlone
  <2>4. /\ HeldOf(held, <<p, w>>) \in Int /\ level[<<p, w>>].reserved \in Int /\ Claims(r, <<p, w>>) \in Int
    BY <1>1, <2>1, NumbersKnown, AloneKnown, RunTyped
  <2>5. HeldAt(<<p, w>>) = HeldOf(held, <<p, w>>)
    BY DEF HeldAt, HeldOf
  <2> HIDE DEF sum
  <2>6. HeldAt(<<p, w>>) <= level[<<p, w>>].reserved + sum
    BY <2>2, <2>3, <2>4, <2>5
  <2> QED
    BY <2>6 DEF sum
<1> QED
  BY <1>1, ProductsInvariant, PTL
=============================================================================
