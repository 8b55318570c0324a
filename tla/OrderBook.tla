---------------------------- MODULE OrderBook ----------------------------
(***************************************************************************)
(* The data of the order book of one symbol and the operations on it       *)
(* (src/src/orderbook/types.h, order_book.h, order_book.cpp).              *)
(*                                                                         *)
(* A definition named Mutant_X is X with one plausible bug; it is not part *)
(* of the model.  The properties are tested by putting it in X's place.    *)
(*                                                                         *)
(* Everything here is a pure operator: an operation takes a book, and      *)
(* where it needs them the order objects `ords', and returns the new book. *)
(*                                                                         *)
(* A std::map or std::unordered_map is a function whose DOMAIN is the set  *)
(* of keys present.  The shared_ptr<Order> in a level's deque is a member  *)
(* of Order; the object it points to is ords[o], because a fill changes    *)
(* the object and not the deque.  An order's identity (the pointer) and    *)
(* its order_id are different things: nothing in the code makes the ids    *)
(* unique, so order_id is a constant function that may be injective or not.*)
(***************************************************************************)
EXTENDS Integers, Sequences, FiniteSetsExt, SequencesExt

CONSTANTS
    Order,      \* the order objects (what a shared_ptr<Order> points to)
    NoOrder,    \* the null pointer
    OrderId,    \* the values of Order::order_id
    order_id,   \* the id each order object carries
    Symbol,     \* the tickers
    MaxPrice,   \* prices are ticks 0..MaxPrice (the code: double)
    U32         \* the number of values of a uint32_t (2^32 in the code)

ASSUME NoOrderAssumption  == NoOrder \notin Order
ASSUME OrderIdAssumption  == order_id \in [Order -> OrderId]
ASSUME MaxPriceAssumption == MaxPrice \in Nat
ASSUME U32Assumption      == U32 \in Nat \ {0}

(* types.h calls order_id a "Globally unique ID". *)
UniqueOrderIds == \A o, p \in Order : order_id[o] = order_id[p] => o = p

(* No two orders carry this id. *)
OwnId(id) == \A o, p \in Order : order_id[o] = id /\ order_id[p] = id => o = p

----------------------------------------------------------------------------
(* Types. *)

Side        == {"BUY", "SELL"}
OrderType   == {"LIMIT", "MARKET"}
TimeInForce == {"GTC", "IOC", "FOK"}
OrderStatus == {"NEW", "PARTIALLY_FILLED", "FILLED", "CANCELLED", "REJECTED"}
Price       == 0..MaxPrice
UInt32      == 0..(U32 - 1)

OrderRecord ==
    [symbol : Symbol, side : Side, type : OrderType, tif : TimeInForce,
     price : Price, quantity : UInt32, filled_qty : UInt32,
     status : OrderStatus]

PriceLevel    == [total_qty : Int, orders : Seq(Order)]
OrderLocation == [side : Side, price : Price]

(* m is a map from some of the keys K to V. *)
IsMap(m, K, V) == DOMAIN m \subseteq K /\ m \in [DOMAIN m -> V]

IsBook(bk) ==
    /\ bk = [level |-> bk.level, order_index |-> bk.order_index]
    /\ bk.level = [s \in Side |-> bk.level[s]]
    /\ \A s \in Side : IsMap(bk.level[s], Price, PriceLevel)
    /\ IsMap(bk.order_index, OrderId, OrderLocation)

----------------------------------------------------------------------------
(* Maps: m[k] = v and m.erase(k). *)

Put(m, k, v) == [x \in DOMAIN m \union {k} |-> IF x = k THEN v ELSE m[x]]
Erase(m, k)  == [x \in DOMAIN m \ {k} |-> m[x]]
EmptyMap     == [x \in {} |-> x]

EmptyLevel == [total_qty |-> 0, orders |-> <<>>]

(* The book Exchange::add_symbol constructs. *)
EmptyBook == [level |-> [s \in Side |-> EmptyMap], order_index |-> EmptyMap]

----------------------------------------------------------------------------
(* Order: what a record says of itself. *)

Remaining(r) == r.quantity - r.filled_qty

IsActive(r) == r.status \in {"NEW", "PARTIALLY_FILLED"}

Opposite(s) == IF s = "BUY" THEN "SELL" ELSE "BUY"

----------------------------------------------------------------------------
(* Best prices: begin() of a map sorted by std::greater (bids) or          *)
(* std::less (asks).  Only meaningful on a side that has a level.          *)

HasLevels(bk, s) == DOMAIN bk.level[s] # {}

BestPrice(bk, s) ==
    IF s = "BUY" THEN Max(DOMAIN bk.level[s]) ELSE Min(DOMAIN bk.level[s])

BestLevel(bk, s) == bk.level[s][BestPrice(bk, s)]

----------------------------------------------------------------------------
(* push_front in place of push_back. *)
Mutant_AddOrder(lv, ords, o) ==
    [total_qty |-> lv.total_qty + Remaining(ords[o]),
     orders    |-> <<o>> \o lv.orders]

(* PriceLevel::add_order: to the back of the queue. *)
AddOrder(lv, ords, o) ==
    [total_qty |-> lv.total_qty + Remaining(ords[o]),
     orders    |-> Append(lv.orders, o)]

(* OrderBook::add_limit_order: find or create the level, append the order  *)
(* to its deque, register the order in the index.                          *)

AddLimitOrder(bk, ords, o) ==
    LET s   == ords[o].side
        p   == ords[o].price
        old == IF p \in DOMAIN bk.level[s] THEN bk.level[s][p] ELSE EmptyLevel
    IN  [level       |-> [bk.level EXCEPT ![s] =
                             Put(bk.level[s], p, AddOrder(old, ords, o))],
         order_index |-> Put(bk.order_index, order_id[o],
                             [side |-> s, price |-> p])]

(* PriceLevel::remove_order: drop the first order of the deque with the id *)
(* and give back its remaining quantity; a miss leaves the level alone.    *)
Matches(lv, id) == {i \in DOMAIN lv.orders : order_id[lv.orders[i]] = id}

RemoveOrder(lv, ords, id) ==
    IF Matches(lv, id) = {} THEN lv
    ELSE LET i == Min(Matches(lv, id))
         IN  [total_qty |-> lv.total_qty - Remaining(ords[lv.orders[i]]),
              orders    |-> RemoveAt(lv.orders, i)]

(* The emptied level is left in the map. *)
Mutant_CancelInBook(bk, ords, id) ==
    LET s  == bk.order_index[id].side
        p  == bk.order_index[id].price
        lv == RemoveOrder(bk.level[s][p], ords, id)
    IN  [level       |-> [bk.level EXCEPT ![s] = Put(bk.level[s], p, lv)],
         order_index |-> Erase(bk.order_index, id)]

(* OrderBook::cancel_order for an id that the index holds: remove the      *)
(* order, erase the level it leaves empty, erase the index entry (whether  *)
(* or not the order was found in the level).                               *)
CancelInBook(bk, ords, id) ==
    LET s  == bk.order_index[id].side
        p  == bk.order_index[id].price
        lv == RemoveOrder(bk.level[s][p], ords, id)
        ls == IF p \notin DOMAIN bk.level[s] THEN bk.level[s]
              ELSE IF lv.orders = <<>> THEN Erase(bk.level[s], p)
              ELSE Put(bk.level[s], p, lv)
    IN  [level       |-> [bk.level EXCEPT ![s] = ls],
         order_index |-> Erase(bk.order_index, id)]

(* The order_index.erase of a completed order is missing. *)
Mutant_FillFront(bk, s, p, qty, complete) ==
    LET lv  == bk.level[s][p]
        new == [total_qty |-> lv.total_qty - qty,
                orders    |-> IF complete THEN Tail(lv.orders) ELSE lv.orders]
    IN  [level       |-> [bk.level EXCEPT ![s] = Put(bk.level[s], p, new)],
         order_index |-> bk.order_index]

(* The book's part of MatchingEngine::execute_fill: `qty' shares of the    *)
(* front order of level (s, p) trade; when that completes the order it is  *)
(* popped and leaves the index.  The emptied level stays: the matching     *)
(* loop erases it later.                                                   *)
FillFront(bk, s, p, qty, complete) ==
    LET lv  == bk.level[s][p]
        new == [total_qty |-> lv.total_qty - qty,
                orders    |-> IF complete THEN Tail(lv.orders) ELSE lv.orders]
    IN  [level       |-> [bk.level EXCEPT ![s] = Put(bk.level[s], p, new)],
         order_index |-> IF complete
                         THEN Erase(bk.order_index, order_id[Head(lv.orders)])
                         ELSE bk.order_index]

(* The loop goes round without erasing. *)
Mutant_EraseLevelOf(bk, s, p) == bk

(* asks.erase(asks.begin()), bids.erase(bids.begin()). *)
EraseLevelOf(bk, s, p) ==
    [level       |-> [bk.level EXCEPT ![s] = Erase(bk.level[s], p)],
     order_index |-> bk.order_index]

----------------------------------------------------------------------------
(* What makes a book consistent; a specification states these of every     *)
(* book in every state.                                                    *)

(* Order o rests at price p on side s. *)
RestsAt(bk, o, s, p) ==
    /\ p \in DOMAIN bk.level[s]
    /\ \E i \in DOMAIN bk.level[s][p].orders : bk.level[s][p].orders[i] = o

(* An order in a deque is found through order_index at exactly that side   *)
(* and price.                                                              *)
QueuedAreIndexed(bk) ==
    \A s \in Side : \A p \in DOMAIN bk.level[s] :
        \A i \in DOMAIN bk.level[s][p].orders :
            LET id == order_id[bk.level[s][p].orders[i]]
            IN  /\ id \in DOMAIN bk.order_index
                /\ bk.order_index[id] = [side |-> s, price |-> p]

(* An entry of order_index leads to an order in the deque it names. *)
IndexedAreQueued(bk) ==
    \A id \in DOMAIN bk.order_index :
        \E o \in Order :
            /\ order_id[o] = id
            /\ RestsAt(bk, o, bk.order_index[id].side, bk.order_index[id].price)

(* No deque holds an order twice. *)
QueuesDistinct(bk) ==
    \A s \in Side : \A p \in DOMAIN bk.level[s] :
        \A i, j \in DOMAIN bk.level[s][p].orders :
            bk.level[s][p].orders[i] = bk.level[s][p].orders[j] => i = j

(* Order r may rest on side s of the book of sym at price p. *)
MayRestAt(r, sym, s, p) ==
    /\ r.symbol = sym
    /\ r.side = s
    /\ r.price = p
    /\ r.type = "LIMIT"
    /\ r.tif = "GTC"
    /\ IsActive(r)
    /\ Remaining(r) > 0

(* Every order in the book can still trade where it stands. *)
QueuedAreLive(bk, ords, sym) ==
    \A s \in Side : \A p \in DOMAIN bk.level[s] :
        \A i \in DOMAIN bk.level[s][p].orders :
            LET o == bk.level[s][p].orders[i]
            IN  o \in DOMAIN ords /\ MayRestAt(ords[o], sym, s, p)

(* The total of a level is the sum of what its orders have left. *)
OpenQty(ords) == [o \in DOMAIN ords |-> Remaining(ords[o])]

AddsUp(lv, ords) ==
    lv.total_qty = SumFunctionOnSet(OpenQty(ords), ToSet(lv.orders))

(* Every bid is strictly below every ask. *)
BidsBelowAsks(bk) ==
    \A b \in DOMAIN bk.level["BUY"], a \in DOMAIN bk.level["SELL"] : b < a
============================================================================
