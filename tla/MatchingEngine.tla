------------------------- MODULE MatchingEngine -------------------------
(***************************************************************************)
(* The matching engine (src/src/matching/matching_engine.{h,cpp}) working  *)
(* on one book per symbol.                                                 *)
(*                                                                         *)
(* submit_order is not one step here.  Each execute_fill ends by calling   *)
(* the fill callback, so what the book looks like between two fills is     *)
(* visible outside the engine.  A call in progress is recorded in          *)
(* `aggressor'; the engine is single-threaded, so no other operation       *)
(* starts until the call is over:                                          *)
(*    SubmitOrder   entry, with the fill-or-kill check                     *)
(*    ExecuteFill   one turn of the inner loop of match_*_order            *)
(*    EraseLevel    the level the inner loop has emptied is erased         *)
(*    Finish        the loops are over: rest, discard or kill the rest     *)
(*    CancelOrder   a cancel of a resting order                            *)
(***************************************************************************)
EXTENDS OrderBook

CONSTANT Input   \* the orders clients may submit (fields set by the client)

VARIABLES
    books,              \* one OrderBook per symbol
    orders,             \* the order objects handed to the engine so far
    aggressor,          \* the order whose submit_order call is in progress
    next_exec_id,
    orders_processed,
    fills_generated,
    volume_traded,
    total_value_traded

metrics == <<next_exec_id, fills_generated, volume_traded, total_value_traded>>
vars == <<books, orders, aggressor, orders_processed, metrics>>

(* A market order carries no price: types.h, "0.0 for MARKET orders". *)
OrderInput ==
    {in \in [symbol : Symbol, side : Side, type : OrderType,
             tif : TimeInForce, price : Price, quantity : UInt32] :
        in.type = "MARKET" => in.price = 0}

ASSUME InputAssumption == Input \subseteq OrderInput

(* The object the client fills in before it submits it. *)
NewOrder(in) ==
    [symbol |-> in.symbol, side |-> in.side, type |-> in.type, tif |-> in.tif,
     price |-> in.price, quantity |-> in.quantity,
     filled_qty |-> 0, status |-> "NEW"]

Init ==
    /\ books = [s \in Symbol |-> EmptyBook]
    /\ orders = EmptyMap
    /\ aggressor = NoOrder
    /\ next_exec_id = 1
    /\ orders_processed = 0
    /\ fills_generated = 0
    /\ volume_traded = 0
    /\ total_value_traded = 0

----------------------------------------------------------------------------
(* Trades only through the limit, not at it. *)
Mutant_Crosses(r, p) ==
    \/ r.type = "MARKET"
    \/ r.side = "BUY"  /\ p < r.price
    \/ r.side = "SELL" /\ p > r.price

(* May order r trade at price p of the opposite side?  The break of        *)
(* match_limit_order; match_market_order has none.                         *)
Crosses(r, p) ==
    \/ r.type = "MARKET"
    \/ r.side = "BUY"  /\ p <= r.price
    \/ r.side = "SELL" /\ p >= r.price

(* The check stops after the best level. *)
Mutant_CanFillCompletely(r, bk) ==
    LET s == Opposite(r.side)
    IN  \/ Remaining(r) = 0
        \/ /\ HasLevels(bk, s)
           /\ Crosses(r, BestPrice(bk, s))
           /\ BestLevel(bk, s).total_qty % U32 >= Remaining(r)

(* The check forgets the limit price. *)
Mutant2_CanFillCompletely(r, bk) ==
    LET s == Opposite(r.side)
    IN  SumFunction([p \in DOMAIN bk.level[s] |-> bk.level[s][p].total_qty % U32])
            >= Remaining(r)

(* can_fill_completely: nothing is needed, or the levels the order may     *)
(* trade with, each counted by its total_qty cast to uint32_t, suffice.    *)
CanFillCompletely(r, bk) ==
    LET s        == Opposite(r.side)
        eligible == {p \in DOMAIN bk.level[s] : Crosses(r, p)}
    IN  \/ Remaining(r) = 0
        \/ SumFunctionOnSet([p \in eligible |-> bk.level[s][p].total_qty % U32],
                            eligible) >= Remaining(r)

(* Entry of submit_order with the objects `ords' and the books `bks': a    *)
(* fill-or-kill order that cannot be filled is cancelled at once, any      *)
(* other becomes the aggressor.                                            *)
Enter(o, ords, bks) ==
    LET r      == ords[o]
        killed == r.tif = "FOK" /\ ~CanFillCompletely(r, bks[r.symbol])
    IN  /\ orders_processed' = orders_processed + 1
        /\ books' = bks
        /\ orders' = [ords EXCEPT ![o].status =
                         IF killed THEN "CANCELLED" ELSE "NEW"]
        /\ aggressor' = IF killed THEN NoOrder ELSE o
        /\ UNCHANGED metrics

(* A limit order is posted before it is matched. *)
Mutant_SubmitOrder(o, in) ==
    /\ aggressor = NoOrder
    /\ o \notin DOMAIN orders
    /\ LET ords == Put(orders, o, NewOrder(in))
       IN  Enter(o, ords, [books EXCEPT ![in.symbol] = AddLimitOrder(@, ords, o)])

SubmitOrder(o, in) ==
    /\ aggressor = NoOrder
    /\ o \notin DOMAIN orders
    /\ Enter(o, Put(orders, o, NewOrder(in)), books)

----------------------------------------------------------------------------
(* The sweep: the aggressor against the best level of the opposite side.   *)

Taker        == orders[aggressor]
TakerBook    == books[Taker.symbol]
MakerSide    == Opposite(Taker.side)
SweepPrice   == BestPrice(TakerBook, MakerSide)
SweepLevel   == BestLevel(TakerBook, MakerSide)
Maker        == Head(SweepLevel.orders)       \* best_level.orders.front()
Mutant_FillQty == Remaining(Taker)            \* the minimum is forgotten
FillQty      == Min({Remaining(Taker), Remaining(orders[Maker])})

(* The inner loop has run the best level dry and has not yet erased it. *)
LevelSpent == HasLevels(TakerBook, MakerSide) /\ SweepLevel.orders = <<>>

(* The conditions of the two while loops and of the break. *)
MayFill ==
    /\ Remaining(Taker) > 0
    /\ HasLevels(TakerBook, MakerSide)
    /\ Crosses(Taker, SweepPrice)

(* The fill is assigned, not added. *)
Mutant_Filled(r, qty) ==
    [r EXCEPT !.filled_qty = qty,
              !.status = IF qty = r.quantity THEN "FILLED" ELSE "PARTIALLY_FILLED"]

(* The fill is subtracted. *)
Mutant2_Filled(r, qty) ==
    [r EXCEPT !.filled_qty = r.filled_qty - qty,
              !.status = IF r.filled_qty - qty = r.quantity
                         THEN "FILLED" ELSE "PARTIALLY_FILLED"]

(* filled_qty and status of an order after a fill of qty shares. *)
Filled(r, qty) ==
    [r EXCEPT !.filled_qty = r.filled_qty + qty,
              !.status = IF r.filled_qty + qty = r.quantity
                         THEN "FILLED" ELSE "PARTIALLY_FILLED"]

ExecuteFill ==
    /\ aggressor # NoOrder
    /\ MayFill
    /\ ~LevelSpent
    /\ books' = [books EXCEPT ![Taker.symbol] =
                    FillFront(TakerBook, MakerSide, SweepPrice, FillQty,
                              FillQty = Remaining(orders[Maker]))]
    /\ orders' = [orders EXCEPT ![aggressor] = Filled(Taker, FillQty),
                                ![Maker]     = Filled(orders[Maker], FillQty)]
    /\ next_exec_id' = next_exec_id + 1
    /\ fills_generated' = fills_generated + 1
    /\ volume_traded' = volume_traded + FillQty
    /\ total_value_traded' = total_value_traded + FillQty * SweepPrice
    /\ UNCHANGED <<aggressor, orders_processed>>

EraseLevel ==
    /\ aggressor # NoOrder
    /\ LevelSpent
    /\ books' = [books EXCEPT ![Taker.symbol] =
                    EraseLevelOf(TakerBook, MakerSide, SweepPrice)]
    /\ UNCHANGED <<orders, aggressor, orders_processed, metrics>>

(* Nothing is asked of what is left. *)
Mutant_Leftover == Taker.type = "LIMIT" => IsActive(Taker)

(* After the sweep: a limit order that is good till cancelled rests with   *)
(* what is left of it; any other remainder is cancelled.                   *)
Leftover == Remaining(Taker) > 0 /\ (Taker.type = "LIMIT" => IsActive(Taker))

(* Immediate orders rest as well. *)
Mutant_RestsRemainder == Leftover /\ Taker.type = "LIMIT"

RestsRemainder == Leftover /\ Taker.type = "LIMIT" /\ Taker.tif = "GTC"

Finish ==
    /\ aggressor # NoOrder
    /\ ~LevelSpent
    /\ ~MayFill
    /\ books' = IF RestsRemainder
                THEN [books EXCEPT ![Taker.symbol] =
                         AddLimitOrder(TakerBook, orders, aggressor)]
                ELSE books
    /\ orders' = IF Leftover /\ ~RestsRemainder
                 THEN [orders EXCEPT ![aggressor].status = "CANCELLED"]
                 ELSE orders
    /\ aggressor' = NoOrder
    /\ UNCHANGED <<orders_processed, metrics>>

(* cancel_order: the book does it all; the order object is not touched. *)
CancelOrder(sym, id) ==
    /\ aggressor = NoOrder
    /\ id \in DOMAIN books[sym].order_index
    /\ books' = [books EXCEPT ![sym] = CancelInBook(books[sym], orders, id)]
    /\ UNCHANGED <<orders, aggressor, orders_processed, metrics>>

----------------------------------------------------------------------------
EngineStep == ExecuteFill \/ EraseLevel \/ Finish

Next ==
    \/ \E o \in Order, in \in Input : SubmitOrder(o, in)
    \/ \E sym \in Symbol, id \in OrderId : CancelOrder(sym, id)
    \/ EngineStep

Spec == Init /\ [][Next]_vars

(* A call runs to its end: submit_order never waits for anything. *)
Fairness == WF_vars(EngineStep)

----------------------------------------------------------------------------
(* Type correctness. *)
TypeOK ==
    /\ books = [sym \in Symbol |-> books[sym]]
    /\ \A sym \in Symbol : IsBook(books[sym])
    /\ IsMap(orders, Order, OrderRecord)
    /\ aggressor \in DOMAIN orders \union {NoOrder}
    /\ next_exec_id \in Nat \ {0}
    /\ orders_processed \in Nat
    /\ fills_generated \in Nat
    /\ volume_traded \in Nat
    /\ total_value_traded \in Nat

----------------------------------------------------------------------------
(* Safety. *)

(* order_index and the deques describe the same set of orders.  Adds,      *)
(* cancels, partial and complete fills all keep the two in step, so a      *)
(* cancel never misses a resting order and never finds a departed one.     *)
IndexConsistent ==
    \A sym \in Symbol :
        QueuedAreIndexed(books[sym]) /\ IndexedAreQueued(books[sym])

(* A deque never holds the same order twice, so an order cannot trade, or  *)
(* be counted in its level's total_qty, twice; and the order now being     *)
(* matched is in no deque, so it cannot trade with itself.                 *)
RestsOnce ==
    \A sym \in Symbol :
        /\ QueuesDistinct(books[sym])
        /\ \A s \in Side : \A p \in DOMAIN books[sym].level[s] :
               ~RestsAt(books[sym], aggressor, s, p)

(* Whatever rests in a book can still trade there: it is an active         *)
(* good-till-cancelled limit order of that symbol, side and price with     *)
(* quantity left.  In particular no market, IOC or FOK order and no filled *)
(* order ever rests.                                                       *)
RestingOrdersLive ==
    \A sym \in Symbol : QueuedAreLive(books[sym], orders, sym)

(* order_book.cpp: "if you leave empty levels, best_bid() / best_ask()     *)
(* return stale prices."  No level is empty, except the one level the      *)
(* sweep in progress has just emptied: the best one of the opposite side   *)
(* of the aggressor's book.                                                *)
NoStaleLevel ==
    \A sym \in Symbol, s \in Side :
        \A p \in DOMAIN books[sym].level[s] :
            books[sym].level[s][p].orders = <<>> =>
                /\ aggressor # NoOrder
                /\ sym = Taker.symbol
                /\ s = MakerSide
                /\ p = SweepPrice

(* No book is ever crossed or locked, not even between two fills of a      *)
(* sweep: every bid is strictly below every ask.                           *)
Uncrossed == \A sym \in Symbol : BidsBelowAsks(books[sym])

(* An order's status always tells how much of it has traded; nothing is    *)
(* filled beyond its quantity (remaining() is unsigned and would wrap).    *)
StatusMatchesFills ==
    \A o \in DOMAIN orders :
        LET r == orders[o]
        IN  /\ r.filled_qty <= r.quantity
            /\ r.status = "NEW" => r.filled_qty = 0
            /\ r.status = "PARTIALLY_FILLED" =>
                   r.filled_qty > 0 /\ r.filled_qty < r.quantity
            /\ r.status = "FILLED" => r.filled_qty = r.quantity
            /\ r.status = "CANCELLED" => r.filled_qty < r.quantity

(* PriceLevel.total_qty is the "Sum of remaining() across all orders at    *)
(* this level" after any sequence of adds, fills and cancels: it is        *)
(* maintained by deltas, and the fill-or-kill check relies on it.          *)
LevelTotals ==
    \A sym \in Symbol, s \in Side :
        \A p \in DOMAIN books[sym].level[s] : AddsUp(books[sym].level[s][p], orders)

(* A fill-or-kill order that is no longer being matched has traded all of  *)
(* its quantity or nothing: the answer of can_fill_completely, computed    *)
(* before the sweep, is what the sweep then does.                          *)
FOKAllOrNothing ==
    \A o \in DOMAIN orders \ {aggressor} :
        orders[o].tif = "FOK" =>
            \/ orders[o].status = "CANCELLED" /\ orders[o].filled_qty = 0
            \/ Remaining(orders[o]) = 0

(* Shares are conserved: over all orders, what the buyers received is what *)
(* the sellers delivered is volume_traded.                                 *)
FilledOn(s) ==
    SumFunctionOnSet([o \in DOMAIN orders |-> orders[o].filled_qty],
                     {o \in DOMAIN orders : orders[o].side = s})

Conservation == FilledOn("BUY") = volume_traded /\ FilledOn("SELL") = volume_traded

----------------------------------------------------------------------------
(* What a step may never do. *)

(* The fills of an order are never taken back, and an order that is        *)
(* FILLED, CANCELLED or REJECTED is never touched again, whatever trades   *)
(* or is cancelled after it.                                               *)
Final(r) == r.status \in {"FILLED", "CANCELLED", "REJECTED"}

FinalStep ==
    \A o \in DOMAIN orders :
        /\ o \in DOMAIN orders'
        /\ orders'[o].filled_qty >= orders[o].filled_qty
        /\ Final(orders[o]) => orders'[o] = orders[o]

FinalIsFinal == [][FinalStep]_vars

(* A fill-or-kill order is refused for want of shares, the orders it could *)
(* have traded with, counted one by one, adding up to less than its        *)
(* quantity, or in one other case: a level it could have traded at holds   *)
(* 2^32 shares or more, which can_fill_completely casts to uint32_t.  In   *)
(* that case the code breaks the promise of matching_engine.h, "Checks if  *)
(* a FOK order can be fully executed at the current book state".           *)
Liquidity(r) ==
    SumFunctionOnSet(OpenQty(orders),
        {m \in DOMAIN orders :
            /\ RestsAt(books[r.symbol], m, Opposite(r.side), orders[m].price)
            /\ Crosses(r, orders[m].price)})

CutLevel(r) ==
    LET levels == books[r.symbol].level[Opposite(r.side)]
    IN  \E p \in DOMAIN levels : Crosses(r, p) /\ levels[p].total_qty >= U32

FOKKillJustified ==
    [][\A o \in DOMAIN orders' \ DOMAIN orders :
          LET r == orders'[o]
          IN  r.tif = "FOK" /\ r.status = "CANCELLED"
                 => Liquidity(r) < r.quantity \/ CutLevel(r)]_vars

----------------------------------------------------------------------------
(* Liveness. *)

(* Every submit_order call returns: each turn of the matching loops makes  *)
(* progress, an emptied level included.                                    *)
CallReturns == aggressor # NoOrder ~> aggressor = NoOrder
============================================================================
