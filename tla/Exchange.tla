---------------------------- MODULE Exchange ----------------------------
(***************************************************************************)
(* The exchange (src/src/exchange/exchange.{h,cpp}): it lists symbols,     *)
(* routes orders to the book of their symbol, and routes cancels and       *)
(* modifications through its global index from order id to symbol.         *)
(*                                                                         *)
(* The exchange owns the matching engine: its actions are the engine's     *)
(* actions with the exchange's bookkeeping before and after them.  What    *)
(* submit_order and modify_order do after the engine returns happens in    *)
(* the step that ends the engine's call.                                   *)
(***************************************************************************)
EXTENDS MatchingEngine

VARIABLES
    listed,               \* the keys of books_: the symbols added so far
    global_order_index,   \* order id -> symbol
    call,                 \* the exchange call in progress
    stats                 \* ExchangeStats

exchangeVars == <<listed, global_order_index, call, stats>>
exVars == <<vars, exchangeVars>>

ExInit ==
    /\ Init
    /\ listed = {}
    /\ global_order_index = EmptyMap
    /\ call = "none"
    /\ stats = [total_orders_submitted |-> 0, total_orders_cancelled |-> 0,
                total_orders_modified |-> 0, total_fills |-> 0,
                total_volume |-> 0, total_rejects |-> 0]

----------------------------------------------------------------------------
(* add_symbol; false, and nothing happens, if the symbol is listed. *)
AddSymbol(sym) ==
    /\ call = "none"
    /\ sym \notin listed
    /\ listed' = listed \union {sym}
    /\ UNCHANGED <<vars, global_order_index, call, stats>>

(* submit_order for a symbol that is not listed. *)
RejectOrder(o, in) ==
    /\ call = "none"
    /\ o \notin DOMAIN orders
    /\ in.symbol \notin listed
    /\ orders' = Put(orders, o, [NewOrder(in) EXCEPT !.status = "REJECTED"])
    /\ stats' = [stats EXCEPT !.total_rejects = @ + 1]
    /\ UNCHANGED <<books, aggressor, orders_processed, metrics,
                   listed, global_order_index, call>>

(* submit_order up to the first fill.  A limit order enters the global     *)
(* index before the engine sees it, whatever becomes of it; an order the   *)
(* fill-or-kill check cancels ends the call here.                          *)
ExSubmitOrder(o, in) ==
    /\ call = "none"
    /\ in.symbol \in listed
    /\ SubmitOrder(o, in)
    /\ global_order_index' = IF in.type = "LIMIT"
                             THEN Put(global_order_index, order_id[o], in.symbol)
                             ELSE global_order_index
    /\ call' = IF aggressor' = NoOrder THEN "none" ELSE "submit"
    /\ stats' = [stats EXCEPT !.total_orders_submitted = @ + 1]
    /\ UNCHANGED listed

(* The callback the exchange gives the engine counts each report, and a    *)
(* fill makes two.                                                         *)
ExExecuteFill ==
    /\ ExecuteFill
    /\ stats' = [stats EXCEPT !.total_fills = @ + 2,
                              !.total_volume = @ + 2 * FillQty]
    /\ UNCHANGED <<listed, global_order_index, call>>

ExEraseLevel == EraseLevel /\ UNCHANGED exchangeVars

(* A limit order that traded at all is dropped from the global index. *)
Mutant_FilledAtOnce ==
    /\ call = "submit"
    /\ Taker.type = "LIMIT"
    /\ Taker.status # "NEW"

(* The engine returns.  submit_order drops a limit order that was filled   *)
(* at once from the global index; modify_order does not.                   *)
FilledAtOnce ==
    /\ call = "submit"
    /\ Taker.type = "LIMIT"
    /\ Taker.status = "FILLED"

ExFinish ==
    /\ Finish
    /\ global_order_index' = IF FilledAtOnce
                             THEN Erase(global_order_index, order_id[aggressor])
                             ELSE global_order_index
    /\ stats' = IF call = "modify"
                THEN [stats EXCEPT !.total_orders_modified = @ + 1]
                ELSE stats
    /\ call' = "none"
    /\ UNCHANGED listed

----------------------------------------------------------------------------
(* find_book_for_order. *)
HasBookFor(id) ==
    id \in DOMAIN global_order_index /\ global_order_index[id] \in listed

BookOf(id) == books[global_order_index[id]]

(* cancel_order, when the book finds the order; otherwise it returns false *)
(* and nothing happens, the stale entry of the global index included.      *)
ExCancelOrder(id) ==
    /\ call = "none"
    /\ HasBookFor(id)
    /\ CancelOrder(global_order_index[id], id)
    /\ global_order_index' = Erase(global_order_index, id)
    /\ stats' = [stats EXCEPT !.total_orders_cancelled = @ + 1]
    /\ UNCHANGED <<listed, call>>

----------------------------------------------------------------------------
(* modify_order: the level the book's index names and the first order with *)
(* the id in it.                                                           *)
LocationOf(id) == BookOf(id).order_index[id]
LevelOf(id)    == BookOf(id).level[LocationOf(id).side][LocationOf(id).price]
Target(id)     == LevelOf(id).orders[Min(Matches(LevelOf(id), id))]

CanModify(id, new_qty) ==
    /\ call = "none"
    /\ HasBookFor(id)
    /\ id \in DOMAIN BookOf(id).order_index
    /\ LocationOf(id).price \in DOMAIN BookOf(id).level[LocationOf(id).side]
    /\ Matches(LevelOf(id), id) # {}
    /\ new_qty # 0

(* Any change of the quantity costs the order its place. *)
Mutant_MovesOrder(id, new_price, new_qty) ==
    \/ new_price # LocationOf(id).price
    \/ new_qty # Remaining(orders[Target(id)])

(* price_changed || qty_increased *)
MovesOrder(id, new_price, new_qty) ==
    \/ new_price # LocationOf(id).price
    \/ new_qty > Remaining(orders[Target(id)])

(* The order is not cancelled first. *)
Mutant_WithoutOrder(id) == books

(* The books after engine_.cancel_order(id). *)
WithoutOrder(id) ==
    [books EXCEPT ![global_order_index[id]] = CancelInBook(BookOf(id), orders, id)]

(* The fills so far are not forgotten. *)
Mutant_Restamped(r, new_price, new_qty) ==
    [r EXCEPT !.price = new_price, !.quantity = new_qty, !.status = "NEW"]

(* The order object as case A resubmits it. *)
Restamped(r, new_price, new_qty) ==
    [r EXCEPT !.price = new_price, !.filled_qty = 0,
              !.quantity = new_qty, !.status = "NEW"]

(* Case A, price changed or quantity increased: cancel and resubmit.       *)
(* Whatever rests is good till cancelled, so Enter does not kill it.       *)
ReplaceOrder(id, new_price, new_qty) ==
    /\ CanModify(id, new_qty)
    /\ MovesOrder(id, new_price, new_qty)
    /\ LET o == Target(id)
       IN  /\ global_order_index' = Put(global_order_index, id, orders[o].symbol)
           /\ Enter(o, [orders EXCEPT ![o] = Restamped(@, new_price, new_qty)],
                    WithoutOrder(id))
    /\ call' = "modify"
    /\ UNCHANGED <<listed, stats>>

(* new_qty is taken for the whole quantity, fills included. *)
Mutant_Reduced(r, new_qty) == [r EXCEPT !.quantity = new_qty]

(* The order object after case B: its quantity less the reduction. *)
Reduced(r, new_qty) == [r EXCEPT !.quantity = @ - (Remaining(r) - new_qty)]

(* The level is not told. *)
Mutant_ReducedLevel(lv, reduction) == lv

(* update_qty(-reduction) *)
ReducedLevel(lv, reduction) == [lv EXCEPT !.total_qty = @ - reduction]

(* Case B, quantity decreased: the order keeps its place in the queue. *)
ReduceOrder(id, new_price, new_qty) ==
    /\ CanModify(id, new_qty)
    /\ ~MovesOrder(id, new_price, new_qty)
    /\ new_qty < Remaining(orders[Target(id)])
    /\ LET o         == Target(id)
           loc       == LocationOf(id)
           reduction == Remaining(orders[o]) - new_qty
       IN  /\ orders' = [orders EXCEPT ![o] = Reduced(@, new_qty)]
           /\ books' = [books EXCEPT ![global_order_index[id]].level[loc.side] =
                           Put(@, loc.price, ReducedLevel(LevelOf(id), reduction))]
    /\ stats' = [stats EXCEPT !.total_orders_modified = @ + 1]
    /\ UNCHANGED <<aggressor, orders_processed, metrics,
                   listed, global_order_index, call>>

(* Case C, nothing to change: only counted. *)
KeepOrder(id, new_price, new_qty) ==
    /\ CanModify(id, new_qty)
    /\ ~MovesOrder(id, new_price, new_qty)
    /\ new_qty = Remaining(orders[Target(id)])
    /\ stats' = [stats EXCEPT !.total_orders_modified = @ + 1]
    /\ UNCHANGED <<vars, listed, global_order_index, call>>

ModifyOrder(id, new_price, new_qty) ==
    \/ ReplaceOrder(id, new_price, new_qty)
    \/ ReduceOrder(id, new_price, new_qty)
    \/ KeepOrder(id, new_price, new_qty)

----------------------------------------------------------------------------
ExEngineStep == ExExecuteFill \/ ExEraseLevel \/ ExFinish

ExNext ==
    \/ \E sym \in Symbol : AddSymbol(sym)
    \/ \E o \in Order, in \in Input : RejectOrder(o, in) \/ ExSubmitOrder(o, in)
    \/ \E id \in OrderId : ExCancelOrder(id)
    \/ \E id \in OrderId, p \in Price, q \in UInt32 : ModifyOrder(id, p, q)
    \/ ExEngineStep

ExSpec == ExInit /\ [][ExNext]_exVars

----------------------------------------------------------------------------
(* Every resting order can be cancelled and modified: the global index     *)
(* sends its id to the listed book it rests in.  Entries are made before   *)
(* the engine runs and dropped after it, by three different operations;    *)
(* none of them drops the entry of an order that is still in a book.       *)
Routable ==
    \A sym \in Symbol : \A id \in DOMAIN books[sym].order_index :
        /\ sym \in listed
        /\ id \in DOMAIN global_order_index
        /\ global_order_index[id] = sym

(* The books stay sound when orders are modified as well as submitted and  *)
(* cancelled: a modified order is in one deque, the one its new price      *)
(* names, its old level does not stay behind empty, it is indexed where it *)
(* is, and repricing it never leaves the book crossed.                     *)
BooksSound ==
    /\ IndexConsistent
    /\ RestsOnce
    /\ RestingOrdersLive
    /\ NoStaleLevel
    /\ Uncrossed

(* A step that may be a modification: all others are passed over quickly. *)
ModifyStep ==
    \/ call' = "modify"
    \/ stats'.total_orders_modified # stats.total_orders_modified

(* modify_order takes new_qty as the quantity that is to be open after it, *)
(* however much of the order had traded before and whichever of its cases  *)
(* applies: the order then wants exactly new_qty shares at new_price.      *)
ModifySetsOpenQty ==
    [][ModifyStep => \A id \in OrderId, p \in Price, q \in UInt32 :
          ModifyOrder(id, p, q) =>
             LET r == orders'[Target(id)]
             IN  r.price = p /\ Remaining(r) = q]_exVars
============================================================================
