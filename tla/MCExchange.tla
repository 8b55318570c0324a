--------------------------- MODULE MCExchange ---------------------------
(* A small instance of Exchange for TLC. *)
EXTENDS Exchange, PriorityMapping

CONSTANTS o1, o2, o3, QtyMax, MaxOps

MCOrderId == Order
MCorder_id == [o \in Order |-> o]

(* Every limit order that may rest, for one share or for the largest       *)
(* quantity, and a few that may not; the second symbol, which may not be   *)
(* listed, gets one kind of order.                                         *)
MCInput ==
    {in \in OrderInput :
        /\ in.quantity \in {1, QtyMax}
        /\ in.type = "LIMIT" => in.price > 0
        /\ in.tif # "GTC" => /\ in.type = "LIMIT"
                             /\ in.side = "BUY"
                             /\ in.quantity = QtyMax
                             /\ in.price = MaxPrice
        /\ in.type = "MARKET" => in.side = "SELL" /\ in.quantity = 1
        /\ in.symbol = "MSFT" => /\ in.type = "LIMIT"
                                 /\ in.tif = "GTC"
                                 /\ in.side = "SELL"
                                 /\ in.price = 1
                                 /\ in.quantity = QtyMax}

(* The order objects are alike: they are submitted in this order. *)
InTurn ==
    /\ o2 \in DOMAIN orders' => o1 \in DOMAIN orders'
    /\ o3 \in DOMAIN orders' => o2 \in DOMAIN orders'

(* modify_order is the only operation that can be repeated for ever: an    *)
(* order submitted less makes room for a modification more.                *)
Modifications ==
    stats'.total_orders_modified + (IF call' = "modify" THEN 1 ELSE 0)

(* A symbol is listed before the second order, if at all. *)
ListedEarly == listed' # listed => o2 \notin DOMAIN orders

(* No limit order is given the price 0. *)
Priced == \A o \in DOMAIN orders' : orders'[o].type = "LIMIT" => orders'[o].price > 0

MCNext ==
    /\ ExNext
    /\ Priced
    /\ ListedEarly
    /\ InTurn
    /\ Modifications + Cardinality(DOMAIN orders') <= MaxOps

MCSpec == ExInit /\ [][MCNext]_exVars
============================================================================
