------------------------ MODULE MCMatchingEngine ------------------------
(* A small instance of MatchingEngine for TLC. *)
EXTENDS MatchingEngine, PriorityMapping

CONSTANTS o1, o2, o3, o4, QtyMax

(* Unique ids: an order object is named by its id. *)
MCOrderId == Order
MCorder_id == [o \in Order |-> o]

(* Orders that rest, *)
RestingInput ==
    {in \in OrderInput : /\ in.type = "LIMIT" /\ in.tif = "GTC"
                         /\ in.price > 0
                         /\ in.quantity \in 1..QtyMax}

(* and orders that do not: immediate ones, and one of quantity 0.          *)
PassingInput ==
    {in \in OrderInput : /\ in.type = "LIMIT" => in.price > 0 /\ in.tif # "GTC"
                         /\ in.type = "MARKET" => in.tif # "IOC"
                         /\ in.quantity = QtyMax}
    \union {in \in OrderInput : /\ in.type = "LIMIT" /\ in.tif = "GTC"
                                /\ in.side = "BUY" /\ in.price = 2
                                /\ in.quantity = 0}

MCInput == RestingInput \union PassingInput

(* The order objects are alike: they are submitted in this order.          *)
InTurn ==
    LET turn == <<o1, o2, o3, o4>>
    IN  \A i \in 2..4 : turn[i] \in DOMAIN orders' => turn[i - 1] \in DOMAIN orders'

(* One order of a history does not rest, and it comes third or fourth. *)
OnePasses ==
    LET passes == {o \in DOMAIN orders' :
                      \/ orders'[o].type = "MARKET" \/ orders'[o].tif # "GTC"
                      \/ orders'[o].quantity = 0}
    IN  passes = {} \/ passes = {o3} \/ passes = {o4}

MCNext == Next /\ InTurn /\ OnePasses

MCSpec == Init /\ [][MCNext]_vars /\ Fairness
============================================================================
