------------------------- MODULE PriorityMapping -------------------------
(***************************************************************************)
(* How the books of MatchingEngine and Exchange stand for the abstract     *)
(* state of PriceTimePriority.                                             *)
(***************************************************************************)
EXTENDS MatchingEngine

(* An order rests when it is in the deque its own fields name. *)
restingMap ==
    LET inBook == {o \in DOMAIN orders :
                     RestsAt(books[orders[o].symbol], o,
                             orders[o].side, orders[o].price)}
    IN  [o \in inBook |->
            [symbol |-> orders[o].symbol, side |-> orders[o].side,
             price  |-> orders[o].price, qty |-> Remaining(orders[o])]]

(* The position in the deque decides who is ahead. *)
aheadMap ==
    {pair \in Order \X Order :
        \E sym \in Symbol, s \in Side : \E p \in DOMAIN books[sym].level[s] :
            LET q == books[sym].level[s][p].orders
            IN  \E i, j \in DOMAIN q : i < j /\ pair = <<q[i], q[j]>>}

takerMap ==
    IF aggressor = NoOrder THEN [order |-> NoOrder]
    ELSE [order  |-> aggressor,
          symbol |-> Taker.symbol,
          side   |-> Taker.side,
          market |-> Taker.type = "MARKET",
          price  |-> Taker.price,
          qty    |-> Remaining(Taker),
          rests  |-> Taker.type = "LIMIT" /\ Taker.tif = "GTC"]

Abstract ==
    INSTANCE PriceTimePriority
        WITH resting <- restingMap, ahead <- aheadMap, taker <- takerMap,
             volume <- volume_traded, value <- total_value_traded

(* Books made of levels and deques implement price-time priority: every    *)
(* fill takes the order that comes first by price and then by arrival, at  *)
(* its own price, and no order is passed over or settles while it could    *)
(* still trade.                                                            *)
ImplementsPriority == Abstract!Spec
============================================================================
