------------------------- MODULE MCMercuryServer -------------------------
(* Small instances of MercuryServer for TLC. *)
EXTENDS MercuryServer

CONSTANT MaxOrders   \* how many orders the agents make

(* Three orders of clients; the first two carry one id, as the first       *)
(* orders of two connections do.                                           *)
MCClientOrder == {-1, -2, -3}
MCClientId == [o \in MCClientOrder |-> IF o = -3 THEN MaxOrders + 2 ELSE MaxOrders + 1]

MCOrder == 1..MaxOrders \union MCClientOrder
MCOrderId == 1..MaxOrders + 2
MCorder_id == [o \in Order |-> IF o \in MCClientOrder THEN MCClientId[o] ELSE o]

(* A wide or a narrow two-sided market, orders that trade with the quotes  *)
(* inside the wide one, and a symbol that is not listed.                   *)
MCExtInput ==
    {LimitOrder("BUY", 1, 1), LimitOrder("SELL", 2, 1), LimitOrder("SELL", 14, 1),
     LimitOrder("BUY", 9, 2), LimitOrder("SELL", 7, 2),
     [LimitOrder("BUY", 1, 1) EXCEPT !.symbol = "MSFT"]}

ASSUME BidsAssumption == PositiveBids
============================================================================
