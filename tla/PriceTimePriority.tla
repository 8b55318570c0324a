------------------------ MODULE PriceTimePriority ------------------------
(***************************************************************************)
(* What an exchange with price-time priority promises, with no price       *)
(* levels, no queues and no indexes: a set of resting orders, a record of  *)
(* who stands ahead of whom among orders at the same price, and at most    *)
(* one order, the taker, that is being matched.                            *)
(*                                                                         *)
(* The rules, from the headers of order_book.h ("FIFO order"),             *)
(* matching_engine.cpp ("The fill price is ALWAYS the resting order's      *)
(* price") and exchange.h (what a modification does to the queue position):*)
(*   - the taker trades with the order that has priority over all others,  *)
(*     at that order's price, as long as the price is acceptable to it;    *)
(*   - it stops only when no acceptable order is left or it is filled;     *)
(*   - what is left of it rests behind every order at its price, or goes;  *)
(*   - reducing an order keeps its place, moving it sends it round again.  *)
(***************************************************************************)
EXTENDS Integers, FiniteSetsExt

CONSTANTS Order, NoOrder, Symbol, MaxPrice

VARIABLES
    resting,    \* a map: resting order -> [symbol, side, price, qty]
    ahead,      \* pairs <<m, n>>: m is before n in the queue they share
    taker,      \* the order being matched, or NoTaker
    volume,     \* shares traded
    value       \* their worth, in ticks

abstractVars == <<resting, ahead, taker, volume, value>>

Sides == {"BUY", "SELL"}

Takers ==
    [order : Order, symbol : Symbol, side : Sides, market : BOOLEAN,
     price : 0..MaxPrice, qty : Nat, rests : BOOLEAN]

NoTaker == [order |-> NoOrder]

Init ==
    /\ resting = [o \in {} |-> o]
    /\ ahead = {}
    /\ taker = NoTaker
    /\ volume = 0
    /\ value = 0

----------------------------------------------------------------------------
SameSide(m, n) ==
    /\ resting[m].symbol = resting[n].symbol
    /\ resting[m].side = resting[n].side

(* m trades before n: a better price, or the same price and earlier. *)
Precedes(m, n) ==
    \/ resting[m].side = "BUY"  /\ resting[m].price > resting[n].price
    \/ resting[m].side = "SELL" /\ resting[m].price < resting[n].price
    \/ resting[m].price = resting[n].price /\ <<m, n>> \in ahead

(* The taker may trade with m. *)
Acceptable(m) ==
    /\ taker # NoTaker
    /\ taker.qty > 0
    /\ resting[m].symbol = taker.symbol
    /\ resting[m].side # taker.side
    /\ \/ taker.market
       \/ taker.side = "BUY"  /\ resting[m].price <= taker.price
       \/ taker.side = "SELL" /\ resting[m].price >= taker.price

HasPriority(m) ==
    \A n \in DOMAIN resting : n # m /\ SameSide(m, n) => Precedes(m, n)

(* resting and ahead without m. *)
RestingWithout(m) == [o \in DOMAIN resting \ {m} |-> resting[o]]
AheadWithout(m)   == {pair \in ahead : pair[1] # m /\ pair[2] # m}

----------------------------------------------------------------------------
Arrive(o) ==
    /\ taker = NoTaker
    /\ o \notin DOMAIN resting
    /\ taker' \in Takers
    /\ taker'.order = o
    /\ UNCHANGED <<resting, ahead, volume, value>>

Trade(m) ==
    LET qty  == Min({taker.qty, resting[m].qty})
        left == resting[m].qty - qty
    IN  /\ Acceptable(m)
        /\ HasPriority(m)
        /\ taker' = [taker EXCEPT !.qty = @ - qty]
        /\ resting' = IF left = 0 THEN RestingWithout(m)
                      ELSE [resting EXCEPT ![m].qty = left]
        /\ ahead' = IF left = 0 THEN AheadWithout(m) ELSE ahead
        /\ volume' = volume + qty
        /\ value' = value + qty * resting[m].price

(* The taker joins the queue at its price, or is gone. *)
Settle ==
    /\ taker # NoTaker
    /\ \A m \in DOMAIN resting : ~Acceptable(m)
    /\ taker' = NoTaker
    /\ IF taker.qty > 0 /\ taker.rests
       THEN /\ resting' = [o \in DOMAIN resting \union {taker.order} |->
                             IF o = taker.order
                             THEN [symbol |-> taker.symbol, side |-> taker.side,
                                   price |-> taker.price, qty |-> taker.qty]
                             ELSE resting[o]]
            /\ ahead' = ahead \union
                  {<<m, taker.order>> : m \in
                      {n \in DOMAIN resting : /\ resting[n].symbol = taker.symbol
                                              /\ resting[n].side = taker.side
                                              /\ resting[n].price = taker.price}}
       ELSE UNCHANGED <<resting, ahead>>
    /\ UNCHANGED <<volume, value>>

Leave(o) ==
    /\ taker = NoTaker
    /\ o \in DOMAIN resting
    /\ resting' = RestingWithout(o)
    /\ ahead' = AheadWithout(o)
    /\ UNCHANGED <<taker, volume, value>>

(* A smaller quantity: the order keeps its place. *)
Shrink(o) ==
    /\ taker = NoTaker
    /\ o \in DOMAIN resting
    /\ \E qty \in 1..(resting[o].qty - 1) :
          resting' = [resting EXCEPT ![o].qty = qty]
    /\ UNCHANGED <<ahead, taker, volume, value>>

(* Another price or a larger quantity: the order is matched afresh, on the *)
(* side and the book it was on.                                            *)
Move(o) ==
    /\ taker = NoTaker
    /\ o \in DOMAIN resting
    /\ resting' = RestingWithout(o)
    /\ ahead' = AheadWithout(o)
    /\ taker' \in Takers
    /\ taker'.order = o
    /\ taker'.symbol = resting[o].symbol
    /\ taker'.side = resting[o].side
    /\ taker'.rests /\ ~taker'.market
    /\ taker'.price # resting[o].price \/ taker'.qty > resting[o].qty
    /\ UNCHANGED <<volume, value>>

Next ==
    \/ \E o \in Order : Arrive(o) \/ Leave(o) \/ Shrink(o) \/ Move(o)
    \/ \E m \in DOMAIN resting : Trade(m)
    \/ Settle

Spec == Init /\ [][Next]_abstractVars
============================================================================
